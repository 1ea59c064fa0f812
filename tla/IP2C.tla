-------------------------------- MODULE IP2C --------------------------------
(***************************************************************************)
(* Looking up an address among the address ranges of the countries.  A     *)
(* database is what the parser makes of a file: ranges in ascending order; *)
(* that they do not overlap is the file's doing.  The mutex is held from   *)
(* beginning to end.                                                       *)
(***************************************************************************)
EXTENDS Integers, FiniteSets

CONSTANTS
  Databases,   \* numbered from 0
  Addresses

Size(db) == Cardinality(DOMAIN db)

ASSUME DatabasesAssumption ==
  \A db \in Databases :
    /\ Size(db) \in Nat
    /\ db \in [0..(Size(db) - 1) -> [ipStart : Nat, ipEnd : Nat]]
    /\ \A i \in DOMAIN db : db[i].ipStart <= db[i].ipEnd
    /\ \A i, j \in DOMAIN db : i < j => db[i].ipEnd < db[j].ipStart

ASSUME AddressesAssumption == Addresses \subseteq Nat

VARIABLES
  database,
  ipaddress,
  lower,
  upper,
  index,
  lastIndex,   \* -1 stands for 0xFFFFFFFF
  looking,
  found        \* the index of what is returned, -1 for invalidData

ip2cLookupVars ==
  <<database, ipaddress, lower, upper, index, lastIndex, looking, found>>

None == -1

Half(n) == n \div 2

(* lookupIP(), up to the loop.                                             *)
LookupInit ==
  /\ database \in Databases
  /\ ipaddress \in Addresses
  /\ lower = 0
  /\ upper = Size(database) - 1
  /\ index = Half(Size(database))
  /\ lastIndex = None
  /\ looking = (Size(database) # 0)
  /\ found = None

Looks == looking /\ index # lastIndex

(* Mutant: the upper end is taken for one that may still be looked at.     *)
LooksBelowInclusive ==
  /\ Looks
  /\ ipaddress < database[index].ipStart
  /\ upper' = index - 1
  /\ index' = index - Half(index - lower)
  /\ lastIndex' = index
  /\ UNCHANGED <<database, ipaddress, lower, looking, found>>

LooksBelow ==
  /\ Looks
  /\ ipaddress < database[index].ipStart
  /\ upper' = index
  /\ index' = index - Half(index - lower)
  /\ lastIndex' = index
  /\ UNCHANGED <<database, ipaddress, lower, looking, found>>

(* Mutant: the lower end stays.                                            *)
LooksAboveKeepsLower ==
  /\ Looks
  /\ ipaddress > database[index].ipEnd
  /\ index' = index + Half(upper - index)
  /\ lastIndex' = index
  /\ UNCHANGED <<database, ipaddress, lower, upper, looking, found>>

LooksAbove ==
  /\ Looks
  /\ ipaddress > database[index].ipEnd
  /\ lower' = index
  /\ index' = index + Half(upper - index)
  /\ lastIndex' = index
  /\ UNCHANGED <<database, ipaddress, upper, looking, found>>

Finds ==
  /\ Looks
  /\ ipaddress \in database[index].ipStart..database[index].ipEnd
  /\ looking' = FALSE
  /\ found' = index
  /\ UNCHANGED <<database, ipaddress, lower, upper, index, lastIndex>>

GivesUp ==
  /\ looking
  /\ index = lastIndex
  /\ looking' = FALSE
  /\ UNCHANGED <<database, ipaddress, lower, upper, index, lastIndex, found>>

LookupNext == LooksBelow \/ LooksAbove \/ Finds \/ GivesUp

LookupSpec == LookupInit /\ [][LookupNext]_ip2cLookupVars

-----------------------------------------------------------------------------
Holds(i) == ipaddress \in database[i].ipStart..database[i].ipEnd

(* The first and the last entry are the ends of the search and, unless it  *)
(* begins with them, never looked at: this is the code's.                  *)
Inner(i) ==
  \/ 0 < i /\ i < Size(database) - 1
  \/ i = Half(Size(database))

(* An address of an inner entry is found, and nothing else is returned for *)
(* it or for any other address.                                            *)
LookupFinds ==
  ~looking =>
    /\ found # None => Holds(found)
    /\ \A i \in DOMAIN database : Inner(i) /\ Holds(i) => found = i

(* ip2c.cpp: "Infinite loop protection".  The ends of the search come      *)
(* closer at each turn of the loop, or the index stays where it was, which *)
(* is the last turn; and the index never leaves the database.              *)
Remaining ==
  IF looking THEN 2 * (upper - lower) + (IF index = lastIndex THEN 1 ELSE 2) ELSE 0

SearchNarrows ==
  [][looking => /\ index \in DOMAIN database
                /\ Remaining > 0
                /\ Remaining' < Remaining]_ip2cLookupVars

=============================================================================
