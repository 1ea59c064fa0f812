----------------------------- MODULE IP2CProofs -----------------------------
(***************************************************************************)
(* The lookup ends and finds what it can find, in any database; and        *)
(* a loader, before it goes, sees to it that there is one.                 *)
(***************************************************************************)
EXTENDS IP2C, IP2CLoader, TLAPS

USE DatabasesAssumption, AddressesAssumption

(* What the assumption says of the database that is searched.              *)
Sorted ==
  /\ Size(database) \in Nat
  /\ DOMAIN database = 0..(Size(database) - 1)
  /\ \A i \in 0..(Size(database) - 1) :
       /\ database[i].ipStart \in Nat
       /\ database[i].ipEnd \in Nat
       /\ database[i].ipStart <= database[i].ipEnd
  /\ \A i, j \in 0..(Size(database) - 1) :
       i < j => database[i].ipEnd < database[j].ipStart

SearchTypeOK ==
  /\ database \in Databases
  /\ ipaddress \in Nat
  /\ looking \in BOOLEAN
  /\ lower \in Nat
  /\ upper \in Int
  /\ index \in Nat
  /\ lastIndex \in Nat \cup {None}

(* Between the two ends lies what is searched for.  Once the index stays   *)
(* where it was there is nothing left between them.                        *)
Closing ==
  looking =>
    /\ lower <= index /\ index <= upper /\ upper < Size(database)
    /\ \A i \in 0..(Size(database) - 1) :
         Inner(i) /\ Holds(i) =>
           \/ lower < i /\ i < upper
           \/ i = index /\ lastIndex = None
    /\ index = lastIndex => upper - lower <= 1
    /\ found = None

SearchInv == SearchTypeOK /\ Closing /\ LookupFinds

LEMMA DatabaseIsSorted == ASSUME database \in Databases PROVE Sorted
<1>1. /\ Size(database) \in Nat
      /\ database \in [0..(Size(database) - 1) -> [ipStart : Nat, ipEnd : Nat]]
      /\ \A i \in DOMAIN database : database[i].ipStart <= database[i].ipEnd
      /\ \A i, j \in DOMAIN database :
           i < j => database[i].ipEnd < database[j].ipStart
  BY Zenon
<1>2. DOMAIN database = 0..(Size(database) - 1)
  BY <1>1
<1>3. \A i \in 0..(Size(database) - 1) : database[i] \in [ipStart : Nat, ipEnd : Nat]
  BY <1>1
<1>4. \A i \in 0..(Size(database) - 1) :
        database[i].ipStart \in Nat /\ database[i].ipEnd \in Nat
  BY <1>3
<1> QED BY <1>1, <1>2, <1>4 DEF Sorted

(* Half of a distance moves the index towards the end, but not onto it;    *)
(* and it does not move it at all only if the end is next to it.           *)
LEMMA HalfIsLess ==
  ASSUME NEW n \in Nat
  PROVE  /\ Half(n) \in Nat
         /\ n > 0 => Half(n) < n
         /\ Half(n) = 0 => n <= 1
         /\ Half(n) <= n
BY DEF Half

LEMMA LookupInitInv == LookupInit => SearchInv
<1> SUFFICES ASSUME LookupInit PROVE SearchInv
  OBVIOUS
<1> USE DEF LookupInit
<1>1. Sorted
  BY DatabaseIsSorted
<1>2. /\ Half(Size(database)) \in Nat
      /\ Size(database) > 0 => Half(Size(database)) < Size(database)
  BY <1>1, HalfIsLess DEF Sorted
<1>3. (Size(database) # 0) \in BOOLEAN
  OBVIOUS
<1>4. SearchTypeOK
  <2>1. looking \in BOOLEAN
    BY <1>3, Zenon
  <2> QED BY <1>1, <1>2, <2>1 DEF SearchTypeOK, Sorted, None
<1>5. Closing
  <2> SUFFICES ASSUME Size(database) # 0 PROVE Closing
    BY DEF Closing
  <2>1. \A i \in 0..(Size(database) - 1) :
          Inner(i) /\ Holds(i) => \/ lower < i /\ i < upper
                                  \/ i = index /\ lastIndex = None
    BY <1>1 DEF Inner, Sorted
  <2> QED BY <1>1, <1>2, <2>1 DEF Closing, Sorted, None
<1>6. LookupFinds
  <2> SUFFICES ASSUME ~looking PROVE LookupFinds
    BY DEF LookupFinds
  <2>1. Size(database) = 0
    BY Zenon
  <2>2. DOMAIN database = {} /\ found = None
    BY <1>1, <2>1 DEF Sorted
  <2> QED BY <2>2 DEF LookupFinds
<1> QED BY <1>4, <1>5, <1>6 DEF SearchInv

(* An entry that is not where the address points is on one side of it.     *)
LEMMA OneSide ==
  ASSUME Sorted, ipaddress \in Nat,
         NEW i \in 0..(Size(database) - 1), NEW j \in 0..(Size(database) - 1),
         Holds(i)
  PROVE  /\ ipaddress < database[j].ipStart => i < j
         /\ ipaddress > database[j].ipEnd => i > j
         /\ Holds(j) => i = j
<1> USE DEF Sorted, Holds
<1>1. /\ database[i].ipStart <= ipaddress /\ ipaddress <= database[i].ipEnd
      /\ database[i].ipStart \in Nat /\ database[i].ipEnd \in Nat
      /\ database[j].ipStart \in Nat /\ database[j].ipEnd \in Nat
      /\ database[j].ipStart <= database[j].ipEnd
  OBVIOUS
<1>2. i < j => database[i].ipEnd < database[j].ipStart
  OBVIOUS
<1>3. j < i => database[j].ipEnd < database[i].ipStart
  OBVIOUS
<1>4. i < j \/ j < i \/ i = j
  OBVIOUS
<1>5. Holds(j) => ipaddress >= database[j].ipStart /\ ipaddress <= database[j].ipEnd
  BY <1>1
<1> HIDE DEF Sorted, Holds
<1> QED BY <1>1, <1>2, <1>3, <1>4, <1>5

LEMMA LookupStep == SearchInv /\ [LookupNext]_ip2cLookupVars => SearchInv'
<1> SUFFICES ASSUME SearchInv, [LookupNext]_ip2cLookupVars PROVE SearchInv'
  OBVIOUS
<1>t. SearchTypeOK /\ Closing /\ LookupFinds /\ Sorted
  BY DatabaseIsSorted DEF SearchInv, SearchTypeOK
<1> DEFINE n == Size(database)
<1>i. ASSUME looking
      PROVE  /\ index \in 0..(n - 1) /\ n \in Nat
             /\ lower <= index /\ index <= upper /\ upper < n
             /\ lower \in Nat /\ upper \in Nat
  BY <1>t, <1>i DEF SearchTypeOK, Closing, Sorted
<1>1. CASE LooksBelow
  <2>1. /\ looking /\ looking' = looking /\ database' = database
        /\ ipaddress' = ipaddress /\ lower' = lower /\ upper' = index
        /\ index' = index - Half(index - lower) /\ lastIndex' = index
        /\ found' = found /\ index # lastIndex
        /\ ipaddress < database[index].ipStart
    BY <1>1 DEF LooksBelow, Looks
  <2>2. /\ index - lower \in Nat
        /\ Half(index - lower) \in Nat
        /\ Half(index - lower) <= index - lower
        /\ Half(index - lower) = 0 => index - lower <= 1
    <3>1. index - lower \in Nat
      BY <1>i, <2>1
    <3> QED BY <3>1, HalfIsLess
  <2>3. SearchTypeOK'
    BY <1>t, <1>i, <2>1, <2>2 DEF SearchTypeOK
  <2>4. \A i \in 0..(n - 1) : Inner(i) /\ Holds(i) => lower < i /\ i < index
    <3> SUFFICES ASSUME NEW i \in 0..(n - 1), Inner(i), Holds(i)
                 PROVE  lower < i /\ i < index
      OBVIOUS
    <3>1. i < index
      BY <1>t, <1>i, <2>1, OneSide DEF SearchTypeOK
    <3>2. lower < i
      BY <1>t, <2>1, <3>1 DEF Closing
    <3> QED BY <3>1, <3>2
  <2>5. Closing'
    <3>1. \A i : (Inner(i) /\ Holds(i))' <=> (Inner(i) /\ Holds(i))
      BY <2>1 DEF Inner, Holds
    <3>2. \A i \in 0..(n - 1) : (Inner(i) /\ Holds(i))' => lower' < i /\ i < upper'
      BY <2>1, <2>4, <3>1
    <3>3. /\ lower' <= index' /\ index' <= upper' /\ upper' < n
          /\ index' = lastIndex' => upper' - lower' <= 1
      BY <1>i, <2>1, <2>2
    <3>4. found' = None
      BY <1>t, <2>1 DEF Closing
    <3> QED BY <2>1, <3>2, <3>3, <3>4 DEF Closing
  <2> QED BY <2>1, <2>3, <2>5 DEF SearchInv, LookupFinds
<1>2. CASE LooksAbove
  <2>1. /\ looking /\ looking' = looking /\ database' = database
        /\ ipaddress' = ipaddress /\ lower' = index /\ upper' = upper
        /\ index' = index + Half(upper - index) /\ lastIndex' = index
        /\ found' = found /\ index # lastIndex
        /\ ipaddress > database[index].ipEnd
    BY <1>2 DEF LooksAbove, Looks
  <2>2. /\ upper - index \in Nat
        /\ Half(upper - index) \in Nat
        /\ Half(upper - index) <= upper - index
        /\ Half(upper - index) = 0 => upper - index <= 1
    <3>1. upper - index \in Nat
      BY <1>i, <2>1
    <3> QED BY <3>1, HalfIsLess
  <2>3. SearchTypeOK'
    BY <1>t, <1>i, <2>1, <2>2 DEF SearchTypeOK
  <2>4. \A i \in 0..(n - 1) : Inner(i) /\ Holds(i) => index < i /\ i < upper
    <3> SUFFICES ASSUME NEW i \in 0..(n - 1), Inner(i), Holds(i)
                 PROVE  index < i /\ i < upper
      OBVIOUS
    <3>1. index < i
      BY <1>t, <1>i, <2>1, OneSide DEF SearchTypeOK
    <3>2. i < upper
      BY <1>t, <2>1, <3>1 DEF Closing
    <3> QED BY <3>1, <3>2
  <2>5. Closing'
    <3>1. \A i : (Inner(i) /\ Holds(i))' <=> (Inner(i) /\ Holds(i))
      BY <2>1 DEF Inner, Holds
    <3>2. \A i \in 0..(n - 1) : (Inner(i) /\ Holds(i))' => lower' < i /\ i < upper'
      BY <2>1, <2>4, <3>1
    <3>3. /\ lower' <= index' /\ index' <= upper' /\ upper' < n
          /\ index' = lastIndex' => upper' - lower' <= 1
      BY <1>i, <2>1, <2>2
    <3>4. found' = None
      BY <1>t, <2>1 DEF Closing
    <3> QED BY <2>1, <3>2, <3>3, <3>4 DEF Closing
  <2> QED BY <2>1, <2>3, <2>5 DEF SearchInv, LookupFinds
<1>3. CASE Finds
  <2>1. /\ looking /\ looking' = FALSE /\ found' = index
        /\ UNCHANGED <<database, ipaddress, lower, upper, index, lastIndex>>
        /\ Holds(index)
    BY <1>3 DEF Finds, Looks, Holds
  <2>2. SearchTypeOK'
    <3>1. looking' \in BOOLEAN
      BY <2>1, Zenon
    <3> QED BY <1>t, <2>1, <3>1 DEF SearchTypeOK
  <2>3. \A i \in 0..(n - 1) : Holds(i) => index = i
    BY <1>t, <1>i, <2>1, OneSide DEF SearchTypeOK
  <2>4. LookupFinds'
    <3>1. \A i : Holds(i)' <=> Holds(i)
      BY <2>1 DEF Holds
    <3>2. DOMAIN database' = 0..(n - 1)
      BY <1>t, <2>1 DEF Sorted
    <3> QED BY <2>1, <2>3, <3>1, <3>2 DEF LookupFinds
  <2> QED BY <2>1, <2>2, <2>4 DEF SearchInv, Closing
<1>4. CASE GivesUp
  <2>1. /\ looking /\ looking' = FALSE /\ index = lastIndex
        /\ UNCHANGED <<database, ipaddress, lower, upper, index, lastIndex, found>>
    BY <1>4 DEF GivesUp
  <2>2. SearchTypeOK'
    <3>1. looking' \in BOOLEAN
      BY <2>1, Zenon
    <3> QED BY <1>t, <2>1, <3>1 DEF SearchTypeOK
  <2>3. \A i \in 0..(n - 1) : ~(Inner(i) /\ Holds(i))
    <3>1. lastIndex # None /\ upper - lower <= 1
      BY <1>t, <1>i, <2>1 DEF Closing, None
    <3> QED BY <1>t, <1>i, <2>1, <3>1 DEF Closing
  <2>4. LookupFinds'
    <3>1. \A i : (Inner(i) /\ Holds(i))' <=> (Inner(i) /\ Holds(i))
      BY <2>1 DEF Inner, Holds
    <3>2. DOMAIN database' = 0..(n - 1) /\ found' = None
      BY <1>t, <2>1 DEF Sorted, Closing
    <3> QED BY <2>3, <3>1, <3>2 DEF LookupFinds
  <2> QED BY <2>1, <2>2, <2>4 DEF SearchInv, Closing
<1>5. CASE UNCHANGED ip2cLookupVars
  BY <1>t, <1>5 DEF ip2cLookupVars, SearchInv, SearchTypeOK, Closing, LookupFinds,
     Inner, Holds
<1> QED BY <1>1, <1>2, <1>3, <1>4, <1>5 DEF LookupNext

(* IP2C::lookupIP() returns the entry that holds the address, for every    *)
(* database and every address, unless it is the first or the last one.     *)
THEOREM LookupIsRight == LookupSpec => []LookupFinds
<1>1. SearchInv => LookupFinds
  BY DEF SearchInv
<1> QED BY LookupInitInv, LookupStep, <1>1, PTL DEF LookupSpec

(* The index is on one of the ends only when they are next to each other:  *)
(* halving a distance of two or more leaves both of them behind.           *)
IndexInside ==
  looking /\ (index = lower \/ index = upper) => upper - lower <= 1

LEMMA LookupInitInside == LookupInit => IndexInside
<1> SUFFICES ASSUME LookupInit PROVE IndexInside
  OBVIOUS
<1>1. /\ lower = 0 /\ upper = Size(database) - 1 /\ index = Half(Size(database))
      /\ Size(database) \in Nat
  BY DatabaseIsSorted DEF LookupInit, Sorted
<1> QED BY <1>1 DEF IndexInside, Half

(* What a turn of the loop knows before it looks at an entry.              *)
LEMMA LookingInv ==
  ASSUME SearchInv, looking
  PROVE  /\ lower \in Nat /\ index \in Nat /\ upper \in Nat
         /\ lastIndex \in Nat \cup {None}
         /\ lower <= index /\ index <= upper
         /\ index \in DOMAIN database
         /\ index = lastIndex => upper - lower <= 1
<1>1. SearchTypeOK /\ Closing /\ Sorted
  BY DatabaseIsSorted DEF SearchInv, SearchTypeOK
<1>2. /\ lower \in Nat /\ index \in Nat /\ upper \in Int /\ lastIndex \in Nat \cup {None}
      /\ lower <= index /\ index <= upper /\ upper < Size(database)
      /\ index = lastIndex => upper - lower <= 1
      /\ Size(database) \in Nat /\ DOMAIN database = 0..(Size(database) - 1)
  BY <1>1 DEF SearchTypeOK, Closing, Sorted
<1> QED BY <1>2

(* A turn that goes below or above the entry it looked at brings the ends  *)
(* closer, or the search to its last turn.                                 *)
LEMMA HalvingNarrows ==
  ASSUME NEW l \in Nat, NEW u \in Nat, NEW i \in Nat, l <= i, i <= u,
         i = l \/ i = u => u - l <= 1
  PROVE  /\ i < u \/ Half(i - l) = 0
         /\ l < i \/ Half(u - i) = 0
         /\ Half(i - l) \in Nat /\ Half(u - i) \in Nat
         /\ i - Half(i - l) = l => i - l <= 1
         /\ i + Half(u - i) = u => u - i <= 1
         /\ i - Half(i - l) = i => i - l <= 1
         /\ i + Half(u - i) = i => u - i <= 1
BY DEF Half

LEMMA InsideStep ==
  ASSUME SearchInv, IndexInside, [LookupNext]_ip2cLookupVars
  PROVE  IndexInside'
<1>1. CASE LooksBelow
  <2>1. looking /\ lower' = lower /\ upper' = index /\ index' = index - Half(index - lower)
    BY <1>1 DEF LooksBelow, Looks
  <2> QED BY <2>1, LookingInv, HalvingNarrows DEF IndexInside
<1>2. CASE LooksAbove
  <2>1. looking /\ lower' = index /\ upper' = upper /\ index' = index + Half(upper - index)
    BY <1>2 DEF LooksAbove, Looks
  <2> QED BY <2>1, LookingInv, HalvingNarrows DEF IndexInside
<1>3. CASE Finds \/ GivesUp
  BY <1>3 DEF Finds, GivesUp, IndexInside
<1>4. CASE UNCHANGED ip2cLookupVars
  BY <1>4 DEF ip2cLookupVars, IndexInside
<1> QED BY <1>1, <1>2, <1>3, <1>4 DEF LookupNext

(* The loop of lookupIP() never leaves the database and has less before it *)
(* after each turn, for every database and every address.                  *)
THEOREM LookupEnds == LookupSpec => SearchNarrows
<1> DEFINE Narrows == looking => /\ index \in DOMAIN database
                                 /\ Remaining > 0
                                 /\ Remaining' < Remaining
<1>1. SearchInv /\ IndexInside /\ [LookupNext]_ip2cLookupVars => [Narrows]_ip2cLookupVars
  <2> SUFFICES ASSUME SearchInv, IndexInside, LookupNext, looking PROVE Narrows
    OBVIOUS
  <2>1. /\ lower \in Nat /\ index \in Nat /\ upper \in Nat
        /\ lower <= index /\ index <= upper
        /\ index \in DOMAIN database
    BY LookingInv
  <2>2. Remaining = 2 * (upper - lower) + (IF index = lastIndex THEN 1 ELSE 2)
    BY DEF Remaining
  <2>3. Remaining \in Nat /\ Remaining > 0
    BY <2>1, <2>2
  <2>4. CASE Finds \/ GivesUp
    <3>1. Remaining' = 0
      BY <2>4 DEF Finds, GivesUp, Remaining
    <3> QED BY <2>1, <2>3, <3>1
  <2>5. /\ index < upper \/ Half(index - lower) = 0
        /\ lower < index \/ Half(upper - index) = 0
        /\ Half(index - lower) \in Nat /\ Half(upper - index) \in Nat
    BY <2>1, HalvingNarrows DEF IndexInside
  <2>6. CASE LooksBelow
    <3>1. /\ index # lastIndex /\ looking' /\ lower' = lower /\ upper' = index
          /\ index' = index - Half(index - lower) /\ lastIndex' = index
      BY <2>6 DEF LooksBelow, Looks
    <3>2. Remaining' = 2 * (index - lower) + (IF Half(index - lower) = 0 THEN 1 ELSE 2)
      BY <2>1, <2>5, <3>1 DEF Remaining
    <3> QED BY <2>1, <2>2, <2>3, <2>5, <3>1, <3>2
  <2>7. CASE LooksAbove
    <3>1. /\ index # lastIndex /\ looking' /\ lower' = index /\ upper' = upper
          /\ index' = index + Half(upper - index) /\ lastIndex' = index
      BY <2>7 DEF LooksAbove, Looks
    <3>2. Remaining' = 2 * (upper - index) + (IF Half(upper - index) = 0 THEN 1 ELSE 2)
      BY <2>1, <2>5, <3>1 DEF Remaining
    <3> QED BY <2>1, <2>2, <2>3, <2>5, <3>1, <3>2
  <2> QED BY <2>4, <2>6, <2>7 DEF LookupNext
<1> QED
  BY LookupInitInv, LookupInitInside, LookupStep, InsideStep, <1>1, PTL
  DEF LookupSpec, SearchNarrows

-----------------------------------------------------------------------------
(* The loader                                                              *)

LEMMA InitLoader == IP2CInit => LoaderInv
BY DEF IP2CInit, LoaderInv, IP2CTypeOK, UpdateIsPending, GoneIsOver, ReadIsKnown, LoaderWorks

(* Whoever asks whether the jobs are finished, knowing of the thread "th"  *)
(* and what else is pending: the loader goes, and it is known what became  *)
(* of its thread, or something is left to do.                              *)
LEMMA JobsFinished ==
  ASSUME LoaderInv, alive,
         NEW th \in {"none", "started", "reading", "torn", "read"},
         th = thread \/ (th = "none" /\ thread = "read" /\ (loaded \/ fallbackFailed')),
         success' = success, loaded' = loaded, fallbackFailed => fallbackFailed',
         begun' = begun,
         NEW working \in BOOLEAN, NEW busy \in BOOLEAN,
         working = (reply' # "none"), busy = updateInProgress',
         reply' \in {"none", "checksum", "database"},
         fallbackFailed' \in BOOLEAN, updateInProgress' \in BOOLEAN,
         updateInProgress' => waiting' \/ reply' = "database",
         waiting' => updateInProgress', ~hung,
         UNCHANGED <<waiting, file, precompiled, hung>>,
         ip2cJobsFinished(th, working, busy)
  PROVE  IP2CTypeOK' /\ GoneIsOver' /\ ReadIsKnown' /\ LoaderWorks'
<1> USE DEF LoaderInv, IP2CTypeOK, GoneIsOver, ReadIsKnown, LoaderWorks
<1>1. CASE Destroyed(th) /\ ~working /\ ~busy /\ th \notin {"reading", "torn"}
  BY <1>1 DEF Destroyed
<1>2. CASE KeepsWorking(th) /\ (working \/ busy \/ th \in {"reading", "torn"})
  BY <1>2 DEF KeepsWorking
<1> QED
  BY <1>1, <1>2 DEF ip2cJobsFinished

LEMMA LoaderStep == LoaderInv /\ [IP2CNext]_ip2cVars => LoaderInv'
<1> SUFFICES ASSUME LoaderInv, [IP2CNext]_ip2cVars PROVE LoaderInv'
  OBVIOUS
<1> USE DEF LoaderInv, IP2CTypeOK, UpdateIsPending, GoneIsOver, ReadIsKnown, LoaderWorks
<1>1. ASSUME NEW auto \in BOOLEAN, Load(auto) PROVE LoaderInv'
  BY <1>1 DEF Load
<1>0. CASE DownloadCorrupt
  <2>1. reply = "database" /\ alive /\ updateInProgress /\ ~waiting
    BY <1>0 DEF DownloadCorrupt
  <2>2. reply' = "none" /\ hung' = TRUE
    BY <1>0 DEF DownloadCorrupt
  <2>3. UNCHANGED <<begun, precompiled, alive, updateInProgress, inFallbackMode,
                    waiting, thread, success, file, rollbackData, loaded, locked,
                    fallbackFailed, unseen>>
    BY <1>0 DEF DownloadCorrupt
  <2> QED
    BY <2>1, <2>2, <2>3
<1>2. CASE StartUpdate
  BY <1>2 DEF StartUpdate, update, isParsing, lastingVars
<1>3. CASE UpdateTimer
  <2>1. alive /\ waiting /\ ~hung
    BY <1>3 DEF UpdateTimer
  <2>2. UNCHANGED <<lastingVars, alive, inFallbackMode, thread, success, file,
                    rollbackData, loaded, fallbackFailed, unseen>>
    BY <1>3 DEF UpdateTimer
  <2>3. CASE isParsing
    BY <1>3, <2>1, <2>2, <2>3 DEF UpdateTimer, update, isParsing, lastingVars
  <2>4. CASE ~isParsing
    <3>1. /\ updateInProgress' = TRUE
          /\ waiting' = FALSE
          /\ reply' = "database"
          /\ locked' = TRUE
      BY <1>3, <2>4 DEF UpdateTimer, update
    <3> QED
      BY <2>1, <2>2, <3>1 DEF lastingVars
  <2> QED
    BY <2>3, <2>4
<1>4. CASE UpdateNeeded
  BY <1>4 DEF UpdateNeeded, update, isParsing, lastingVars
<1>5. CASE UpToDateOrError
  <2>1. alive /\ ~updateInProgress /\ ~hung /\ UNCHANGED waiting
    BY <1>5 DEF UpToDateOrError
  <2>2. IP2CTypeOK' /\ GoneIsOver' /\ ReadIsKnown' /\ LoaderWorks'
    <3>1. /\ reply' = "none"
          /\ UNCHANGED <<begun, precompiled, hung, updateInProgress, waiting, success, file,
                         loaded, fallbackFailed>>
          /\ ip2cJobsFinished(thread, FALSE, updateInProgress)
      BY <1>5 DEF UpToDateOrError, lastingVars
    <3>2. updateInProgress = FALSE /\ updateInProgress' = FALSE
      BY <2>1, <3>1
    <3>3. ip2cJobsFinished(thread, FALSE, FALSE)
      BY <3>1, <3>2
    <3> QED
      <4>1. FALSE \in BOOLEAN /\ FALSE = (reply' # "none")
        BY <3>1
      <4>2. thread \in {"none", "started", "reading", "torn", "read"}
        OBVIOUS
      <4>3. /\ fallbackFailed' \in BOOLEAN
            /\ success' = success /\ loaded' = loaded /\ (fallbackFailed => fallbackFailed')
            /\ updateInProgress' \in BOOLEAN
            /\ reply' \in {"none", "checksum", "database"}
            /\ FALSE = updateInProgress'
        BY <3>1, <3>2
      <4>4. (updateInProgress' => waiting' \/ reply' = "database") /\ (waiting' => updateInProgress')
        BY <2>1, <3>1, <3>2
      <4> QED
        BY <2>1, <3>1, <3>3, <4>1, <4>2, <4>3, <4>4, JobsFinished
  <2>3. hung' = hung /\ updateInProgress' = updateInProgress /\ reply' = "none"
    BY <1>5 DEF UpToDateOrError, lastingVars
  <2>4. UpdateIsPending'
    BY <2>1, <2>3
  <2> QED
    BY <2>2, <2>4
<1>6. CASE DownloadFailed
  <2>1. alive /\ ~waiting /\ ~hung
    BY <1>6 DEF DownloadFailed
  <2>2. IP2CTypeOK' /\ GoneIsOver' /\ ReadIsKnown' /\ LoaderWorks'
    BY <1>6, <2>1, JobsFinished DEF DownloadFailed, lastingVars
  <2>3. hung' = hung /\ waiting' = waiting /\ updateInProgress' = FALSE /\ reply' = "none"
    BY <1>6 DEF DownloadFailed, lastingVars
  <2>4. UpdateIsPending'
    BY <2>1, <2>3
  <2> QED
    BY <2>2, <2>4
<1>7. ASSUME NEW data \in {"good", "bad"}, NEW saved \in BOOLEAN, Downloaded(data, saved)
      PROVE  LoaderInv'
  BY <1>7 DEF Downloaded, readDatabaseThreaded, isParsing, lastingVars
<1>8. CASE ThreadBegins
  BY <1>8 DEF ThreadBegins, lastingVars
<1>9. CASE ThreadReads
  <2>1. success' \in BOOLEAN
    BY <1>9 DEF ThreadReads, isParsing
  <2> QED
    BY <1>9, <2>1 DEF ThreadReads, isParsing, lastingVars
<1>10. CASE ParsingFinished
  <2>1. alive /\ ~hung /\ (loaded \/ fallbackFailed')
    BY <1>10 DEF ParsingFinished
  <2>2. IP2CTypeOK' /\ GoneIsOver' /\ ReadIsKnown' /\ LoaderWorks'
    BY <1>10, <2>1, JobsFinished DEF ParsingFinished, lastingVars
  <2>3. UNCHANGED <<hung, updateInProgress, waiting, reply>>
    BY <1>10 DEF ParsingFinished, lastingVars
  <2>4. UpdateIsPending'
    BY <2>1, <2>3
  <2> QED
    BY <2>2, <2>4
<1>11. ASSUME NEW written \in BOOLEAN, ParsingFailed(written) PROVE LoaderInv'
  BY <1>11 DEF ParsingFailed, lastingVars
<1>12. CASE UNCHANGED ip2cVars
  BY <1>12 DEF ip2cVars
<1> QED
  BY <1>0, <1>1, <1>2, <1>3, <1>4, <1>5, <1>6, <1>7, <1>8, <1>9, <1>10, <1>11, <1>12
  DEF IP2CNext, Answered, ThreadSteps

LEMMA LoaderInvariant == IP2CSpec => []LoaderInv
BY InitLoader, LoaderStep, PTL DEF IP2CSpec

(* Once a loader is gone, in whatever order its jobs ended, the flags are  *)
(* unlocked and there are entries to show, or the fallback was tried and   *)
(* failed, or the loader went too early for the thread to be heard.        *)
THEOREM FlagsComeBack == IP2CSpec => []CountriesKnown
<1>1. LoaderInv => CountriesKnown
  BY DEF LoaderInv, IP2CTypeOK, GoneIsOver, ReadIsKnown, CountriesKnown
<1> QED
  BY LoaderInvariant, <1>1, PTL

(* The safety half of LoaderEnds: ip2cJobsFinished(), which each job asks  *)
(* as it ends, leaves no loader that has nothing to wait for.              *)
THEOREM NoIdleLoader == IP2CSpec => []LoaderWorks
<1>1. LoaderInv => LoaderWorks
  BY DEF LoaderInv
<1> QED
  BY LoaderInvariant, <1>1, PTL

(* Every step while a loader is there leaves it less to do: what nobody    *)
(* waits for twice must end.                                               *)
THEOREM LoadersRunOut == IP2CSpec => JobsRunOut
<1>1. ASSUME LoaderInv, [IP2CNext]_ip2cVars, alive, alive', ip2cVars' # ip2cVars
      PROVE  JobsLeft' < JobsLeft
  <2> USE <1>1 DEF LoaderInv, IP2CTypeOK, UpdateIsPending, GoneIsOver,
                   JobsLeft, ToDownload, ToRead, ip2cJobsFinished, Destroyed, KeepsWorking
  <2>1. \A auto \in BOOLEAN : ~Load(auto)
    BY DEF Load
  <2>2. ~StartUpdate
    BY DEF StartUpdate
  <2>3. CASE UpdateTimer
    <3>1. CASE isParsing
      BY <2>3, <3>1 DEF UpdateTimer, update, isParsing, ip2cVars, lastingVars
    <3>2. CASE ~isParsing
      BY <2>3, <3>2 DEF UpdateTimer, update
    <3> QED BY <3>1, <3>2
  <2>4. CASE UpdateNeeded
    BY <2>4 DEF UpdateNeeded, update
  <2>5. CASE UpToDateOrError
    BY <2>5 DEF UpToDateOrError
  <2>6. CASE DownloadFailed
    BY <2>6 DEF DownloadFailed
  <2>12. CASE DownloadCorrupt
    BY <2>12 DEF DownloadCorrupt
  <2>7. ASSUME NEW data \in {"good", "bad"}, NEW saved \in BOOLEAN, Downloaded(data, saved)
        PROVE  JobsLeft' < JobsLeft
    BY <2>7 DEF Downloaded, readDatabaseThreaded, isParsing
  <2>8. CASE ThreadBegins
    BY <2>8 DEF ThreadBegins
  <2>9. CASE ThreadReads
    BY <2>9 DEF ThreadReads, isParsing
  <2>10. CASE ParsingFinished
    BY <2>10 DEF ParsingFinished
  <2>11. ASSUME NEW written \in BOOLEAN, ParsingFailed(written) PROVE JobsLeft' < JobsLeft
    BY <2>11 DEF ParsingFailed
  <2> QED
    BY <2>1, <2>2, <2>3, <2>4, <2>5, <2>6, <2>7, <2>8, <2>9, <2>10, <2>11, <2>12
    DEF IP2CNext, Answered, ThreadSteps
<1>2. LoaderInv /\ [IP2CNext]_ip2cVars => [alive /\ alive' => JobsLeft' < JobsLeft]_ip2cVars
  BY <1>1
<1> QED BY LoaderInvariant, <1>2, PTL DEF IP2CSpec, JobsRunOut

=============================================================================
