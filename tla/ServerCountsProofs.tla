------------------------- MODULE ServerCountsProofs -------------------------
(***************************************************************************)
(* The list has one entry per address.  The numbers that                   *)
(* ServerListCountTracker adds to and subtracts from stay those of the     *)
(* list in every step but one, the loss of a LAN server that is not listed *)
(* because its address is; those of each kind, while flags are untouched.  *)
(***************************************************************************)
EXTENDS ServerCounts, FiniteSetTheorems, TLAPS

USE ServersAssumption

-----------------------------------------------------------------------------
(* Counting                                                                *)

(* Sets of servers are finite, and so are those of players on them.        *)
LEMMA ServersAreFinite ==
  ASSUME NEW S \in SUBSET Servers
  PROVE  IsFiniteSet(S) /\ Cardinality(S) \in Nat
BY FS_Subset, FS_CardinalityType

(* What a set that loses some members and gains new ones has in the end.   *)
LEMMA SwapCounts ==
  ASSUME NEW A, IsFiniteSet(A), NEW gone, gone \subseteq A,
         NEW new, IsFiniteSet(new), new \cap (A \ gone) = {}
  PROVE  /\ IsFiniteSet((A \ gone) \cup new)
         /\ Cardinality((A \ gone) \cup new) = Cardinality(A) - Cardinality(gone) + Cardinality(new)
         /\ Cardinality(A) \in Nat
         /\ Cardinality(gone) \in Nat
         /\ Cardinality(new) \in Nat
<1>1. IsFiniteSet(gone) /\ IsFiniteSet(A \ gone)
  BY FS_Subset, FS_Difference
<1>2. A \cap gone = gone
  OBVIOUS
<1>3. Cardinality(A \ gone) = Cardinality(A) - Cardinality(gone)
  BY <1>2, FS_Difference
<1>4. (A \ gone) \cap new = {}
  OBVIOUS
<1>5. /\ IsFiniteSet((A \ gone) \cup new)
      /\ Cardinality((A \ gone) \cup new) = Cardinality(A \ gone) + Cardinality(new) - Cardinality({})
  BY <1>1, <1>4, FS_Union
<1>6. /\ Cardinality(A) \in Nat
      /\ Cardinality(gone) \in Nat
      /\ Cardinality(new) \in Nat
      /\ Cardinality(A \ gone) \in Nat
      /\ Cardinality({}) = 0
  BY <1>1, FS_CardinalityType, FS_EmptySet
<1> QED
  BY <1>3, <1>5, <1>6

(* The players on a set of servers, as a set of pairs.                     *)
LEMMA PlayersAreFinite ==
  ASSUME NEW S \in SUBSET Servers, NEW on \in [Servers -> SUBSET Players]
  PROVE  IsFiniteSet(PlayersOn(S, on)) /\ Cardinality(PlayersOn(S, on)) \in Nat
<1>1. PlayersOn(S, on) \subseteq Servers \X Players
  BY DEF PlayersOn
<1>2. IsFiniteSet(Servers \X Players)
  BY FS_Product
<1> QED
  BY <1>1, <1>2, FS_Subset, FS_CardinalityType

(* Players are counted server by server.                                   *)
LEMMA PlayersSwap ==
  ASSUME NEW A \in SUBSET Servers, NEW gone \in SUBSET A, NEW new \in SUBSET Servers,
         new \cap (A \ gone) = {}, NEW on \in [Servers -> SUBSET Players]
  PROVE  Cardinality(PlayersOn((A \ gone) \cup new, on))
           = Cardinality(PlayersOn(A, on)) - Cardinality(PlayersOn(gone, on))
               + Cardinality(PlayersOn(new, on))
<1>1. PlayersOn((A \ gone) \cup new, on)
        = (PlayersOn(A, on) \ PlayersOn(gone, on)) \cup PlayersOn(new, on)
  BY DEF PlayersOn
<1>2. PlayersOn(gone, on) \subseteq PlayersOn(A, on)
  BY DEF PlayersOn
<1>3. PlayersOn(new, on) \cap (PlayersOn(A, on) \ PlayersOn(gone, on)) = {}
  BY DEF PlayersOn
<1>4. IsFiniteSet(PlayersOn(A, on)) /\ IsFiniteSet(PlayersOn(new, on))
  BY PlayersAreFinite
<1>5. Cardinality((PlayersOn(A, on) \ PlayersOn(gone, on)) \cup PlayersOn(new, on))
        = Cardinality(PlayersOn(A, on)) - Cardinality(PlayersOn(gone, on))
            + Cardinality(PlayersOn(new, on))
  BY <1>2, <1>3, <1>4, SwapCounts
<1> QED
  BY <1>1, <1>5

(* Servers that nobody plays on do not add to the number.                  *)
LEMMA BlankServers ==
  ASSUME NEW S, NEW on, \A s \in S : on[s] = {}
  PROVE  PlayersOn(S, on) = {} /\ Cardinality(PlayersOn(S, on)) = 0
<1>1. PlayersOn(S, on) = {}
  BY DEF PlayersOn
<1> QED
  BY <1>1, FS_EmptySet

-----------------------------------------------------------------------------
(* What an event does to the tracker                                       *)

(* What countServer() and discountServer() add and subtract are numbers;   *)
(* so are those of refreshing servers and of players.                      *)
LEMMA CountsAreNumbers ==
  ASSUME TypeOK, NEW gone \in SUBSET Servers, NEW new \in SUBSET Servers, NEW flagged
  PROVE  /\ CountKinds(gone, new, flagged) =>
              /\ numServers' \in Int
              /\ numGenericServers' \in Int
              /\ numLanServers' \in Int
              /\ numCustomServers' \in Int
         /\ \A begun \in SUBSET Servers : CountStates(gone, new, begun) =>
              /\ numRefreshing' \in Int
              /\ numPlayers' \in Int
              /\ countedServers' \subseteq (countedServers \ gone) \cup new
<1>1. \A S \in SUBSET Servers : Cardinality(S) \in Int
  BY ServersAreFinite
<1>2. \A S \in SUBSET Servers : Cardinality(PlayersOn(S, players)) \in Int
  BY PlayersAreFinite DEF TypeOK
<1>3. /\ Cardinality(gone) \in Int
      /\ Cardinality(new) \in Int
      /\ Cardinality(Generic(gone, custom)) \in Int
      /\ Cardinality(Generic(new, flagged)) \in Int
      /\ Cardinality(Lan(gone)) \in Int
      /\ Cardinality(Lan(new)) \in Int
      /\ Cardinality(gone \cap custom) \in Int
      /\ Cardinality(new \cap flagged) \in Int
  BY <1>1 DEF Generic, Lan
<1>4. ASSUME CountKinds(gone, new, flagged)
      PROVE  /\ numServers' \in Int
             /\ numGenericServers' \in Int
             /\ numLanServers' \in Int
             /\ numCustomServers' \in Int
  BY <1>3, <1>4 DEF CountKinds, TypeOK
<1>5. ASSUME NEW begun \in SUBSET Servers, CountStates(gone, new, begun)
      PROVE  /\ numRefreshing' \in Int
             /\ numPlayers' \in Int
             /\ countedServers' \subseteq (countedServers \ gone) \cup new
  <2> DEFINE refreshing == (new \cap isRefreshing') \ begun
  <2>1. /\ Cardinality(gone \cap isRefreshing) \in Int
        /\ Cardinality(refreshing) \in Int
        /\ Cardinality(begun) \in Int
        /\ Cardinality(PlayersOn(Discounted(gone), players)) \in Int
        /\ Cardinality(PlayersOn(new \ refreshing, players)) \in Int
        /\ Cardinality(PlayersOn(begun, players)) \in Int
    BY <1>1, <1>2 DEF Discounted
  <2>2. /\ countedServers' = (StillCounted(gone) \cup (new \ refreshing)) \ begun
        /\ numRefreshing' = numRefreshing - Cardinality(gone \cap isRefreshing)
                              + Cardinality(refreshing) + Cardinality(begun)
        /\ numPlayers' = numPlayers - Cardinality(PlayersOn(Discounted(gone), players))
                           + Cardinality(PlayersOn(new \ refreshing, players))
                           - Cardinality(PlayersOn(begun, players))
    BY <1>5 DEF CountStates
  <2>3. numRefreshing \in Int /\ numPlayers \in Int
    BY DEF TypeOK
  <2>4. countedServers' \subseteq (countedServers \ gone) \cup new
    BY <2>2 DEF StillCounted
  <2> HIDE DEF refreshing
  <2> QED
    BY <2>1, <2>2, <2>3, <2>4
<1> QED
  BY <1>4, <1>5

(* The number of countServer() and discountServer() follows the list.      *)
LEMMA ServersFollow ==
  ASSUME TypeOK, NEW gone \in SUBSET list, NEW new \in SUBSET Servers, NEW flagged,
         new \cap list = {}, list' = (list \ gone) \cup new,
         CountKinds(gone, new, flagged)
  PROVE  ServersOff' = ServersOff
<1>1. list \in SUBSET Servers /\ numServers \in Int
  BY DEF TypeOK
<1>2. IsFiniteSet(list) /\ IsFiniteSet(new) /\ new \cap (list \ gone) = {}
  BY <1>1, ServersAreFinite
<1>3. Cardinality((list \ gone) \cup new) = Cardinality(list) - Cardinality(gone) + Cardinality(new)
  BY <1>2, SwapCounts
<1>4. Cardinality(list) \in Nat /\ Cardinality(gone) \in Nat /\ Cardinality(new) \in Nat
  BY <1>1, ServersAreFinite
<1>5. numServers' = numServers - Cardinality(gone) + Cardinality(new)
  BY DEF CountKinds
<1> QED
  BY <1>1, <1>3, <1>4, <1>5 DEF ServersOff

(* So do the servers that count as refreshing, and the players on those    *)
(* that do not: servers leave, blank ones come, some begin to refresh.     *)
LEMMA StatesFollow ==
  ASSUME TypeOK, CountedAreSettled,
         NEW gone \in SUBSET list, NEW new \in SUBSET Servers,
         NEW begun \in SUBSET ((list \ gone) \cup new),
         new \cap list = {}, \A s \in new : s \notin isRefreshing /\ players[s] = {},
         begun \cap isRefreshing = {},
         list' = (list \ gone) \cup new,
         players' = players,
         begun \subseteq isRefreshing',
         \A s \in list \ gone : s \in isRefreshing' <=> s \in isRefreshing \cup begun,
         CountStates(gone, new, begun)
  PROVE  /\ RefreshingOff' = RefreshingOff
         /\ PlayersOff' = PlayersOff
         /\ CountedAreSettled'
<1> DEFINE refreshing == (new \cap isRefreshing') \ begun
           settled == list \ isRefreshing
<1>1. /\ list \in SUBSET Servers
      /\ players \in [Servers -> SUBSET Players]
      /\ numRefreshing \in Int
      /\ numPlayers \in Int
  BY DEF TypeOK
<1>2. /\ countedServers' = (StillCounted(gone) \cup (new \ refreshing)) \ begun
      /\ numRefreshing' = numRefreshing - Cardinality(gone \cap isRefreshing)
                            + Cardinality(refreshing) + Cardinality(begun)
      /\ numPlayers' = numPlayers - Cardinality(PlayersOn(Discounted(gone), players))
                         + Cardinality(PlayersOn(new \ refreshing, players))
                         - Cardinality(PlayersOn(begun, players))
  BY DEF CountStates
<1>3. list' \ isRefreshing' = ((settled \ (gone \ isRefreshing)) \cup (new \ refreshing)) \ begun
  OBVIOUS
<1>4. CountedAreSettled'
  BY <1>2, <1>3 DEF CountedAreSettled, StillCounted
<1>5. RefreshingOff' = RefreshingOff
  <2>1. list' \cap isRefreshing'
          = ((list \cap isRefreshing) \ (gone \cap isRefreshing)) \cup (refreshing \cup begun)
    OBVIOUS
  <2>2. /\ IsFiniteSet(list \cap isRefreshing)
        /\ IsFiniteSet(refreshing)
        /\ IsFiniteSet(begun)
        /\ IsFiniteSet(refreshing \cup begun)
    BY <1>1, ServersAreFinite
  <2>3. (refreshing \cup begun) \cap ((list \cap isRefreshing) \ (gone \cap isRefreshing)) = {}
    OBVIOUS
  <2>4. /\ Cardinality(list' \cap isRefreshing')
             = Cardinality(list \cap isRefreshing) - Cardinality(gone \cap isRefreshing)
                 + Cardinality(refreshing \cup begun)
        /\ Cardinality(gone \cap isRefreshing) \in Nat
    <3>1. gone \cap isRefreshing \subseteq list \cap isRefreshing
      OBVIOUS
    <3>2. /\ Cardinality(((list \cap isRefreshing) \ (gone \cap isRefreshing)) \cup (refreshing \cup begun))
               = Cardinality(list \cap isRefreshing) - Cardinality(gone \cap isRefreshing)
                   + Cardinality(refreshing \cup begun)
          /\ Cardinality(gone \cap isRefreshing) \in Nat
      <4> DEFINE were == list \cap isRefreshing
                 left == gone \cap isRefreshing
                 came == refreshing \cup begun
      <4>1. IsFiniteSet(were) /\ left \subseteq were /\ IsFiniteSet(came) /\ came \cap (were \ left) = {}
        BY <2>2, <2>3, <3>1
      <4> HIDE DEF were, left, came
      <4>2. Cardinality((were \ left) \cup came)
              = Cardinality(were) - Cardinality(left) + Cardinality(came)
        BY <4>1, SwapCounts
      <4>3. Cardinality(left) \in Nat
        BY <4>1, SwapCounts
      <4> QED
        BY <4>2, <4>3 DEF were, left, came
    <3> QED
      BY <2>1, <3>2
  <2>5. refreshing \cap begun = {}
    OBVIOUS
  <2>6. /\ Cardinality(refreshing \cup begun) = Cardinality(refreshing) + Cardinality(begun) - 0
        /\ Cardinality(refreshing) \in Nat
        /\ Cardinality(begun) \in Nat
    BY <2>2, <2>5, FS_Union, FS_EmptySet, FS_CardinalityType
  <2>7. Cardinality(list \cap isRefreshing) \in Nat
    BY <2>2, FS_CardinalityType
  <2> HIDE DEF refreshing
  <2> QED
    BY <1>1, <1>2, <2>4, <2>6, <2>7 DEF RefreshingOff
<1>6. PlayersOff' = PlayersOff
  <2> DEFINE before == (settled \ (gone \ isRefreshing)) \cup (new \ refreshing)
  <2>1. Cardinality(PlayersOn(before, players))
          = Cardinality(PlayersOn(settled, players))
              - Cardinality(PlayersOn(gone \ isRefreshing, players))
              + Cardinality(PlayersOn(new \ refreshing, players))
    <3>1. /\ settled \in SUBSET Servers
          /\ gone \ isRefreshing \in SUBSET settled
          /\ new \ refreshing \in SUBSET Servers
          /\ (new \ refreshing) \cap (settled \ (gone \ isRefreshing)) = {}
      BY <1>1
    <3> QED
      BY <1>1, <3>1, PlayersSwap
  <2>2. Cardinality(PlayersOn(before \ begun, players))
          = Cardinality(PlayersOn(before, players)) - Cardinality(PlayersOn(begun \cap before, players))
    <3>1. /\ before \in SUBSET Servers
          /\ begun \cap before \in SUBSET before
          /\ {} \in SUBSET Servers
          /\ {} \cap (before \ (begun \cap before)) = {}
      BY <1>1
    <3>2. Cardinality(PlayersOn((before \ (begun \cap before)) \cup {}, players))
            = Cardinality(PlayersOn(before, players)) - Cardinality(PlayersOn(begun \cap before, players))
                + Cardinality(PlayersOn({}, players))
      BY <1>1, <3>1, PlayersSwap
    <3>3. Cardinality(PlayersOn({}, players)) = 0
      BY BlankServers
    <3>4. (before \ (begun \cap before)) \cup {} = before \ begun
      OBVIOUS
    <3>5. /\ Cardinality(PlayersOn(before, players)) \in Nat
          /\ Cardinality(PlayersOn(begun \cap before, players)) \in Nat
      BY <1>1, <3>1, PlayersAreFinite
    <3>6. Cardinality(PlayersOn((before \ (begun \cap before)) \cup {}, players))
            = Cardinality(PlayersOn(before \ begun, players))
      BY <3>4
    <3> HIDE DEF before
    <3> QED
      BY <3>2, <3>3, <3>5, <3>6
  <2>3. begun \cap before = begun
    OBVIOUS
  <2>4. list' \ isRefreshing' = before \ begun
    BY <1>3
  <2>5. /\ Cardinality(PlayersOn(settled, players)) \in Nat
        /\ Discounted(gone) = gone \ isRefreshing
    <3>1. settled \in SUBSET Servers
      BY <1>1
    <3> QED
      BY <1>1, <3>1, PlayersAreFinite DEF Discounted
  <2>6. /\ Cardinality(PlayersOn(gone \ isRefreshing, players)) \in Nat
        /\ Cardinality(PlayersOn(new \ refreshing, players)) \in Nat
        /\ Cardinality(PlayersOn(begun, players)) \in Nat
    <3>1. /\ gone \ isRefreshing \in SUBSET Servers
          /\ new \ refreshing \in SUBSET Servers
          /\ begun \in SUBSET Servers
      BY <1>1
    <3> QED
      BY <1>1, <3>1, PlayersAreFinite
  <2>7. Cardinality(PlayersOn(begun \cap before, players)) = Cardinality(PlayersOn(begun, players))
    BY <2>3
  <2>8. Cardinality(PlayersOn(list' \ isRefreshing', players')) = Cardinality(PlayersOn(before \ begun, players))
    BY <2>4
  <2>9. numPlayers' = numPlayers - Cardinality(PlayersOn(gone \ isRefreshing, players))
                        + Cardinality(PlayersOn(new \ refreshing, players))
                        - Cardinality(PlayersOn(begun, players))
    BY <1>2, <2>5
  <2> HIDE DEF before, refreshing, settled
  <2>10. /\ numPlayers' - Cardinality(PlayersOn(before \ begun, players))
              = numPlayers - Cardinality(PlayersOn(settled, players))
    BY <1>1, <2>1, <2>2, <2>5, <2>6, <2>7, <2>9
  <2>11. PlayersOff = numPlayers - Cardinality(PlayersOn(settled, players))
    BY DEF PlayersOff, settled
  <2>12. PlayersOff' = numPlayers' - Cardinality(PlayersOn(list' \ isRefreshing', players'))
    BY DEF PlayersOff
  <2> QED
    BY <2>8, <2>10, <2>11, <2>12
<1> QED
  BY <1>4, <1>5, <1>6

-----------------------------------------------------------------------------
(* The events                                                              *)

(* What registerServer() adds to a list with one entry per address.        *)
LEMMA NewOnTheList ==
  ASSUME NEW S, NEW listed, \A s, t \in listed : AddressOf[s] = AddressOf[t] => s = t,
         NEW new \in SetsOfNew(S, listed)
  PROVE  /\ new \subseteq S
         /\ new \cap listed = {}
         /\ \A s, t \in listed \cup new : AddressOf[s] = AddressOf[t] => s = t
<1>1. /\ new \subseteq S
      /\ Addresses(new) = Addresses(S) \ Addresses(listed)
      /\ \A s, t \in new : AddressOf[s] = AddressOf[t] => s = t
  BY DEF SetsOfNew
<1>2. \A s \in new : AddressOf[s] \in Addresses(new)
  BY DEF Addresses
<1>3. \A s \in new, t \in listed : AddressOf[s] # AddressOf[t]
  BY <1>1, <1>2 DEF Addresses
<1> QED
  BY <1>1, <1>3

-----------------------------------------------------------------------------
(* One entry per address                                                   *)

LEMMA InitListInv == Init => ListInv
BY DEF Init, ListInv, TypeOK, OneEntryPerAddress

(* Servers leave the list, others come, some begin to refresh.             *)
LEMMA ListChanges ==
  ASSUME ListInv,
         NEW gone \in SUBSET Servers, NEW new \in SUBSET Servers, NEW flagged,
         NEW begun \in SUBSET Servers,
         list' = (list \ gone) \cup new,
         \A s, t \in list' : AddressOf[s] = AddressOf[t] => s = t,
         CountKinds(gone, new, flagged), CountStates(gone, new, begun),
         alive' \in SUBSET Servers, custom' \in SUBSET alive', isRefreshing' \in SUBSET alive',
         players' = players, list' \in SUBSET alive', found' \in SUBSET (alive' \cap FromLan)
  PROVE  ListInv'
<1>1. /\ numServers' \in Int
      /\ numGenericServers' \in Int
      /\ numLanServers' \in Int
      /\ numCustomServers' \in Int
      /\ numRefreshing' \in Int
      /\ numPlayers' \in Int
      /\ countedServers' \subseteq (countedServers \ gone) \cup new
  BY CountsAreNumbers DEF ListInv
<1>2. countedServers' \in SUBSET list'
  BY <1>1 DEF ListInv, TypeOK
<1>3. players' \in [Servers -> SUBSET Players]
  BY DEF ListInv, TypeOK
<1>4. OneEntryPerAddress'
  BY DEF OneEntryPerAddress
<1>5. TypeOK'
  BY <1>1, <1>2, <1>3 DEF TypeOK
<1> QED
  BY <1>4, <1>5 DEF ListInv

LEMMA FinishMasterList ==
  ASSUME ListInv, NEW S \in SUBSET FromMaster, FinishMaster(S)
  PROVE  ListInv'
<1>1. PICK new \in SetsOfNew(S, list) :
        /\ Build(S, {})
        /\ isRefreshing' = isRefreshing \cup S
        /\ list' = list \cup new
        /\ CountKinds({}, new, {})
        /\ CountStates({}, new, {})
        /\ UNCHANGED found
  BY DEF FinishMaster, Announced
<1>2. /\ new \subseteq S
      /\ \A s, t \in list' : AddressOf[s] = AddressOf[t] => s = t
  BY <1>1, NewOnTheList DEF ListInv, OneEntryPerAddress
<1>3. /\ new \in SUBSET Servers
      /\ {} \in SUBSET Servers
      /\ list' = (list \ {}) \cup new
  BY <1>1, <1>2 DEF Servers
<1>4. /\ alive' \in SUBSET Servers
      /\ custom' \in SUBSET alive'
      /\ isRefreshing' \in SUBSET alive'
      /\ players' = players
      /\ list' \in SUBSET alive'
      /\ found' \in SUBSET (alive' \cap FromLan)
  BY <1>1, <1>2 DEF ListInv, TypeOK, Build, Servers
<1> QED
  BY <1>1, <1>2, <1>3, <1>4, ListChanges

LEMMA ReadConfigList ==
  ASSUME ListInv, NEW S \in SUBSET FromConfig, ReadConfig(S)
  PROVE  ListInv'
<1> DEFINE gone == list \cap custom
           kept == list \ gone
           same == {s \in kept : AddressOf[s] \in Addresses(S)}
<1> DEFINE Registered(new, begun) ==
             /\ Build(S, S \cup same)
             /\ list' = kept \cup new
             /\ isRefreshing' = isRefreshing \cup begun
             /\ CountKinds(gone, new, S)
             /\ CountStates(gone, new, begun)
             /\ UNCHANGED found
<1>1. PICK new \in SetsOfNew(S, kept) :
        \E begun \in Accepted(new, same) \cup {{}} : Registered(new, begun)
  BY DEF ReadConfig, Announced
<1>2. PICK begun \in Accepted(new, same) \cup {{}} : Registered(new, begun)
  BY <1>1
<1>3. \A s, t \in kept : AddressOf[s] = AddressOf[t] => s = t
  BY DEF ListInv, OneEntryPerAddress
<1>4. /\ new \subseteq S
      /\ \A s, t \in kept \cup new : AddressOf[s] = AddressOf[t] => s = t
  <2> HIDE DEF kept
  <2> QED
    BY <1>1, <1>3, NewOnTheList
<1>5. begun \subseteq same \cup new
  BY <1>2 DEF Accepted
<1>6. /\ list \in SUBSET Servers
      /\ list \subseteq alive
      /\ alive' = alive \cup S
      /\ custom' = custom \cup (S \cup same)
      /\ players' = players
      /\ S \in SUBSET Servers
  BY <1>2 DEF ListInv, TypeOK, Build, Servers
<1>7. /\ gone \in SUBSET Servers
      /\ new \in SUBSET Servers
      /\ begun \in SUBSET Servers
      /\ list' = (list \ gone) \cup new
      /\ \A s, t \in list' : AddressOf[s] = AddressOf[t] => s = t
  BY <1>2, <1>4, <1>5, <1>6
<1>8. /\ alive' \in SUBSET Servers
      /\ custom' \in SUBSET alive'
      /\ isRefreshing' \in SUBSET alive'
      /\ list' \in SUBSET alive'
      /\ found' \in SUBSET (alive' \cap FromLan)
  <2>1. /\ same \subseteq alive
        /\ begun \subseteq alive'
        /\ kept \subseteq alive
    BY <1>4, <1>5, <1>6
  <2> HIDE DEF kept, same
  <2> QED
    BY <1>2, <1>4, <1>6, <2>1 DEF ListInv, TypeOK
<1>9. CountKinds(gone, new, S) /\ CountStates(gone, new, begun)
  BY <1>2
<1> HIDE DEF gone, kept, same, Registered
<1> QED
  BY <1>6, <1>7, <1>8, <1>9, ListChanges

LEMMA DetectLanList ==
  ASSUME ListInv, NEW s \in FromLan, DetectLan(s)
  PROVE  ListInv'
<1>1. PICK new \in SetsOfNew({s}, list) :
        /\ Build({s}, {})
        /\ found' = found \cup {s}
        /\ list' = list \cup new
        /\ isRefreshing' = isRefreshing \cup {s}
        /\ CountKinds({}, new, {})
        /\ CountStates({}, new, new)
  BY DEF DetectLan, Announced
<1>2. /\ new \subseteq {s}
      /\ \A t, u \in list' : AddressOf[t] = AddressOf[u] => t = u
  BY <1>1, NewOnTheList DEF ListInv, OneEntryPerAddress
<1>3. /\ new \in SUBSET Servers
      /\ {} \in SUBSET Servers
      /\ list' = (list \ {}) \cup new
  BY <1>1, <1>2 DEF Servers
<1>4. /\ alive' \in SUBSET Servers
      /\ custom' \in SUBSET alive'
      /\ isRefreshing' \in SUBSET alive'
      /\ players' = players
      /\ list' \in SUBSET alive'
      /\ found' \in SUBSET (alive' \cap FromLan)
  BY <1>1, <1>2 DEF ListInv, TypeOK, Build, Servers
<1> QED
  BY <1>1, <1>2, <1>3, <1>4, ListChanges

(* removeServer() tells the tracker of a server that may not be listed:    *)
(* the numbers may go wrong, the list does not.                            *)
LEMMA LoseLanList ==
  ASSUME ListInv, NEW s \in FromLan, LoseLan(s)
  PROVE  ListInv'
<1>1. /\ {s} \in SUBSET Servers
      /\ {} \in SUBSET Servers
      /\ list' = (list \ {s}) \cup {}
      /\ \A t, u \in list' : AddressOf[t] = AddressOf[u] => t = u
      /\ CountKinds({s}, {}, {})
      /\ CountStates({s}, {}, {})
  BY DEF LoseLan, ListInv, OneEntryPerAddress, Servers
<1>2. /\ alive' \in SUBSET Servers
      /\ custom' \in SUBSET alive'
      /\ isRefreshing' \in SUBSET alive'
      /\ players' = players
      /\ list' \in SUBSET alive'
      /\ found' \in SUBSET (alive' \cap FromLan)
  BY DEF LoseLan, serverVars, ListInv, TypeOK
<1> QED
  BY <1>1, <1>2, ListChanges

LEMMA GetServersList == ASSUME ListInv, GetServers PROVE ListInv'
<1> DEFINE gone == Generic(list, custom)
<1>1. PICK begun \in Accepted({}, list \ gone) :
        /\ list' = list \ gone
        /\ isRefreshing' = isRefreshing \cup begun
        /\ CountKinds(gone, {}, {})
        /\ CountStates(gone, {}, begun)
        /\ UNCHANGED <<alive, custom, players, found>>
  BY DEF GetServers
<1>2. /\ gone \subseteq list
      /\ begun \subseteq list
      /\ list \subseteq alive
      /\ list \in SUBSET Servers
  BY <1>1 DEF Accepted, Generic, ListInv, TypeOK
<1> HIDE DEF gone
<1>3. /\ gone \in SUBSET Servers
      /\ {} \in SUBSET Servers
      /\ begun \in SUBSET Servers
      /\ list' = (list \ gone) \cup {}
      /\ \A t, u \in list' : AddressOf[t] = AddressOf[u] => t = u
  BY <1>1, <1>2 DEF ListInv, OneEntryPerAddress
<1>4. /\ alive' \in SUBSET Servers
      /\ custom' \in SUBSET alive'
      /\ isRefreshing' \in SUBSET alive'
      /\ list' \in SUBSET alive'
      /\ found' \in SUBSET (alive' \cap FromLan)
  BY <1>1, <1>2 DEF ListInv, TypeOK
<1> QED
  BY <1>1, <1>3, <1>4, ListChanges

LEMMA RefreshSelectedList ==
  ASSUME ListInv, NEW S \in SUBSET Servers, RefreshSelected(S)
  PROVE  ListInv'
<1>1. PICK begun \in Accepted({}, S) :
        /\ S \subseteq list
        /\ isRefreshing' = isRefreshing \cup begun
        /\ CountStates({}, {}, begun)
        /\ UNCHANGED <<alive, custom, players, list, found, kindVars>>
  BY DEF RefreshSelected
<1>2. begun \in SUBSET Servers /\ begun \subseteq alive /\ {} \in SUBSET Servers
  BY <1>1 DEF Accepted, ListInv, TypeOK
<1>3. /\ numRefreshing' \in Int
      /\ numPlayers' \in Int
      /\ countedServers' \subseteq (countedServers \ {}) \cup {}
  BY <1>1, <1>2, CountsAreNumbers DEF ListInv
<1>4. OneEntryPerAddress'
  BY <1>1 DEF ListInv, OneEntryPerAddress
<1>5. TypeOK'
  BY <1>1, <1>2, <1>3 DEF ListInv, TypeOK, kindVars
<1> QED
  BY <1>4, <1>5 DEF ListInv

LEMMA RefreshStopsList ==
  ASSUME ListInv, NEW s \in Servers, NEW playing \in SUBSET Players, RefreshStops(s, playing)
  PROVE  ListInv'
<1>1. /\ isRefreshing' = isRefreshing \ {s}
      /\ players' = [players EXCEPT ![s] = playing]
      /\ CountUpdated(s)
      /\ UNCHANGED <<alive, custom, list, found, kindVars>>
  BY DEF RefreshStops
<1>2. players' \in [Servers -> SUBSET Players]
  BY <1>1 DEF ListInv, TypeOK
<1>3. Cardinality(PlayersOn({s}, players')) \in Int
  BY <1>2, PlayersAreFinite
<1>4. /\ countedServers' \in SUBSET list
      /\ numRefreshing' \in Int
      /\ numPlayers' \in Int
  BY <1>1, <1>3 DEF CountUpdated, stateVars, ListInv, TypeOK
<1>5. OneEntryPerAddress'
  BY <1>1 DEF ListInv, OneEntryPerAddress
<1>6. TypeOK'
  BY <1>1, <1>2, <1>4 DEF ListInv, TypeOK, kindVars
<1> QED
  BY <1>5, <1>6 DEF ListInv

LEMMA UpdatedAgainList ==
  ASSUME ListInv, NEW s \in Servers, UpdatedAgain(s)
  PROVE  ListInv'
<1>1. CountUpdated(s) /\ UNCHANGED <<serverVars, list, found, kindVars>>
  BY DEF UpdatedAgain
<1>2. players' = players
  BY <1>1 DEF serverVars
<1>3. Cardinality(PlayersOn({s}, players')) \in Int
  <2>1. Cardinality(PlayersOn({s}, players)) \in Int
    BY PlayersAreFinite DEF ListInv, TypeOK
  <2> QED
    BY <1>2, <2>1
<1>4. /\ countedServers' \in SUBSET list
      /\ numRefreshing' \in Int
      /\ numPlayers' \in Int
  BY <1>1, <1>3 DEF CountUpdated, stateVars, ListInv, TypeOK
<1>5. OneEntryPerAddress'
  BY <1>1 DEF ListInv, OneEntryPerAddress
<1>6. TypeOK'
  BY <1>1, <1>4 DEF ListInv, TypeOK, kindVars, serverVars
<1> QED
  BY <1>5, <1>6 DEF ListInv

LEMMA NextKeepsList == ListInv /\ [Next]_vars => ListInv'
<1> SUFFICES ASSUME ListInv, [Next]_vars PROVE ListInv'
  OBVIOUS
<1>1. CASE \E S \in SUBSET FromMaster : FinishMaster(S)
  BY <1>1, FinishMasterList
<1>2. CASE \E S \in SUBSET FromConfig : ReadConfig(S)
  BY <1>2, ReadConfigList
<1>3. CASE \E s \in FromLan : DetectLan(s)
  BY <1>3, DetectLanList
<1>4. CASE \E s \in FromLan : LoseLan(s)
  BY <1>4, LoseLanList
<1>5. CASE GetServers
  BY <1>5, GetServersList
<1>6. CASE \E S \in SUBSET Servers : RefreshSelected(S)
  BY <1>6, RefreshSelectedList
<1>7. CASE \E S \in SUBSET Servers, toggleTo \in BOOLEAN : TogglePins(S, toggleTo)
  BY <1>7 DEF TogglePins, ListInv, TypeOK, OneEntryPerAddress, kindVars, stateVars
<1>8. CASE \E s \in Servers, playing \in SUBSET Players : RefreshStops(s, playing)
  BY <1>8, RefreshStopsList
<1>9. CASE \E s \in Servers : UpdatedAgain(s)
  BY <1>9, UpdatedAgainList
<1>10. CASE \E s \in Servers : Destroy(s)
  BY <1>10 DEF Destroy, ListInv, TypeOK, OneEntryPerAddress, kindVars, stateVars
<1>11. CASE UNCHANGED vars
  BY <1>11 DEF ListInv, TypeOK, OneEntryPerAddress, vars, serverVars, kindVars, stateVars
<1> QED
  BY <1>1, <1>2, <1>3, <1>4, <1>5, <1>6, <1>7, <1>8, <1>9, <1>10, <1>11 DEF Next

(* What holds of the list holds whatever servers share their addresses,    *)
(* and while the numbers are wrong.                                        *)
LEMMA ListInvariant == Spec => []ListInv
BY InitListInv, NextKeepsList, PTL DEF Spec

(* The list never shows two entries for an address, whichever sources      *)
(* report it: a second one is not registered.                              *)
THEOREM AddressesAreUnique == Spec => []OneEntryPerAddress
<1>1. ListInv => OneEntryPerAddress
  BY DEF ListInv
<1> QED
  BY ListInvariant, <1>1, PTL

(* Every variable of the list and the tracker keeps to its type.           *)
THEOREM TypeCorrect == Spec => []TypeOK
<1>1. ListInv => TypeOK
  BY DEF ListInv
<1> QED
  BY ListInvariant, <1>1, PTL

-----------------------------------------------------------------------------
(* The numbers                                                             *)

NumbersKept ==
  /\ ServersOff' = ServersOff
  /\ RefreshingOff' = RefreshingOff
  /\ PlayersOff' = PlayersOff

LEMMA InitSettled == Init => SettledInv
BY DEF Init, SettledInv, CountedAreSettled, UnbornAreBlank

(* New servers are refreshed, then put on the list.                        *)
LEMMA FinishMasterStep ==
  ASSUME ListInv, SettledInv, NEW S \in SUBSET FromMaster, FinishMaster(S)
  PROVE  SettledInv' /\ NumbersKept
<1>1. PICK new \in SetsOfNew(S, list) :
        /\ Build(S, {})
        /\ isRefreshing' = isRefreshing \cup S
        /\ list' = list \cup new
        /\ CountKinds({}, new, {})
        /\ CountStates({}, new, {})
        /\ UNCHANGED found
  BY DEF FinishMaster, Announced
<1>2. /\ new \subseteq S
      /\ new \cap list = {}
  BY <1>1, NewOnTheList DEF ListInv, SettledInv, OneEntryPerAddress
<1>3. \A s \in new : s \notin isRefreshing /\ players[s] = {}
  BY <1>1, <1>2 DEF ListInv, SettledInv, TypeOK, Build, UnbornAreBlank, Servers
<1>4. \A s \in list : s \in isRefreshing' <=> s \in isRefreshing
  BY <1>1 DEF ListInv, SettledInv, TypeOK, Build
<1>5. new \in SUBSET Servers /\ players' = players /\ list' = (list \ {}) \cup new
  BY <1>1, <1>2 DEF Build, Servers
<1>6. ServersOff' = ServersOff
  BY <1>1, <1>2, <1>5, ServersFollow DEF ListInv
<1>7. /\ RefreshingOff' = RefreshingOff
      /\ PlayersOff' = PlayersOff
      /\ CountedAreSettled'
  BY <1>1, <1>2, <1>3, <1>4, <1>5, StatesFollow DEF ListInv, SettledInv
<1>8. UnbornAreBlank'
  BY <1>1, <1>2 DEF ListInv, SettledInv, UnbornAreBlank, Build
<1> QED
  BY <1>6, <1>7, <1>8 DEF SettledInv, NumbersKept

(* The custom servers leave, the configured ones come or are merged, with  *)
(* whatever servers, of the LAN too, have their addresses.                 *)
LEMMA ReadConfigStep ==
  ASSUME ListInv, SettledInv, NEW S \in SUBSET FromConfig, ReadConfig(S)
  PROVE  SettledInv' /\ NumbersKept
<1> DEFINE gone == list \cap custom
           kept == list \ gone
           same == {s \in kept : AddressOf[s] \in Addresses(S)}
<1> DEFINE Registered(new, begun) ==
             /\ Build(S, S \cup same)
             /\ list' = kept \cup new
             /\ isRefreshing' = isRefreshing \cup begun
             /\ CountKinds(gone, new, S)
             /\ CountStates(gone, new, begun)
             /\ UNCHANGED found
<1>1. PICK new \in SetsOfNew(S, kept) :
        \E begun \in Accepted(new, same) \cup {{}} : Registered(new, begun)
  BY DEF ReadConfig, Announced
<1>2. PICK begun \in Accepted(new, same) \cup {{}} : Registered(new, begun)
  BY <1>1
<1>3. /\ new \in SetsOfNew(S, kept)
      /\ begun \in Accepted(new, same) \cup {{}}
      /\ Registered(new, begun)
  BY <1>1, <1>2
<1>4. \A s, t \in kept : AddressOf[s] = AddressOf[t] => s = t
  BY DEF ListInv, SettledInv, OneEntryPerAddress
<1>5. /\ new \subseteq S
      /\ new \cap kept = {}
      /\ \A s, t \in kept \cup new : AddressOf[s] = AddressOf[t] => s = t
  <2> HIDE DEF kept
  <2> QED
    BY <1>3, <1>4, NewOnTheList
<1>6. begun \subseteq (same \ isRefreshing) \cup new
  BY <1>3 DEF Accepted
<1>7. \A s \in new : s \notin alive /\ s \notin list /\ s \notin isRefreshing /\ players[s] = {}
  BY <1>3, <1>5 DEF ListInv, SettledInv, TypeOK, Build, UnbornAreBlank, Servers
<1>8. /\ new \in SUBSET Servers
      /\ gone \in SUBSET list
      /\ new \cap list = {}
      /\ begun \in SUBSET ((list \ gone) \cup new)
      /\ begun \cap isRefreshing = {}
      /\ players' = players
      /\ list' = (list \ gone) \cup new
      /\ begun \subseteq isRefreshing'
      /\ \A s \in list \ gone : s \in isRefreshing' <=> s \in isRefreshing \cup begun
  BY <1>3, <1>5, <1>6, <1>7 DEF Build, Servers
<1>10. ServersOff' = ServersOff
  <2> HIDE DEF gone
  <2> QED
    BY <1>3, <1>8, ServersFollow DEF ListInv
<1>11. /\ RefreshingOff' = RefreshingOff
      /\ PlayersOff' = PlayersOff
      /\ CountedAreSettled'
  <2> HIDE DEF gone
  <2> QED
    BY <1>3, <1>7, <1>8, StatesFollow DEF ListInv, SettledInv
<1>12. UnbornAreBlank'
  BY <1>3 DEF SettledInv, UnbornAreBlank, Build
<1> QED
  BY <1>10, <1>11, <1>12 DEF SettledInv, NumbersKept

(* A LAN server heard for the first time comes to the list, too, if its    *)
(* address is not there; if it is, nothing is told to the tracker.         *)
LEMMA DetectLanStep ==
  ASSUME ListInv, SettledInv, NEW s \in FromLan, DetectLan(s)
  PROVE  SettledInv' /\ NumbersKept
<1>1. PICK new \in SetsOfNew({s}, list) :
        /\ Build({s}, {})
        /\ list' = list \cup new
        /\ isRefreshing' = isRefreshing \cup {s}
        /\ CountKinds({}, new, {})
        /\ CountStates({}, new, new)
  BY DEF DetectLan, Announced
<1>2. /\ new \subseteq {s}
      /\ new \cap list = {}
  BY <1>1, NewOnTheList DEF ListInv, OneEntryPerAddress
<1>3. s \notin alive /\ s \notin list
  BY <1>1 DEF ListInv, TypeOK, Build
<1>4. \A t \in new : t \notin isRefreshing /\ players[t] = {}
  BY <1>2, <1>3 DEF ListInv, SettledInv, TypeOK, UnbornAreBlank, Servers
<1>5. \A t \in list : t \in isRefreshing' <=> t \in isRefreshing \cup new
  BY <1>1, <1>2, <1>3
<1>6. /\ new \in SUBSET Servers
      /\ players' = players
      /\ list' = (list \ {}) \cup new
      /\ new \subseteq isRefreshing'
      /\ new \cap isRefreshing = {}
      /\ new \in SUBSET ((list \ {}) \cup new)
  BY <1>1, <1>2, <1>4 DEF Build, Servers
<1>7. ServersOff' = ServersOff
  BY <1>1, <1>2, <1>6, ServersFollow DEF ListInv
<1>8. /\ RefreshingOff' = RefreshingOff
      /\ PlayersOff' = PlayersOff
      /\ CountedAreSettled'
  BY <1>1, <1>2, <1>4, <1>5, <1>6, StatesFollow DEF ListInv, SettledInv
<1>9. UnbornAreBlank'
  BY <1>1 DEF SettledInv, UnbornAreBlank, Build
<1> QED
  BY <1>7, <1>8, <1>9 DEF SettledInv, NumbersKept

(* Servers leave the list and of those that stay some begin to refresh.    *)
LEMMA LeavingStep ==
  ASSUME ListInv, SettledInv, NEW gone \in SUBSET list, NEW begun \in SUBSET (list \ gone),
         begun \cap isRefreshing = {},
         list' = list \ gone, isRefreshing' = isRefreshing \cup begun,
         UNCHANGED <<alive, players>>,
         CountKinds(gone, {}, {}), CountStates(gone, {}, begun)
  PROVE  SettledInv' /\ NumbersKept
<1>1. /\ list' = (list \ gone) \cup {}
      /\ {} \in SUBSET Servers
      /\ {} \cap list = {}
      /\ begun \in SUBSET ((list \ gone) \cup {})
      /\ \A s \in {} : s \notin isRefreshing /\ players[s] = {}
      /\ \A s \in list \ gone : s \in isRefreshing' <=> s \in isRefreshing \cup begun
  OBVIOUS
<1>2. ServersOff' = ServersOff
  BY <1>1, ServersFollow DEF ListInv
<1>3. /\ RefreshingOff' = RefreshingOff
      /\ PlayersOff' = PlayersOff
      /\ CountedAreSettled'
  BY <1>1, StatesFollow DEF ListInv, SettledInv
<1>4. UnbornAreBlank'
  BY DEF SettledInv, UnbornAreBlank
<1> QED
  BY <1>2, <1>3, <1>4 DEF SettledInv, NumbersKept

(* A LAN server is lost that is listed, or one that is not: the tracker    *)
(* subtracts it, too, and its refresh or its players.                      *)
LEMMA LoseLanStep ==
  ASSUME ListInv, SettledInv, NEW s \in FromLan, LoseLan(s)
  PROVE  SettledInv' /\ FollowsTheList
<1>1. /\ s \in found
      /\ found' = found \ {s}
      /\ list' = list \ {s}
      /\ UNCHANGED <<alive, custom, isRefreshing, players>>
      /\ CountKinds({s}, {}, {})
      /\ CountStates({s}, {}, {})
  BY DEF LoseLan, serverVars
<1>2. CASE s \in list
  <2>1. /\ {s} \in SUBSET list
        /\ {} \in SUBSET (list \ {s})
        /\ {} \cap isRefreshing = {}
        /\ list' = list \ {s}
        /\ isRefreshing' = isRefreshing \cup {}
    BY <1>1, <1>2
  <2>2. ~LosesUnlisted
    BY <1>1, <1>2 DEF LosesUnlisted
  <2> QED
    BY <1>1, <2>1, <2>2, LeavingStep DEF NumbersKept, FollowsTheList,
       ServersFollowed, RefreshesFollowed, PlayersFollowed
<1>3. CASE s \notin list
  <2>1. LosesUnlisted
    BY <1>1, <1>3 DEF LosesUnlisted
  <2>2. list' = list
    BY <1>1, <1>3
  <2>3. s \in Servers /\ {} \in SUBSET Servers /\ {s} \in SUBSET Servers
    BY DEF Servers
  <2>4. /\ numServers \in Int /\ numRefreshing \in Int /\ numPlayers \in Int
        /\ list \in SUBSET Servers
        /\ players \in [Servers -> SUBSET Players]
        /\ countedServers = list \ isRefreshing
    BY DEF ListInv, TypeOK, SettledInv, CountedAreSettled
  <2>5. /\ Cardinality({s}) = 1
        /\ Cardinality({}) = 0
        /\ Cardinality(PlayersOn({}, players)) = 0
    BY FS_Singleton, FS_EmptySet, BlankServers
  <2>6. ServersOff' = ServersOff - 1
    <3>1. numServers' = numServers - Cardinality({s}) + Cardinality({})
      BY <1>1 DEF CountKinds
    <3>2. Cardinality(list) \in Nat
      BY <2>4, ServersAreFinite
    <3> QED
      BY <2>2, <2>4, <2>5, <3>1, <3>2 DEF ServersOff
  <2>7. /\ countedServers' = countedServers
        /\ numRefreshing' = numRefreshing - Cardinality({s} \cap isRefreshing)
                              + Cardinality({}) + Cardinality({})
        /\ numPlayers' = numPlayers - Cardinality(PlayersOn(Discounted({s}), players))
                           + Cardinality(PlayersOn({}, players))
                           - Cardinality(PlayersOn({}, players))
    <3>1. ({} \cap isRefreshing') \ {} = {} /\ {} \ {} = {}
      OBVIOUS
    <3>2. countedServers' = (StillCounted({s}) \cup ({} \ ({} \cap isRefreshing'))) \ {}
      BY <1>1 DEF CountStates
    <3>3. countedServers' = countedServers
      BY <1>3, <2>4, <3>2 DEF StillCounted
    <3> QED
      BY <1>1, <3>1, <3>3 DEF CountStates
  <2>8. RefreshingOff' \leq RefreshingOff
    <3>1. /\ Cardinality({s} \cap isRefreshing) \in Nat
          /\ Cardinality(list \cap isRefreshing) \in Nat
      BY <2>3, <2>4, ServersAreFinite
    <3>2. list' \cap isRefreshing' = list \cap isRefreshing
      BY <1>1, <2>2
    <3>3. RefreshingOff' = numRefreshing' - Cardinality(list \cap isRefreshing)
      BY <3>2 DEF RefreshingOff
    <3>4. RefreshingOff = numRefreshing - Cardinality(list \cap isRefreshing)
      BY DEF RefreshingOff
    <3> QED
      BY <2>4, <2>5, <2>7, <3>1, <3>3, <3>4
  <2>9. PlayersOff' \leq PlayersOff
    <3>1. /\ Cardinality(PlayersOn(Discounted({s}), players)) \in Nat
          /\ Cardinality(PlayersOn(list \ isRefreshing, players)) \in Nat
      BY <2>3, <2>4, PlayersAreFinite DEF Discounted
    <3>2. PlayersOn(list' \ isRefreshing', players') = PlayersOn(list \ isRefreshing, players)
      BY <1>1, <2>2
    <3> QED
      BY <2>4, <2>5, <2>7, <3>1, <3>2 DEF PlayersOff
  <2>10. SettledInv'
    BY <1>1, <2>2, <2>4, <2>7 DEF SettledInv, CountedAreSettled, UnbornAreBlank
  <2> QED
    BY <2>1, <2>6, <2>8, <2>9, <2>10 DEF FollowsTheList,
       ServersFollowed, RefreshesFollowed, PlayersFollowed
<1> QED
  BY <1>2, <1>3

LEMMA GetServersStep ==
  ASSUME ListInv, SettledInv, GetServers
  PROVE  SettledInv' /\ NumbersKept
<1> DEFINE gone == Generic(list, custom)
<1>1. PICK begun \in Accepted({}, list \ gone) :
        /\ list' = list \ gone
        /\ isRefreshing' = isRefreshing \cup begun
        /\ CountKinds(gone, {}, {})
        /\ CountStates(gone, {}, begun)
        /\ UNCHANGED <<alive, custom, players, found>>
  BY DEF GetServers
<1>2. /\ gone \in SUBSET list
      /\ begun \in SUBSET (list \ gone)
      /\ begun \cap isRefreshing = {}
  BY <1>1 DEF Accepted, Generic
<1> HIDE DEF gone
<1> QED
  BY <1>1, <1>2, LeavingStep

LEMMA RefreshSelectedStep ==
  ASSUME ListInv, SettledInv, NEW S \in SUBSET Servers, RefreshSelected(S)
  PROVE  SettledInv' /\ NumbersKept
<1>1. PICK begun \in Accepted({}, S) :
        /\ S \subseteq list
        /\ isRefreshing' = isRefreshing \cup begun
        /\ CountStates({}, {}, begun)
        /\ UNCHANGED <<alive, custom, players, list, found, kindVars>>
  BY DEF RefreshSelected
<1>2. /\ {} \in SUBSET list
      /\ {} \in SUBSET Servers
      /\ {} \cap list = {}
      /\ begun \in SUBSET ((list \ {}) \cup {})
      /\ begun \cap isRefreshing = {}
      /\ list' = (list \ {}) \cup {}
      /\ begun \subseteq isRefreshing'
      /\ players' = players
      /\ \A s \in {} : s \notin isRefreshing /\ players[s] = {}
      /\ \A s \in list \ {} : s \in isRefreshing' <=> s \in isRefreshing \cup begun
  BY <1>1 DEF Accepted
<1>3. /\ RefreshingOff' = RefreshingOff
      /\ PlayersOff' = PlayersOff
      /\ CountedAreSettled'
  BY <1>1, <1>2, StatesFollow DEF ListInv, SettledInv
<1>4. ServersOff' = ServersOff /\ UnbornAreBlank'
  BY <1>1 DEF SettledInv, ServersOff, UnbornAreBlank, kindVars
<1> QED
  BY <1>3, <1>4 DEF SettledInv, NumbersKept

LEMMA TogglePinsStep ==
  ASSUME SettledInv, NEW S \in SUBSET Servers, NEW toggleTo \in BOOLEAN, TogglePins(S, toggleTo)
  PROVE  SettledInv' /\ NumbersKept
BY DEF TogglePins, SettledInv, CountedAreSettled, UnbornAreBlank, NumbersKept, ServersOff,
   RefreshingOff, PlayersOff, kindVars, stateVars

(* The players on servers other than s are not those on s.                 *)
LEMMA OthersUntouched ==
  ASSUME NEW S, NEW on, NEW others, \A t \in S : on[t] = others[t]
  PROVE  PlayersOn(S, on) = PlayersOn(S, others)
BY DEF PlayersOn

(* The refresh of a server ends: if it is listed, it counts from now on.   *)
LEMMA RefreshStopsStep ==
  ASSUME ListInv, SettledInv, NEW s \in Servers, NEW playing \in SUBSET Players, RefreshStops(s, playing)
  PROVE  SettledInv' /\ NumbersKept
<1> DEFINE settled == list \ isRefreshing
<1>1. /\ s \in isRefreshing
      /\ isRefreshing' = isRefreshing \ {s}
      /\ players' = [players EXCEPT ![s] = playing]
      /\ CountUpdated(s)
      /\ UNCHANGED <<alive, custom, list, found, kindVars>>
  BY DEF RefreshStops
<1>2. /\ list \in SUBSET Servers
      /\ settled \in SUBSET Servers
      /\ players \in [Servers -> SUBSET Players]
      /\ players' \in [Servers -> SUBSET Players]
      /\ numRefreshing \in Int
      /\ numPlayers \in Int
      /\ countedServers = settled
  BY <1>1 DEF ListInv, SettledInv, TypeOK, CountedAreSettled
<1>3. PlayersOn(settled, players') = PlayersOn(settled, players)
  <2>1. \A t \in settled : players'[t] = players[t]
    BY <1>1, <1>2
  <2> HIDE DEF settled
  <2> QED
    BY <2>1, OthersUntouched
<1>4. /\ PlayersOff = numPlayers - Cardinality(PlayersOn(settled, players))
      /\ RefreshingOff = numRefreshing - Cardinality(list \cap isRefreshing)
  BY DEF PlayersOff, RefreshingOff
<1>5. /\ RefreshingOff' = RefreshingOff
      /\ PlayersOff' = PlayersOff
      /\ CountedAreSettled'
  <2>1. CASE s \notin list
    <3>1. UNCHANGED stateVars
      BY <1>1, <2>1 DEF CountUpdated
    <3>2. list \cap isRefreshing' = list \cap isRefreshing /\ list \ isRefreshing' = settled
      BY <1>1, <2>1
    <3> QED
      BY <1>1, <1>2, <1>3, <1>4, <3>1, <3>2
      DEF stateVars, RefreshingOff, PlayersOff, CountedAreSettled
  <2>2. CASE s \in list
    <3>1. /\ countedServers' = countedServers \cup {s}
          /\ numPlayers' = numPlayers + Cardinality(PlayersOn({s}, players'))
          /\ numRefreshing' = numRefreshing - 1
      BY <1>1, <1>2, <2>2 DEF CountUpdated, Ignored
    <3>2. /\ list \cap isRefreshing' = (list \cap isRefreshing) \ {s}
          /\ list \ isRefreshing' = (settled \ {}) \cup {s}
      BY <1>1, <2>2
    <3>3. Cardinality((list \cap isRefreshing) \ {s}) = Cardinality(list \cap isRefreshing) - 1
      <4>1. IsFiniteSet(list \cap isRefreshing) /\ s \in list \cap isRefreshing
        BY <1>1, <1>2, <2>2, ServersAreFinite
      <4> QED
        BY <4>1, FS_RemoveElement
    <3>4. Cardinality(PlayersOn((settled \ {}) \cup {s}, players'))
            = Cardinality(PlayersOn(settled, players')) - Cardinality(PlayersOn({}, players'))
                + Cardinality(PlayersOn({s}, players'))
      <4>1. /\ {} \in SUBSET settled
            /\ {s} \in SUBSET Servers
            /\ {s} \cap (settled \ {}) = {}
        BY <1>1
      <4> QED
        BY <1>2, <4>1, PlayersSwap
    <3>5. /\ Cardinality(PlayersOn({}, players')) = 0
          /\ Cardinality(PlayersOn({s}, players')) \in Nat
          /\ Cardinality(PlayersOn(settled, players)) \in Nat
      BY <1>2, BlankServers, PlayersAreFinite
    <3>6. RefreshingOff' = RefreshingOff
      <4>1. Cardinality(list \cap isRefreshing) \in Nat
        BY <1>2, ServersAreFinite
      <4>2. list' \cap isRefreshing' = (list \cap isRefreshing) \ {s}
        BY <1>1, <3>2
      <4>3. RefreshingOff' = numRefreshing' - Cardinality((list \cap isRefreshing) \ {s})
        BY <4>2 DEF RefreshingOff
      <4> QED
        BY <1>2, <1>4, <3>1, <3>3, <4>1, <4>3
    <3>7. numPlayers' - Cardinality(PlayersOn((settled \ {}) \cup {s}, players')) = PlayersOff
      <4> HIDE DEF settled
      <4> QED
        BY <1>2, <1>3, <1>4, <3>1, <3>4, <3>5
    <3>8. PlayersOff' = PlayersOff
      BY <1>1, <3>2, <3>7 DEF PlayersOff
    <3>9. CountedAreSettled'
      BY <1>1, <1>2, <3>1, <3>2 DEF CountedAreSettled
    <3> QED
      BY <1>2, <3>1, <3>5, <3>6, <3>8, <3>9
  <2> QED
    BY <2>1, <2>2
<1>6. ServersOff' = ServersOff /\ UnbornAreBlank'
  BY <1>1 DEF ListInv, SettledInv, TypeOK, ServersOff, UnbornAreBlank, kindVars
<1> QED
  BY <1>5, <1>6 DEF SettledInv, NumbersKept

LEMMA StutterStep ==
  ASSUME SettledInv, UNCHANGED <<alive, isRefreshing, players, list, kindVars, stateVars>>
  PROVE  SettledInv' /\ NumbersKept
BY DEF SettledInv, CountedAreSettled, UnbornAreBlank, NumbersKept, ServersOff, RefreshingOff,
   PlayersOff, kindVars, stateVars

(* One more signal changes nothing: a listed server that is not refreshing *)
(* is counted already.                                                     *)
LEMMA UpdatedAgainStep ==
  ASSUME SettledInv, NEW s \in Servers, UpdatedAgain(s)
  PROVE  SettledInv' /\ NumbersKept
<1>1. UNCHANGED stateVars
  BY DEF UpdatedAgain, MayUpdate, CountUpdated, Ignored, SettledInv, CountedAreSettled
<1>2. UNCHANGED <<alive, isRefreshing, players, list, kindVars, stateVars>>
  BY <1>1 DEF UpdatedAgain, serverVars
<1> QED
  BY <1>2, StutterStep

LEMMA DestroyStep ==
  ASSUME ListInv, SettledInv, NEW s \in Servers, Destroy(s)
  PROVE  SettledInv' /\ NumbersKept
<1>1. /\ s \notin list
      /\ alive' = alive \ {s}
      /\ isRefreshing' = isRefreshing \ {s}
      /\ players' = [players EXCEPT ![s] = {}]
      /\ UNCHANGED <<list, found, kindVars, stateVars>>
  BY DEF Destroy
<1>2. players \in [Servers -> SUBSET Players] /\ list \subseteq Servers
  BY DEF ListInv, TypeOK
<1>3. /\ list \cap isRefreshing' = list \cap isRefreshing
      /\ list \ isRefreshing' = list \ isRefreshing
  BY <1>1
<1>4. PlayersOn(list \ isRefreshing, players') = PlayersOn(list \ isRefreshing, players)
  BY <1>1, <1>2, OthersUntouched
<1>5. NumbersKept
  BY <1>1, <1>3, <1>4 DEF NumbersKept, ServersOff, RefreshingOff, PlayersOff, kindVars, stateVars
<1>6. CountedAreSettled'
  BY <1>1, <1>3 DEF SettledInv, CountedAreSettled, stateVars
<1>7. UnbornAreBlank'
  BY <1>1, <1>2 DEF SettledInv, UnbornAreBlank
<1> QED
  BY <1>5, <1>6, <1>7 DEF SettledInv

-----------------------------------------------------------------------------
(* No step but the loss of a LAN server takes one from those found.        *)
LEMMA OthersFollow ==
  ASSUME NumbersKept, found \subseteq found'
  PROVE  FollowsTheList
BY DEF NumbersKept, FollowsTheList,
       ServersFollowed, RefreshesFollowed, PlayersFollowed, LosesUnlisted

LEMMA NextFollows == ListInv /\ SettledInv /\ [Next]_vars => SettledInv' /\ FollowsTheList
<1> SUFFICES ASSUME ListInv, SettledInv, [Next]_vars PROVE SettledInv' /\ FollowsTheList
  OBVIOUS
<1>1. CASE \E S \in SUBSET FromMaster : FinishMaster(S)
  <2>1. found \subseteq found'
    BY <1>1 DEF FinishMaster
  <2> QED
    BY <1>1, <2>1, FinishMasterStep, OthersFollow
<1>2. CASE \E S \in SUBSET FromConfig : ReadConfig(S)
  <2>1. found \subseteq found'
    BY <1>2 DEF ReadConfig
  <2> QED
    BY <1>2, <2>1, ReadConfigStep, OthersFollow
<1>3. CASE \E s \in FromLan : DetectLan(s)
  <2>1. found \subseteq found'
    BY <1>3 DEF DetectLan
  <2> QED
    BY <1>3, <2>1, DetectLanStep, OthersFollow
<1>4. CASE \E s \in FromLan : LoseLan(s)
  BY <1>4, LoseLanStep
<1>5. CASE GetServers
  <2>1. found \subseteq found'
    BY <1>5 DEF GetServers
  <2> QED
    BY <1>5, <2>1, GetServersStep, OthersFollow
<1>6. CASE \E S \in SUBSET Servers : RefreshSelected(S)
  <2>1. found \subseteq found'
    BY <1>6 DEF RefreshSelected
  <2> QED
    BY <1>6, <2>1, RefreshSelectedStep, OthersFollow
<1>7. CASE \E S \in SUBSET Servers, toggleTo \in BOOLEAN : TogglePins(S, toggleTo)
  <2>1. found \subseteq found'
    BY <1>7 DEF TogglePins
  <2> QED
    BY <1>7, <2>1, TogglePinsStep, OthersFollow
<1>8. CASE \E s \in Servers, playing \in SUBSET Players : RefreshStops(s, playing)
  <2>1. found \subseteq found'
    BY <1>8 DEF RefreshStops
  <2> QED
    BY <1>8, <2>1, RefreshStopsStep, OthersFollow
<1>9. CASE \E s \in Servers : UpdatedAgain(s)
  <2>1. found \subseteq found'
    BY <1>9 DEF UpdatedAgain
  <2> QED
    BY <1>9, <2>1, UpdatedAgainStep, OthersFollow
<1>10. CASE \E s \in Servers : Destroy(s)
  <2>1. found \subseteq found'
    BY <1>10 DEF Destroy
  <2> QED
    BY <1>10, <2>1, DestroyStep, OthersFollow
<1>11. CASE UNCHANGED vars
  <2>1. /\ found \subseteq found'
        /\ UNCHANGED <<alive, isRefreshing, players, list, kindVars, stateVars>>
    BY <1>11 DEF vars, serverVars
  <2> QED
    BY <2>1, StutterStep, OthersFollow
<1> QED
  BY <1>1, <1>2, <1>3, <1>4, <1>5, <1>6, <1>7, <1>8, <1>9, <1>10, <1>11 DEF Next

(* The players counted are those of the listed servers at rest, whether or *)
(* not the numbers are right.                                              *)
LEMMA SettledInvariant == Spec => []SettledInv
<1>1. ListInv /\ SettledInv /\ [Next]_vars => SettledInv'
  BY NextFollows
<1> QED
  BY InitSettled, <1>1, ListInvariant, PTL DEF Spec

(* In every step but one the numbers of the status bar follow the list,    *)
(* whatever servers share their addresses and whatever flags are toggled.  *)
THEOREM NumbersAreFollowed ==
  Spec => ServersTracked /\ RefreshesTracked /\ PlayersTracked
<1>1. ListInv /\ SettledInv /\ [Next]_vars
        => [ServersFollowed]_vars /\ [RefreshesFollowed]_vars /\ [PlayersFollowed]_vars
  BY NextFollows DEF FollowsTheList
<1> QED
  BY <1>1, ListInvariant, SettledInvariant, PTL
     DEF Spec, ServersTracked, RefreshesTracked, PlayersTracked

LEMMA InitNumbers == Init => ServersOff = 0 /\ RefreshingOff = 0 /\ PlayersOff = 0
<1> SUFFICES ASSUME Init PROVE ServersOff = 0 /\ RefreshingOff = 0 /\ PlayersOff = 0
  OBVIOUS
<1>1. /\ PlayersOn(list \ isRefreshing, players) = {}
      /\ list = {}
      /\ list \cap isRefreshing = {}
      /\ numServers = 0 /\ numRefreshing = 0 /\ numPlayers = 0
  BY DEF Init, PlayersOn
<1> QED
  BY <1>1, FS_EmptySet DEF ServersOff, RefreshingOff, PlayersOff

(* The offsets are numbers, and 0 if the status bar is right.              *)
OffsetsDecide ==
  /\ ServersOff \in Int /\ RefreshingOff \in Int /\ PlayersOff \in Int
  /\ ServersOff = 0 <=> ServersCounted
  /\ RefreshingOff = 0 <=> RefreshingCounted
  /\ PlayersOff = 0 <=> PlayersCounted

LEMMA OffsetsAreNumbers == (ListInv => OffsetsDecide) /\ (ListInv' => OffsetsDecide')
<1>1. ASSUME ListInv PROVE OffsetsDecide
  <2>1. /\ list \in SUBSET Servers
        /\ players \in [Servers -> SUBSET Players]
        /\ numServers \in Int /\ numRefreshing \in Int /\ numPlayers \in Int
    BY <1>1 DEF ListInv, TypeOK
  <2>2. /\ Cardinality(list) \in Nat
        /\ Cardinality(list \cap isRefreshing) \in Nat
        /\ Cardinality(PlayersOn(list \ isRefreshing, players)) \in Nat
    BY <2>1, ServersAreFinite, PlayersAreFinite
  <2> QED
    BY <2>1, <2>2 DEF OffsetsDecide, ServersOff, RefreshingOff, PlayersOff, ServersCounted,
       RefreshingCounted, PlayersCounted
<1>2. ListInv => OffsetsDecide
  BY <1>1
<1> QED
  BY <1>2, PTL

NeverTooHigh == ServersOff \leq 0 /\ RefreshingOff \leq 0 /\ PlayersOff \leq 0

(* The numbers are too low if they are wrong: the status bar never shows   *)
(* more servers, refreshes or players than there are on the list.          *)
THEOREM NumbersAreNotTooHigh == Spec => []NeverTooHigh
<1>1. Init => NeverTooHigh
  BY InitNumbers DEF NeverTooHigh
<1>2. ListInv /\ ListInv' /\ SettledInv /\ NeverTooHigh /\ [Next]_vars => NeverTooHigh'
  <2> SUFFICES ASSUME ListInv, ListInv', SettledInv, NeverTooHigh, [Next]_vars
               PROVE  NeverTooHigh'
    OBVIOUS
  <2>1. FollowsTheList
    BY NextFollows
  <2> QED
    BY <2>1, OffsetsAreNumbers DEF OffsetsDecide, FollowsTheList,
       ServersFollowed, RefreshesFollowed, PlayersFollowed, NeverTooHigh
<1> QED
  BY <1>1, <1>2, ListInvariant, SettledInvariant, PTL DEF Spec

(* Only the loss of an unlisted LAN server makes the number of servers     *)
(* wrong: it is right for ever exactly if that never happens.              *)
THEOREM StatusBarIsRight == Spec => ([]ServersCounted <=> [][~LosesUnlisted]_vars)
<1>1. Init => ServersCounted
  <2>1. Init => ServersOff = 0 /\ ListInv
    BY InitNumbers, InitListInv
  <2> QED
    BY <2>1, OffsetsAreNumbers DEF OffsetsDecide
<1>2. ListInv /\ ListInv' /\ SettledInv /\ ServersCounted /\ [Next]_vars /\ [~LosesUnlisted]_vars
        => ServersCounted'
  <2> SUFFICES ASSUME ListInv, ListInv', SettledInv, ServersOff = 0, [Next]_vars,
                      [~LosesUnlisted]_vars
               PROVE  ServersOff' = 0
    BY OffsetsAreNumbers DEF OffsetsDecide
  <2>1. FollowsTheList
    BY NextFollows
  <2>2. ~LosesUnlisted
    BY DEF LosesUnlisted, vars
  <2> QED
    BY <2>1, <2>2 DEF FollowsTheList,
       ServersFollowed, RefreshesFollowed, PlayersFollowed
<1>3. ListInv /\ ListInv' /\ SettledInv /\ ServersCounted /\ ServersCounted' /\ [Next]_vars
        => [~LosesUnlisted]_vars
  <2> SUFFICES ASSUME ListInv, ListInv', SettledInv, ServersOff = 0, ServersOff' = 0, [Next]_vars
               PROVE  ~LosesUnlisted
    BY OffsetsAreNumbers DEF OffsetsDecide
  <2>1. FollowsTheList
    BY NextFollows
  <2> QED
    BY <2>1 DEF FollowsTheList,
       ServersFollowed, RefreshesFollowed, PlayersFollowed
<1> QED
  BY <1>1, <1>2, <1>3, ListInvariant, SettledInvariant, PTL DEF Spec

(* Nor does any other step make the numbers of refreshing servers and of   *)
(* players wrong.                                                          *)
THEOREM RefreshesAreRight ==
  Spec /\ [][~LosesUnlisted]_vars => [](RefreshingCounted /\ PlayersCounted)
<1>1. Init => RefreshingCounted /\ PlayersCounted
  <2>1. Init => RefreshingOff = 0 /\ PlayersOff = 0 /\ ListInv
    BY InitNumbers, InitListInv
  <2> QED
    BY <2>1, OffsetsAreNumbers DEF OffsetsDecide
<1>2. /\ ListInv /\ ListInv' /\ SettledInv
      /\ RefreshingCounted /\ PlayersCounted
      /\ [Next]_vars /\ [~LosesUnlisted]_vars
      => RefreshingCounted' /\ PlayersCounted'
  <2> SUFFICES ASSUME ListInv, ListInv', SettledInv, RefreshingOff = 0, PlayersOff = 0,
                      [Next]_vars, [~LosesUnlisted]_vars
               PROVE  RefreshingOff' = 0 /\ PlayersOff' = 0
    BY OffsetsAreNumbers DEF OffsetsDecide
  <2>1. FollowsTheList
    BY NextFollows
  <2>2. ~LosesUnlisted
    BY DEF LosesUnlisted, vars
  <2> QED
    BY <2>1, <2>2 DEF FollowsTheList,
       ServersFollowed, RefreshesFollowed, PlayersFollowed
<1> QED
  BY <1>1, <1>2, ListInvariant, SettledInvariant, PTL DEF Spec

-----------------------------------------------------------------------------
(* The numbers of each kind                                                *)

(* Each number follows the servers of its kind, if those that stay keep    *)
(* their flags and the new ones are counted with the flags they get.       *)
LEMMA EachKindFollows ==
  ASSUME ListInv,
         NEW gone \in SUBSET list, NEW new \in SUBSET Servers, new \cap list = {},
         NEW flagged,
         list' = (list \ gone) \cup new,
         \A s \in new : s \in custom' <=> s \in flagged,
         CountKinds(gone, new, flagged)
  PROVE  FollowKinds
<1>1. /\ list \in SUBSET Servers
      /\ numGenericServers \in Int /\ numLanServers \in Int /\ numCustomServers \in Int
  BY DEF ListInv, TypeOK
<1>2. LanOff' = LanOff
  <2> DEFINE A == Lan(list)
             B == Lan(gone)
             C == Lan(new)
  <2>1. /\ IsFiniteSet(A) /\ IsFiniteSet(C)
        /\ B \subseteq A
        /\ C \cap (A \ B) = {}
    BY <1>1, ServersAreFinite DEF Lan
  <2>2. Cardinality(A) \in Nat /\ Cardinality(B) \in Nat /\ Cardinality(C) \in Nat
    BY <1>1, ServersAreFinite DEF Lan
  <2>3. Lan(list') = (A \ B) \cup C
    BY DEF Lan
  <2>4. numLanServers' = numLanServers - Cardinality(B) + Cardinality(C)
    BY DEF CountKinds
  <2>5. /\ LanOff = numLanServers - Cardinality(A)
        /\ LanOff' = numLanServers' - Cardinality((A \ B) \cup C)
    BY <2>3 DEF LanOff
  <2> HIDE DEF A, B, C
  <2>6. Cardinality((A \ B) \cup C) = Cardinality(A) - Cardinality(B) + Cardinality(C)
    BY <2>1, SwapCounts
  <2> QED
    BY <1>1, <2>2, <2>4, <2>5, <2>6
<1>3. ASSUME ~FlagChanges PROVE GenericOff' = GenericOff
  <2> DEFINE A == Generic(list, custom)
             B == Generic(gone, custom)
             C == Generic(new, flagged)
  <2>1. /\ IsFiniteSet(A) /\ IsFiniteSet(C)
        /\ B \subseteq A
        /\ C \cap (A \ B) = {}
    BY <1>1, ServersAreFinite DEF Generic
  <2>2. Cardinality(A) \in Nat /\ Cardinality(B) \in Nat /\ Cardinality(C) \in Nat
    BY <1>1, ServersAreFinite DEF Generic
  <2>3. Generic(list', custom') = (A \ B) \cup C
    <3>1. \A s \in list \ gone : s \in custom' <=> s \in custom
      BY <1>3 DEF FlagChanges
    <3> QED
      BY <3>1 DEF Generic
  <2>4. numGenericServers' = numGenericServers - Cardinality(B) + Cardinality(C)
    BY DEF CountKinds
  <2>5. /\ GenericOff = numGenericServers - Cardinality(A)
        /\ GenericOff' = numGenericServers' - Cardinality((A \ B) \cup C)
    BY <2>3 DEF GenericOff
  <2> HIDE DEF A, B, C
  <2>6. Cardinality((A \ B) \cup C) = Cardinality(A) - Cardinality(B) + Cardinality(C)
    BY <2>1, SwapCounts
  <2> QED
    BY <1>1, <2>2, <2>4, <2>5, <2>6
<1>4. ASSUME ~FlagChanges PROVE CustomOff' = CustomOff
  <2> DEFINE A == list \cap custom
             B == gone \cap custom
             C == new \cap flagged
  <2>1. /\ IsFiniteSet(A) /\ IsFiniteSet(C)
        /\ B \subseteq A
        /\ C \cap (A \ B) = {}
    BY <1>1, ServersAreFinite
  <2>2. Cardinality(A) \in Nat /\ Cardinality(B) \in Nat /\ Cardinality(C) \in Nat
    BY <1>1, ServersAreFinite
  <2>3. list' \cap custom' = (A \ B) \cup C
    <3>1. \A s \in list \ gone : s \in custom' <=> s \in custom
      BY <1>4 DEF FlagChanges
    <3> QED
      BY <3>1
  <2>4. numCustomServers' = numCustomServers - Cardinality(B) + Cardinality(C)
    BY DEF CountKinds
  <2>5. /\ CustomOff = numCustomServers - Cardinality(A)
        /\ CustomOff' = numCustomServers' - Cardinality((A \ B) \cup C)
    BY <2>3 DEF CustomOff
  <2> HIDE DEF A, B, C
  <2>6. Cardinality((A \ B) \cup C) = Cardinality(A) - Cardinality(B) + Cardinality(C)
    BY <2>1, SwapCounts
  <2> QED
    BY <1>1, <2>2, <2>4, <2>5, <2>6
<1> QED
  BY <1>2, <1>3, <1>4 DEF FollowKinds

LEMMA FinishMasterKinds ==
  ASSUME ListInv, NEW S \in SUBSET FromMaster, FinishMaster(S)
  PROVE  FollowKinds
<1>1. PICK new \in SetsOfNew(S, list) :
        /\ Build(S, {})
        /\ list' = list \cup new
        /\ CountKinds({}, new, {})
  BY DEF FinishMaster, Announced
<1>2. new \subseteq S /\ new \cap list = {}
  BY <1>1, NewOnTheList DEF ListInv, OneEntryPerAddress
<1>3. /\ {} \in SUBSET list
      /\ new \in SUBSET Servers
      /\ list' = (list \ {}) \cup new
      /\ \A s \in new : s \in custom' <=> s \in {}
  BY <1>1, <1>2 DEF Build, ListInv, TypeOK, Servers
<1> QED
  BY <1>1, <1>2, <1>3, EachKindFollows

(* New servers are counted as custom; those that are merged change kind.   *)
LEMMA ReadConfigKinds ==
  ASSUME ListInv, NEW S \in SUBSET FromConfig, ReadConfig(S)
  PROVE  FollowKinds
<1> DEFINE gone == list \cap custom
           kept == list \ gone
           same == {s \in kept : AddressOf[s] \in Addresses(S)}
<1>1. PICK new \in SetsOfNew(S, kept) :
        /\ Build(S, S \cup same)
        /\ list' = kept \cup new
        /\ CountKinds(gone, new, S)
  BY DEF ReadConfig, Announced
<1>2. \A s, t \in kept : AddressOf[s] = AddressOf[t] => s = t
  BY DEF ListInv, OneEntryPerAddress
<1>3. new \subseteq S
  <2> HIDE DEF kept
  <2> QED
    BY <1>1, <1>2, NewOnTheList
<1>4. /\ gone \in SUBSET list
      /\ new \in SUBSET Servers
      /\ new \cap list = {}
      /\ list' = (list \ gone) \cup new
      /\ \A s \in new : s \in custom' <=> s \in S
  <2>1. custom' = custom \cup (S \cup same)
    BY <1>1 DEF Build
  <2>2. /\ S \cap alive = {}
        /\ list \subseteq alive
        /\ S \subseteq Servers
    BY <1>1 DEF Build, ListInv, TypeOK, Servers
  <2> QED
    BY <1>1, <1>3, <2>1, <2>2
<1>5. CountKinds(gone, new, S)
  BY <1>1
<1> HIDE DEF gone
<1> QED
  BY <1>4, <1>5, EachKindFollows

LEMMA DetectLanKinds ==
  ASSUME ListInv, NEW s \in FromLan, DetectLan(s)
  PROVE  FollowKinds
<1>1. PICK new \in SetsOfNew({s}, list) :
        /\ Build({s}, {})
        /\ list' = list \cup new
        /\ CountKinds({}, new, {})
  BY DEF DetectLan, Announced
<1>2. new \subseteq {s} /\ new \cap list = {}
  BY <1>1, NewOnTheList DEF ListInv, OneEntryPerAddress
<1>3. /\ {} \in SUBSET list
      /\ new \in SUBSET Servers
      /\ list' = (list \ {}) \cup new
      /\ \A t \in new : t \in custom' <=> t \in {}
  BY <1>1, <1>2 DEF Build, ListInv, TypeOK, Servers
<1> QED
  BY <1>1, <1>2, <1>3, EachKindFollows

(* Servers leave the list, and nothing else is counted.                    *)
LEMMA LeavingKinds ==
  ASSUME ListInv, NEW gone \in SUBSET list, list' = list \ gone, CountKinds(gone, {}, {})
  PROVE  FollowKinds
<1>1. /\ {} \in SUBSET Servers
      /\ {} \cap list = {}
      /\ list' = (list \ gone) \cup {}
      /\ \A s \in {} : s \in custom' <=> s \in {}
  OBVIOUS
<1> QED
  BY <1>1, EachKindFollows

(* A LAN server that is not listed is never subtracted as a generic one.   *)
LEMMA LoseLanKinds ==
  ASSUME ListInv, NEW s \in FromLan, LoseLan(s)
  PROVE  FollowKinds
<1>1. /\ s \in found /\ s \notin found'
      /\ list' = list \ {s}
      /\ custom' = custom
      /\ CountKinds({s}, {}, {})
  BY DEF LoseLan, serverVars
<1>2. CASE s \in list
  <2>1. {s} \in SUBSET list
    BY <1>2
  <2> QED
    BY <1>1, <2>1, LeavingKinds
<1>3. CASE s \notin list
  <2>1. LosesUnlisted
    BY <1>1, <1>3 DEF LosesUnlisted
  <2>2. /\ Generic({s}, custom) = {}
        /\ Generic({}, {}) = {}
        /\ Generic(list', custom') = Generic(list, custom)
    BY <1>1, <1>3 DEF Generic
  <2>3. numGenericServers' = numGenericServers - Cardinality({}) + Cardinality({})
    BY <1>1, <2>2 DEF CountKinds
  <2>4. numGenericServers' = numGenericServers
    BY <2>3, FS_EmptySet DEF ListInv, TypeOK
  <2> QED
    BY <2>1, <2>2, <2>4 DEF FollowKinds, GenericOff
<1> QED
  BY <1>2, <1>3

LEMMA GetServersKinds == ASSUME ListInv, GetServers PROVE FollowKinds
<1> DEFINE gone == Generic(list, custom)
<1>1. /\ gone \in SUBSET list
      /\ list' = list \ gone
      /\ CountKinds(gone, {}, {})
  BY DEF GetServers, Generic
<1> HIDE DEF gone
<1> QED
  BY <1>1, LeavingKinds

(* Nothing is counted, and the list stays: its flags may change or not.    *)
LEMMA UntouchedKinds ==
  ASSUME UNCHANGED <<list, kindVars>>
  PROVE  FollowKinds
<1>1. LanOff' = LanOff
  BY DEF LanOff, Lan, kindVars
<1>2. CASE FlagChanges
  BY <1>1, <1>2 DEF FollowKinds
<1>3. CASE ~FlagChanges
  <2>1. \A s \in list : s \in custom <=> s \in custom'
    BY <1>3 DEF FlagChanges
  <2>2. Generic(list', custom') = Generic(list, custom) /\ list' \cap custom' = list \cap custom
    BY <2>1 DEF Generic
  <2>3. GenericOff' = GenericOff /\ CustomOff' = CustomOff
    BY <2>2 DEF GenericOff, CustomOff, kindVars
  <2> QED
    BY <1>1, <2>3 DEF FollowKinds
<1> QED
  BY <1>2, <1>3

LEMMA NextFollowsKinds == ListInv /\ [Next]_vars => FollowKinds
<1> SUFFICES ASSUME ListInv, [Next]_vars PROVE FollowKinds
  OBVIOUS
<1>1. CASE \E S \in SUBSET FromMaster : FinishMaster(S)
  BY <1>1, FinishMasterKinds
<1>2. CASE \E S \in SUBSET FromConfig : ReadConfig(S)
  BY <1>2, ReadConfigKinds
<1>3. CASE \E s \in FromLan : DetectLan(s)
  BY <1>3, DetectLanKinds
<1>4. CASE \E s \in FromLan : LoseLan(s)
  BY <1>4, LoseLanKinds
<1>5. CASE GetServers
  BY <1>5, GetServersKinds
<1>6. CASE \E S \in SUBSET Servers : RefreshSelected(S)
  BY <1>6, UntouchedKinds DEF RefreshSelected
<1>7. CASE \E S \in SUBSET Servers, toggleTo \in BOOLEAN : TogglePins(S, toggleTo)
  BY <1>7, UntouchedKinds DEF TogglePins
<1>8. CASE \E s \in Servers, playing \in SUBSET Players : RefreshStops(s, playing)
  BY <1>8, UntouchedKinds DEF RefreshStops
<1>9. CASE \E s \in Servers : UpdatedAgain(s)
  BY <1>9, UntouchedKinds DEF UpdatedAgain
<1>10. CASE \E s \in Servers : Destroy(s)
  BY <1>10, UntouchedKinds DEF Destroy
<1>11. CASE UNCHANGED vars
  BY <1>11, UntouchedKinds DEF vars
<1> QED
  BY <1>1, <1>2, <1>3, <1>4, <1>5, <1>6, <1>7, <1>8, <1>9, <1>10, <1>11 DEF Next

(* No step but a change of a listed server's flag, and the loss of an      *)
(* unlisted LAN server, moves a number away from its kind of servers.      *)
THEOREM KindsAreFollowed == Spec => KindsFollow
<1>1. ListInv /\ [Next]_vars => [FollowKinds]_vars
  BY NextFollowsKinds
<1> QED
  BY <1>1, ListInvariant, PTL DEF Spec, KindsFollow

NoKindIsOff == GenericOff = 0 /\ LanOff = 0 /\ CustomOff = 0

LEMMA KindsDecide ==
  (ListInv => (KindsCounted <=> NoKindIsOff)) /\ (ListInv' => (KindsCounted' <=> NoKindIsOff'))
<1>1. ASSUME ListInv PROVE KindsCounted <=> NoKindIsOff
  <2>1. /\ list \in SUBSET Servers
        /\ numGenericServers \in Int /\ numLanServers \in Int /\ numCustomServers \in Int
    BY <1>1 DEF ListInv, TypeOK
  <2>2. /\ Cardinality(Generic(list, custom)) \in Nat
        /\ Cardinality(Lan(list)) \in Nat
        /\ Cardinality(list \cap custom) \in Nat
    BY <2>1, ServersAreFinite DEF Generic, Lan
  <2> QED
    BY <2>1, <2>2 DEF KindsCounted, NoKindIsOff, GenericOff, LanOff, CustomOff
<1>2. ListInv => (KindsCounted <=> NoKindIsOff)
  BY <1>1
<1> QED
  BY <1>2, PTL

(* The tray icon's numbers of generic, LAN and custom servers are those of *)
(* the list until a flag changes or an unlisted LAN server is lost.        *)
THEOREM KindsAreRight == Spec /\ [][~FlagChanges /\ ~LosesUnlisted]_vars => []KindsCounted
<1>1. Init => KindsCounted
  <2>1. Init => /\ Generic(list, custom) = {}
                /\ Lan(list) = {}
                /\ list \cap custom = {}
    BY DEF Init, Generic, Lan
  <2> QED
    BY <2>1, FS_EmptySet DEF Init, KindsCounted
<1>2. ListInv /\ ListInv' /\ KindsCounted /\ [Next]_vars /\ [~FlagChanges /\ ~LosesUnlisted]_vars
        => KindsCounted'
  <2> SUFFICES ASSUME ListInv, ListInv', NoKindIsOff, [Next]_vars,
                      [~FlagChanges /\ ~LosesUnlisted]_vars
               PROVE  NoKindIsOff'
    BY KindsDecide
  <2>1. FollowKinds
    BY NextFollowsKinds
  <2>2. ~FlagChanges /\ ~LosesUnlisted
    BY DEF FlagChanges, LosesUnlisted, vars, serverVars
  <2> QED
    BY <2>1, <2>2 DEF FollowKinds, NoKindIsOff
<1> QED
  BY <1>1, <1>2, ListInvariant, PTL DEF Spec

=============================================================================
