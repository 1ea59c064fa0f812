------------------------ MODULE ZandronumMasterProofs -----------------------
(***************************************************************************)
(* A master's list is put together right: for every number of rounds,      *)
(* order of datagrams, duplicate, loss and crash.  How much is right       *)
(* depends on the bits of packetsRead, so there are three invariants, each *)
(* resting on those before it: SourceInv for every width, OnceInv where    *)
(* every part has a bit, WholeInv where every part has a bit of its own.   *)
(***************************************************************************)
EXTENDS ZandronumMaster, TLAPS

USE SizesAssumption

(* Whatever the shift makes of a part's number, it is bits of the member;  *)
(* and where every part has a bit it is not empty.                         *)
LEMMA BitsOfParts ==
  ASSUME NEW n \in 0..NumPackets - 1
  PROVE  /\ Bit(n) \subseteq 0..Width - 1
         /\ EveryPartHasABit => Bit(n) # {}
<1>1. n % Width \in 0..Width - 1
  OBVIOUS
<1>2. Bit(n) \in {{n}, {n % Width}, {}} /\ (Bit(n) = {n} => n < Width)
  BY <1>1 DEF Bit
<1>3. Bit(n) \subseteq 0..Width - 1
  BY <1>1 DEF Bit
<1>4. ASSUME EveryPartHasABit PROVE Bit(n) # {}
  <2>1. n < Width \/ ShiftWraps
    BY <1>4 DEF EveryPartHasABit
  <2> QED BY <2>1 DEF Bit
<1> QED BY <1>3, <1>4

(* Up to Width parts, a bit stands for one part.                           *)
LEMMA BitOfPart ==
  ASSUME NumPackets <= Width, NEW n \in 0..NumPackets - 1
  PROVE  Bit(n) = {n}
BY DEF Bit

(* When the last part was read and the bits are "all", every part was read.*)
LEMMA WholeMeansAll ==
  ASSUME NumPackets <= Width, NEW bits, bits # {}, IsWhole(bits, NumPackets, TRUE)
  PROVE  bits = 0..NumPackets - 1
<1>1. bits = AllBits(NumPackets)
  BY DEF IsWhole
<1>2. CASE NumPackets < Width
  BY <1>1, <1>2 DEF AllBits
<1>3. CASE NumPackets = Width
  <2>1. NumPackets % Width = 0
    BY <1>3
  <2> QED BY <1>1, <1>3, <2>1 DEF AllBits
<1> QED BY <1>2, <1>3

LEMMA NumbersBelow ==
  ASSUME NEW a \in Int, NEW b \in Int, b >= a, NEW n \in Nat, b > n
  PROVE  n \in 0..b - 1 /\ 0..a - 1 \subseteq 0..b - 1
OBVIOUS

LEMMA PacketParts ==
  /\ \A p \in Packets : /\ p[1] \in 1..MaxRounds /\ p[2] \in 0..NumPackets - 1
                         /\ p = <<p[1], p[2]>>
  /\ \A r \in 1..MaxRounds, n \in 0..NumPackets - 1 : <<r, n>> \in Packets
BY DEF Packets

LEMMA OtherIsNoPart == Other \notin Packets /\ Torn \notin Packets
<1>1. Other[1] = 0 /\ Torn[1] = 0
  BY DEF Other, Torn
<1> QED BY <1>1, PacketParts

-----------------------------------------------------------------------------
(* For every width: where the parts come from                              *)

LEMMA InitSource == Init => SourceInv
<1> SUFFICES ASSUME Init PROVE SourceInv
  OBVIOUS
<1>1. TypeOK
  <2>1. copies \in [Packets -> Nat]
    BY DEF Init
  <2>2. file \in Seq(Packets \cup {Other, Torn}) /\ cursor \in 0..Len(file)
    BY DEF Init
  <2>3. /\ round \in 0..MaxRounds /\ numPackets \in 0..NumPackets /\ updates \in Nat
        /\ packetsRead \in SUBSET (0..Width - 1)
        /\ outcome \in {"none", "asked", "complete", "cached", "refused", "crashed"}
        /\ cacheMode \in {"closed", "read", "write"}
    BY DEF Init
  <2>4. /\ registered \in BOOLEAN /\ timeouted \in BOOLEAN
        /\ readLastPacket \in BOOLEAN /\ hasGood \in BOOLEAN
    BY DEF Init
  <2> QED BY <2>1, <2>2, <2>3, <2>4 DEF TypeOK
<1>2. ListOfOneRound /\ CacheOfOneRound
  BY DEF Init, ListOfOneRound, CacheOfOneRound
<1>3. PartsHaveOneSource /\ ReadingIsLast
  BY DEF Init, PartsHaveOneSource, ReadingIsLast
<1> QED BY <1>1, <1>2, <1>3 DEF SourceInv

(* The list after one more part was read.                                  *)
LEMMA ReadingAPart ==
  ASSUME SourceInv, NEW packet \in Packets, ReadPart(packet)
  PROVE  /\ packetsRead' = packetsRead \cup Bit(packet[2])
         /\ packetsRead' \in SUBSET (0..Width - 1)
         /\ numPackets' \in 0..NumPackets
         /\ numPackets' >= numPackets /\ numPackets' > packet[2]
         /\ readLastPacket' \in BOOLEAN
         /\ copies' \in [Packets -> Nat]
         /\ \A p \in Packets :
              copies'[p] = IF p = packet THEN copies[p] + 1 ELSE copies[p]
<1>1. packet[2] \in 0..NumPackets - 1
  BY PacketParts
<1>2. Bit(packet[2]) \subseteq 0..Width - 1
  BY <1>1, BitsOfParts
<1>3. packetsRead' = packetsRead \cup Bit(packet[2]) /\ packetsRead' \in SUBSET (0..Width - 1)
  BY <1>2 DEF ReadPart, SourceInv, TypeOK
<1>4. numPackets' \in 0..NumPackets /\ numPackets' >= numPackets /\ numPackets' > packet[2]
  BY <1>1 DEF ReadPart, SourceInv, TypeOK, Larger
<1>5. /\ copies' \in [Packets -> Nat]
      /\ \A p \in Packets :
           copies'[p] = IF p = packet THEN copies[p] + 1 ELSE copies[p]
  BY DEF ReadPart, SourceInv, TypeOK
<1>6. readLastPacket' \in BOOLEAN
  BY DEF ReadPart
<1> QED BY <1>3, <1>4, <1>5, <1>6

(* What is pushed while the cache holds parts of this round only, or none. *)
LEMMA PushedFile ==
  ASSUME SourceInv, cacheMode \in {"closed", "write"},
         NEW packet \in Packets \cup {Other}, packet \in Packets => packet[1] = round,
         file' = Pushed(packet)
  PROVE  /\ file' \in Seq(Packets \cup {Other, Torn}) /\ Len(file') > 0
         /\ \A i \in 1..Len(file') : file'[i] \in Packets => file'[i][1] = round
<1> DEFINE Records == Packets \cup {Other, Torn}
<1>1. file \in Seq(Records) /\ packet \in Records
  BY DEF SourceInv, TypeOK
<1>2. CASE cacheMode = "closed"
  <2>1. file' = <<packet>>
    BY <1>2 DEF Pushed
  <2> HIDE DEF Records
  <2>2. file' \in Seq(Records) /\ Len(file') = 1 /\ file'[1] = packet
    BY <1>1, <2>1
  <2> QED BY <2>2 DEF Records
<1>3. CASE cacheMode = "write"
  <2>1. file' = Append(file, packet)
    BY <1>3 DEF Pushed
  <2>2. \A i \in 1..Len(file) : file[i] \in Packets => file[i][1] = round
    BY <1>3 DEF SourceInv, PartsHaveOneSource
  <2> HIDE DEF Records
  <2>3. /\ file' \in Seq(Records) /\ Len(file') = Len(file) + 1 /\ Len(file) \in Nat
        /\ file'[Len(file')] = packet
        /\ \A i \in 1..Len(file) : file'[i] = file[i]
    BY <1>1, <2>1
  <2>4. ASSUME NEW i \in 1..Len(file'), file'[i] \in Packets PROVE file'[i][1] = round
    <3>1. CASE i = Len(file')
      BY <2>3, <2>4, <3>1
    <3>2. CASE i # Len(file')
      <4>1. i \in 1..Len(file) /\ file'[i] = file[i]
        BY <2>3, <3>2
      <4> QED BY <2>2, <2>4, <4>1
    <3> QED BY <3>1, <3>2
  <2> QED BY <2>3, <2>4 DEF Records
<1> QED BY <1>2, <1>3

LEMMA ReadListPacketSource ==
  ASSUME SourceInv, NEW num \in 0..NumPackets - 1, ReadListPacket(num)
  PROVE  SourceInv'
<1> DEFINE packet == <<round, num>>
           good == PartIsGood(num)
<1>1. /\ registered /\ cursor = 0 /\ ReadPart(packet)
      /\ updates' = (IF good THEN updates + 1 ELSE updates)
      /\ registered' = ~good
      /\ outcome' = (IF good THEN "complete" ELSE outcome)
      /\ cacheMode' = "write" /\ file' = Pushed(packet)
      /\ UNCHANGED <<round, timeouted, cursor, hasGood>>
  BY DEF ReadListPacket, PushPacketToCache
<1>2. packet \in Packets /\ packet[1] = round /\ packet[2] = num /\ ~hasGood
      /\ cacheMode \in {"closed", "write"} /\ outcome # "complete" /\ round > 0
  <2>1. round \in 1..MaxRounds
    BY <1>1 DEF SourceInv, TypeOK, ReadingIsLast
  <2> QED BY <1>1, <2>1, PacketParts DEF SourceInv, TypeOK, ReadingIsLast
<1>3. /\ packetsRead' \in SUBSET (0..Width - 1)
      /\ numPackets' \in 0..NumPackets
      /\ readLastPacket' \in BOOLEAN
      /\ copies' \in [Packets -> Nat]
      /\ \A p \in Packets : copies'[p] > 0 => copies[p] > 0 \/ p = packet
  <2> HIDE DEF packet
  <2> QED BY <1>1, <1>2, ReadingAPart
<1>4. \A p \in Packets : copies'[p] > 0 => p[1] = round
  BY <1>2, <1>3 DEF SourceInv, TypeOK, PartsHaveOneSource
<1>5. good \in BOOLEAN
  BY DEF PartIsGood, IsWhole
<1> HIDE DEF good
<1>7. /\ file' \in Seq(Packets \cup {Other, Torn}) /\ Len(file') > 0
      /\ \A i \in 1..Len(file') : file'[i] \in Packets => file'[i][1] = round
  BY <1>1, <1>2, PushedFile
<1>8. TypeOK'
  <2>1. registered' \in BOOLEAN /\ timeouted' \in BOOLEAN /\ hasGood' \in BOOLEAN
    BY <1>1, <1>5 DEF SourceInv, TypeOK
  <2>2. /\ round' \in 0..MaxRounds /\ updates' \in Nat /\ cursor' \in 0..Len(file')
        /\ outcome' \in {"none", "asked", "complete", "cached", "refused", "crashed"}
        /\ cacheMode' \in {"closed", "read", "write"}
    BY <1>1, <1>7 DEF SourceInv, TypeOK
  <2> QED BY <2>1, <2>2, <1>3, <1>7 DEF TypeOK
<1>10. ListOfOneRound' /\ CacheOfOneRound'
  BY <1>4, <1>7 DEF ListOfOneRound, CacheOfOneRound
<1>11. PartsHaveOneSource'
  BY <1>1, <1>4, <1>7 DEF PartsHaveOneSource
<1>12. ReadingIsLast'
  BY <1>1, <1>2, <1>5 DEF SourceInv, ReadingIsLast
<1> QED BY <1>8, <1>10, <1>11, <1>12 DEF SourceInv

(* A part that was read before, or another packet, changes the file only.  *)
LEMMA ReadStrayPacketSource ==
  ASSUME SourceInv, NEW packet \in Packets \cup {Other}, ReadStrayPacket(packet)
  PROVE  SourceInv'
<1>1. /\ registered /\ cursor = 0
      /\ cacheMode' = "write" /\ file' = Pushed(packet)
      /\ UNCHANGED <<listVars, roundVars, cursor, hasGood>>
  BY DEF ReadStrayPacket, PushPacketToCache
<1>2. ~hasGood /\ cacheMode \in {"closed", "write"} /\ outcome # "complete"
  BY <1>1 DEF SourceInv, TypeOK, ReadingIsLast
<1>3. packet \in Packets => packet[1] = round
  BY OtherIsNoPart DEF ReadStrayPacket
<1>4. /\ file' \in Seq(Packets \cup {Other, Torn}) /\ Len(file') > 0
      /\ \A i \in 1..Len(file') : file'[i] \in Packets => file'[i][1] = round
  BY <1>1, <1>2, <1>3, PushedFile
<1>5. \A p \in Packets : copies[p] > 0 => p[1] = round
  BY <1>2 DEF SourceInv, TypeOK, PartsHaveOneSource
<1>6. TypeOK'
  BY <1>1, <1>4 DEF SourceInv, TypeOK, listVars, roundVars
<1>7. ListOfOneRound' /\ CacheOfOneRound'
  BY <1>1, <1>4 DEF SourceInv, ListOfOneRound, CacheOfOneRound, listVars
<1>9. PartsHaveOneSource'
  BY <1>1, <1>4, <1>5 DEF PartsHaveOneSource, listVars, roundVars
<1>10. ReadingIsLast'
  BY <1>1, <1>2 DEF SourceInv, ReadingIsLast, roundVars
<1> QED BY <1>6, <1>7, <1>9, <1>10 DEF SourceInv

(* An empty list is of the right type, and no part is in it.               *)
LEMMA EmptyListStep ==
  ASSUME packetsRead' = {}, numPackets' = 0, readLastPacket' = FALSE,
         copies' = [p \in Packets |-> 0]
  PROVE  /\ copies' \in [Packets -> Nat] /\ \A p \in Packets : copies'[p] = 0
         /\ packetsRead' \in SUBSET (0..Width - 1)
         /\ numPackets' \in 0..NumPackets /\ readLastPacket' \in BOOLEAN
         /\ ListOfOneRound'
<1>1. copies' \in [Packets -> Nat] /\ \A p \in Packets : copies'[p] = 0
  OBVIOUS
<1>2. packetsRead' \in SUBSET (0..Width - 1) /\ numPackets' \in 0..NumPackets
  OBVIOUS
<1>3. readLastPacket' \in BOOLEAN
  OBVIOUS
<1>4. ListOfOneRound'
  BY <1>1 DEF ListOfOneRound
<1> QED BY <1>1, <1>2, <1>3, <1>4

LEMMA RefreshStartsSource == ASSUME SourceInv, RefreshStarts PROVE SourceInv'
<1> USE DEF RefreshStarts
<1>1. /\ copies' \in [Packets -> Nat] /\ \A p \in Packets : copies'[p] = 0
      /\ packetsRead' \in SUBSET (0..Width - 1)
      /\ numPackets' \in 0..NumPackets /\ readLastPacket' \in BOOLEAN
      /\ ListOfOneRound'
  BY EmptyListStep DEF EmptyList
<1>2. TypeOK'
  <2>1. registered' \in BOOLEAN /\ timeouted' \in BOOLEAN /\ hasGood' \in BOOLEAN
    BY DEF SourceInv, TypeOK
  <2>2. /\ round' \in 0..MaxRounds /\ updates' \in Nat /\ cursor' \in 0..Len(file')
        /\ outcome' \in {"none", "asked", "complete", "cached", "refused", "crashed"}
        /\ cacheMode' \in {"closed", "read", "write"}
        /\ file' \in Seq(Packets \cup {Other, Torn})
    BY DEF SourceInv, TypeOK
  <2> QED BY <1>1, <2>1, <2>2 DEF TypeOK
<1>3. CacheOfOneRound'
  BY DEF SourceInv, CacheOfOneRound
<1>4. PartsHaveOneSource' /\ ReadingIsLast'
  BY <1>1 DEF SourceInv, TypeOK, PartsHaveOneSource, ReadingIsLast
<1> QED BY <1>1, <1>2, <1>3, <1>4 DEF SourceInv

(* Opening the cache for reading changes neither the list nor the file.    *)
LEMMA OpenPacketCacheSource ==
  ASSUME SourceInv, registered, cursor = 0, OpenPacketCache, timeouted' \in BOOLEAN
  PROVE  SourceInv'
<1> USE DEF OpenPacketCache
<1>1. cacheMode \in {"closed", "write"} /\ outcome # "complete"
  BY DEF SourceInv, TypeOK, ReadingIsLast
<1>2. Len(file) \in Nat /\ (file # <<>> => 1 \in 0..Len(file))
  BY DEF SourceInv, TypeOK
<1>3. TypeOK'
  <2>1. registered' \in BOOLEAN /\ timeouted' \in BOOLEAN /\ hasGood' \in BOOLEAN
    BY DEF SourceInv, TypeOK
  <2>2. /\ round' \in 0..MaxRounds /\ updates' \in Nat /\ cursor' \in 0..Len(file')
        /\ outcome' \in {"none", "asked", "complete", "cached", "refused", "crashed"}
        /\ cacheMode' \in {"closed", "read", "write"}
        /\ file' \in Seq(Packets \cup {Other, Torn})
    BY <1>2 DEF SourceInv, TypeOK
  <2>3. /\ copies' \in [Packets -> Nat] /\ packetsRead' \in SUBSET (0..Width - 1)
        /\ numPackets' \in 0..NumPackets
    BY DEF SourceInv, TypeOK, listVars
  <2>4. readLastPacket' \in BOOLEAN
    BY DEF SourceInv, TypeOK, listVars
  <2> QED BY <2>1, <2>2, <2>3, <2>4 DEF TypeOK
<1>4. ListOfOneRound' /\ CacheOfOneRound'
  BY DEF SourceInv, ListOfOneRound, CacheOfOneRound, listVars
<1>5. PartsHaveOneSource'
  BY <1>1 DEF SourceInv, TypeOK, PartsHaveOneSource, listVars
<1>6. ReadingIsLast'
  <2>1. /\ registered' => round' > 0
        /\ outcome' # "complete" /\ cacheMode' = "read" /\ ~hasGood'
    BY <1>1 DEF SourceInv, ReadingIsLast
  <2>2. registered' => file # <<>>
    OBVIOUS
  <2>3. file # <<>> => cursor' = 1
    OBVIOUS
  <2> QED BY <2>1, <2>2, <2>3 DEF ReadingIsLast
<1> QED BY <1>3, <1>4, <1>5, <1>6 DEF SourceInv

LEMMA ReadCachedPacketSource == ASSUME SourceInv, ReadCachedPacket PROVE SourceInv'
<1> DEFINE packet == file[cursor]
           skipped == packet = Other \/ AlreadyRead(packet[2])
           good == ~skipped /\ PartIsGood(packet[2])
           signals == (IF good THEN 1 ELSE 0) + (IF Announces(hasGood \/ good) THEN 1 ELSE 0)
<1>1. /\ cursor > 0 /\ packet # Torn
      /\ IF skipped THEN UNCHANGED listVars ELSE ReadPart(packet)
      /\ cursor' = NextInFile
      /\ hasGood' = (NextInFile > 0 /\ (hasGood \/ good))
      /\ updates' = updates + signals
      /\ registered' = (registered /\ signals = 0)
      /\ outcome' = (IF signals > 0 THEN "cached" ELSE outcome)
      /\ UNCHANGED <<round, timeouted, cacheMode, file>>
  BY DEF ReadCachedPacket
<1>2. cursor \in 1..Len(file) /\ packet \in Packets \cup {Other} /\ cacheMode = "read"
      /\ outcome # "complete"
  BY <1>1 DEF SourceInv, TypeOK, ReadingIsLast
<1>3. signals \in Nat /\ NextInFile \in 0..Len(file)
  BY <1>2 DEF NextInFile
<1>4. /\ packetsRead' \in SUBSET (0..Width - 1) /\ numPackets' \in 0..NumPackets
      /\ readLastPacket' \in BOOLEAN /\ copies' \in [Packets -> Nat]
      /\ \A p \in Packets : copies'[p] > 0 => copies[p] > 0 \/ p = packet
  <2>1. CASE skipped
    <3>1. readLastPacket' \in BOOLEAN
      BY <1>1, <2>1 DEF SourceInv, TypeOK, listVars
    <3> QED BY <1>1, <2>1, <3>1 DEF SourceInv, TypeOK, listVars
  <2>2. CASE ~skipped
    <3>1. packet \in Packets /\ ReadPart(packet)
      BY <1>1, <1>2, <2>2
    <3> HIDE DEF packet
    <3> QED BY <3>1, ReadingAPart
  <2> HIDE DEF skipped
  <2> QED BY <2>1, <2>2
<1>5. \A p \in Packets : copies'[p] > 0 => \A i \in 1..Len(file) : file[i] \in Packets => file[i][1] = p[1]
  <2>1. \A p \in Packets : copies[p] > 0 => \A i \in 1..Len(file) : file[i] \in Packets => file[i][1] = p[1]
    BY <1>2 DEF SourceInv, PartsHaveOneSource
  <2>2. \A i \in 1..Len(file) : file[i] \in Packets /\ packet \in Packets => file[i][1] = packet[1]
    BY <1>2 DEF SourceInv, CacheOfOneRound
  <2> QED BY <1>4, <2>1, <2>2
<1>6. ListOfOneRound'
  <2> SUFFICES ASSUME NEW p \in Packets, NEW q \in Packets, copies'[p] > 0, copies'[q] > 0
               PROVE  p[1] = q[1]
    BY DEF ListOfOneRound
  <2>1. CASE p = packet \/ q = packet
    BY <1>2, <1>5, <2>1
  <2>2. CASE p # packet /\ q # packet
    BY <1>4, <2>2 DEF SourceInv, ListOfOneRound
  <2> QED BY <2>1, <2>2
<1> HIDE DEF packet, skipped, good, signals
<1>7. TypeOK'
  <2>1. registered' \in BOOLEAN /\ timeouted' \in BOOLEAN /\ hasGood' \in BOOLEAN
    BY <1>1 DEF SourceInv, TypeOK
  <2>2. /\ round' \in 0..MaxRounds /\ updates' \in Nat /\ cursor' \in 0..Len(file')
        /\ outcome' \in {"none", "asked", "complete", "cached", "refused", "crashed"}
        /\ cacheMode' \in {"closed", "read", "write"}
        /\ file' \in Seq(Packets \cup {Other, Torn})
    BY <1>1, <1>3 DEF SourceInv, TypeOK
  <2> QED BY <1>4, <2>1, <2>2 DEF TypeOK
<1>8. CacheOfOneRound'
  BY <1>1 DEF SourceInv, CacheOfOneRound
<1>9. PartsHaveOneSource'
  BY <1>1, <1>2, <1>5 DEF PartsHaveOneSource
<1>10. ReadingIsLast'
  <2>1. registered' => registered /\ signals = 0
    BY <1>1
  <2>2. signals = 0 => ~good /\ ~Announces(hasGood \/ good)
    BY DEF signals
  <2>3. registered /\ signals = 0 => cursor' > 0 /\ ~hasGood
    <3>1. registered => ~hasGood
      BY DEF SourceInv, ReadingIsLast
    <3>2. registered /\ signals = 0 => cursor # Len(file)
      BY <2>2, <3>1 DEF Announces
    <3> QED BY <1>1, <1>2, <3>1, <3>2 DEF NextInFile
  <2>4. hasGood' => cursor' > 0 /\ (hasGood \/ good)
    BY <1>1
  <2>5. hasGood' => ~registered'
    BY <2>1, <2>2, <2>3, <2>4
  <2>6. outcome' # "complete"
    BY <1>1, <1>2
  <2> QED BY <1>1, <1>2, <2>1, <2>3, <2>4, <2>5, <2>6 DEF SourceInv, ReadingIsLast
<1> QED BY <1>6, <1>7, <1>8, <1>9, <1>10 DEF SourceInv

(* What ends a round and leaves the list and the file alone.               *)
LEMMA RoundEndsSource ==
  ASSUME SourceInv,
         \/ ReadRefusal
         \/ ReadTornRecord
  PROVE  SourceInv'
<1>1. /\ UNCHANGED <<listVars, round, timeouted, cacheMode, file>>
      /\ registered' = FALSE /\ outcome' \in {"cached", "refused"} /\ updates' \in Nat
      /\ cursor' = 0 /\ hasGood' = FALSE
  BY DEF ReadRefusal, ReadTornRecord, cacheVars, SourceInv, TypeOK, ReadingIsLast
<1>2. TypeOK'
  <2>1. registered' \in BOOLEAN /\ timeouted' \in BOOLEAN /\ hasGood' \in BOOLEAN
    BY <1>1 DEF SourceInv, TypeOK
  <2>2. /\ round' \in 0..MaxRounds /\ updates' \in Nat /\ cursor' \in 0..Len(file')
        /\ outcome' \in {"none", "asked", "complete", "cached", "refused", "crashed"}
        /\ cacheMode' \in {"closed", "read", "write"}
        /\ file' \in Seq(Packets \cup {Other, Torn})
    BY <1>1 DEF SourceInv, TypeOK
  <2>3. /\ copies' \in [Packets -> Nat] /\ packetsRead' \in SUBSET (0..Width - 1)
        /\ numPackets' \in 0..NumPackets
    BY <1>1 DEF SourceInv, TypeOK, listVars
  <2>4. readLastPacket' \in BOOLEAN
    BY <1>1 DEF SourceInv, TypeOK, listVars
  <2> QED BY <2>1, <2>2, <2>3, <2>4 DEF TypeOK
<1>3. ListOfOneRound' /\ CacheOfOneRound'
  BY <1>1 DEF SourceInv, ListOfOneRound, CacheOfOneRound, listVars
<1>4. PartsHaveOneSource' /\ ReadingIsLast'
  BY <1>1 DEF SourceInv, PartsHaveOneSource, ReadingIsLast, listVars
<1> QED BY <1>2, <1>3, <1>4 DEF SourceInv

(* What a crash leaves of the file is records of the file, or torn.        *)
LEMMA RemainsOfFile ==
  ASSUME SourceInv, NEW f \in Remains
  PROVE  /\ f \in Seq(Packets \cup {Other, Torn})
         /\ \A i \in 1..Len(f) : f[i] \in Packets => i \in 1..Len(file) /\ f[i] = file[i]
<1> DEFINE Records == Packets \cup {Other, Torn}
<1>1. file \in Seq(Records)
  BY DEF SourceInv, TypeOK
<1>2. Torn \notin Packets /\ Torn \in Records
  BY OtherIsNoPart
<1> HIDE DEF Records
<1>3. CASE f = file
  BY <1>1, <1>3 DEF Records
<1>4. ASSUME NEW n \in 0..Len(file), f = SubSeq(file, 1, n)
      PROVE  f \in Seq(Records) /\ \A i \in 1..Len(f) : i \in 1..Len(file) /\ f[i] = file[i]
  BY <1>1, <1>4
<1>5. ASSUME NEW n \in 0..Len(file) - 1, f = Append(SubSeq(file, 1, n), Torn)
      PROVE  f \in Seq(Records) /\ \A i \in 1..Len(f) :
               f[i] \in Packets => i \in 1..Len(file) /\ f[i] = file[i]
  <2>1. /\ SubSeq(file, 1, n) \in Seq(Records) /\ Len(SubSeq(file, 1, n)) = n
        /\ \A i \in 1..n : SubSeq(file, 1, n)[i] = file[i]
    BY <1>1
  <2>2. f \in Seq(Records) /\ Len(f) = n + 1 /\ f[n + 1] = Torn
    BY <1>2, <1>5, <2>1
  <2>3. \A i \in 1..n : f[i] = file[i]
    BY <1>2, <1>5, <2>1
  <2> QED BY <1>1, <1>2, <2>2, <2>3
<1> QED BY <1>3, <1>4, <1>5 DEF Remains, Records

LEMMA CrashSource == ASSUME SourceInv, Crash PROVE SourceInv'
<1> USE DEF Crash
<1>1. /\ copies' \in [Packets -> Nat] /\ \A p \in Packets : copies'[p] = 0
      /\ packetsRead' \in SUBSET (0..Width - 1)
      /\ numPackets' \in 0..NumPackets /\ readLastPacket' \in BOOLEAN
      /\ ListOfOneRound'
  BY EmptyListStep
<1>2. /\ file' \in Seq(Packets \cup {Other, Torn})
      /\ \A i \in 1..Len(file') : file'[i] \in Packets => i \in 1..Len(file) /\ file'[i] = file[i]
  BY RemainsOfFile
<1>3. TypeOK'
  <2>1. registered' \in BOOLEAN /\ timeouted' \in BOOLEAN /\ hasGood' \in BOOLEAN
    BY DEF SourceInv, TypeOK
  <2>2. /\ round' \in 0..MaxRounds /\ updates' \in Nat /\ cursor' \in 0..Len(file')
        /\ outcome' \in {"none", "asked", "complete", "cached", "refused", "crashed"}
        /\ cacheMode' \in {"closed", "read", "write"}
        /\ file' \in Seq(Packets \cup {Other, Torn})
    BY <1>2 DEF SourceInv, TypeOK
  <2> QED BY <1>1, <2>1, <2>2 DEF TypeOK
<1>4. CacheOfOneRound'
  BY <1>2 DEF SourceInv, CacheOfOneRound
<1>5. PartsHaveOneSource' /\ ReadingIsLast'
  BY <1>1 DEF PartsHaveOneSource, ReadingIsLast
<1> QED BY <1>1, <1>3, <1>4, <1>5 DEF SourceInv

LEMMA NextKeepsSource == SourceInv /\ [Next]_vars => SourceInv'
<1> SUFFICES ASSUME SourceInv, [Next]_vars PROVE SourceInv'
  OBVIOUS
<1>1. CASE RefreshStarts
  BY <1>1, RefreshStartsSource
<1>2. ASSUME NEW num \in 0..NumPackets - 1, ReadListPacket(num) PROVE SourceInv'
  BY <1>2, ReadListPacketSource
<1>3. ASSUME NEW packet \in Packets \cup {Other}, ReadStrayPacket(packet) PROVE SourceInv'
  BY <1>3, ReadStrayPacketSource
<1>4. CASE ReadWaitOrBad \/ TimeoutRefresh
  <2>1. registered /\ cursor = 0 /\ OpenPacketCache /\ timeouted' \in BOOLEAN
    BY <1>4 DEF ReadWaitOrBad, TimeoutRefresh, SourceInv, TypeOK
  <2> QED BY <2>1, OpenPacketCacheSource
<1>5. CASE ReadRefusal \/ ReadTornRecord
  BY <1>5, RoundEndsSource
<1>6. CASE ReadCachedPacket
  BY <1>6, ReadCachedPacketSource
<1>7. CASE Crash
  BY <1>7, CrashSource
<1>8. CASE UNCHANGED vars
  <2>1. TypeOK'
    BY <1>8 DEF SourceInv, TypeOK, vars, listVars, roundVars, cacheVars
  <2>2. ListOfOneRound' /\ CacheOfOneRound'
    BY <1>8 DEF SourceInv, ListOfOneRound, CacheOfOneRound, vars, listVars, cacheVars
  <2>3. PartsHaveOneSource' /\ ReadingIsLast'
    BY <1>8 DEF SourceInv, PartsHaveOneSource, ReadingIsLast, vars, listVars, roundVars, cacheVars
  <2> QED BY <2>1, <2>2, <2>3 DEF SourceInv
<1> QED BY <1>1, <1>2, <1>3, <1>4, <1>5, <1>6, <1>7, <1>8 DEF Next

LEMMA SourceIsKept == Spec => []SourceInv
BY InitSource, NextKeepsSource, PTL DEF Spec

(* Whatever the number of parts and the bits for them, neither the list    *)
(* nor the cache ever mixes the lists of two rounds.                       *)
THEOREM RoundsNeverMix == Spec => []OfOneRound
<1>1. SourceInv => OfOneRound
  BY DEF SourceInv, OfOneRound
<1> QED BY <1>1, SourceIsKept, PTL

(* Every variable keeps to its type.                                       *)
THEOREM TypeCorrect == Spec => []TypeOK
<1>1. SourceInv => TypeOK
  BY DEF SourceInv
<1> QED BY <1>1, SourceIsKept, PTL

(* The loop over the cache ends a round of which the timer has fired: with *)
(* a GOOD answer, or with the signal at the end of the file.               *)
LEMMA ReadCachedPacketEnds ==
  ASSUME SourceInv, ReadCachedPacket
  PROVE  registered' => cursor' > 0
<1> DEFINE packet == file[cursor]
           skipped == packet = Other \/ AlreadyRead(packet[2])
           good == ~skipped /\ PartIsGood(packet[2])
           signals == (IF good THEN 1 ELSE 0)
                      + (IF Announces(hasGood \/ good) THEN 1 ELSE 0)
<1>1. /\ cursor > 0
      /\ cursor' = NextInFile
      /\ registered' = (registered /\ signals = 0)
  BY DEF ReadCachedPacket
<1>2. cursor \in 0..Len(file) /\ Len(file) \in Nat /\ hasGood \in BOOLEAN
  BY DEF SourceInv, TypeOK
<1>3. good \in BOOLEAN
  OBVIOUS
<1> HIDE DEF good
<1>4. SUFFICES ASSUME registered' PROVE cursor' > 0
  OBVIOUS
<1>5. registered /\ signals = 0
  BY <1>1, <1>4
<1>6. ~hasGood
  BY <1>5 DEF SourceInv, ReadingIsLast
<1>7. ~good /\ ~Announces(hasGood \/ good)
  BY <1>5
<1>8. cursor # Len(file)
  BY <1>6, <1>7 DEF Announces
<1> QED BY <1>1, <1>2, <1>8 DEF NextInFile

LEMMA NextKeepsTimer == SourceInv /\ TimerIsLeft /\ [Next]_vars => TimerIsLeft'
<1> SUFFICES ASSUME SourceInv, TimerIsLeft, [Next]_vars PROVE TimerIsLeft'
  OBVIOUS
<1>1. CASE RefreshStarts
  BY <1>1 DEF RefreshStarts, TimerIsLeft
<1>2. ASSUME NEW num \in 0..NumPackets - 1, ReadListPacket(num) PROVE TimerIsLeft'
  BY <1>2 DEF ReadListPacket, PushPacketToCache, TimerIsLeft
<1>3. ASSUME NEW packet \in Packets \cup {Other}, ReadStrayPacket(packet)
      PROVE  TimerIsLeft'
  BY <1>3 DEF ReadStrayPacket, PushPacketToCache, roundVars, TimerIsLeft
<1>4. CASE ReadWaitOrBad \/ TimeoutRefresh
  <2>1. registered' => cursor' = 1
    BY <1>4 DEF ReadWaitOrBad, TimeoutRefresh, OpenPacketCache
  <2> QED BY <2>1 DEF TimerIsLeft
<1>5. CASE ReadRefusal \/ ReadTornRecord \/ Crash
  BY <1>5 DEF ReadRefusal, ReadTornRecord, Crash, TimerIsLeft
<1>6. CASE ReadCachedPacket
  BY <1>6, ReadCachedPacketEnds DEF TimerIsLeft
<1>7. CASE UNCHANGED vars
  BY <1>7 DEF vars, roundVars, cacheVars, TimerIsLeft
<1> QED BY <1>1, <1>2, <1>3, <1>4, <1>5, <1>6, <1>7 DEF Next

(* Whatever comes of the network, the cache and crashes, a round that goes *)
(* on has its timer ahead or is in the loop over the cache.                *)
THEOREM RoundsTimeOut == Spec => []TimerIsLeft
<1>1. Init => TimerIsLeft
  BY DEF Init, TimerIsLeft
<1> QED BY <1>1, NextKeepsTimer, SourceIsKept, PTL DEF Spec

-----------------------------------------------------------------------------
(* Where every part has a bit: no part is read twice                       *)

LEMMA InitNoRepeat == Init => NoRepeatInv
BY DEF Init, NoRepeatInv, NoPartTwice, PartsHaveBits

(* A part whose bits are not set is not in the list.                       *)
LEMMA NewPart ==
  ASSUME EveryPartHasABit, SourceInv, NoRepeatInv,
         NEW packet \in Packets, ~AlreadyRead(packet[2])
  PROVE  copies[packet] = 0
<1>1. packet[2] \in 0..NumPackets - 1
  BY PacketParts
<1>2. Bit(packet[2]) # {}
  BY <1>1, BitsOfParts
<1>3. Bit(packet[2]) \cap packetsRead = {}
  BY DEF AlreadyRead
<1>4. copies[packet] > 0 => Bit(packet[2]) \subseteq packetsRead
  BY DEF NoRepeatInv, PartsHaveBits
<1> QED BY <1>2, <1>3, <1>4 DEF SourceInv, TypeOK

LEMMA ReadingANewPart ==
  ASSUME EveryPartHasABit, SourceInv, NoRepeatInv, NEW packet \in Packets,
         ~AlreadyRead(packet[2]), ReadPart(packet)
  PROVE  /\ \A p \in Packets : copies'[p] = IF p = packet THEN 1 ELSE copies[p]
         /\ NoRepeatInv'
<1>1. copies[packet] = 0
  BY NewPart
<1>2. /\ packetsRead' = packetsRead \cup Bit(packet[2])
      /\ \A p \in Packets : copies'[p] = IF p = packet THEN 1 ELSE copies[p]
  BY <1>1, ReadingAPart
<1>3. NoPartTwice'
  BY <1>2 DEF NoRepeatInv, NoPartTwice
<1>4. PartsHaveBits'
  BY <1>2 DEF NoRepeatInv, PartsHaveBits
<1> QED BY <1>2, <1>3, <1>4 DEF NoRepeatInv

(* What a step does to the list: nothing, or it is emptied, or one part    *)
(* that is not in it is read.                                              *)
LEMMA ListStep ==
  ASSUME SourceInv, [Next]_vars
  PROVE  \/ UNCHANGED listVars
         \/ copies' = [p \in Packets |-> 0] /\ packetsRead' = {}
         \/ \E packet \in Packets : ~AlreadyRead(packet[2]) /\ ReadPart(packet)
<1>1. CASE RefreshStarts
  BY <1>1 DEF RefreshStarts, EmptyList
<1>2. ASSUME NEW num \in 0..NumPackets - 1, ReadListPacket(num)
      PROVE  <<round, num>> \in Packets /\ ~AlreadyRead(num) /\ ReadPart(<<round, num>>)
  <2>1. registered /\ ~AlreadyRead(num) /\ ReadPart(<<round, num>>)
    BY <1>2 DEF ReadListPacket
  <2>2. round \in 1..MaxRounds
    BY <2>1 DEF SourceInv, TypeOK, ReadingIsLast
  <2> QED BY <2>1, <2>2, PacketParts
<1>3. CASE ReadCachedPacket
  <2>1. cursor \in 1..Len(file) /\ file[cursor] \in Packets \cup {Other}
    BY <1>3 DEF ReadCachedPacket, SourceInv, TypeOK
  <2> QED BY <1>3, <2>1 DEF ReadCachedPacket
<1>4. CASE Crash
  BY <1>4 DEF Crash
<1>5. ASSUME \/ \E packet \in Packets \cup {Other} : ReadStrayPacket(packet)
             \/ ReadWaitOrBad \/ TimeoutRefresh \/ ReadRefusal \/ ReadTornRecord
             \/ UNCHANGED vars
      PROVE  UNCHANGED listVars
  BY <1>5 DEF ReadStrayPacket, ReadWaitOrBad, TimeoutRefresh, OpenPacketCache, ReadRefusal,
              ReadTornRecord, vars
<1>6. ASSUME NEW num \in 0..NumPackets - 1, ReadListPacket(num)
      PROVE  \E packet \in Packets : ~AlreadyRead(packet[2]) /\ ReadPart(packet)
  <2>1. <<round, num>>[2] = num
    OBVIOUS
  <2> QED BY <1>2, <1>6, <2>1
<1> QED BY <1>1, <1>3, <1>4, <1>5, <1>6 DEF Next

LEMMA NextKeepsNoRepeat ==
  ASSUME EveryPartHasABit
  PROVE  SourceInv /\ NoRepeatInv /\ [Next]_vars => NoRepeatInv'
<1> SUFFICES ASSUME SourceInv, NoRepeatInv, [Next]_vars PROVE NoRepeatInv'
  OBVIOUS
<1>1. CASE UNCHANGED listVars
  BY <1>1 DEF NoRepeatInv, NoPartTwice, PartsHaveBits, listVars
<1>2. CASE copies' = [p \in Packets |-> 0] /\ packetsRead' = {}
  BY <1>2 DEF NoRepeatInv, NoPartTwice, PartsHaveBits
<1>3. ASSUME NEW packet \in Packets, ~AlreadyRead(packet[2]), ReadPart(packet)
      PROVE  NoRepeatInv'
  BY <1>3, ReadingANewPart
<1> QED BY <1>1, <1>2, <1>3, ListStep

(* If every part has a bit, its own or one that it shares, the servers of  *)
(* a part are never registered twice.                                      *)
THEOREM PartsComeOnce == ASSUME EveryPartHasABit PROVE Spec => []NoPartTwice
<1>1. SourceInv /\ NoRepeatInv /\ [Next]_vars => NoRepeatInv'
  BY NextKeepsNoRepeat
<1>2. NoRepeatInv => NoPartTwice
  BY DEF NoRepeatInv
<1> QED BY <1>1, <1>2, InitNoRepeat, SourceIsKept, PTL DEF Spec

-----------------------------------------------------------------------------
(* Where every part has a bit of its own: complete lists are whole, and    *)
(* each is announced once                                                  *)

LEMMA InitWhole == Init => WholeInv
<1> SUFFICES ASSUME Init PROVE WholeInv
  OBVIOUS
<1>1. WholeList /\ AnnouncedOnce /\ BitsAreParts /\ Announcing
  BY DEF Init, WholeList, AnnouncedOnce, BitsAreParts, Announcing
<1>2. CacheIsTheList /\ LastPartCompletes
  BY DEF Init, CacheIsTheList, LastPartCompletes, AllParts
<1> QED BY <1>1, <1>2 DEF WholeInv

LEMMA ReadingAPartWhole ==
  ASSUME NumPackets <= Width, SourceInv, NoRepeatInv, BitsAreParts,
         NEW packet \in Packets, ~AlreadyRead(packet[2]), ReadPart(packet)
  PROVE  /\ packetsRead' = packetsRead \cup {packet[2]} /\ packet[2] \notin packetsRead
         /\ packet[2] \in AllParts
         /\ \A p \in Packets : copies'[p] = IF p = packet THEN 1 ELSE copies[p]
         /\ BitsAreParts'
         /\ PartIsGood(packet[2]) <=>
              packetsRead' = AllParts /\ AllBits(NumPackets) = AllParts
<1>1. packet[2] \in AllParts /\ Bit(packet[2]) = {packet[2]}
  BY BitOfPart, PacketParts DEF AllParts
<1>2. packet[2] \notin packetsRead
  BY <1>1 DEF AlreadyRead
<1>3. /\ packetsRead' = packetsRead \cup {packet[2]}
      /\ numPackets' \in 0..NumPackets /\ numPackets' >= numPackets /\ numPackets' > packet[2]
  BY <1>1, ReadingAPart
<1>4. \A p \in Packets : copies'[p] = IF p = packet THEN 1 ELSE copies[p]
  BY ReadingANewPart DEF EveryPartHasABit
<1>5. BitsAreParts'
  <2>1. packetsRead' \subseteq 0..numPackets' - 1
    <3>1. numPackets' >= numPackets /\ numPackets' > packet[2]
      BY <1>3
    <3>2. numPackets \in Int /\ numPackets' \in Int /\ packet[2] \in Nat
      BY <1>1, <1>3 DEF SourceInv, TypeOK, AllParts
    <3>3. packetsRead \subseteq 0..numPackets - 1
      BY DEF BitsAreParts
    <3>4. packet[2] \in 0..numPackets' - 1 /\ 0..numPackets - 1 \subseteq 0..numPackets' - 1
      BY <3>1, <3>2, NumbersBelow
    <3>5. packetsRead' = packetsRead \cup {packet[2]}
      BY <1>3
    <3> QED BY <3>3, <3>4, <3>5, Zenon
  <2>2. readLastPacket' => numPackets' = NumPackets
    BY <1>1, <1>3 DEF ReadPart, SourceInv, TypeOK, BitsAreParts, Larger, AllParts
  <2>3. NumPackets - 1 \in packetsRead' => readLastPacket'
    BY <1>3 DEF ReadPart, BitsAreParts
  <2>4. \A n \in packetsRead' : \E p \in Packets : p[2] = n /\ copies'[p] > 0
    BY <1>3, <1>4 DEF BitsAreParts
  <2> QED BY <2>1, <2>2, <2>3, <2>4 DEF BitsAreParts
<1>6. PartIsGood(packet[2]) <=> IsWhole(packetsRead', numPackets', readLastPacket')
  BY DEF PartIsGood, ReadPart
<1>7. ASSUME IsWhole(packetsRead', numPackets', readLastPacket')
      PROVE  packetsRead' = AllParts /\ AllBits(NumPackets) = AllParts
  <2>1. readLastPacket' /\ numPackets' = NumPackets /\ packetsRead' = AllBits(NumPackets)
    BY <1>5, <1>7 DEF IsWhole, BitsAreParts
  <2>2. packetsRead' # {} /\ IsWhole(packetsRead', NumPackets, TRUE)
    BY <1>3, <2>1 DEF IsWhole
  <2>3. packetsRead' = 0..NumPackets - 1
    BY <2>2, WholeMeansAll
  <2> QED BY <2>1, <2>3 DEF AllParts
<1>8. ASSUME packetsRead' = AllParts, AllBits(NumPackets) = AllParts
      PROVE  IsWhole(packetsRead', numPackets', readLastPacket')
  <2>1. NumPackets - 1 \in packetsRead'
    BY <1>8 DEF AllParts
  <2>2. readLastPacket' /\ numPackets' = NumPackets
    BY <1>5, <2>1 DEF BitsAreParts
  <2> QED BY <1>8, <2>2 DEF IsWhole
<1> QED BY <1>1, <1>2, <1>3, <1>4, <1>5, <1>6, <1>7, <1>8

(* A closed cache means an empty list.                                     *)
LEMMA ClosedMeansEmpty ==
  ASSUME SourceInv, BitsAreParts, cacheMode = "closed" PROVE packetsRead = {}
<1>1. \A p \in Packets : copies[p] = 0
  BY DEF SourceInv, PartsHaveOneSource
<1> QED BY <1>1 DEF BitsAreParts

(* The file after a datagram of this round was pushed: the list lacked a   *)
(* part before it.                                                         *)
LEMMA PushedRecords ==
  ASSUME SourceInv, WholeInv, registered, cacheMode \in {"closed", "write"},
         NEW packet \in Packets \cup {Other}, file' = Pushed(packet), cacheMode' = "write",
         packetsRead \subseteq packetsRead',
         packetsRead' \subseteq packetsRead \cup {packet[2]},
         packet \in Packets => packet[2] \in packetsRead',
         packet \notin Packets => packetsRead' = packetsRead
  PROVE  /\ CacheIsTheList'
         /\ AllBits(NumPackets) = AllParts => \E n \in AllParts : Lacks(n, Len(file) - 1)'
<1> DEFINE Records == Packets \cup {Other, Torn}
           kept == IF cacheMode = "write" THEN Len(file) ELSE 0
<1>1. file \in Seq(Records) /\ packet \in Records
  BY DEF SourceInv, TypeOK
<1>2. /\ Len(file') = kept + 1 /\ file'[kept + 1] = packet /\ kept \in Nat
      /\ \A i \in 1..kept : i \in 1..Len(file) /\ file'[i] = file[i]
  <2> HIDE DEF Records
  <2>1. CASE cacheMode = "write"
    BY <1>1, <2>1 DEF Pushed
  <2>2. CASE cacheMode = "closed"
    BY <1>1, <2>2 DEF Pushed
  <2> QED BY <2>1, <2>2
<1>3. packet # Torn
  <2>1. Other # Torn
    BY DEF Other, Torn
  <2> QED BY <2>1, OtherIsNoPart
<1>4. cacheMode = "closed" => packetsRead = {}
  BY ClosedMeansEmpty DEF WholeInv
<1>5. cacheMode = "write" =>
        \A n \in AllParts : n \in packetsRead <=> ~Lacks(n, Len(file))
  BY DEF WholeInv, CacheIsTheList
<1>6. \A n \in AllParts : n \in packetsRead <=> ~Lacks(n, kept)
  <2>1. CASE cacheMode = "write"
    BY <1>5, <2>1
  <2>2. CASE cacheMode = "closed"
    BY <1>4, <2>2 DEF Lacks
  <2> QED BY <2>1, <2>2
<1> HIDE DEF kept, Records
<1>7. \A n \in AllParts : Lacks(n, Len(file) - 1)' <=> Lacks(n, kept)
  <2>1. Len(file') - 1 = kept
    BY <1>2
  <2> QED BY <1>2, <2>1 DEF Lacks
<1>8. \A n \in AllParts : Lacks(n, Len(file))' <=>
        Lacks(n, kept) /\ (packet \in Packets => packet[2] # n)
  <2> TAKE n \in AllParts
  <2>1. \A i \in 1..Len(file') : i \in 1..kept \/ i = kept + 1
    BY <1>2
  <2>2. kept + 1 \in 1..Len(file') /\ \A i \in 1..kept : i \in 1..Len(file')
    BY <1>2
  <2> QED BY <1>2, <2>1, <2>2 DEF Lacks
<1>9. packetsRead' \subseteq AllParts
  BY PacketParts DEF SourceInv, TypeOK, WholeInv, BitsAreParts, AllParts
<1>10. CacheIsTheList'
  <2>1. \A i \in 1..Len(file') : file'[i] # Torn
    <3>1. \A i \in 1..kept : file[i] # Torn
      <4>1. CASE cacheMode = "write"
        BY <1>2, <4>1 DEF WholeInv, CacheIsTheList
      <4>2. CASE cacheMode = "closed"
        BY <4>2 DEF kept
      <4> QED BY <4>1, <4>2
    <3>2. \A i \in 1..Len(file') : i \in 1..kept \/ i = kept + 1
      BY <1>2
    <3> QED BY <1>2, <1>3, <3>1, <3>2
  <2>2. \A n \in packetsRead' : ~Lacks(n, Len(file))'
    BY <1>6, <1>8, <1>9
  <2>3. \A n \in AllParts \ packetsRead' : Lacks(n, Len(file))'
    BY <1>6, <1>8
  <2> QED BY <2>1, <2>2, <2>3 DEF CacheIsTheList, AllParts
<1>11. ASSUME AllBits(NumPackets) = AllParts
       PROVE  \E n \in AllParts : Lacks(n, Len(file) - 1)'
  <2>1. packetsRead # AllParts /\ packetsRead \subseteq AllParts
    BY <1>9, <1>11 DEF WholeInv, LastPartCompletes
  <2>2. PICK n \in AllParts : n \notin packetsRead
    BY <2>1
  <2> QED BY <1>6, <1>7, <2>2
<1> QED BY <1>10, <1>11

LEMMA ReadListPacketWhole ==
  ASSUME NumPackets <= Width, SourceInv, NoRepeatInv, WholeInv,
         NEW num \in 0..NumPackets - 1, ReadListPacket(num), NoPartTwice'
  PROVE  WholeInv'
<1> DEFINE packet == <<round, num>>
           good == PartIsGood(num)
<1>1. /\ registered /\ cursor = 0 /\ ~AlreadyRead(num) /\ ReadPart(packet)
      /\ updates' = (IF good THEN updates + 1 ELSE updates)
      /\ registered' = ~good
      /\ outcome' = (IF good THEN "complete" ELSE outcome)
      /\ cacheMode' = "write" /\ file' = Pushed(packet)
      /\ UNCHANGED <<round, timeouted, cursor, hasGood>>
  BY DEF ReadListPacket, PushPacketToCache
<1>2. packet \in Packets /\ packet[1] = round /\ packet[2] = num /\ ~hasGood
      /\ cacheMode \in {"closed", "write"} /\ outcome = "asked" /\ round > 0
  <2>1. round \in 1..MaxRounds
    BY <1>1 DEF SourceInv, TypeOK, ReadingIsLast
  <2> QED BY <1>1, <2>1, PacketParts
          DEF SourceInv, TypeOK, ReadingIsLast, WholeInv, Announcing
<1>3. /\ packetsRead' = packetsRead \cup {num} /\ num \in AllParts
      /\ \A p \in Packets : copies'[p] = IF p = packet THEN 1 ELSE copies[p]
      /\ BitsAreParts'
      /\ good <=> packetsRead' = AllParts /\ AllBits(NumPackets) = AllParts
  <2>1. ~AlreadyRead(packet[2]) /\ BitsAreParts /\ (good <=> PartIsGood(packet[2]))
    BY <1>1, <1>2 DEF WholeInv
  <2> HIDE DEF packet, good
  <2> QED BY <1>1, <1>2, <2>1, ReadingAPartWhole
<1>4. \A p \in Packets : copies'[p] > 0 => p[1] = round
  BY <1>2, <1>3 DEF SourceInv, TypeOK, PartsHaveOneSource
<1>5. /\ CacheIsTheList'
      /\ AllBits(NumPackets) = AllParts => \E n \in AllParts : Lacks(n, Len(file) - 1)'
  <2> HIDE DEF packet
  <2> QED BY <1>1, <1>2, <1>3, PushedRecords
<1>6. good \in BOOLEAN
  BY DEF PartIsGood, IsWhole
<1> HIDE DEF good, packet
<1>7. WholeList'
  <2> SUFFICES ASSUME good, NEW p \in Packets
               PROVE  copies'[p] = IF p[1] = round THEN 1 ELSE 0
    BY <1>1, <1>2 DEF WholeList
  <2>1. CASE p[1] = round
    <3>1. p[2] \in packetsRead'
      BY <1>3, PacketParts DEF AllParts
    <3>2. PICK q \in Packets : q[2] = p[2] /\ copies'[q] > 0
      BY <1>3, <3>1 DEF BitsAreParts
    <3>3. q = p
      BY <1>4, <2>1, <3>2, PacketParts
    <3> QED BY <1>3, <2>1, <3>2, <3>3 DEF NoPartTwice, SourceInv, TypeOK
  <2>2. CASE p[1] # round
    BY <1>3, <1>4, <2>2 DEF SourceInv, TypeOK
  <2> QED BY <2>1, <2>2
<1>8. AnnouncedOnce'
  BY <1>1, <1>2 DEF WholeInv, AnnouncedOnce
<1>9. Announcing'
  <2>1. registered' <=> outcome' = "asked"
    BY <1>1, <1>2
  <2> QED BY <1>1, <1>2, <2>1 DEF Announcing
<1>10. LastPartCompletes'
  BY <1>1, <1>3, <1>5 DEF LastPartCompletes, AllBits, AllParts
<1> QED BY <1>3, <1>5, <1>7, <1>8, <1>9, <1>10 DEF WholeInv

LEMMA ReadStrayPacketWhole ==
  ASSUME SourceInv, WholeInv, NEW packet \in Packets \cup {Other},
         NumPackets <= Width, ReadStrayPacket(packet)
  PROVE  WholeInv'
<1>1. /\ registered /\ cursor = 0
      /\ packet \in Packets => AlreadyRead(packet[2])
      /\ cacheMode' = "write" /\ file' = Pushed(packet)
      /\ UNCHANGED <<listVars, roundVars, cursor, hasGood>>
  BY OtherIsNoPart DEF ReadStrayPacket, PushPacketToCache
<1>2. cacheMode \in {"closed", "write"}
  BY <1>1 DEF SourceInv, TypeOK, ReadingIsLast
<1>3. packet \in Packets => packet[2] \in packetsRead
  <2> SUFFICES ASSUME packet \in Packets PROVE packet[2] \in packetsRead
    OBVIOUS
  <2>1. Bit(packet[2]) = {packet[2]}
    BY PacketParts, BitOfPart
  <2> QED BY <1>1, <2>1 DEF AlreadyRead
<1>4. /\ CacheIsTheList'
      /\ AllBits(NumPackets) = AllParts => \E n \in AllParts : Lacks(n, Len(file) - 1)'
  <2>1. packetsRead' = packetsRead
    BY <1>1 DEF listVars
  <2> QED BY <1>1, <1>2, <1>3, <2>1, PushedRecords
<1>5. WholeList' /\ AnnouncedOnce' /\ BitsAreParts' /\ Announcing'
  BY <1>1 DEF WholeInv, WholeList, AnnouncedOnce, BitsAreParts, Announcing,
              listVars, roundVars
<1>6. LastPartCompletes'
  BY <1>1, <1>2, <1>4 DEF WholeInv, LastPartCompletes, AllBits, AllParts, listVars, roundVars
<1> QED BY <1>4, <1>5, <1>6 DEF WholeInv

LEMMA RefreshStartsWhole ==
  ASSUME SourceInv, WholeInv, RefreshStarts PROVE WholeInv'
<1> USE DEF RefreshStarts
<1>1. WholeList' /\ AnnouncedOnce'
  BY DEF WholeList, AnnouncedOnce
<1>2. BitsAreParts'
  BY DEF BitsAreParts
<1>3. ~hasGood
  BY DEF SourceInv, TypeOK, ReadingIsLast
<1>4. Announcing'
  BY <1>3 DEF Announcing
<1>5. CacheIsTheList'
  BY DEF WholeInv, CacheIsTheList
<1>6. LastPartCompletes'
  <2>1. 0 \in AllParts
    BY DEF AllParts
  <2> QED BY <2>1 DEF WholeInv, LastPartCompletes, Lacks, AllBits, AllParts
<1> QED BY <1>1, <1>2, <1>4, <1>5, <1>6 DEF WholeInv

LEMMA OpenPacketCacheWhole ==
  ASSUME SourceInv, WholeInv, registered, cursor = 0, OpenPacketCache
  PROVE  WholeInv'
<1> USE DEF OpenPacketCache
<1>1. outcome = "asked" /\ updates = 0 /\ cacheMode # "read"
  BY DEF SourceInv, TypeOK, ReadingIsLast, WholeInv, Announcing, AnnouncedOnce
<1>2. WholeList' /\ AnnouncedOnce' /\ BitsAreParts'
  BY <1>1 DEF WholeInv, WholeList, AnnouncedOnce, BitsAreParts, listVars
<1>3. Announcing'
  <2>1. registered' <=> outcome' = "asked"
    BY <1>1
  <2>2. cursor' > 0 => registered'
    <3>1. cursor' > 0 => file # <<>>
      OBVIOUS
    <3> QED BY <3>1
  <2> QED BY <2>1, <2>2 DEF Announcing
<1>4. CacheIsTheList'
  <2>1. cacheMode = "closed" => packetsRead = {}
    BY ClosedMeansEmpty DEF WholeInv
  <2> QED BY <2>1 DEF WholeInv, CacheIsTheList, Lacks, listVars
<1>5. LastPartCompletes'
  BY DEF WholeInv, LastPartCompletes, Lacks, AllBits, AllParts
<1> QED BY <1>2, <1>3, <1>4, <1>5 DEF WholeInv

(* Once the list is whole, a cached datagram changes nothing more.         *)
LEMMA RestIsSkipped ==
  ASSUME NumPackets <= Width, SourceInv, WholeInv, hasGood, NEW packet \in Packets
  PROVE  AlreadyRead(packet[2])
<1>1. packet[2] \in AllParts /\ Bit(packet[2]) = {packet[2]}
  BY BitOfPart, PacketParts DEF AllParts
<1> QED BY <1>1 DEF WholeInv, Announcing, AlreadyRead

LEMMA ReadCachedPacketWhole ==
  ASSUME NumPackets <= Width, SourceInv, NoRepeatInv, WholeInv, ReadCachedPacket
  PROVE  WholeInv'
<1> DEFINE packet == file[cursor]
           skipped == packet = Other \/ AlreadyRead(packet[2])
           good == ~skipped /\ PartIsGood(packet[2])
           last == Announces(hasGood \/ good)
           signals == (IF good THEN 1 ELSE 0) + (IF last THEN 1 ELSE 0)
<1>1. /\ cursor > 0 /\ packet # Torn
      /\ IF skipped THEN UNCHANGED listVars ELSE ReadPart(packet)
      /\ cursor' = NextInFile
      /\ hasGood' = (NextInFile > 0 /\ (hasGood \/ good))
      /\ updates' = updates + signals
      /\ registered' = (registered /\ signals = 0)
      /\ outcome' = (IF signals > 0 THEN "cached" ELSE outcome)
      /\ UNCHANGED <<round, timeouted, cacheMode, file>>
  BY DEF ReadCachedPacket
<1>2. cursor \in 1..Len(file) /\ packet \in Packets \cup {Other} /\ cacheMode = "read"
      /\ outcome # "complete"
  BY <1>1 DEF SourceInv, TypeOK, ReadingIsLast
<1>3. /\ BitsAreParts'
      /\ packetsRead' = IF skipped THEN packetsRead ELSE packetsRead \cup {packet[2]}
      /\ ~skipped => packet \in Packets
      /\ good => packetsRead' = AllParts /\ AllBits(NumPackets) = AllParts
  <2>1. CASE skipped
    <3>1. UNCHANGED listVars /\ ~good
      BY <1>1, <2>1
    <3> QED BY <2>1, <3>1 DEF WholeInv, BitsAreParts, listVars
  <2>2. CASE ~skipped
    <3>1. packet \in Packets /\ ~AlreadyRead(packet[2]) /\ ReadPart(packet) /\ BitsAreParts
      BY <1>1, <1>2, <2>2 DEF WholeInv
    <3> HIDE DEF packet
    <3> QED BY <2>2, <3>1, ReadingAPartWhole
  <2> HIDE DEF skipped
  <2> QED BY <2>1, <2>2
<1>4. hasGood => skipped /\ ~good /\ ~last
  BY <1>2, RestIsSkipped DEF Announces
<1>5. good \in BOOLEAN /\ (last <=> cursor = Len(file) /\ ~(hasGood \/ good))
  BY DEF Announces
<1>6. CacheIsTheList'
  <2>1. ASSUME NEW n \in packetsRead' PROVE ~Lacks(n, Len(file))
    <3>1. CASE n \in packetsRead
      BY <1>2, <3>1 DEF WholeInv, CacheIsTheList
    <3>2. CASE n \notin packetsRead
      BY <1>2, <1>3, <2>1, <3>2 DEF Lacks
    <3> QED BY <3>1, <3>2
  <2> HIDE DEF packet, skipped, good, signals
  <2>2. /\ \A i \in 1..Len(file') : file'[i] = Torn => i = Len(file') /\ cacheMode' # "write"
        /\ \A n \in packetsRead' : ~Lacks(n, Len(file))'
    BY <1>1, <1>2, <2>1 DEF WholeInv, CacheIsTheList, Lacks
  <2> QED BY <1>1, <1>2, <2>2 DEF CacheIsTheList
<1>7. signals \in 0..1 /\ (signals = 0 <=> ~good /\ ~last)
  BY <1>5
<1> HIDE DEF packet, skipped, good, last, signals
<1>8. /\ registered <=> outcome = "asked"
      /\ registered \/ hasGood
      /\ hasGood => outcome = "cached" /\ packetsRead = AllParts /\ AllBits(NumPackets) = AllParts
      /\ registered => ~hasGood
  BY <1>1 DEF WholeInv, Announcing, SourceInv, ReadingIsLast
<1>9. AnnouncedOnce'
  <2>1. CASE hasGood
    <3>1. signals = 0 /\ outcome = "cached" /\ updates = 1
      BY <1>4, <1>7, <1>8, <2>1 DEF WholeInv, AnnouncedOnce
    <3> QED BY <1>1, <3>1 DEF AnnouncedOnce
  <2>2. CASE ~hasGood
    <3>1. outcome = "asked" /\ updates = 0
      BY <1>8, <2>2 DEF WholeInv, AnnouncedOnce
    <3> QED BY <1>1, <1>7, <3>1 DEF AnnouncedOnce
  <2> QED BY <2>1, <2>2
<1>10. Announcing'
  <2>1. registered' <=> outcome' = "asked"
    <3>1. signals > 0 => outcome' = "cached" /\ signals # 0
      BY <1>1, <1>7
    <3>2. signals = 0 => outcome' = outcome
      BY <1>1
    <3>3. signals > 0 \/ signals = 0
      BY <1>7
    <3>4. registered' <=> registered /\ signals = 0
      BY <1>1, Zenon
    <3> QED BY <1>8, <3>1, <3>2, <3>3, <3>4
  <2>2. cursor' > 0 => registered' \/ hasGood'
    <3>1. cursor' > 0 => cursor # Len(file) /\ NextInFile > 0
      BY <1>1, <1>2 DEF NextInFile
    <3>2. cursor' > 0 /\ ~hasGood' => ~hasGood /\ ~good /\ ~last
      BY <1>1, <1>5, <3>1
    <3> QED BY <1>1, <1>7, <1>8, <3>2
  <2>3. hasGood' => hasGood \/ good
    BY <1>1
  <2>4. hasGood => outcome' = "cached"
    BY <1>1, <1>8
  <2>5. good => outcome' = "cached"
    BY <1>1, <1>7
  <2>6. hasGood => packetsRead' = AllParts /\ AllBits(NumPackets) = AllParts
    BY <1>3, <1>4, <1>8
  <2> QED BY <1>3, <2>1, <2>2, <2>3, <2>4, <2>5, <2>6 DEF Announcing, AllParts, AllBits
<1>11. WholeList'
  BY <1>1, <1>2 DEF WholeList
<1>12. LastPartCompletes'
  BY <1>1, <1>2 DEF WholeInv, LastPartCompletes, Lacks, AllBits, AllParts
<1> QED BY <1>3, <1>6, <1>9, <1>10, <1>11, <1>12 DEF WholeInv

(* A torn record is met before the list is whole.                          *)
LEMMA TornIsNotWhole ==
  ASSUME SourceInv, WholeInv, cursor > 0, file[cursor] = Torn PROVE ~hasGood
<1>1. cursor \in 1..Len(file) /\ cacheMode = "read"
  BY DEF SourceInv, TypeOK, ReadingIsLast
<1>2. cursor = Len(file)
  BY <1>1 DEF WholeInv, CacheIsTheList
<1> SUFFICES ASSUME hasGood PROVE FALSE
  OBVIOUS
<1>3. packetsRead = AllParts /\ AllBits(NumPackets) = AllParts
  BY DEF WholeInv, Announcing
<1>4. file # <<>>
  <2>1. Len(file) # 0
    BY <1>1
  <2> QED BY <2>1
<1>5. PICK n \in AllParts : Lacks(n, Len(file) - 1)
  BY <1>2, <1>3, <1>4 DEF WholeInv, LastPartCompletes
<1>6. ~Lacks(n, Len(file))
  BY <1>1, <1>3 DEF WholeInv, CacheIsTheList
<1>7. PICK i \in 1..Len(file) : file[i] \in Packets /\ file[i][2] = n
  BY <1>6 DEF Lacks
<1>8. i # Len(file)
  BY <1>2, <1>7, OtherIsNoPart
<1>9. i \in 1..Len(file) - 1
  BY <1>1, <1>8
<1> QED BY <1>5, <1>7, <1>9 DEF Lacks

LEMMA RoundEndsWhole ==
  ASSUME SourceInv, WholeInv, ReadRefusal \/ ReadTornRecord PROVE WholeInv'
<1>1. registered /\ ~hasGood
  <2>1. CASE ReadRefusal
    BY <2>1 DEF ReadRefusal, SourceInv, TypeOK, ReadingIsLast
  <2>2. CASE ReadTornRecord
    BY <2>2, TornIsNotWhole DEF ReadTornRecord, WholeInv, Announcing
  <2> QED BY <2>1, <2>2
<1>2. outcome = "asked" /\ updates = 0
  BY <1>1 DEF WholeInv, Announcing, AnnouncedOnce
<1>3. /\ UNCHANGED <<listVars, round, timeouted, cacheMode, file>>
      /\ registered' = FALSE /\ cursor' = 0 /\ hasGood' = FALSE
      /\ \/ outcome' = "cached" /\ updates' = 1
         \/ outcome' = "refused" /\ updates' = 0
  BY <1>1, <1>2 DEF ReadRefusal, ReadTornRecord, cacheVars, SourceInv, TypeOK, ReadingIsLast
<1>4. WholeList' /\ AnnouncedOnce' /\ BitsAreParts' /\ Announcing'
  BY <1>3 DEF WholeInv, WholeList, AnnouncedOnce, BitsAreParts, Announcing, listVars
<1>5. CacheIsTheList'
  BY <1>3 DEF WholeInv, CacheIsTheList, Lacks, listVars
<1>6. LastPartCompletes'
  BY <1>3 DEF WholeInv, LastPartCompletes, Lacks, listVars, AllBits, AllParts
<1> QED BY <1>4, <1>5, <1>6 DEF WholeInv

(* Of a file that is being written a crash leaves some of the records; the *)
(* last of them, which may have completed the list, is gone if any is torn.*)
LEMMA RemainsAreTorn ==
  ASSUME SourceInv, WholeInv, NEW f \in Remains
  PROVE  /\ \A i \in 1..Len(f) : f[i] = Torn => i = Len(f)
         /\ AllBits(NumPackets) = AllParts /\ f # <<>> /\ f[Len(f)] = Torn =>
              \E n \in AllParts : \A i \in 1..Len(f) - 1 : f[i] \in Packets => f[i][2] # n
<1> DEFINE Records == Packets \cup {Other, Torn}
<1>1. file \in Seq(Records) /\ Torn \in Records
  BY DEF SourceInv, TypeOK
<1>2. \A i \in 1..Len(file) : file[i] = Torn => i = Len(file) /\ cacheMode # "write"
  BY DEF WholeInv, CacheIsTheList
<1>3. AllBits(NumPackets) = AllParts /\ (cacheMode = "write" \/ (file # <<>> /\ file[Len(file)] = Torn)) =>
        \E n \in AllParts : \A i \in 1..Len(file) - 1 : file[i] \in Packets => file[i][2] # n
  BY DEF WholeInv, LastPartCompletes, Lacks
<1> HIDE DEF Records
<1>4. CASE f = file
  BY <1>2, <1>3, <1>4
<1>5. ASSUME cacheMode = "write", NEW n \in 0..Len(file), f = SubSeq(file, 1, n)
      PROVE  \A i \in 1..Len(f) : f[i] # Torn
  <2>1. Len(f) = n /\ \A i \in 1..n : f[i] = file[i] /\ i \in 1..Len(file)
    BY <1>1, <1>5
  <2> QED BY <1>2, <1>5, <2>1
<1>6. ASSUME cacheMode = "write", NEW n \in 0..Len(file) - 1, f = Append(SubSeq(file, 1, n), Torn)
      PROVE  /\ Len(f) = n + 1
             /\ \A i \in 1..n : f[i] = file[i] /\ i \in 1..Len(file) - 1 /\ f[i] # Torn
  <2>1. /\ SubSeq(file, 1, n) \in Seq(Records) /\ Len(SubSeq(file, 1, n)) = n
        /\ \A i \in 1..n : SubSeq(file, 1, n)[i] = file[i] /\ i \in 1..Len(file) - 1
    BY <1>1
  <2>2. Len(f) = n + 1 /\ \A i \in 1..n : f[i] = file[i]
    BY <1>1, <1>6, <2>1
  <2> QED BY <1>2, <1>6, <2>1, <2>2
<1>7. ASSUME cacheMode = "write", NEW n \in 0..Len(file) - 1, f = Append(SubSeq(file, 1, n), Torn)
      PROVE  /\ \A i \in 1..Len(f) : f[i] = Torn => i = Len(f)
             /\ AllBits(NumPackets) = AllParts =>
                 \E m \in AllParts : \A i \in 1..Len(f) - 1 : f[i] \in Packets => f[i][2] # m
  <2>1. /\ Len(f) = n + 1
        /\ \A i \in 1..n : f[i] = file[i] /\ i \in 1..Len(file) - 1 /\ f[i] # Torn
    BY <1>6, <1>7
  <2>2. \A i \in 1..Len(f) : f[i] = Torn => i = Len(f)
    BY <2>1
  <2>3. ASSUME AllBits(NumPackets) = AllParts
        PROVE  \E m \in AllParts : \A i \in 1..Len(f) - 1 : f[i] \in Packets => f[i][2] # m
    <3>1. PICK m \in AllParts : \A i \in 1..Len(file) - 1 : file[i] \in Packets => file[i][2] # m
      BY <1>3, <1>7, <2>3
    <3>2. \A i \in 1..Len(f) - 1 : i \in 1..n
      BY <2>1
    <3> QED BY <2>1, <3>1, <3>2
  <2> QED BY <2>2, <2>3
<1>8. f # <<>> => Len(f) \in 1..Len(f)
  <2>1. f \in Seq(Packets \cup {Other, Torn})
    BY RemainsOfFile
  <2> QED BY <2>1
<1> QED BY <1>4, <1>5, <1>7, <1>8 DEF Remains

LEMMA CrashWhole == ASSUME SourceInv, WholeInv, Crash PROVE WholeInv'
<1> USE DEF Crash
<1>1. WholeList' /\ AnnouncedOnce' /\ BitsAreParts' /\ Announcing'
  BY DEF WholeList, AnnouncedOnce, BitsAreParts, Announcing
<1>2. /\ \A i \in 1..Len(file') : file'[i] = Torn => i = Len(file')
      /\ AllBits(NumPackets) = AllParts /\ file' # <<>> /\ file'[Len(file')] = Torn =>
           \E n \in AllParts : \A i \in 1..Len(file') - 1 : file'[i] \in Packets => file'[i][2] # n
  BY RemainsAreTorn
<1>3. CacheIsTheList'
  BY <1>2 DEF CacheIsTheList
<1>4. LastPartCompletes'
  BY <1>2 DEF LastPartCompletes, Lacks, AllBits, AllParts
<1> QED BY <1>1, <1>3, <1>4 DEF WholeInv

LEMMA NextKeepsWhole ==
  ASSUME NumPackets <= Width
  PROVE  SourceInv /\ NoRepeatInv /\ WholeInv /\ [Next]_vars => WholeInv'
<1> SUFFICES ASSUME SourceInv, NoRepeatInv, WholeInv, [Next]_vars PROVE WholeInv'
  OBVIOUS
<1>1. CASE RefreshStarts
  BY <1>1, RefreshStartsWhole
<1>2. ASSUME NEW num \in 0..NumPackets - 1, ReadListPacket(num) PROVE WholeInv'
  <2>1. NoPartTwice'
    BY NextKeepsNoRepeat DEF NoRepeatInv, EveryPartHasABit
  <2> QED BY <1>2, <2>1, ReadListPacketWhole
<1>3. ASSUME NEW packet \in Packets \cup {Other}, ReadStrayPacket(packet) PROVE WholeInv'
  BY <1>3, ReadStrayPacketWhole
<1>4. CASE ReadWaitOrBad \/ TimeoutRefresh
  <2>1. registered /\ cursor = 0 /\ OpenPacketCache
    BY <1>4 DEF ReadWaitOrBad, TimeoutRefresh
  <2> QED BY <2>1, OpenPacketCacheWhole
<1>5. CASE ReadRefusal \/ ReadTornRecord
  BY <1>5, RoundEndsWhole
<1>6. CASE ReadCachedPacket
  BY <1>6, ReadCachedPacketWhole
<1>7. CASE Crash
  BY <1>7, CrashWhole
<1>8. CASE UNCHANGED vars
  <2>1. WholeList' /\ AnnouncedOnce' /\ BitsAreParts' /\ Announcing'
    BY <1>8 DEF WholeInv, WholeList, AnnouncedOnce, BitsAreParts, Announcing,
                vars, listVars, roundVars, cacheVars
  <2>2. CacheIsTheList' /\ LastPartCompletes'
    BY <1>8 DEF WholeInv, CacheIsTheList, LastPartCompletes, Lacks, AllBits, AllParts,
                vars, listVars, roundVars, cacheVars
  <2> QED BY <2>1, <2>2 DEF WholeInv
<1> QED BY <1>1, <1>2, <1>3, <1>4, <1>5, <1>6, <1>7, <1>8 DEF Next

LEMMA WholeIsKept ==
  ASSUME NumPackets <= Width
  PROVE  Spec => [](SourceInv /\ NoRepeatInv /\ WholeInv)
<1>1. EveryPartHasABit
  BY DEF EveryPartHasABit
<1>2. SourceInv /\ NoRepeatInv /\ [Next]_vars => NoRepeatInv'
  BY <1>1, NextKeepsNoRepeat
<1>3. SourceInv /\ NoRepeatInv /\ WholeInv /\ [Next]_vars => WholeInv'
  BY NextKeepsWhole
<1> QED BY <1>2, <1>3, InitNoRepeat, InitWhole, SourceIsKept, PTL DEF Spec

(* With at most as many parts as packetsRead has bits, a list that is      *)
(* announced as complete has every part of this round's list once and      *)
(* nothing else.                                                           *)
THEOREM ListsAreWhole == ASSUME NumPackets <= Width PROVE Spec => []WholeList
<1>1. WholeInv => WholeList
  BY DEF WholeInv
<1> QED BY <1>1, WholeIsKept, PTL

(* Then a round also emits listUpdated() once, whatever was cached, torn   *)
(* or read before: readPacketCache() never announces a list that one of    *)
(* its datagrams announced already.                                        *)
THEOREM AnnouncesOnce == ASSUME NumPackets <= Width PROVE Spec => []AnnouncedOnce
<1>1. WholeInv => AnnouncedOnce
  BY DEF WholeInv
<1> QED BY <1>1, WholeIsKept, PTL

-----------------------------------------------------------------------------
(* What the rest of the program sees of a round                            *)

LEMMA ServicePackets == Service!Packets = Packets /\ Service!None = [p \in Packets |-> 0]
BY DEF Service!Packets, Service!None, Packets

(* Reading a part that is not in the list gathers it.                      *)
LEMMA ReadingGathers ==
  ASSUME NumPackets <= Width, SourceInv, NoRepeatInv, SourceInv',
         NEW packet \in Packets, ~AlreadyRead(packet[2]), ReadPart(packet)
  PROVE  Service!Gathered(packet)
<1>1. copies[packet] = 0
  BY NewPart DEF EveryPartHasABit
<1>2. copies' = [copies EXCEPT ![packet] = 1]
  BY <1>1 DEF ReadPart
<1>3. copies'[packet] = 1 /\ \A q \in Packets : copies[q] > 0 => copies'[q] > 0
  BY <1>1, <1>2 DEF SourceInv, TypeOK
<1>4. \A q \in Packets : copies[q] > 0 => q[1] = packet[1]
  BY <1>3 DEF SourceInv, ListOfOneRound
<1> QED BY <1>1, <1>2, <1>4, ServicePackets DEF Service!Gathered

LEMMA ReadListPacketServes ==
  ASSUME NumPackets <= Width, SourceInv, NoRepeatInv, WholeInv, SourceInv', WholeInv',
         NEW num \in 0..NumPackets - 1, ReadListPacket(num)
  PROVE  Service!Next
<1> DEFINE packet == <<round, num>>
           good == PartIsGood(num)
<1>1. /\ registered /\ cursor = 0 /\ ~AlreadyRead(num) /\ ReadPart(packet)
      /\ updates' = (IF good THEN updates + 1 ELSE updates)
      /\ outcome' = (IF good THEN "complete" ELSE outcome)
      /\ UNCHANGED round
  BY DEF ReadListPacket
<1>2. packet \in Packets /\ packet[2] = num /\ outcome = "asked"
  <2>1. round \in 1..MaxRounds /\ outcome = "asked"
    BY <1>1 DEF SourceInv, TypeOK, ReadingIsLast, WholeInv, Announcing
  <2> QED BY <2>1, PacketParts
<1>3. Service!Gathered(packet)
  <2>1. ~AlreadyRead(packet[2])
    BY <1>1, <1>2
  <2> HIDE DEF packet
  <2> QED BY <1>1, <1>2, <2>1, ReadingGathers
<1> HIDE DEF packet
<1>4. CASE ~good
  BY <1>1, <1>2, <1>3, <1>4, ServicePackets DEF Service!Next, Service!Gather
<1>5. CASE good
  <2>1. outcome' = "complete" /\ updates' = updates + 1
    BY <1>1, <1>5
  <2>2. \A p \in Packets : copies'[p] = IF p[1] = round THEN 1 ELSE 0
    BY <1>1, <2>1 DEF WholeInv, WholeList
  <2>3. copies' = Service!Whole
    BY <2>2, ServicePackets DEF Service!Whole, SourceInv, TypeOK
  <2> QED BY <1>1, <1>2, <1>3, <2>1, <2>3, ServicePackets DEF Service!Next, Service!Announce
<1> QED BY <1>4, <1>5

LEMMA ReadCachedPacketServes ==
  ASSUME NumPackets <= Width, SourceInv, NoRepeatInv, WholeInv, SourceInv',
         ReadCachedPacket
  PROVE  Service!Next \/ UNCHANGED Service!vars
<1> DEFINE packet == file[cursor]
           skipped == packet = Other \/ AlreadyRead(packet[2])
           good == ~skipped /\ PartIsGood(packet[2])
           last == Announces(hasGood \/ good)
           signals == (IF good THEN 1 ELSE 0) + (IF last THEN 1 ELSE 0)
<1>1. /\ cursor > 0 /\ packet # Torn
      /\ IF skipped THEN UNCHANGED listVars ELSE ReadPart(packet)
      /\ updates' = updates + signals
      /\ outcome' = (IF signals > 0 THEN "cached" ELSE outcome)
      /\ UNCHANGED round
  BY DEF ReadCachedPacket
<1>2. packet \in Packets \cup {Other}
  BY <1>1 DEF SourceInv, TypeOK
<1>3. hasGood => skipped /\ ~last
  BY <1>2, RestIsSkipped DEF Announces
<1>4. ~hasGood => outcome = "asked"
  BY <1>1 DEF WholeInv, Announcing
<1>5. /\ skipped => copies' = copies
      /\ ~skipped => packet \in Packets /\ Service!Gathered(packet)
  <2>1. CASE skipped
    BY <1>1, <2>1 DEF listVars
  <2>2. CASE ~skipped
    <3>1. packet \in Packets /\ ~AlreadyRead(packet[2]) /\ ReadPart(packet)
      BY <1>1, <1>2, <2>2
    <3> HIDE DEF packet
    <3> QED BY <2>2, <3>1, ReadingGathers
  <2> HIDE DEF skipped
  <2> QED BY <2>1, <2>2
<1>6. signals \in 0..1 /\ (signals > 0 => ~hasGood) /\ (good => ~skipped)
  <2>1. good \in BOOLEAN /\ last \in BOOLEAN /\ (good => ~last)
    BY DEF Announces
  <2> QED BY <2>1, <1>3
<1>7. updates \in Nat
  BY DEF SourceInv, TypeOK
<1> HIDE DEF packet, skipped, good, last, signals
<1>8. CASE signals = 0 /\ skipped
  BY <1>1, <1>5, <1>7, <1>8 DEF Service!vars
<1>9. CASE signals = 0 /\ ~skipped
  BY <1>1, <1>3, <1>4, <1>5, <1>7, <1>9, ServicePackets DEF Service!Next, Service!Gather
<1>10. CASE signals = 1
  <2>1. outcome = "asked" /\ outcome' = "cached" /\ updates' = updates + 1
    BY <1>1, <1>4, <1>6, <1>10
  <2>2. copies' = copies \/ \E p \in Service!Packets : Service!Gathered(p)
    BY <1>5, ServicePackets
  <2> QED BY <1>1, <2>1, <2>2 DEF Service!Next, Service!Announce
<1> QED BY <1>6, <1>8, <1>9, <1>10

LEMMA StepsServe ==
  ASSUME NumPackets <= Width
  PROVE  SourceInv /\ NoRepeatInv /\ WholeInv /\ SourceInv' /\ WholeInv' /\ [Next]_vars
         => [Service!Next]_Service!vars
<1> SUFFICES ASSUME SourceInv, NoRepeatInv, WholeInv, SourceInv', WholeInv', [Next]_vars
             PROVE  Service!Next \/ UNCHANGED Service!vars
  OBVIOUS
<1>1. registered <=> outcome = "asked"
  BY DEF WholeInv, Announcing
<1>2. CASE RefreshStarts
  BY <1>1, <1>2, ServicePackets DEF RefreshStarts, EmptyList, Service!Next, Service!Ask
<1>3. ASSUME NEW num \in 0..NumPackets - 1, ReadListPacket(num) PROVE Service!Next
  BY <1>3, ReadListPacketServes
<1>4. ASSUME NEW packet \in Packets \cup {Other}, ReadStrayPacket(packet)
      PROVE  UNCHANGED Service!vars
  BY <1>4 DEF ReadStrayPacket, listVars, roundVars, Service!vars
<1>5. CASE ReadWaitOrBad \/ TimeoutRefresh
  <2>1. registered /\ OpenPacketCache
    BY <1>5 DEF ReadWaitOrBad, TimeoutRefresh
  <2>2. CASE file = <<>>
    BY <1>1, <2>1, <2>2 DEF OpenPacketCache, listVars, Service!Next, Service!Announce
  <2>3. CASE file # <<>>
    BY <2>1, <2>3 DEF OpenPacketCache, listVars, Service!vars
  <2> QED BY <2>2, <2>3
<1>6. CASE ReadRefusal
  BY <1>1, <1>6 DEF ReadRefusal, listVars, Service!Next, Service!Refuse
<1>7. CASE ReadTornRecord
  <2>1. registered
    BY <1>7, TornIsNotWhole DEF ReadTornRecord, WholeInv, Announcing
  <2> QED BY <1>1, <1>7, <2>1 DEF ReadTornRecord, listVars, Service!Next, Service!Announce
<1>8. CASE ReadCachedPacket
  BY <1>8, ReadCachedPacketServes
<1>9. CASE Crash
  BY <1>9, ServicePackets DEF Crash, Service!Next, Service!Vanish
<1>10. CASE UNCHANGED vars
  BY <1>10 DEF vars, listVars, roundVars, Service!vars
<1> QED BY <1>2, <1>3, <1>4, <1>5, <1>6, <1>7, <1>8, <1>9, <1>10 DEF Next

(* With at most as many parts as bits, whatever the network, the cache and *)
(* crashes do, the list changes only while the client is asked, by one     *)
(* part at a time of one round; one announcement ends the round, and then  *)
(* the list stays.                                                         *)
THEOREM ImplementsListService == ASSUME NumPackets <= Width PROVE Spec => ServiceSpec
<1>1. Init => Service!Init
  BY ServicePackets DEF Init, Service!Init
<1>2. SourceInv /\ NoRepeatInv /\ WholeInv /\ SourceInv' /\ WholeInv' /\ [Next]_vars
      => [Service!Next]_Service!vars
  BY StepsServe
<1> QED BY <1>1, <1>2, WholeIsKept, PTL DEF Spec, ServiceSpec, Service!Spec

=============================================================================
