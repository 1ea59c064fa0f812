-------------------------- MODULE ZandronumMaster ---------------------------
(***************************************************************************)
(* A master client at work: ZandronumMasterClient puts a server list       *)
(* together from datagrams that come in any order, more than once or not   *)
(* at all, and MasterClient keeps those datagrams in a file from which the *)
(* list of an earlier round is read when the master does not answer.       *)
(*                                                                         *)
(* A datagram is <<round, num>>: part "num" of the list the master held in *)
(* that round.  What a part says is left out, but for its servers being    *)
(* its own.                                                                *)
(***************************************************************************)
EXTENDS Integers, Sequences

CONSTANTS
  NumPackets,   \* parts of the master's list
  Width,        \* bits of "unsigned int packetsRead": 32 in every build
  ShiftWraps,   \* what 1 << n gives for n >= Width: 1 << (n % Width), or 0
  Answers,      \* answers other than a part of the list
  MaxRounds,    \* bound: rounds started
  MaxStrays,    \* bound: datagrams cached on top of those of the list
  Crashes       \* does the program crash?

(* A part's number is a byte.                                              *)
ASSUME SizesAssumption ==
  /\ NumPackets \in 1..256
  /\ Width \in Nat \ {0}
  /\ ShiftWraps \in BOOLEAN
  /\ MaxRounds \in Nat
  /\ MaxStrays \in Nat
  /\ Crashes \in BOOLEAN

ASSUME AnswersAssumption ==
  Answers \subseteq {"OTHER", "WAIT", "BAD", "BANNED", "OLD"}

VARIABLES
  round,           \* rounds started: which list the master holds now
  registered,      \* the Refresher reads this client's datagrams
  packetsRead,     \* the bits that are set
  numPackets,
  readLastPacket,
  copies,          \* how often the servers of each part are in "servers"
  timeouted,       \* MasterClient::timeouted
  updates,         \* listUpdated() emitted since the round started
  outcome,         \* how the latest round ended
  cacheMode,       \* MasterClient::cache: closed, or open to "read" or "write"
  file,            \* the cache file's datagrams, those still buffered included
  cursor,          \* readPacketCache(): next datagram to read, 0 if not reading
  hasGood          \* readPacketCache(): a datagram completed the list

listVars  == <<packetsRead, numPackets, readLastPacket, copies>>
roundVars == <<round, registered, timeouted, updates, outcome>>
cacheVars == <<cacheMode, file, cursor, hasGood>>
vars == <<listVars, roundVars, cacheVars>>

Packets == (1..MaxRounds) \X (0..NumPackets - 1)
Other == <<0, 1>>  \* a datagram of another kind
Torn == <<0, 0>>   \* what is left of a record after a crash

-----------------------------------------------------------------------------
(* Putting the list together                                               *)

(* 1 << n, as the set of its bits.                                         *)
Bit(n) == IF n < Width THEN {n} ELSE IF ShiftWraps THEN {n % Width} ELSE {}

(* (1 << n) - 1, as the set of its bits.                                   *)
AllBits(n) ==
  IF n < Width THEN 0..n - 1
  ELSE IF ShiftWraps THEN 0..(n % Width) - 1 ELSE 0..Width - 1

EmptyListKept == copies
EmptyList == [p \in Packets |-> 0]

AlreadyRead(num) == Bit(num) \cap packetsRead # {}

Larger(a, b) == IF a > b THEN a ELSE b

(* Are these bits the whole of a list of so many parts?                    *)
IsWholeLastOnly(bits, parts, last) == last
IsWhole(bits, parts, last) == last /\ bits = AllBits(parts)

(* readMasterResponse() on a part that was not read before: it is noted    *)
(* and its servers are registered; the answer is GOOD if the list is whole.*)
ReadPart(packet) ==
  /\ packetsRead' = packetsRead \cup Bit(packet[2])
  /\ numPackets' = Larger(numPackets, packet[2] + 1)
  /\ readLastPacket' = (readLastPacket \/ packet[2] = NumPackets - 1)
  /\ copies' = [copies EXCEPT ![packet] = @ + 1]

PartIsGood(num) ==
  IsWhole(packetsRead \cup Bit(num), Larger(numPackets, num + 1),
          readLastPacket \/ num = NumPackets - 1)

-----------------------------------------------------------------------------
(* The cache file                                                          *)

(* pushPacketToCache(): the first datagram of a round truncates the file.  *)
PushedAppending(packet) == Append(file, packet)
Pushed(packet) ==
  IF cacheMode = "write" THEN Append(file, packet) ELSE <<packet>>

PushPacketToCache(packet) ==
  /\ cacheMode' = "write"
  /\ file' = Pushed(packet)
  /\ UNCHANGED <<cursor, hasGood>>

(* readPacketCache(), up to its loop: with nothing to read it emits        *)
(* listUpdated(), and the Refresher unregisters the master.                *)
OpenPacketCache ==
  /\ cacheMode' = "read"
  /\ hasGood' = FALSE
  /\ cursor' = (IF file = <<>> THEN 0 ELSE 1)
  /\ updates' = (IF file = <<>> THEN updates + 1 ELSE updates)
  /\ registered' = (file # <<>>)
  /\ outcome' = (IF file = <<>> THEN "cached" ELSE outcome)
  /\ UNCHANGED <<listVars, round, file>>

(* One turn of the loop of readPacketCache().  Nothing else runs until it  *)
(* ends: at the end of the file, where listUpdated() is emitted if no      *)
(* datagram completed the list, or at a torn record.                       *)
NextInFile == IF cursor < Len(file) THEN cursor + 1 ELSE 0

AnnouncesNever(good) == FALSE
Announces(good) == cursor = Len(file) /\ ~good

ReadCachedPacket ==
  LET packet == file[cursor]
      skipped == packet = Other \/ AlreadyRead(packet[2])
      good == ~skipped /\ PartIsGood(packet[2])
      signals == (IF good THEN 1 ELSE 0) + (IF Announces(hasGood \/ good) THEN 1 ELSE 0)
  IN /\ cursor > 0
     /\ packet # Torn
     /\ IF skipped THEN UNCHANGED listVars ELSE ReadPart(packet)
     /\ cursor' = NextInFile
     /\ hasGood' = (NextInFile > 0 /\ (hasGood \/ good))
     /\ updates' = updates + signals
     /\ registered' = (registered /\ signals = 0)
     /\ outcome' = (IF signals > 0 THEN "cached" ELSE outcome)
     /\ UNCHANGED <<round, timeouted, cacheMode, file>>

ReadTornRecord ==
  /\ cursor > 0
  /\ file[cursor] = Torn
  /\ cursor' = 0
  /\ hasGood' = FALSE
  /\ updates' = updates + 1
  /\ registered' = FALSE
  /\ outcome' = "cached"
  /\ UNCHANGED <<listVars, round, timeouted, cacheMode, file>>

-----------------------------------------------------------------------------
(* A round                                                                 *)

(* refreshStarts(): the list is emptied and the cache file closed.         *)
RefreshStarts ==
  /\ ~registered
  /\ cursor = 0
  /\ round < MaxRounds
  /\ round' = round + 1
  /\ registered' = TRUE
  /\ timeouted' = FALSE
  /\ updates' = 0
  /\ outcome' = "asked"
  /\ packetsRead' = {}
  /\ numPackets' = 0
  /\ readLastPacket' = FALSE
  /\ copies' = EmptyList
  /\ cacheMode' = "closed"
  /\ UNCHANGED <<file, cursor, hasGood>>

(* readResponse(), a part of the list: it is read, listUpdated() is        *)
(* emitted if that completes the list, and it is cached.                   *)
ReadListPacket(num) ==
  LET good == PartIsGood(num)
  IN /\ registered
     /\ cursor = 0
     /\ ~AlreadyRead(num)
     /\ ReadPart(<<round, num>>)
     /\ updates' = (IF good THEN updates + 1 ELSE updates)
     /\ registered' = ~good
     /\ outcome' = (IF good THEN "complete" ELSE outcome)
     /\ PushPacketToCache(<<round, num>>)
     /\ UNCHANGED <<round, timeouted>>

(* readResponse(), a part that was read before, or a packet of another     *)
(* kind: the answer is PENDING, and it is cached all the same.             *)
ReadStrayPacket(packet) ==
  /\ registered
  /\ cursor = 0
  /\ cacheMode = "write" => Len(file) < NumPackets + MaxStrays
  /\ \/ packet[1] = round /\ AlreadyRead(packet[2])
     \/ packet = Other /\ "OTHER" \in Answers
  /\ PushPacketToCache(packet)
  /\ UNCHANGED <<listVars, roundVars>>

(* tryReadDatagramByMasterClient(), WAIT or BAD: the cache is read.        *)
ReadWaitOrBad ==
  /\ registered
  /\ cursor = 0
  /\ Answers \cap {"WAIT", "BAD"} # {}
  /\ OpenPacketCache
  /\ UNCHANGED timeouted

(* tryReadDatagramByMasterClient(), BANNED or OLD.                         *)
ReadRefusal ==
  /\ registered
  /\ cursor = 0
  /\ Answers \cap {"BANNED", "OLD"} # {}
  /\ registered' = FALSE
  /\ outcome' = "refused"
  /\ UNCHANGED <<listVars, cacheVars, round, timeouted, updates>>

(* timeoutRefresh(), when the Refresher's timer for this master fires.     *)
TimeoutRefresh ==
  /\ registered
  /\ cursor = 0
  /\ ~timeouted
  /\ timeouted' = TRUE
  /\ OpenPacketCache

(* The program crashes and is started again: of a file open for writing,   *)
(* only a part may have left QFile's buffer, the last record torn.         *)
Remains ==
  IF cacheMode = "write"
  THEN {SubSeq(file, 1, n) : n \in 0..Len(file)}
         \cup {Append(SubSeq(file, 1, n), Torn) : n \in 0..Len(file) - 1}
  ELSE {file}

Crash ==
  /\ Crashes
  /\ file' \in Remains
  /\ cacheMode' = "closed"
  /\ cursor' = 0
  /\ hasGood' = FALSE
  /\ registered' = FALSE
  /\ timeouted' = FALSE
  /\ updates' = 0
  /\ outcome' = "crashed"
  /\ packetsRead' = {}
  /\ numPackets' = 0
  /\ readLastPacket' = FALSE
  /\ copies' = [p \in Packets |-> 0]
  /\ UNCHANGED round

-----------------------------------------------------------------------------
Init ==
  /\ round = 0
  /\ registered = FALSE
  /\ packetsRead = {}
  /\ numPackets = 0
  /\ readLastPacket = FALSE
  /\ copies = [p \in Packets |-> 0]
  /\ timeouted = FALSE
  /\ updates = 0
  /\ outcome = "none"
  /\ cacheMode = "closed"
  /\ file = <<>>
  /\ cursor = 0
  /\ hasGood = FALSE

Next ==
  \/ RefreshStarts
  \/ \E num \in 0..NumPackets - 1 : ReadListPacket(num)
  \/ \E packet \in Packets \cup {Other} : ReadStrayPacket(packet)
  \/ ReadWaitOrBad
  \/ ReadRefusal
  \/ TimeoutRefresh
  \/ ReadCachedPacket
  \/ ReadTornRecord
  \/ Crash

Spec == Init /\ [][Next]_vars

(* The master's timer fires, and the loop over the cache runs to its end.  *)
FairSpec ==
  /\ Spec
  /\ WF_vars(TimeoutRefresh)
  /\ WF_vars(ReadCachedPacket)
  /\ WF_vars(ReadTornRecord)

-----------------------------------------------------------------------------
(* Every variable keeps to its type; the loop over the cache stays in it.  *)
TypeOK ==
  /\ round \in 0..MaxRounds
  /\ registered \in BOOLEAN
  /\ timeouted \in BOOLEAN
  /\ packetsRead \in SUBSET (0..Width - 1)
  /\ numPackets \in 0..NumPackets
  /\ readLastPacket \in BOOLEAN
  /\ copies \in [Packets -> Nat]
  /\ updates \in Nat
  /\ outcome \in {"none", "asked", "complete", "cached", "refused", "crashed"}
  /\ cacheMode \in {"closed", "read", "write"}
  /\ file \in Seq(Packets \cup {Other, Torn})
  /\ cursor \in 0..Len(file)
  /\ hasGood \in BOOLEAN

(* A round that ends with a GOOD answer has the servers of every part of   *)
(* the master's list, once each, and of nothing else: whatever was lost,   *)
(* came twice or came out of order.                                        *)
WholeList ==
  outcome = "complete" =>
    \A p \in Packets : copies[p] = IF p[1] = round THEN 1 ELSE 0

(* The servers of a part are never registered twice, even when the cache   *)
(* is read on top of parts that did arrive.                                *)
NoPartTwice == \A p \in Packets : copies[p] <= 1

(* What the user is shown was the master's list at one moment.             *)
ListOfOneRound ==
  \A p, q \in Packets : copies[p] > 0 /\ copies[q] > 0 => p[1] = q[1]

(* The cache file never mixes the lists of two rounds.                     *)
CacheOfOneRound ==
  \A i, j \in 1..Len(file) :
    file[i] \in Packets /\ file[j] \in Packets => file[i][1] = file[j][1]

(* Lists of two rounds never mix, neither in memory nor on disk.           *)
OfOneRound == ListOfOneRound /\ CacheOfOneRound

(* A round emits listUpdated() once if it ends with a list, never if it is *)
(* refused, and not before it ends: a second signal would register its     *)
(* servers twice.                                                          *)
AnnouncedOnce ==
  updates = IF outcome \in {"complete", "cached"} THEN 1 ELSE 0

(* The master client keeps the promise of ListService: while it is asked   *)
(* the list gains parts of one round, each once; the round ends with one   *)
(* announcement, after which not even the rest of the cache file changes   *)
(* the list; and a complete list is the whole of this round's.             *)
Service ==
  INSTANCE ListService WITH shown <- copies, told <- updates
ServiceSpec == Service!Spec

(* What these rest on, for every width: the list holds parts of this round *)
(* until the cache is read, and parts of the file's round from then on.    *)
PartsHaveOneSource ==
  /\ cacheMode = "closed" => \A p \in Packets : copies[p] = 0
  /\ cacheMode = "write" =>
       /\ \A p \in Packets : copies[p] > 0 => p[1] = round
       /\ \A i \in 1..Len(file) : file[i] \in Packets => file[i][1] = round
  /\ cacheMode = "read" =>
       \A p \in Packets, i \in 1..Len(file) :
         copies[p] > 0 /\ file[i] \in Packets => file[i][1] = p[1]

ReadingIsLast ==
  /\ registered => round > 0
  /\ registered /\ cursor = 0 => cacheMode # "read"
  /\ cursor > 0 => cacheMode = "read"
  /\ hasGood => cursor > 0 /\ ~registered
  /\ outcome = "complete" => cursor = 0 /\ ~registered

SourceInv ==
  /\ TypeOK
  /\ ListOfOneRound
  /\ CacheOfOneRound
  /\ PartsHaveOneSource
  /\ ReadingIsLast

(* What NoPartTwice rests on, where no part is without a bit: a part in    *)
(* the list has its bits set.                                              *)
EveryPartHasABit == ShiftWraps \/ NumPackets <= Width

PartsHaveBits ==
  \A p \in Packets : copies[p] > 0 => Bit(p[2]) \subseteq packetsRead

NoRepeatInv ==
  /\ NoPartTwice
  /\ PartsHaveBits

(* What the others rest on, where every part has a bit of its own: the     *)
(* bits tell exactly which parts are in the list.                          *)
AllParts == 0..NumPackets - 1

BitsAreParts ==
  /\ packetsRead \subseteq 0..numPackets - 1
  /\ readLastPacket => numPackets = NumPackets
  /\ NumPackets - 1 \in packetsRead => readLastPacket
  /\ \A n \in packetsRead : \E p \in Packets : p[2] = n /\ copies[p] > 0

(* A signal ends the round; it was sent while the cache is being read only *)
(* if nothing of the list is missing.                                      *)
Announcing ==
  /\ registered <=> outcome = "asked"
  /\ cursor > 0 => registered \/ hasGood
  /\ hasGood => /\ outcome = "cached"
                /\ packetsRead = AllParts
                /\ AllBits(NumPackets) = AllParts

(* The list and the cache agree, and the part that completes a list is the *)
(* last that is cached: it is what a crash tears.  For as many parts as    *)
(* bits, a shift that wraps makes no list complete.                        *)
Lacks(n, k) == \A i \in 1..k : file[i] \in Packets => file[i][2] # n

CacheIsTheList ==
  /\ \A i \in 1..Len(file) : file[i] = Torn => i = Len(file) /\ cacheMode # "write"
  /\ cacheMode # "closed" => \A n \in packetsRead : ~Lacks(n, Len(file))
  /\ cacheMode = "write" => \A n \in AllParts \ packetsRead : Lacks(n, Len(file))

LastPartCompletes ==
  AllBits(NumPackets) = AllParts =>
    /\ registered /\ cacheMode # "read" => packetsRead # AllParts
    /\ cacheMode = "write" \/ (file # <<>> /\ file[Len(file)] = Torn) =>
         \E n \in AllParts : Lacks(n, Len(file) - 1)

WholeInv ==
  /\ WholeList
  /\ AnnouncedOnce
  /\ BitsAreParts
  /\ Announcing
  /\ CacheIsTheList
  /\ LastPartCompletes

(* A registered client can still time out, or is reading its cache: the    *)
(* end of a round is never left to an answer of the master.                *)
TimerIsLeft == registered => ~timeouted \/ cursor > 0

(* Every round ends, also when the master never answers.                   *)
RoundEnds == registered ~> ~registered

=============================================================================
