----------------------------- MODULE IRCProofs ------------------------------
(***************************************************************************)
(* The IRC client keeps its windows under their names, and once all that   *)
(* was sent has arrived it knows its own nickname, the channels it is in   *)
(* and who is in them: for any people, nicknames, channels and bounds.     *)
(*                                                                         *)
(* The inductive invariant KnowsInv says that the lines on their way set   *)
(* right whatever is wrong.  There are the nicknames b that the client     *)
(* will have after each line; a channel the client is not in is closed     *)
(* when they are read (ClosedAfter); and of one it is in, the list of      *)
(* users, changed line by line (View), ends as the channel is (Listed).    *)
(***************************************************************************)
EXTENDS IRC, FiniteSetTheorems, SequenceTheorems, TLAPS

USE NamesAssumption, PeopleAssumption, ClientAssumption

-----------------------------------------------------------------------------
(* The network                                                             *)

(* Who is in a channel has a nickname, which nobody else has.              *)
NetOK ==
  /\ \A c \in ChatChannels :
       /\ operators[c] \subseteq members[c]
       /\ \A p \in members[c] : Registered(p)
  /\ \A p, q \in People : p # q /\ nickOf[p] = nickOf[q] => ~Registered(p)

NetInv == NetTypeOK /\ NetOK

LEMMA NamesAreNicks ==
  ASSUME NetInv, NEW c \in ChatChannels, NEW ps \in SUBSET members[c]
  PROVE  NicksOf(ps) \in SUBSET Nicks
BY DEF NetInv, NetTypeOK, NetOK, NicksOf, Registered

(* What the server writes, it writes behind what it has written.           *)
LEMMA AppendLine ==
  ASSUME inbox \in Seq(Lines), NEW line \in Lines
  PROVE  Append(inbox, line) \in Seq(Lines)
OBVIOUS

LEMMA LeavesKeeps ==
  ASSUME NetInv, NEW p, NEW cs, Leaves(p, cs),
         \/ nickOf' = nickOf
         \/ /\ cs = ChatChannels
            /\ p \in People
            /\ nickOf' = [nickOf EXCEPT ![p] = NoName]
  PROVE  /\ members' \in [ChatChannels -> SUBSET People]
         /\ operators' \in [ChatChannels -> SUBSET People]
         /\ nickOf' \in [People -> Nicks \cup {NoName}]
         /\ NetOK'
BY DEF NetInv, NetTypeOK, NetOK, Leaves, Registered

LEMMA ServesTyped ==
  ASSUME NetInv, NEW type, Serves(type)
  PROVE  /\ outbox' \in Seq(Commands)
         /\ Head(outbox) \in Commands
         /\ connection' = connection
<1>1. outbox \in Seq(Commands) /\ outbox # <<>>
  BY DEF NetInv, NetTypeOK, Serves
<1>2. Tail(outbox) \in Seq(Commands) /\ Head(outbox) \in Commands
  BY <1>1, HeadTailProperties
<1> QED BY <1>2 DEF Serves

(* A nickname that nobody has goes to one person.                          *)
LEMMA TakesNickKeeps ==
  ASSUME NetInv, NEW p \in People, NEW n \in Nicks, IsFree(n),
         nickOf' = [nickOf EXCEPT ![p] = n], UNCHANGED <<members, operators>>
  PROVE  /\ nickOf' \in [People -> Nicks \cup {NoName}]
         /\ NetOK'
<1>1. nickOf' \in [People -> Nicks \cup {NoName}]
  BY DEF NetInv, NetTypeOK
<1>2. \A q \in People : nickOf'[q] = IF q = p THEN n ELSE nickOf[q]
  BY DEF NetInv, NetTypeOK
<1>3. n # NoName
  BY DEF Names
<1> QED
  BY <1>1, <1>2, <1>3 DEF NetInv, NetTypeOK, NetOK, Registered, IsFree

LEMMA ServesNickNet ==
  ASSUME NetInv, ServesNick
  PROVE  NetInv'
<1>1. outbox' \in Seq(Commands) /\ connection' = connection
  BY ServesTyped DEF ServesNick
<1>2. PICK n \in Nicks : n = Head(outbox).nick
  BY ServesTyped DEF ServesNick, Serves, Commands
<1>3. CASE ~IsFree(n)
  <2>1. [type |-> "inUse", nick |-> n] \in Lines
    BY DEF Lines
  <2>2. inbox' \in Seq(Lines)
    BY <1>2, <1>3, <2>1, AppendLine DEF ServesNick, NetInv, NetTypeOK
  <2> QED
    BY <1>1, <1>2, <1>3, <2>2 DEF ServesNick, NetInv, NetTypeOK, NetOK, Registered
<1>4. CASE IsFree(n)
  <2>1. nickOf' = [nickOf EXCEPT ![Self] = n] /\ Self \in People
    BY <1>2, <1>4 DEF ServesNick, People
  <2>2. Registered(Self) =>
          [type |-> "rename", old |-> nickOf[Self], new |-> n] \in Lines
    BY <2>1 DEF Lines, NetInv, NetTypeOK, Registered
  <2>3. [type |-> "hello", nick |-> n] \in Lines
    BY DEF Lines
  <2>4. inbox' \in Seq(Lines)
    BY <1>2, <1>4, <2>2, <2>3, AppendLine DEF ServesNick, NetInv, NetTypeOK
  <2>5. nickOf' \in [People -> Nicks \cup {NoName}] /\ NetOK'
    BY <1>4, <2>1, TakesNickKeeps DEF ServesNick
  <2> QED BY <1>1, <2>4, <2>5 DEF ServesNick, NetInv, NetTypeOK
<1> QED BY <1>3, <1>4

LEMMA ServesJoinNet ==
  ASSUME NetInv, ServesJoin
  PROVE  NetInv'
<1>1. outbox' \in Seq(Commands) /\ connection' = connection
  BY ServesTyped DEF ServesJoin
<1>2. PICK c \in ChatChannels : c = Head(outbox).channel
  BY ServesTyped DEF ServesJoin, Serves, Commands
<1> DEFINE ops == operators[c] \cup (IF members[c] = {} THEN {Self} ELSE {})
           mem == members[c] \cup {Self}
<1>3. /\ members' = [members EXCEPT ![c] = mem]
      /\ operators' = [operators EXCEPT ![c] = ops]
      /\ inbox' = inbox \o
           <<[type |-> "join", channel |-> c, nick |-> nickOf[Self]],
             [type |-> "names", channel |-> c,
              nicks |-> NicksOf(mem), ops |-> NicksOf(ops)]>>
      /\ Registered(Self)
      /\ nickOf' = nickOf
  BY <1>2 DEF ServesJoin
<1>4. nickOf[Self] \in Nicks /\ Self \in People
  BY <1>3 DEF NetInv, NetTypeOK, Registered, People
<1>5. ops \subseteq mem /\ \A p \in mem : nickOf[p] \in Nicks
  BY <1>4 DEF NetInv, NetTypeOK, NetOK, Registered
<1>6. NicksOf(mem) \in SUBSET Nicks /\ NicksOf(ops) \in SUBSET Nicks
  BY <1>5 DEF NicksOf
<1>7. <<[type |-> "join", channel |-> c, nick |-> nickOf[Self]],
        [type |-> "names", channel |-> c,
         nicks |-> NicksOf(mem), ops |-> NicksOf(ops)]>> \in Seq(Lines)
  <2>1. [type |-> "join", channel |-> c, nick |-> nickOf[Self]] \in Lines
    BY <1>4 DEF Lines
  <2>2. [type |-> "names", channel |-> c,
         nicks |-> NicksOf(mem), ops |-> NicksOf(ops)] \in Lines
    BY <1>6 DEF Lines
  <2> HIDE DEF ops, mem
  <2> QED BY <2>1, <2>2
<1>8. inbox' \in Seq(Lines)
  BY <1>3, <1>7, ConcatProperties DEF NetInv, NetTypeOK
<1>9. members' \in [ChatChannels -> SUBSET People] /\ operators' \in [ChatChannels -> SUBSET People]
  BY <1>3, <1>4 DEF NetInv, NetTypeOK
<1>10. NetOK'
  BY <1>3, <1>4, <1>5 DEF NetInv, NetTypeOK, NetOK, Registered
<1> QED BY <1>1, <1>3, <1>8, <1>9, <1>10 DEF NetInv, NetTypeOK

LEMMA ServesPartNet ==
  ASSUME NetInv, ServesPart
  PROVE  NetInv'
<1>1. outbox' \in Seq(Commands) /\ connection' = connection
  BY ServesTyped DEF ServesPart
<1>2. PICK c \in ChatChannels : c = Head(outbox).channel
  BY ServesTyped DEF ServesPart, Serves, Commands
<1>3. /\ TellsChannel(c, [type |-> "part", channel |-> c, nick |-> nickOf[Self]])
      /\ Leaves(Self, {c})
      /\ nickOf' = nickOf
  BY <1>2 DEF ServesPart
<1>4. Self \in members[c] =>
        [type |-> "part", channel |-> c, nick |-> nickOf[Self]] \in Lines
  BY DEF Lines, NetInv, NetTypeOK, NetOK, Registered
<1>5. inbox' \in Seq(Lines)
  BY <1>3, <1>4, AppendLine DEF TellsChannel, NetInv, NetTypeOK
<1> QED BY <1>1, <1>3, <1>5, LeavesKeeps DEF NetInv, NetTypeOK

LEMMA ServesWhoisNet ==
  ASSUME NetInv, ServesWhois
  PROVE  NetInv'
<1>1. outbox' \in Seq(Commands) /\ connection' = connection
  BY ServesTyped DEF ServesWhois
<1>2. PICK n \in Nicks : n = Head(outbox).nick
  BY ServesTyped DEF ServesWhois, Serves, Commands
<1>3. \A p \in People : [type |-> "whois", nick |-> n, host |-> p] \in Lines
  BY DEF Lines
<1>4. inbox' \in Seq(Lines)
  BY <1>2, <1>3, AppendLine DEF ServesWhois, NetInv, NetTypeOK
<1> QED
  BY <1>1, <1>4 DEF ServesWhois, NetInv, NetTypeOK, NetOK, Registered

LEMMA ServesBanNet ==
  ASSUME NetInv, ServesBan
  PROVE  NetInv'
<1>1. outbox' \in Seq(Commands) /\ connection' = connection
  BY ServesTyped DEF ServesBan
<1>2. PICK c \in ChatChannels, n \in Nicks :
        c = Head(outbox).channel /\ n = Head(outbox).nick
  BY ServesTyped DEF ServesBan, Serves, Commands
<1>3. [type |-> "kick", channel |-> c, nick |-> n] \in Lines
  BY DEF Lines
<1>4. CASE UNCHANGED <<inbox, members, operators>>
  BY <1>1, <1>4 DEF ServesBan, NetInv, NetTypeOK, NetOK, Registered
<1>5. CASE \E p \in members[c] :
             /\ TellsChannel(c, [type |-> "kick", channel |-> c, nick |-> n])
             /\ Leaves(p, {c})
  <2>1. inbox' \in Seq(Lines)
    BY <1>3, <1>5, AppendLine DEF TellsChannel, NetInv, NetTypeOK
  <2>2. nickOf' = nickOf
    BY DEF ServesBan
  <2> QED BY <1>1, <1>5, <2>1, <2>2, LeavesKeeps DEF NetInv, NetTypeOK
<1> QED BY <1>2, <1>4, <1>5 DEF ServesBan

LEMMA RefusesJoinNet ==
  ASSUME NetInv, RefusesJoin
  PROVE  NetInv'
BY ServesTyped DEF RefusesJoin, NetInv, NetTypeOK, NetOK, Registered

LEMMA OtherTakesNickNet ==
  ASSUME NetInv, NEW p \in Others, NEW n \in Nicks, OtherTakesNick(p, n)
  PROVE  NetInv'
<1>1. p \in People
  BY DEF People
<1>2. Registered(p) => [type |-> "rename", old |-> nickOf[p], new |-> n] \in Lines
  BY <1>1 DEF Lines, NetInv, NetTypeOK, Registered
<1>3. inbox' \in Seq(Lines)
  BY <1>2, AppendLine DEF OtherTakesNick, Tells, NetInv, NetTypeOK
<1>4. nickOf' \in [People -> Nicks \cup {NoName}] /\ NetOK'
  BY <1>1, TakesNickKeeps DEF OtherTakesNick
<1> QED BY <1>3, <1>4 DEF OtherTakesNick, Happens, NetInv, NetTypeOK

LEMMA OtherJoinsNet ==
  ASSUME NetInv, NEW p \in Others, NEW c \in ChatChannels, OtherJoins(p, c)
  PROVE  NetInv'
<1>1. p \in People
  BY DEF People
<1>2. [type |-> "join", channel |-> c, nick |-> nickOf[p]] \in Lines
  BY <1>1 DEF OtherJoins, Lines, NetInv, NetTypeOK, Registered
<1>3. inbox' \in Seq(Lines)
  BY <1>2, AppendLine DEF OtherJoins, TellsChannel, NetInv, NetTypeOK
<1>4. /\ members' \in [ChatChannels -> SUBSET People]
      /\ operators' \in [ChatChannels -> SUBSET People]
  BY <1>1 DEF OtherJoins, NetInv, NetTypeOK
<1>5. NetOK'
  BY <1>1 DEF OtherJoins, NetInv, NetTypeOK, NetOK, Registered
<1> QED BY <1>3, <1>4, <1>5 DEF OtherJoins, Happens, NetInv, NetTypeOK

LEMMA OtherPartsNet ==
  ASSUME NetInv, NEW p \in Others, NEW c \in ChatChannels, OtherParts(p, c)
  PROVE  NetInv'
<1>1. [type |-> "part", channel |-> c, nick |-> nickOf[p]] \in Lines
  BY DEF OtherParts, Lines, NetInv, NetTypeOK, NetOK, Registered
<1>2. inbox' \in Seq(Lines)
  BY <1>1, AppendLine DEF OtherParts, TellsChannel, NetInv, NetTypeOK
<1> QED
  BY <1>2, LeavesKeeps DEF OtherParts, Happens, NetInv, NetTypeOK

LEMMA OtherQuitsNet ==
  ASSUME NetInv, NEW p \in Others, OtherQuits(p)
  PROVE  NetInv'
<1>1. p \in People
  BY DEF People
<1>2. [type |-> "quit", nick |-> nickOf[p]] \in Lines
  BY <1>1 DEF OtherQuits, Lines, NetInv, NetTypeOK, Registered
<1>3. inbox' \in Seq(Lines)
  BY <1>2, AppendLine DEF OtherQuits, Tells, NetInv, NetTypeOK
<1> QED
  BY <1>1, <1>3, LeavesKeeps DEF OtherQuits, Happens, NetInv, NetTypeOK

LEMMA OtherKicksNet ==
  ASSUME NetInv, NEW p \in Others, NEW victim \in People, NEW c \in ChatChannels,
         OtherKicks(p, victim, c)
  PROVE  NetInv'
<1>1. [type |-> "kick", channel |-> c, nick |-> nickOf[victim]] \in Lines
  BY DEF OtherKicks, Lines, NetInv, NetTypeOK, NetOK, Registered
<1>2. inbox' \in Seq(Lines)
  BY <1>1, AppendLine DEF OtherKicks, TellsChannel, NetInv, NetTypeOK
<1> QED
  BY <1>2, LeavesKeeps DEF OtherKicks, Happens, NetInv, NetTypeOK

LEMMA OperatorChangesNet ==
  ASSUME NetInv, NEW p \in People, NEW c \in ChatChannels,
         NEW op \in BOOLEAN, NEW alone \in BOOLEAN, OperatorChanges(p, c, op, alone)
  PROVE  NetInv'
<1>1. [type |-> "mode", channel |-> c, nick |-> nickOf[p], op |-> op,
       alone |-> alone] \in Lines
  BY DEF OperatorChanges, Lines, NetInv, NetTypeOK, NetOK, Registered
<1>2. inbox' \in Seq(Lines)
  BY <1>1, AppendLine DEF OperatorChanges, TellsChannel, NetInv, NetTypeOK
<1>3. operators' \in [ChatChannels -> SUBSET People]
  BY DEF OperatorChanges, NetInv, NetTypeOK
<1>4. NetOK'
  BY DEF OperatorChanges, NetInv, NetTypeOK, NetOK, Registered
<1> QED
  BY <1>2, <1>3, <1>4 DEF OperatorChanges, Happens, NetInv, NetTypeOK

LEMMA OtherSpeaksNet ==
  ASSUME NetInv, NEW p \in Others, NEW c \in ChatChannels, OtherSpeaks(p, c)
  PROVE  NetInv'
<1>1. p \in People
  BY DEF People
<1>2. /\ [type |-> "message", recipient |-> nickOf[p]] \in Lines
      /\ [type |-> "message", recipient |-> c] \in Lines
  BY <1>1 DEF OtherSpeaks, Lines, Names, NetInv, NetTypeOK, Registered
<1>3. inbox' \in Seq(Lines)
  BY <1>2, AppendLine DEF OtherSpeaks, NetInv, NetTypeOK
<1> QED
  BY <1>3 DEF OtherSpeaks, Happens, NetInv, NetTypeOK, NetOK, Registered

(* The server and the people on it keep the network in order.              *)
LEMMA NetNextKeeps ==
  ASSUME NetInv, NetNext
  PROVE  NetInv'
<1>1. CASE ServesNick
  BY <1>1, ServesNickNet
<1>2. CASE RefusesJoin
  BY <1>2, RefusesJoinNet
<1>3. CASE ServesJoin
  BY <1>3, ServesJoinNet
<1>4. CASE ServesPart
  BY <1>4, ServesPartNet
<1>5. CASE ServesWhois
  BY <1>5, ServesWhoisNet
<1>6. CASE ServesBan
  BY <1>6, ServesBanNet
<1>7. ASSUME NEW p \in Others, NEW n \in Nicks, OtherTakesNick(p, n)
      PROVE  NetInv'
  BY <1>7, OtherTakesNickNet
<1>8. ASSUME NEW p \in Others, OtherQuits(p)
      PROVE  NetInv'
  BY <1>8, OtherQuitsNet
<1>9. ASSUME NEW p \in Others, NEW c \in ChatChannels,
             \/ OtherJoins(p, c)
             \/ OtherParts(p, c)
             \/ OtherSpeaks(p, c)
             \/ \E victim \in People : OtherKicks(p, victim, c)
      PROVE  NetInv'
  BY <1>9, OtherJoinsNet, OtherPartsNet, OtherSpeaksNet, OtherKicksNet
<1>10. ASSUME NEW p \in People, NEW c \in ChatChannels,
              NEW op \in BOOLEAN, NEW alone \in BOOLEAN,
              OperatorChanges(p, c, op, alone)
       PROVE  NetInv'
  BY <1>10, OperatorChangesNet
<1> QED
  BY <1>1, <1>2, <1>3, <1>4, <1>5, <1>6, <1>7, <1>8, <1>9, <1>10 DEF NetNext

-----------------------------------------------------------------------------
(* The client                                                              *)

IRCInv == NetInv /\ ClientTypeOK /\ KeyedByRecipient

LEMMA IRCInitInv == IRCInit => IRCInv
<1> SUFFICES ASSUME IRCInit PROVE IRCInv
  OBVIOUS
<1>1. NetTypeOK
  BY DEF IRCInit, NetInit, NetTypeOK
<1>2. NetOK
  <2>1. \A c \in ChatChannels : operators[c] = {} /\ members[c] = {}
    BY DEF IRCInit, NetInit
  <2>2. ~Registered(Self)
    BY DEF IRCInit, NetInit, Registered
  <2>3. \A p, q \in Others : p # q /\ nickOf[p] = nickOf[q] => ~Registered(p)
    BY DEF IRCInit, NetInit, Registered
  <2> QED BY <2>1, <2>2, <2>3 DEF NetOK, Registered, People
<1>3. ClientTypeOK
  <2>1. bans \in Seq(Bans)
    BY DEF IRCInit, ClientInit
  <2>2. chatWindows \in [Names -> Names \cup {NoName}]
    BY DEF IRCInit, ClientInit
  <2>3. myNickname \in Nicks
    BY ClientAssumption DEF IRCInit, ClientInit
  <2> QED BY <2>1, <2>2, <2>3 DEF IRCInit, ClientInit, ClientTypeOK
<1>4. KeyedByRecipient
  BY DEF IRCInit, ClientInit, KeyedByRecipient, hasRecipient
<1> QED BY <1>1, <1>2, <1>3, <1>4 DEF IRCInv, NetInv

LEMMA SendsTyped ==
  ASSUME NetInv, NEW command \in Commands, Sends(command)
  PROVE  outbox' \in Seq(Commands)
BY DEF Sends, NetInv, NetTypeOK

LEMMA CommandsTyped ==
  /\ \A n \in Nicks : /\ [type |-> "nick", nick |-> n] \in Commands
                      /\ [type |-> "whois", nick |-> n] \in Commands
  /\ \A c \in ChatChannels : /\ [type |-> "join", channel |-> c] \in Commands
                             /\ [type |-> "part", channel |-> c] \in Commands
BY DEF Commands

(* While the network stays as it is and only the wire changes.             *)
LEMMA WireKeeps ==
  ASSUME NetInv, UNCHANGED <<nickOf, members, operators>>,
         connection' \in {"connecting", "connected", "closed", "deleted"},
         inbox' \in Seq(Lines), outbox' \in Seq(Commands)
  PROVE  NetInv'
BY DEF NetInv, NetTypeOK, NetOK, Registered

LEMMA OutOfSightKeeps ==
  ASSUME OutOfSight, connection' \in {"closed", "deleted"},
         inbox' \in Seq(Lines), outbox' = <<>>
  PROVE  NetInv'
BY DEF OutOfSight, NetInv, NetTypeOK, NetOK, Registered

WindowsOK ==
  /\ chatWindows \in [Names -> Names \cup {NoName}]
  /\ lost \in [Nicks -> Nat]
  /\ usersArray \in [ChatChannels -> SUBSET Nicks]
  /\ opsArray \in [ChatChannels -> SUBSET Nicks]
  /\ misread \subseteq ChatChannels
  /\ KeyedByRecipient

LEMMA WindowsUnchanged ==
  ASSUME WindowsOK, UNCHANGED windowVars
  PROVE  WindowsOK'
BY DEF WindowsOK, windowVars, KeyedByRecipient, hasRecipient

LEMMA CreateKeeps ==
  ASSUME WindowsOK, NEW n \in Names, getOrCreateNewChatAdapter(n)
  PROVE  WindowsOK'
<1>1. CASE UNCHANGED windowVars
  BY <1>1, WindowsUnchanged
<1>2. CASE /\ chatWindows' = [chatWindows EXCEPT ![n] = n]
           /\ UNCHANGED <<lost, usersArray, opsArray, misread>>
  BY <1>2 DEF WindowsOK, KeyedByRecipient, hasRecipient
<1> QED BY <1>1, <1>2 DEF getOrCreateNewChatAdapter

LEMMA ListsDeletedKeeps ==
  ASSUME WindowsOK, NEW cs, ListsDeleted(cs)
  PROVE  /\ usersArray' \in [ChatChannels -> SUBSET Nicks]
         /\ opsArray' \in [ChatChannels -> SUBSET Nicks]
         /\ misread' \subseteq ChatChannels
BY DEF WindowsOK, ListsDeleted

LEMMA KillKeeps ==
  ASSUME WindowsOK,
         killAllChatWindows \/ \E c \in ChatChannels : killChatWindow(c)
  PROVE  WindowsOK'
<1>1. CASE killAllChatWindows
  BY <1>1, ListsDeletedKeeps
     DEF killAllChatWindows, WindowsOK, KeyedByRecipient, hasRecipient
<1>2. ASSUME NEW c \in ChatChannels, killChatWindow(c)
      PROVE  WindowsOK'
  BY <1>2, ListsDeletedKeeps
     DEF killChatWindow, WindowsOK, KeyedByRecipient, hasRecipient, Names
<1> QED BY <1>1, <1>2

LEMMA ListsKeep ==
  ASSUME WindowsOK, NEW c \in ChatChannels,
         \/ \E n \in Nicks : removeNameFromCachedList(c, n)
         \/ \E ns, ops \in SUBSET Nicks : appendNamesToCachedList(c, ns, ops)
  PROVE  WindowsOK'
<1>1. ASSUME NEW n \in Nicks, removeNameFromCachedList(c, n)
      PROVE  WindowsOK'
  BY <1>1 DEF removeNameFromCachedList, WindowsOK, KeyedByRecipient, hasRecipient
<1>2. ASSUME NEW ns \in SUBSET Nicks, NEW ops \in SUBSET Nicks,
             appendNamesToCachedList(c, ns, ops)
      PROVE  WindowsOK'
  BY <1>2 DEF appendNamesToCachedList, WindowsOK, KeyedByRecipient, hasRecipient
<1> QED BY <1>1, <1>2

LEMMA ReadsTyped ==
  ASSUME NetInv, NEW type, Reads(type)
  PROVE  /\ inbox' \in Seq(Lines)
         /\ Head(inbox) \in Lines
         /\ Head(inbox).type = type
         /\ connection' = connection
         /\ UNCHANGED <<nickOf, members, operators>>
<1>1. inbox \in Seq(Lines) /\ inbox # <<>>
  BY DEF NetInv, NetTypeOK, Reads
<1>2. Tail(inbox) \in Seq(Lines) /\ Head(inbox) \in Lines
  BY <1>1, HeadTailProperties
<1> QED BY <1>2 DEF Reads

(* A line that only changes the windows.                                   *)
LEMMA WindowLineKeeps ==
  ASSUME IRCInv, NEW type, Reads(type),
         UNCHANGED <<outbox, bIsJoining, bans>>, myNickname' \in Nicks, WindowsOK'
  PROVE  IRCInv'
<1>1. NetInv'
  BY ReadsTyped, WireKeeps DEF IRCInv, NetInv, NetTypeOK
<1> QED BY <1>1 DEF IRCInv, ClientTypeOK, WindowsOK

LEMMA InvWindows ==
  IRCInv => WindowsOK
BY DEF IRCInv, ClientTypeOK, WindowsOK

LEMMA HelloWrites ==
  ASSUME helloClient
  PROVE  \E more : /\ more \in Seq(Commands)
                   /\ outbox' = IF connection = "connected"
                                THEN outbox \o more ELSE outbox
<1> DEFINE new == {c \in AutoJoin : ~hasRecipient(c)}
<1>1. PICK joins \in Orders(new) :
        outbox' = IF connection = "connected"
                  THEN outbox \o [i \in 1..Cardinality(new) |->
                                    [type |-> "join", channel |-> joins[i]]]
                  ELSE outbox
  BY DEF helloClient
<1>2. Cardinality(new) \in Nat
  BY ClientAssumption, FS_Subset, FS_CardinalityType
<1>3. joins \in [1..Cardinality(new) -> ChatChannels]
  BY <1>1, ClientAssumption DEF Orders
<1> HIDE DEF new
<1>4. \A i \in 1..Cardinality(new) :
        [type |-> "join", channel |-> joins[i]] \in Commands
  BY <1>3, CommandsTyped
<1>5. [i \in 1..Cardinality(new) |-> [type |-> "join", channel |-> joins[i]]]
        \in Seq(Commands)
  BY <1>2, <1>4
<1> QED BY <1>1, <1>5

LEMMA helloClientKeeps ==
  ASSUME IRCInv, helloClient
  PROVE  IRCInv'
<1>1. Head(inbox).nick \in Nicks
  BY ReadsTyped DEF helloClient, IRCInv, Lines
<1>2. outbox' \in Seq(Commands)
  <2>1. outbox \in Seq(Commands)
    BY DEF IRCInv, NetInv, NetTypeOK
  <2>2. PICK more \in Seq(Commands) :
          outbox' = IF connection = "connected" THEN outbox \o more ELSE outbox
    BY HelloWrites
  <2> QED BY <2>1, <2>2, ConcatProperties
<1>3. NetInv'
  BY <1>2, ReadsTyped, WireKeeps DEF helloClient, IRCInv, NetInv, NetTypeOK
<1>4. WindowsOK'
  BY InvWindows, WindowsUnchanged DEF helloClient
<1> QED
  BY <1>1, <1>3, <1>4 DEF helloClient, IRCInv, ClientTypeOK, WindowsOK

LEMMA nicknameInUseKeeps ==
  ASSUME IRCInv, nicknameInUse
  PROVE  IRCInv'
<1>1. outbox' \in Seq(Commands) /\ myNickname' \in Nicks
  BY ClientAssumption, CommandsTyped, SendsTyped
     DEF nicknameInUse, IRCInv, NetInv, NetTypeOK, ClientTypeOK
<1>2. NetInv'
  BY <1>1, ReadsTyped, WireKeeps DEF nicknameInUse, IRCInv, NetInv, NetTypeOK
<1>3. WindowsOK'
  BY InvWindows, WindowsUnchanged DEF nicknameInUse
<1> QED
  BY <1>1, <1>2, <1>3 DEF nicknameInUse, IRCInv, ClientTypeOK, WindowsOK

LEMMA userJoinsChannelKeeps ==
  ASSUME IRCInv, userJoinsChannel
  PROVE  IRCInv'
<1>1. PICK c \in ChatChannels, n \in Nicks :
        c = Head(inbox).channel /\ n = Head(inbox).nick
  BY ReadsTyped DEF userJoinsChannel, IRCInv, Lines
<1>2. \/ getOrCreateNewChatAdapter(c)
      \/ appendNamesToCachedList(c, {n}, {})
      \/ UNCHANGED windowVars
  BY <1>1 DEF userJoinsChannel
<1>3. WindowsOK'
  BY <1>2, InvWindows, WindowsUnchanged, CreateKeeps, ListsKeep DEF Names
<1> QED
  BY <1>3, WindowLineKeeps DEF userJoinsChannel, IRCInv, ClientTypeOK

LEMMA namesListReceivedKeeps ==
  ASSUME IRCInv, namesListReceived
  PROVE  IRCInv'
<1>1. PICK c \in ChatChannels, ns \in SUBSET Nicks, ops \in SUBSET Nicks :
        c = Head(inbox).channel /\ ns = Head(inbox).nicks /\ ops = Head(inbox).ops
  BY ReadsTyped DEF namesListReceived, IRCInv, Lines
<1>2. appendNamesToCachedList(c, ns, ops) \/ UNCHANGED windowVars
  BY <1>1 DEF namesListReceived
<1>3. WindowsOK'
  BY <1>2, InvWindows, WindowsUnchanged, ListsKeep
<1> QED
  BY <1>3, WindowLineKeeps DEF namesListReceived, IRCInv, ClientTypeOK

LEMMA userLeavesChannelKeeps ==
  ASSUME IRCInv, NEW type \in {"part", "kick"}, userLeavesChannel(type)
  PROVE  IRCInv'
<1>1. PICK c \in ChatChannels, n \in Nicks :
        c = Head(inbox).channel /\ n = Head(inbox).nick
  BY ReadsTyped DEF userLeavesChannel, IRCInv, Lines
<1>2. \/ killChatWindow(c)
      \/ removeNameFromCachedList(c, n)
      \/ UNCHANGED windowVars
  BY <1>1 DEF userLeavesChannel
<1>3. WindowsOK'
  BY <1>2, InvWindows, WindowsUnchanged, KillKeeps, ListsKeep
<1> QED
  BY <1>3, WindowLineKeeps DEF userLeavesChannel, IRCInv, ClientTypeOK

LEMMA userQuitsNetworkKeeps ==
  ASSUME IRCInv, userQuitsNetwork
  PROVE  IRCInv'
<1>1. WindowsOK'
  BY InvWindows DEF userQuitsNetwork, WindowsOK, KeyedByRecipient, hasRecipient
<1> QED
  BY <1>1, WindowLineKeeps DEF userQuitsNetwork, IRCInv, ClientTypeOK

LEMMA userChangesNicknameKeeps ==
  ASSUME IRCInv, userChangesNickname
  PROVE  IRCInv'
<1>1. PICK old \in Nicks, new \in Nicks :
        old = Head(inbox).old /\ new = Head(inbox).new
  BY ReadsTyped DEF userChangesNickname, IRCInv, Lines
<1>2. /\ Renamed(old, new)
      /\ chatWindows' = [n \in Names |->
                           CASE ~hasRecipient(old) -> Recipient(n, old, new)
                             [] n = old -> NoName
                             [] n = new -> Recipient(old, old, new)
                             [] OTHER -> Recipient(n, old, new)]
      /\ \/ lost' = [lost EXCEPT ![new] = @ + 1]
         \/ UNCHANGED lost
      /\ UNCHANGED misread
  BY <1>1 DEF userChangesNickname
<1>3. /\ usersArray' \in [ChatChannels -> SUBSET Nicks]
      /\ opsArray' \in [ChatChannels -> SUBSET Nicks]
      /\ myNickname' \in Nicks
  BY <1>2 DEF Renamed, changeNick, IRCInv, ClientTypeOK
<1>4. lost' \in [Nicks -> Nat]
  BY <1>2 DEF IRCInv, ClientTypeOK
<1>5. \A n \in Names : /\ chatWindows[n] \in {n, NoName}
                       /\ hasRecipient(n) <=> chatWindows[n] = n
  BY DEF IRCInv, ClientTypeOK, KeyedByRecipient, hasRecipient
<1>6. \A n \in Names : chatWindows'[n] \in {n, NoName}
  BY <1>2, <1>5 DEF Recipient, Names
<1>7. chatWindows' \in [Names -> Names \cup {NoName}]
  BY <1>2, <1>6
<1>8. WindowsOK'
  BY <1>2, <1>3, <1>4, <1>6, <1>7
     DEF WindowsOK, KeyedByRecipient, hasRecipient, IRCInv, ClientTypeOK
<1> QED
  BY <1>3, <1>8, WindowLineKeeps DEF userChangesNickname

LEMMA MODEKeeps ==
  ASSUME IRCInv, MODE
  PROVE  IRCInv'
<1>1. PICK c \in ChatChannels, n \in Nicks :
        c = Head(inbox).channel /\ n = Head(inbox).nick
  BY ReadsTyped DEF MODE, IRCInv, Lines
<1>2. CASE getOrCreateNewChatAdapter(c)
  BY <1>2, InvWindows, CreateKeeps, WindowLineKeeps
     DEF MODE, Names, IRCInv, ClientTypeOK
<1>3. CASE /\ \/ opsArray' = [opsArray EXCEPT ![c] = @ \cup {n}]
              \/ opsArray' = [opsArray EXCEPT ![c] = @ \ {n}]
              \/ UNCHANGED opsArray
           /\ misread' \in {misread, misread \cup {c}}
           /\ UNCHANGED <<chatWindows, lost, usersArray>>
  <2>1. WindowsOK'
    BY <1>3, InvWindows DEF WindowsOK, KeyedByRecipient, hasRecipient
  <2> QED BY <2>1, WindowLineKeeps DEF MODE, IRCInv, ClientTypeOK
<1> QED BY <1>1, <1>2, <1>3 DEF MODE

LEMMA privMsgReceivedKeeps ==
  ASSUME IRCInv, privMsgReceived
  PROVE  IRCInv'
<1>1. Head(inbox).recipient \in Names
  BY ReadsTyped DEF privMsgReceived, IRCInv, Lines
<1> QED
  BY <1>1, InvWindows, CreateKeeps, WindowLineKeeps
     DEF privMsgReceived, IRCInv, ClientTypeOK

LEMMA WhoisWrites ==
  ASSUME IRCInv, onWhoIsUser
  PROVE  \E more : /\ more \in Seq(Commands)
                   /\ outbox' = IF connection = "connected"
                                THEN outbox \o more ELSE outbox
<1>1. /\ Head(inbox) \in Lines
      /\ Head(inbox).type = "whois"
  BY ReadsTyped DEF onWhoIsUser, IRCInv
<1> DEFINE n == Head(inbox).nick
           p == Head(inbox).host
<1>2. n \in Nicks /\ p \in People
  BY <1>1 DEF Lines
<1>3. Len(bans) \in Nat /\ \A i \in 1..Len(bans) :
         bans[i] \in Bans
  <2>1. bans \in Seq(Bans)
    BY DEF IRCInv, ClientTypeOK
  <2> QED BY <2>1, LenProperties
<1> DEFINE told == [i \in 1..Len(bans) |->
                      [type |-> "ban", channel |-> bans[i].channel,
                       nick |-> bans[i].nick, answered |-> n, host |-> p]]
<1>4. \A i \in 1..Len(bans) : told[i] \in Commands
  BY <1>2, <1>3 DEF Commands, Bans
<1>5. told \in Seq(Commands)
  BY <1>3, <1>4
<1>6. outbox' = IF connection = "connected" THEN outbox \o told ELSE outbox
  BY DEF onWhoIsUser
<1> HIDE DEF told
<1> QED BY <1>5, <1>6

LEMMA onWhoIsUserKeeps ==
  ASSUME IRCInv, onWhoIsUser
  PROVE  IRCInv'
<1>1. outbox' \in Seq(Commands)
  <2>1. outbox \in Seq(Commands)
    BY DEF IRCInv, NetInv, NetTypeOK
  <2>2. PICK more \in Seq(Commands) :
          outbox' = IF connection = "connected" THEN outbox \o more ELSE outbox
    BY WhoisWrites
  <2> QED BY <2>1, <2>2, ConcatProperties
<1>2. NetInv'
  BY <1>1, ReadsTyped, WireKeeps DEF onWhoIsUser, IRCInv, NetInv, NetTypeOK
<1>3. WindowsOK'
  BY InvWindows, WindowsUnchanged DEF onWhoIsUser
<1>4. bans' \in Seq(Bans)
  <2>1. bans \in Seq(Bans)
    BY DEF IRCInv, ClientTypeOK
  <2>2. Len(bans) \in Nat /\ \A i \in 1..Len(bans) : bans[i] \in Bans
    BY <2>1, LenProperties
  <2> DEFINE fired == [i \in 1..Len(bans) |-> [bans[i] EXCEPT !.fired = TRUE]]
  <2>3. \A i \in 1..Len(bans) : fired[i] \in Bans
    BY <2>2 DEF Bans
  <2>4. fired \in Seq(Bans)
    BY <2>2, <2>3
  <2> QED BY <2>4 DEF onWhoIsUser
<1> QED
  BY <1>2, <1>3, <1>4 DEF onWhoIsUser, IRCInv, ClientTypeOK, WindowsOK

LEMMA ResponseKeeps ==
  ASSUME IRCInv, ircServerResponse
  PROVE  IRCInv'
BY helloClientKeeps, nicknameInUseKeeps, userJoinsChannelKeeps,
   namesListReceivedKeeps, userLeavesChannelKeeps, userQuitsNetworkKeeps,
   userChangesNicknameKeeps, MODEKeeps, privMsgReceivedKeeps, onWhoIsUserKeeps
   DEF ircServerResponse

(* The user writes commands and changes windows.                           *)
LEMMA UserActsKeeps ==
  ASSUME IRCInv, UserActs, outbox' \in Seq(Commands), WindowsOK',
         bans' \in Seq(Bans)
  PROVE  IRCInv'
<1>1. NetInv'
  BY WireKeeps DEF UserActs, IRCInv, NetInv, NetTypeOK
<1> QED BY <1>1 DEF UserActs, IRCInv, ClientTypeOK, WindowsOK

LEMMA IRCConnectedKeeps ==
  ASSUME IRCInv, IRCConnected
  PROVE  IRCInv'
<1>1. outbox' \in Seq(Commands)
  <2>1. [type |-> "nick", nick |-> myNickname] \in Commands
    BY CommandsTyped DEF IRCInv, ClientTypeOK
  <2>2. outbox \in Seq(Commands)
    BY DEF IRCInv, NetInv, NetTypeOK
  <2> QED BY <2>1, <2>2, AppendProperties DEF IRCConnected
<1>2. NetInv'
  BY <1>1, WireKeeps DEF IRCConnected, IRCInv, NetInv, NetTypeOK
<1>3. WindowsOK'
  BY InvWindows, WindowsUnchanged DEF IRCConnected
<1> QED BY <1>2, <1>3 DEF IRCConnected, IRCInv, ClientTypeOK, WindowsOK

LEMMA TypesKeeps ==
  ASSUME IRCInv, NEW command \in Commands, Types(command)
  PROVE  IRCInv'
<1>1. outbox' \in Seq(Commands)
  BY SendsTyped DEF Types, IRCInv
<1>2. WindowsOK'
  BY InvWindows, WindowsUnchanged DEF Types
<1> QED BY <1>1, <1>2, UserActsKeeps DEF Types, IRCInv, ClientTypeOK

LEMMA openNewAdapterKeeps ==
  ASSUME IRCInv, NEW n \in Names, openNewAdapter(n)
  PROVE  IRCInv'
<1>1. outbox' \in Seq(Commands)
  BY CommandsTyped, SendsTyped DEF openNewAdapter, IRCInv, NetInv, NetTypeOK
<1>2. WindowsOK'
  BY InvWindows, CreateKeeps, WindowsUnchanged DEF openNewAdapter
<1> QED BY <1>1, <1>2, UserActsKeeps DEF openNewAdapter, IRCInv, ClientTypeOK

LEMMA TabClosedKeeps ==
  ASSUME IRCInv, NEW n \in Names, TabClosed(n)
  PROVE  IRCInv'
<1>1. outbox' \in Seq(Commands)
  BY CommandsTyped, SendsTyped DEF TabClosed, IRCInv, NetInv, NetTypeOK
<1>2. chatWindows[n] = n /\ n # NoName
  BY DEF TabClosed, IRCInv, KeyedByRecipient
<1>3. chatWindows' = [chatWindows EXCEPT ![n] = NoName]
  BY <1>2 DEF TabClosed
<1>4. /\ usersArray' \in [ChatChannels -> SUBSET Nicks]
      /\ opsArray' \in [ChatChannels -> SUBSET Nicks]
      /\ misread' \subseteq ChatChannels
  BY InvWindows, ListsDeletedKeeps DEF TabClosed
<1>5. WindowsOK'
  BY <1>3, <1>4, InvWindows
     DEF TabClosed, WindowsOK, KeyedByRecipient, hasRecipient
<1> QED BY <1>1, <1>5, UserActsKeeps DEF TabClosed, IRCInv, ClientTypeOK

LEMMA LostTabClosedKeeps ==
  ASSUME IRCInv, NEW n \in Nicks, LostTabClosed(n)
  PROVE  IRCInv'
<1>1. lost' \in [Nicks -> Nat]
  <2>1. lost[n] \in Nat /\ lost[n] > 0 /\ lost \in [Nicks -> Nat]
    BY DEF LostTabClosed, IRCInv, ClientTypeOK
  <2>2. lost[n] - 1 \in Nat
    BY <2>1
  <2>3. \/ lost' = [lost EXCEPT ![n] = lost[n]]
        \/ lost' = [lost EXCEPT ![n] = lost[n] - 1]
    BY <2>1 DEF LostTabClosed
  <2> QED BY <2>1, <2>2, <2>3
<1>2. WindowsOK'
  BY <1>1, InvWindows
     DEF LostTabClosed, WindowsOK, KeyedByRecipient, hasRecipient, Names
<1> QED
  BY <1>2, UserActsKeeps
     DEF LostTabClosed, IRCInv, NetInv, NetTypeOK, ClientTypeOK

LEMMA banUserKeeps ==
  ASSUME IRCInv, NEW c \in ChatChannels, NEW n \in Nicks, banUser(c, n)
  PROVE  IRCInv'
<1>1. outbox' \in Seq(Commands)
  BY CommandsTyped, SendsTyped DEF banUser, IRCInv
<1>2. [channel |-> c, nick |-> n, fired |-> FALSE] \in Bans
  BY DEF Bans
<1>3. bans' \in Seq(Bans)
  BY <1>2, AppendProperties DEF banUser, IRCInv, ClientTypeOK
<1>4. WindowsOK'
  BY InvWindows, WindowsUnchanged DEF banUser
<1> QED BY <1>1, <1>3, <1>4, UserActsKeeps DEF banUser

LEMMA IRCDisconnectedKeeps ==
  ASSUME IRCInv, IRCDisconnected
  PROVE  IRCInv'
<1>1. inbox' \in Seq(Lines)
  BY SubSeqProperties DEF IRCDisconnected, IRCInv, NetInv, NetTypeOK
<1>2. NetInv'
  BY <1>1, OutOfSightKeeps DEF IRCDisconnected
<1>3. WindowsOK'
  BY InvWindows, KillKeeps DEF IRCDisconnected
<1> QED BY <1>2, <1>3 DEF IRCDisconnected, IRCInv, ClientTypeOK, WindowsOK

LEMMA NetworkDeletedKeeps ==
  ASSUME IRCInv, NetworkDeleted
  PROVE  IRCInv'
<1>1. inbox' \in Seq(Lines) /\ bans' \in Seq(Bans)
  BY DEF NetworkDeleted
<1>2. NetInv'
  BY <1>1, OutOfSightKeeps DEF NetworkDeleted
<1>3. WindowsOK'
  BY InvWindows, KillKeeps DEF NetworkDeleted
<1> QED BY <1>1, <1>2, <1>3 DEF NetworkDeleted, IRCInv, ClientTypeOK, WindowsOK

LEMMA UserKeeps ==
  ASSUME IRCInv, IRCUserNext
  PROVE  IRCInv'
<1>1. CASE \E n \in Nicks : Types([type |-> "nick", nick |-> n])
  BY <1>1, TypesKeeps, CommandsTyped
<1>2. ASSUME NEW c \in ChatChannels,
             \/ Types([type |-> "join", channel |-> c])
             \/ Types([type |-> "part", channel |-> c])
      PROVE  IRCInv'
  BY <1>2, TypesKeeps, CommandsTyped
<1>3. CASE \E c \in ChatChannels, n \in Nicks : banUser(c, n)
  BY <1>3, banUserKeeps
<1>4. CASE \E n \in Names : openNewAdapter(n) \/ TabClosed(n)
  BY <1>4, openNewAdapterKeeps, TabClosedKeeps
<1>5. CASE \E n \in Nicks : LostTabClosed(n)
  BY <1>5, LostTabClosedKeeps
<1>6. CASE IRCConnected \/ IRCDisconnected \/ NetworkDeleted
  BY <1>6, IRCConnectedKeeps, IRCDisconnectedKeeps, NetworkDeletedKeeps
<1> QED BY <1>1, <1>2, <1>3, <1>4, <1>5, <1>6 DEF IRCUserNext

LEMMA BansDeletedKeeps ==
  ASSUME IRCInv, BansDeleted
  PROVE  IRCInv'
<1>1. WindowsOK'
  BY InvWindows, WindowsUnchanged DEF BansDeleted
<1>2. bans' \in Seq(Bans)
  BY DEF BansDeleted
<1> QED
  BY <1>1, <1>2 DEF BansDeleted, netVars, IRCInv, NetInv, NetTypeOK, NetOK,
     Registered, ClientTypeOK, WindowsOK

LEMMA IRCStep == IRCInv /\ [IRCNext]_ircVars => IRCInv'
<1> SUFFICES ASSUME IRCInv, [IRCNext]_ircVars PROVE IRCInv'
  OBVIOUS
<1>1. CASE ircServerResponse \/ IRCUserNext
  BY <1>1, ResponseKeeps, UserKeeps
<1>2. CASE NetNext /\ UNCHANGED <<bIsJoining, myNickname, windowVars, bans>>
  <2>1. NetInv'
    BY <1>2, NetNextKeeps DEF IRCInv
  <2>2. WindowsOK'
    BY <1>2, InvWindows, WindowsUnchanged
  <2> QED BY <1>2, <2>1, <2>2 DEF IRCInv, ClientTypeOK, WindowsOK
<1>4. CASE BansDeleted
  BY <1>4, BansDeletedKeeps
<1>3. CASE UNCHANGED ircVars
  <2>1. WindowsOK'
    BY <1>3, InvWindows, WindowsUnchanged DEF ircVars
  <2> QED
    BY <1>3, <2>1 DEF ircVars, netVars, IRCInv, NetInv, NetTypeOK, NetOK,
       Registered, ClientTypeOK, WindowsOK
<1> QED BY <1>1, <1>2, <1>3, <1>4 DEF IRCNext

THEOREM IRCAlwaysInv == IRCSpec => []IRCInv
BY IRCInitInv, IRCStep, PTL DEF IRCSpec

(* The client's variables hold what they should, for any people, nicknames *)
(* and channels and any number of lines, commands and bans.                *)
THEOREM IRCTypeCorrect == IRCSpec => []IRCTypeOK
<1>1. IRCInv => IRCTypeOK
  BY DEF IRCInv, NetInv, IRCTypeOK
<1> QED BY <1>1, IRCAlwaysInv, PTL

(* Through all changes of nicknames a window's key is its recipient's name *)
(* (userChangesNickname(), IRCPrivAdapter::userChangesNickname()).         *)
THEOREM WindowsKeyed == IRCSpec => []KeyedByRecipient
<1>1. IRCInv => KeyedByRecipient
  BY DEF IRCInv
<1> QED BY <1>1, IRCAlwaysInv, PTL

-----------------------------------------------------------------------------
(* What is on its way                                                      *)

(* The own nickname after a line.                                          *)
NickAfter(n, line) ==
  CASE line.type = "hello" -> line.nick
    [] line.type = "rename" /\ line.old = n -> line.new
    [] OTHER -> n

(* Lines about channel c, for a client of nickname n.                      *)
IsJoin(line, c, n) == line.type = "join" /\ line.channel = c /\ line.nick = n

IsLeave(line, c, n) ==
  line.type \in {"part", "kick"} /\ line.channel = c /\ line.nick = n

Opens(line, c, n) ==
  \/ IsJoin(line, c, n)
  \/ line.type = "mode" /\ line.channel = c
  \/ line.type = "message" /\ line.recipient = c

Leaving(c) ==
  \E i \in 1..Len(outbox) : outbox[i].type = "part" /\ outbox[i].channel = c

(* Once the first m lines are read, channel c has no window.               *)
ClosedAfter(b, c, m) ==
  /\ hasRecipient(c) => \E i \in 1..m : IsLeave(inbox[i], c, b[i - 1])
  /\ \A i \in 1..m :
       Opens(inbox[i], c, b[i - 1]) =>
         \E j \in (i + 1)..m : IsLeave(inbox[j], c, b[j - 1])

(* The list of users of a window, and what a line makes of it.             *)
Shown(c) ==
  [users |-> usersArray[c], ops |-> opsArray[c], wrong |-> misread \cap {c}]

NoUsers == [users |-> {}, ops |-> {}, wrong |-> {}]

About(line, c) ==
  \/ line.type \in {"quit", "rename"}
  \/ line.type \in {"join", "names", "part", "kick", "mode"} /\ line.channel = c

UsersAfter(users, line) ==
  CASE line.type = "join" -> users \cup {line.nick}
    [] line.type = "names" -> users \cup line.nicks
    [] line.type \in {"part", "kick", "quit"} -> users \ {line.nick}
    [] line.type = "rename" -> changeNick(users, line.old, line.new)
    [] OTHER -> users

OpsAfter(users, ops, line) ==
  CASE line.type \in {"join", "part", "kick", "quit"} -> ops \ {line.nick}
    [] line.type = "names" -> (ops \ line.nicks) \cup line.ops
    [] line.type = "rename" /\ line.old \in users ->
         changeNick(ops \ {line.new}, line.old, line.new)
    [] line.type = "mode" /\ line.nick \in users /\ line.alone ->
         IF line.op THEN ops \cup {line.nick} ELSE ops \ {line.nick}
    [] OTHER -> ops

Misread(users, line) ==
  IF line.type = "mode" /\ line.nick \in users /\ ~line.alone
  THEN {line.channel} ELSE {}

View(s, line, c) ==
  IF About(line, c)
  THEN [users |-> UsersAfter(s.users, line),
        ops |-> OpsAfter(s.users, s.ops, line),
        wrong |-> s.wrong \cup Misread(s.users, line)]
  ELSE s

Matches(s, c) ==
  /\ s.users = NicksOf(members[c])
  /\ s.wrong = {} => s.ops = NicksOf(operators[c])

(* The client is in channel c since the line k, or has a window for it     *)
(* if that is 0; the lists that follow, the last of which is right.        *)
Listed(b, c, k, v) ==
  /\ k = 0 => hasRecipient(c) /\ v[0] = Shown(c)
  /\ k > 0 => /\ IsJoin(inbox[k], c, b[k - 1])
              /\ ClosedAfter(b, c, k - 1)
              /\ v[k] = NoUsers
  /\ \A i \in (k + 1)..Len(inbox) :
       /\ ~IsLeave(inbox[i], c, b[i - 1])
       /\ ~IsJoin(inbox[i], c, b[i - 1])
       /\ v[i] = View(v[i - 1], inbox[i], c)
  /\ Matches(v[Len(inbox)], c)

ChannelKnown(b, c) ==
  /\ Self \notin members[c] => ClosedAfter(b, c, Len(inbox))
  /\ Self \in members[c] /\ ~Leaving(c) =>
       \E v : \E k \in 0..Len(inbox) : Listed(b, c, k, v)

(* b: the own nickname after each line that is to be read.                 *)
Follows(b) ==
  /\ b \in [0..Len(inbox) -> Nicks]
  /\ \A i \in 1..Len(inbox) : b[i] = NickAfter(b[i - 1], inbox[i])

NickFollows(b) ==
  /\ Follows(b)
  /\ ~bIsJoining => b[0] = myNickname
  /\ Registered(Self) => b[Len(inbox)] = nickOf[Self]

Knows(b) == NickFollows(b) /\ \A c \in ChatChannels : ChannelKnown(b, c)

(* Until it is greeted the client is told nothing but refusals.            *)
EarlyLine(i) == inbox[i].type \in {"inUse", "whois", "hello"}

Greeted(i) == \E k \in 1..(i - 1) : inbox[k].type = "hello"

JoiningOK ==
  bIsJoining =>
    /\ Registered(Self) => Greeted(Len(inbox) + 1)
    /\ \A i \in 1..Len(inbox) : EarlyLine(i) \/ Greeted(i)

BeforeConnected ==
  connection = "connecting" =>
    /\ inbox = <<>>
    /\ ~Registered(Self)
    /\ \A c \in ChatChannels : ~hasRecipient(c)

NoWindowNoUsers ==
  \A c \in ChatChannels : ~hasRecipient(c) => Shown(c) = NoUsers

KnowsInv ==
  /\ IRCInv
  /\ BeforeConnected
  /\ NoWindowNoUsers
  /\ connection = "connected" => JoiningOK /\ \E b : Knows(b)

-----------------------------------------------------------------------------
(* A line is read                                                          *)

LEMMA TailIndex ==
  ASSUME inbox \in Seq(Lines), inbox # <<>>, inbox' = Tail(inbox)
  PROVE  /\ Len(inbox) \in Nat \ {0}
         /\ Len(inbox') = Len(inbox) - 1
         /\ \A i \in 1..(Len(inbox) - 1) : inbox'[i] = inbox[i + 1]
         /\ Head(inbox) = inbox[1]
BY HeadTailProperties, EmptySeq

(* The window and the list of channel c do as the line says.               *)
WindowFollows(c, line, n) ==
  /\ IsLeave(line, c, n) => ~hasRecipient(c)'
  /\ hasRecipient(c)' => hasRecipient(c) \/ Opens(line, c, n)
  /\ IsJoin(line, c, n) => hasRecipient(c)'
  /\ hasRecipient(c) /\ ~IsLeave(line, c, n) => hasRecipient(c)'
  /\ hasRecipient(c) /\ ~IsLeave(line, c, n) /\ ~IsJoin(line, c, n) =>
       Shown(c)' = View(Shown(c), line, c)
  /\ ~hasRecipient(c) /\ IsJoin(line, c, n) => Shown(c)' = Shown(c)

LEMMA ReadCloses ==
  ASSUME inbox \in Seq(Lines), inbox # <<>>, inbox' = Tail(inbox),
         NEW b, NEW d, \A i \in 0..(Len(inbox) - 1) : d[i] = b[i + 1],
         NEW c \in ChatChannels, NEW m \in 1..Len(inbox), ClosedAfter(b, c, m),
         WindowFollows(c, inbox[1], b[0])
  PROVE  ClosedAfter(d, c, m - 1)'
<1>1. /\ Len(inbox) \in Nat \ {0}
      /\ Len(inbox') = Len(inbox) - 1
      /\ \A i \in 1..(Len(inbox) - 1) : inbox'[i] = inbox[i + 1]
  BY TailIndex
<1>2. m \in Nat /\ m <= Len(inbox) /\ m - 1 \in Nat
  BY <1>1
<1>3. \A i \in 1..(m - 1) :
        /\ IsLeave(inbox'[i], c, d[i - 1]) <=> IsLeave(inbox[i + 1], c, b[i])
        /\ Opens(inbox'[i], c, d[i - 1]) <=> Opens(inbox[i + 1], c, b[i])
  BY <1>1, <1>2
<1>4. ASSUME NEW i \in 1..m, IsLeave(inbox[i], c, b[i - 1]), i # 1
      PROVE  i - 1 \in 1..(m - 1) /\ IsLeave(inbox'[i - 1], c, d[(i - 1) - 1])
  <2>1. i - 1 \in 1..(m - 1) /\ (i - 1) + 1 = i
    BY <1>2, <1>4
  <2> QED BY <1>3, <1>4, <2>1
<1>5. ASSUME hasRecipient(c)'
      PROVE  \E i \in 1..(m - 1) : IsLeave(inbox'[i], c, d[i - 1])
  <2>1. ~IsLeave(inbox[1], c, b[0])
    BY <1>5 DEF WindowFollows
  <2>2. CASE hasRecipient(c)
    <3>1. PICK i \in 1..m : IsLeave(inbox[i], c, b[i - 1])
      BY <2>2 DEF ClosedAfter
    <3>2. i # 1
      BY <2>1, <3>1
    <3> QED BY <1>4, <3>1, <3>2
  <2>3. CASE Opens(inbox[1], c, b[0])
    <3>1. 1 \in 1..m /\ 1 - 1 = 0 /\ 1 + 1 = 2
      BY <1>2
    <3>2. PICK i \in 2..m : IsLeave(inbox[i], c, b[i - 1])
      BY <2>3, <3>1 DEF ClosedAfter
    <3>3. i \in 1..m /\ i # 1
      BY <1>2
    <3> QED BY <1>4, <3>2, <3>3
  <2> QED BY <1>5, <2>2, <2>3 DEF WindowFollows
<1>6. ASSUME NEW i \in 1..(m - 1), Opens(inbox'[i], c, d[i - 1])
      PROVE  \E j \in (i + 1)..(m - 1) : IsLeave(inbox'[j], c, d[j - 1])
  <2>1. i + 1 \in 1..m /\ (i + 1) - 1 = i /\ (i + 1) + 1 = i + 2
    BY <1>2
  <2>2. PICK j \in (i + 2)..m : IsLeave(inbox[j], c, b[j - 1])
    BY <1>3, <1>6, <2>1 DEF ClosedAfter
  <2>3. j \in 1..m /\ j # 1 /\ j - 1 \in (i + 1)..(m - 1)
    BY <1>2, <2>1
  <2> QED BY <1>4, <2>2, <2>3
<1> QED BY <1>5, <1>6 DEF ClosedAfter

LEMMA ReadLists ==
  ASSUME inbox \in Seq(Lines), inbox # <<>>, inbox' = Tail(inbox),
         NEW b, NEW d, \A i \in 0..(Len(inbox) - 1) : d[i] = b[i + 1],
         NEW c \in ChatChannels, WindowFollows(c, inbox[1], b[0]),
         NoWindowNoUsers, UNCHANGED <<nickOf, members, operators>>,
         NEW v, NEW k \in 0..Len(inbox), Listed(b, c, k, v)
  PROVE  \E w : \E j \in 0..Len(inbox') : Listed(d, c, j, w)'
<1>1. /\ Len(inbox) \in Nat \ {0}
      /\ Len(inbox') = Len(inbox) - 1
      /\ \A i \in 1..(Len(inbox) - 1) : inbox'[i] = inbox[i + 1]
  BY TailIndex
<1> DEFINE j == IF k = 0 THEN 0 ELSE k - 1
<1>2. j \in 0..(Len(inbox) - 1) /\ k \in Nat
  BY <1>1
<1>3. PICK w : \A i \in 0..(Len(inbox) - 1) : w[i] = v[i + 1]
  <2> WITNESS [i \in 0..(Len(inbox) - 1) |-> v[i + 1]]
  <2> QED OBVIOUS
<1>4. ASSUME NEW i \in (j + 1)..(Len(inbox) - 1)
      PROVE  /\ ~IsLeave(inbox'[i], c, d[i - 1])
             /\ ~IsJoin(inbox'[i], c, d[i - 1])
             /\ w[i] = View(w[i - 1], inbox'[i], c)
  <2>1. /\ i + 1 \in (k + 1)..Len(inbox)
        /\ (i + 1) - 1 = i
        /\ i \in 1..(Len(inbox) - 1)
        /\ i \in 0..(Len(inbox) - 1)
        /\ i - 1 \in 0..(Len(inbox) - 1)
        /\ (i - 1) + 1 = i
    BY <1>1, <1>2
  <2>2. /\ inbox'[i] = inbox[i + 1]
        /\ d[i - 1] = b[i]
        /\ w[i] = v[i + 1]
        /\ w[i - 1] = v[i]
    BY <1>1, <1>3, <2>1
  <2>3. /\ ~IsLeave(inbox[i + 1], c, b[i])
        /\ ~IsJoin(inbox[i + 1], c, b[i])
        /\ v[i + 1] = View(v[i], inbox[i + 1], c)
    BY <2>1 DEF Listed
  <2> QED BY <2>2, <2>3
<1>5. Matches(w[Len(inbox)], c)'
  <2>1. w[Len(inbox')] = v[Len(inbox)]
    BY <1>1, <1>3
  <2>2. Matches(v[Len(inbox)], c)
    BY DEF Listed
  <2> QED BY <2>1, <2>2 DEF Matches, NicksOf
<1>6. j = 0 => hasRecipient(c)' /\ w[0] = Shown(c)'
  <2>1. w[0] = v[1]
    BY <1>1, <1>3
  <2>2. CASE k = 0
    <3>1. 1 \in (k + 1)..Len(inbox) /\ 1 - 1 = 0
      BY <1>1, <2>2
    <3>2. /\ hasRecipient(c)
          /\ v[0] = Shown(c)
          /\ ~IsLeave(inbox[1], c, b[0])
          /\ ~IsJoin(inbox[1], c, b[0])
          /\ v[1] = View(v[0], inbox[1], c)
      BY <2>2, <3>1 DEF Listed
    <3> QED BY <2>1, <3>2 DEF WindowFollows
  <2>3. CASE k = 1
    <3>1. /\ IsJoin(inbox[1], c, b[0])
          /\ ClosedAfter(b, c, 0)
          /\ v[1] = NoUsers
      BY <2>3 DEF Listed
    <3>2. ~hasRecipient(c)
      BY <3>1 DEF ClosedAfter
    <3>3. Shown(c)' = Shown(c) /\ Shown(c) = NoUsers /\ hasRecipient(c)'
      BY <3>1, <3>2 DEF WindowFollows, NoWindowNoUsers
    <3> QED BY <2>1, <3>1, <3>3
  <2> QED BY <1>2, <2>2, <2>3
<1>7. ASSUME j > 0
      PROVE  /\ IsJoin(inbox'[j], c, d[j - 1])
             /\ ClosedAfter(d, c, j - 1)'
             /\ w[j] = NoUsers
  <2>1. /\ j = k - 1 /\ k > 0 /\ k - 1 \in 1..Len(inbox)
        /\ j \in 1..(Len(inbox) - 1) /\ j + 1 = k
        /\ j - 1 \in 0..(Len(inbox) - 1) /\ (j - 1) + 1 = k - 1
        /\ j \in 0..(Len(inbox) - 1)
    BY <1>1, <1>2, <1>7
  <2>2. /\ IsJoin(inbox[k], c, b[k - 1])
        /\ ClosedAfter(b, c, k - 1)
        /\ v[k] = NoUsers
    BY <2>1 DEF Listed
  <2>3. inbox'[j] = inbox[k] /\ d[j - 1] = b[k - 1] /\ w[j] = v[k]
    BY <1>1, <1>3, <2>1
  <2>4. ClosedAfter(d, c, (k - 1) - 1)'
    BY <2>1, <2>2, ReadCloses
  <2> QED BY <2>1, <2>2, <2>3, <2>4
<1>8. Listed(d, c, j, w)'
  BY <1>1, <1>4, <1>5, <1>6, <1>7 DEF Listed
<1> QED BY <1>1, <1>2, <1>8

(* Whatever the line, if the client makes of it what it says, it is still  *)
(* the case that what is on its way sets it right.                         *)
LEMMA ReadKnows ==
  ASSUME KnowsInv, connection = "connected", NEW type, Reads(type),
         NEW b, Knows(b),
         ~bIsJoining' => myNickname' = NickAfter(b[0], inbox[1]),
         \A c \in ChatChannels : /\ WindowFollows(c, inbox[1], b[0])
                                 /\ Leaving(c) => Leaving(c)'
  PROVE  \E d : Knows(d)'
<1>1. inbox \in Seq(Lines) /\ inbox # <<>> /\ inbox' = Tail(inbox)
  BY DEF KnowsInv, IRCInv, NetInv, NetTypeOK, Reads
<1>2. /\ Len(inbox) \in Nat \ {0}
      /\ Len(inbox') = Len(inbox) - 1
      /\ \A i \in 1..(Len(inbox) - 1) : inbox'[i] = inbox[i + 1]
  BY <1>1, TailIndex
<1>3. UNCHANGED <<nickOf, members, operators>>
  BY DEF Reads
<1>5. Follows(b)
  BY DEF Knows, NickFollows
<1>4. PICK d \in [0..(Len(inbox) - 1) -> Nicks] :
        \A i \in 0..(Len(inbox) - 1) : d[i] = b[i + 1]
  <2>1. [i \in 0..(Len(inbox) - 1) |-> b[i + 1]] \in [0..(Len(inbox) - 1) -> Nicks]
    BY <1>2, <1>5 DEF Follows
  <2> QED BY <2>1
<1>6. d \in [0..Len(inbox') -> Nicks]
  BY <1>2, <1>4
<1>7. NickFollows(d)'
  <2>1. ASSUME NEW i \in 1..Len(inbox')
        PROVE  d[i] = NickAfter(d[i - 1], inbox'[i])
    <3>1. /\ i \in 1..(Len(inbox) - 1)
          /\ i \in 0..(Len(inbox) - 1) /\ i - 1 \in 0..(Len(inbox) - 1)
          /\ (i - 1) + 1 = i /\ (i + 1) - 1 = i /\ i + 1 \in 1..Len(inbox)
      BY <1>2
    <3>2. inbox'[i] = inbox[i + 1] /\ d[i] = b[i + 1] /\ d[i - 1] = b[i]
      BY <1>2, <1>4, <3>1
    <3>3. b[i + 1] = NickAfter(b[i], inbox[i + 1])
      BY <1>5, <3>1 DEF Follows
    <3> QED BY <3>2, <3>3
  <2>2. d[0] = b[1] /\ b[1] = NickAfter(b[0], inbox[1])
    BY <1>2, <1>4, <1>5 DEF Follows
  <2>3. d[Len(inbox')] = b[Len(inbox)]
    BY <1>2, <1>4
  <2> QED
    BY <1>3, <1>6, <2>1, <2>2, <2>3
       DEF NickFollows, Follows, Registered, Knows
<1>8. ASSUME NEW c \in ChatChannels
      PROVE  ChannelKnown(d, c)'
  <2>1. ChannelKnown(b, c) /\ NoWindowNoUsers
    BY DEF Knows, KnowsInv
  <2>2. ASSUME Self \notin members[c]
        PROVE  ClosedAfter(d, c, Len(inbox))'
    <3>1. PICK n \in 1..Len(inbox) : n = Len(inbox)
      BY <1>2
    <3>2. ClosedAfter(b, c, n)
      BY <2>1, <2>2, <3>1 DEF ChannelKnown
    <3>3. ClosedAfter(d, c, n - 1)'
      BY <1>1, <1>4, <3>2, ReadCloses
    <3> QED BY <1>2, <3>1, <3>3
  <2>3. ASSUME Self \in members[c], ~Leaving(c)'
        PROVE  \E w : \E j \in 0..Len(inbox') : Listed(d, c, j, w)'
    <3>1. PICK v : \E k \in 0..Len(inbox) : Listed(b, c, k, v)
      BY <2>1, <2>3 DEF ChannelKnown
    <3> QED BY <1>1, <1>3, <1>4, <2>1, <3>1, ReadLists
  <2> QED BY <1>3, <2>2, <2>3 DEF ChannelKnown
<1> QED BY <1>7, <1>8 DEF Knows

LEMMA ReadJoining ==
  ASSUME KnowsInv, connection = "connected", NEW type, Reads(type),
         bIsJoining' => bIsJoining /\ type # "hello"
  PROVE  /\ JoiningOK'
         /\ bIsJoining => type \in {"inUse", "whois", "hello"}
<1>1. inbox \in Seq(Lines) /\ inbox # <<>> /\ inbox' = Tail(inbox)
  BY DEF KnowsInv, IRCInv, NetInv, NetTypeOK, Reads
<1>2. /\ Len(inbox) \in Nat \ {0}
      /\ Len(inbox') = Len(inbox) - 1
      /\ \A i \in 1..(Len(inbox) - 1) : inbox'[i] = inbox[i + 1]
      /\ inbox[1].type = type
  BY <1>1, TailIndex DEF Reads
<1>3. JoiningOK
  BY DEF KnowsInv
<1>4. ASSUME bIsJoining', NEW i \in 1..Len(inbox), Greeted(i + 1)
      PROVE  Greeted(i)'
  <2>1. PICK k \in 1..((i + 1) - 1) : inbox[k].type = "hello"
    BY <1>4 DEF Greeted
  <2>2. k # 1
    BY <1>2, <1>4, <2>1
  <2>3. k - 1 \in 1..(i - 1) /\ k - 1 \in 1..(Len(inbox) - 1) /\ (k - 1) + 1 = k
    BY <1>2, <2>1, <2>2
  <2> QED BY <1>2, <2>1, <2>3 DEF Greeted
<1>5. JoiningOK'
  <2> SUFFICES ASSUME bIsJoining'
               PROVE  /\ Registered(Self)' => Greeted(Len(inbox) + 1)'
                      /\ \A i \in 1..Len(inbox') : EarlyLine(i)' \/ Greeted(i)'
    BY DEF JoiningOK
  <2>1. Registered(Self)' = Registered(Self)
    BY DEF Reads, Registered
  <2>2. ASSUME Registered(Self)'
        PROVE  Greeted(Len(inbox) + 1)'
    <3>1. PICK n \in 1..Len(inbox) : n = Len(inbox)
      BY <1>2
    <3>2. Greeted(n + 1)
      BY <1>3, <2>1, <2>2, <3>1 DEF JoiningOK
    <3>3. Greeted(n)'
      BY <1>4, <3>2
    <3>4. Len(inbox') + 1 = n
      BY <1>2, <3>1
    <3> QED BY <3>3, <3>4
  <2>3. ASSUME NEW i \in 1..Len(inbox')
        PROVE  EarlyLine(i)' \/ Greeted(i)'
    <3>1. i \in 1..(Len(inbox) - 1) /\ i + 1 \in 1..Len(inbox) /\ i \in 1..Len(inbox)
      BY <1>2
    <3>2. EarlyLine(i + 1) \/ Greeted(i + 1)
      BY <1>3, <3>1 DEF JoiningOK
    <3>3. EarlyLine(i + 1) => EarlyLine(i)'
      BY <1>2, <3>1 DEF EarlyLine
    <3> QED BY <1>4, <3>1, <3>2, <3>3
  <2> QED BY <2>2, <2>3
<1>6. bIsJoining => type \in {"inUse", "whois", "hello"}
  <2>1. 1 \in 1..Len(inbox) /\ ~Greeted(1)
    BY <1>2 DEF Greeted
  <2> QED BY <1>2, <1>3, <2>1 DEF JoiningOK, EarlyLine
<1> QED BY <1>5, <1>6

LEMMA HeadIsFirst ==
  ASSUME IRCInv, NEW type, Reads(type)
  PROVE  /\ Head(inbox) = inbox[1]
         /\ inbox[1] \in Lines
         /\ inbox[1].type = type
<1>1. inbox \in Seq(Lines) /\ inbox # <<>> /\ inbox' = Tail(inbox)
  BY DEF IRCInv, NetInv, NetTypeOK, Reads
<1>2. Head(inbox) = inbox[1]
  BY <1>1, TailIndex
<1> QED BY <1>2, ReadsTyped DEF IRCInv

LEMMA ReadInv ==
  ASSUME KnowsInv, IRCInv', NEW type, Reads(type),
         bIsJoining' => bIsJoining /\ type # "hello",
         \A b : connection = "connected" /\ Knows(b) =>
           /\ ~bIsJoining' => myNickname' = NickAfter(b[0], inbox[1])
           /\ \A c \in ChatChannels : WindowFollows(c, inbox[1], b[0]),
         \A c \in ChatChannels : Leaving(c) => Leaving(c)',
         NoWindowNoUsers'
  PROVE  KnowsInv'
<1>1. BeforeConnected'
  BY DEF Reads, BeforeConnected
<1>2. connection' = connection
  BY DEF Reads
<1>3. ASSUME connection = "connected"
      PROVE  JoiningOK' /\ \E d : Knows(d)'
  <2>1. JoiningOK'
    BY <1>3, ReadJoining
  <2>2. PICK b : Knows(b)
    BY <1>3 DEF KnowsInv
  <2>3. \E d : Knows(d)'
    BY <1>3, <2>2, ReadKnows
  <2> QED BY <2>1, <2>3
<1> QED BY <1>1, <1>2, <1>3 DEF KnowsInv

(* A client that is told of something else has been greeted and knows its  *)
(* nickname.                                                               *)
LEMMA GreetedKnows ==
  ASSUME KnowsInv, connection = "connected", NEW type, Reads(type),
         type \notin {"inUse", "whois", "hello"}, NEW b, Knows(b)
  PROVE  ~bIsJoining /\ b[0] = myNickname
<1>1. ~bIsJoining
  <2>1. inbox \in Seq(Lines) /\ inbox # <<>>
    BY DEF KnowsInv, IRCInv, NetInv, NetTypeOK, Reads
  <2>2. 1 \in 1..Len(inbox) /\ ~Greeted(1)
    BY <2>1, EmptySeq DEF Greeted
  <2>3. inbox[1].type = type
    BY HeadIsFirst DEF KnowsInv
  <2> QED BY <2>2, <2>3 DEF KnowsInv, JoiningOK, EarlyLine
<1> QED BY <1>1 DEF Knows, NickFollows

(* Lines that leave the windows alone.                                     *)
LEMMA EarlyFollows ==
  ASSUME NEW line, line.type \in {"inUse", "whois", "hello"},
         UNCHANGED windowVars, NEW c, NEW n
  PROVE  WindowFollows(c, line, n)
BY DEF WindowFollows, windowVars, hasRecipient, IsLeave, IsJoin, Opens, Shown,
       View, About

LEMMA SameUsers ==
  ASSUME NoWindowNoUsers, UNCHANGED windowVars
  PROVE  NoWindowNoUsers'
BY DEF NoWindowNoUsers, windowVars, hasRecipient, Shown

LEMMA LeavingStays ==
  ASSUME NEW more \in Seq(Commands), outbox \in Seq(Commands),
         outbox' = outbox \o more, NEW c, Leaving(c)
  PROVE  Leaving(c)'
<1>1. /\ Len(outbox) \in Nat /\ Len(outbox') \in Nat
      /\ Len(outbox) <= Len(outbox')
      /\ \A i \in 1..Len(outbox) : outbox'[i] = outbox[i]
  BY ConcatProperties, LenProperties
<1> QED BY <1>1 DEF Leaving

LEMMA SendsLeaving ==
  ASSUME outbox \in Seq(Commands), NEW command \in Commands, Sends(command),
         NEW c, Leaving(c)
  PROVE  Leaving(c)'
<1>1. CASE outbox' = Append(outbox, command)
  <2>1. outbox' = outbox \o <<command>> /\ <<command>> \in Seq(Commands)
    BY <1>1, AppendIsConcat
  <2> QED BY <2>1, LeavingStays
<1>2. CASE outbox' = outbox
  BY <1>2 DEF Leaving
<1> QED BY <1>1, <1>2 DEF Sends

LEMMA helloClientInv ==
  ASSUME KnowsInv, helloClient
  PROVE  KnowsInv'
<1>1. IRCInv /\ IRCInv' /\ Reads("hello") /\ UNCHANGED windowVars
  BY helloClientKeeps DEF KnowsInv, helloClient
<1>2. NoWindowNoUsers'
  BY <1>1, SameUsers DEF KnowsInv
<1>3. inbox[1].type = "hello" /\ Head(inbox) = inbox[1]
  BY <1>1, HeadIsFirst
<1>4. ~bIsJoining' /\ myNickname' = inbox[1].nick
  BY <1>3 DEF helloClient
<1>5. ASSUME NEW c \in ChatChannels, Leaving(c)
      PROVE  Leaving(c)'
  <2>1. outbox \in Seq(Commands)
    BY <1>1 DEF IRCInv, NetInv, NetTypeOK
  <2> QED BY <1>5, <2>1, HelloWrites, LeavingStays DEF Leaving
<1> QED
  BY <1>1, <1>2, <1>3, <1>4, <1>5, EarlyFollows, ReadInv DEF NickAfter

LEMMA nicknameInUseInv ==
  ASSUME KnowsInv, nicknameInUse
  PROVE  KnowsInv'
<1>1. /\ IRCInv /\ IRCInv' /\ Reads("inUse")
      /\ UNCHANGED windowVars /\ UNCHANGED bIsJoining
  BY nicknameInUseKeeps DEF KnowsInv, nicknameInUse
<1>2. NoWindowNoUsers'
  BY <1>1, SameUsers DEF KnowsInv
<1>3. inbox[1].type = "inUse"
  BY <1>1, HeadIsFirst
<1>4. ASSUME NEW c \in ChatChannels, Leaving(c)
      PROVE  Leaving(c)'
  <2>1. outbox \in Seq(Commands)
    BY <1>1 DEF IRCInv, NetInv, NetTypeOK
  <2>2. CASE Sends([type |-> "nick", nick |-> AlternateNick])
    BY <1>4, <2>1, <2>2, ClientAssumption, CommandsTyped, SendsLeaving
  <2>3. CASE UNCHANGED outbox
    BY <1>4, <2>3 DEF Leaving
  <2> QED BY <2>2, <2>3 DEF nicknameInUse
<1>5. ASSUME NEW b, Knows(b), ~bIsJoining'
      PROVE  myNickname' = NickAfter(b[0], inbox[1])
  BY <1>1, <1>3, <1>5 DEF nicknameInUse, Knows, NickFollows, NickAfter
<1> QED
  BY <1>1, <1>2, <1>3, <1>4, <1>5, EarlyFollows, ReadInv

LEMMA onWhoIsUserInv ==
  ASSUME KnowsInv, onWhoIsUser
  PROVE  KnowsInv'
<1>1. /\ IRCInv /\ IRCInv' /\ Reads("whois")
      /\ UNCHANGED <<windowVars, bIsJoining, myNickname>>
  BY onWhoIsUserKeeps DEF KnowsInv, onWhoIsUser
<1>2. NoWindowNoUsers'
  BY <1>1, SameUsers DEF KnowsInv
<1>3. inbox[1].type = "whois"
  BY <1>1, HeadIsFirst
<1>4. ASSUME NEW c \in ChatChannels, Leaving(c)
      PROVE  Leaving(c)'
  <2>1. outbox \in Seq(Commands)
    BY <1>1 DEF IRCInv, NetInv, NetTypeOK
  <2> QED BY <1>1, <1>4, <2>1, WhoisWrites, LeavingStays DEF Leaving
<1>5. ASSUME NEW b, Knows(b), ~bIsJoining'
      PROVE  myNickname' = NickAfter(b[0], inbox[1])
  BY <1>1, <1>3, <1>5 DEF Knows, NickFollows, NickAfter
<1> QED
  BY <1>1, <1>2, <1>3, <1>4, <1>5, EarlyFollows, ReadInv

(* Other lines have no answer, and it is known whom they concern.          *)
LEMMA GreetedReadInv ==
  ASSUME KnowsInv, IRCInv', NEW type, Reads(type),
         type \notin {"inUse", "whois", "hello"},
         UNCHANGED <<outbox, bIsJoining>>,
         myNickname' = NickAfter(myNickname, inbox[1]),
         \A c \in ChatChannels : WindowFollows(c, inbox[1], myNickname),
         NoWindowNoUsers'
  PROVE  KnowsInv'
<1>1. ASSUME NEW b, connection = "connected", Knows(b)
      PROVE  b[0] = myNickname
  BY <1>1, GreetedKnows
<1>2. \A c \in ChatChannels : Leaving(c) => Leaving(c)'
  BY DEF Leaving
<1> QED BY <1>1, <1>2, ReadInv

(* Lines about one channel leave the others alone.                         *)
LEMMA ElsewhereFollows ==
  ASSUME NEW c, NEW line, NEW n, ~About(line, c), ~Opens(line, c, n),
         hasRecipient(c)' <=> hasRecipient(c), Shown(c)' = Shown(c)
  PROVE  WindowFollows(c, line, n)
BY DEF WindowFollows, About, Opens, IsJoin, IsLeave, View

(* What the operations on windows do to each of them.                      *)
Untouched(d) == (hasRecipient(d)' <=> hasRecipient(d)) /\ Shown(d)' = Shown(d)

LEMMA ViewShown ==
  ASSUME NEW c, NEW line, About(line, c)
  PROVE  View(Shown(c), line, c) =
           [users |-> UsersAfter(usersArray[c], line),
            ops |-> OpsAfter(usersArray[c], opsArray[c], line),
            wrong |-> (misread \cap {c}) \cup Misread(usersArray[c], line)]
BY DEF View, Shown

LEMMA Unchanged ==
  ASSUME UNCHANGED windowVars, NEW d
  PROVE  Untouched(d)
BY DEF Untouched, windowVars, hasRecipient, Shown

LEMMA Created ==
  ASSUME IRCInv, NEW n \in Names, getOrCreateNewChatAdapter(n)
  PROVE  /\ hasRecipient(n)'
         /\ \A d \in ChatChannels : Shown(d)' = Shown(d)
         /\ \A d \in ChatChannels : d # n => Untouched(d)
<1>1. CASE hasRecipient(n) /\ UNCHANGED windowVars
  BY <1>1, Unchanged DEF Untouched
<1>2. CASE /\ chatWindows' = [chatWindows EXCEPT ![n] = n]
           /\ UNCHANGED <<lost, usersArray, opsArray, misread>>
  <2>1. \A d \in ChatChannels : Shown(d)' = Shown(d)
    BY <1>2 DEF Shown
  <2>2. \A d \in ChatChannels : d # n => (hasRecipient(d)' <=> hasRecipient(d))
    BY <1>2 DEF hasRecipient, IRCInv, ClientTypeOK, Names
  <2>3. hasRecipient(n)'
    BY <1>2 DEF hasRecipient, IRCInv, ClientTypeOK
  <2> QED BY <2>1, <2>2, <2>3 DEF Untouched
<1> QED BY <1>1, <1>2 DEF getOrCreateNewChatAdapter

LEMMA Appended ==
  ASSUME IRCInv, NEW c \in ChatChannels, NEW ns, NEW ops,
         appendNamesToCachedList(c, ns, ops)
  PROVE  /\ hasRecipient(c)' <=> hasRecipient(c)
         /\ usersArray'[c] = usersArray[c] \cup ns
         /\ opsArray'[c] = (opsArray[c] \ ns) \cup ops
         /\ misread' = misread
         /\ \A d \in ChatChannels : d # c => Untouched(d)
BY DEF appendNamesToCachedList, hasRecipient, Untouched, Shown, IRCInv,
       ClientTypeOK

LEMMA Removed ==
  ASSUME IRCInv, NEW c \in ChatChannels, NEW n, removeNameFromCachedList(c, n)
  PROVE  /\ hasRecipient(c)' <=> hasRecipient(c)
         /\ usersArray'[c] = usersArray[c] \ {n}
         /\ opsArray'[c] = opsArray[c] \ {n}
         /\ misread' = misread
         /\ \A d \in ChatChannels : d # c => Untouched(d)
BY DEF removeNameFromCachedList, hasRecipient, Untouched, Shown, IRCInv,
       ClientTypeOK

LEMMA Killed ==
  ASSUME IRCInv, NEW c \in ChatChannels, killChatWindow(c)
  PROVE  /\ ~hasRecipient(c)' /\ Shown(c)' = NoUsers
         /\ \A d \in ChatChannels : d # c => Untouched(d)
<1>1. \A d \in ChatChannels : chatWindows'[d] = IF d = c THEN NoName ELSE chatWindows[d]
  BY DEF killChatWindow, IRCInv, ClientTypeOK, Names
<1>2. \A d \in ChatChannels :
        /\ usersArray'[d] = IF d = c THEN {} ELSE usersArray[d]
        /\ opsArray'[d] = IF d = c THEN {} ELSE opsArray[d]
        /\ misread' \cap {d} = IF d = c THEN {} ELSE misread \cap {d}
  BY DEF killChatWindow, ListsDeleted
<1>3. ~hasRecipient(c)' /\ Shown(c)' = NoUsers
  BY <1>1, <1>2 DEF hasRecipient, Shown, NoUsers
<1>4. ASSUME NEW d \in ChatChannels, d # c
      PROVE  Untouched(d)
  <2>1. hasRecipient(d)' <=> hasRecipient(d)
    BY <1>1, <1>4 DEF hasRecipient
  <2>2. /\ usersArray'[d] = usersArray[d]
        /\ opsArray'[d] = opsArray[d]
        /\ misread' \cap {d} = misread \cap {d}
    BY <1>2, <1>4
  <2> QED BY <2>1, <2>2 DEF Untouched, Shown
<1> QED BY <1>3, <1>4

LEMMA userJoinsChannelInv ==
  ASSUME KnowsInv, userJoinsChannel
  PROVE  KnowsInv'
<1>1. /\ IRCInv /\ IRCInv' /\ Reads("join")
      /\ UNCHANGED <<outbox, bIsJoining, myNickname>>
  BY userJoinsChannelKeeps DEF KnowsInv, userJoinsChannel
<1>2. PICK line : line = inbox[1] /\ line = Head(inbox) /\ line.type = "join"
  BY <1>1, HeadIsFirst
<1>3. PICK c \in ChatChannels, n \in Nicks : c = line.channel /\ n = line.nick
  BY <1>1, <1>2, HeadIsFirst DEF Lines
<1>4. /\ \A d \in ChatChannels \ {c} : Untouched(d)
      /\ WindowFollows(c, line, myNickname)
      /\ ~hasRecipient(c)' => ~hasRecipient(c) /\ Shown(c)' = Shown(c)
  <2>1. CASE n = myNickname /\ getOrCreateNewChatAdapter(c)
    BY <1>1, <1>2, <1>3, <2>1, Created
       DEF Names, WindowFollows, IsLeave, IsJoin, Opens
  <2>2. CASE n # myNickname /\ hasRecipient(c) /\ appendNamesToCachedList(c, {n}, {})
    <3>1. Shown(c)' = View(Shown(c), line, c)
      <4>1. UsersAfter(usersArray[c], line) = usersArray[c] \cup {n}
        BY <1>2, <1>3 DEF UsersAfter
      <4>2. OpsAfter(usersArray[c], opsArray[c], line) = opsArray[c] \ {n}
        BY <1>2, <1>3 DEF OpsAfter
      <4>3. Misread(usersArray[c], line) = {} /\ About(line, c)
        BY <1>2, <1>3 DEF Misread, About
      <4>4. View(Shown(c), line, c) =
              [users |-> usersArray[c] \cup {n}, ops |-> opsArray[c] \ {n},
               wrong |-> misread \cap {c}]
        BY <4>1, <4>2, <4>3, ViewShown
      <4>5. /\ usersArray'[c] = usersArray[c] \cup {n}
            /\ opsArray'[c] = opsArray[c] \ {n}
            /\ misread' = misread
        BY <1>1, <2>2, Appended
      <4> QED BY <4>4, <4>5 DEF Shown
    <3> QED
      BY <1>1, <1>2, <1>3, <2>2, <3>1, Appended
         DEF WindowFollows, IsLeave, IsJoin
  <2>3. CASE n # myNickname /\ ~hasRecipient(c) /\ UNCHANGED windowVars
    BY <1>2, <1>3, <2>3, Unchanged
       DEF Untouched, WindowFollows, IsLeave, IsJoin
  <2> QED BY <1>2, <1>3, <2>1, <2>2, <2>3 DEF userJoinsChannel, isMyNickname
<1>5. ASSUME NEW d \in ChatChannels \ {c}
      PROVE  WindowFollows(d, line, myNickname)
  BY <1>2, <1>3, <1>4, ElsewhereFollows DEF About, Opens, IsJoin, Untouched
<1>6. NoWindowNoUsers'
  BY <1>4 DEF KnowsInv, NoWindowNoUsers, Untouched
<1> QED BY <1>1, <1>2, <1>4, <1>5, <1>6, GreetedReadInv DEF NickAfter

LEMMA namesListReceivedInv ==
  ASSUME KnowsInv, namesListReceived
  PROVE  KnowsInv'
<1>1. /\ IRCInv /\ IRCInv' /\ Reads("names")
      /\ UNCHANGED <<outbox, bIsJoining, myNickname>>
  BY namesListReceivedKeeps DEF KnowsInv, namesListReceived
<1>2. PICK line : line = inbox[1] /\ line = Head(inbox) /\ line.type = "names"
  BY <1>1, HeadIsFirst
<1>3. PICK c \in ChatChannels : c = line.channel
  BY <1>1, <1>2, HeadIsFirst DEF Lines
<1>4. /\ \A d \in ChatChannels \ {c} : Untouched(d)
      /\ WindowFollows(c, line, myNickname)
      /\ ~hasRecipient(c)' => ~hasRecipient(c) /\ Shown(c)' = Shown(c)
  <2>1. CASE hasRecipient(c) /\ appendNamesToCachedList(c, line.nicks, line.ops)
    <3>1. View(Shown(c), line, c) =
            [users |-> usersArray[c] \cup line.nicks,
             ops |-> (opsArray[c] \ line.nicks) \cup line.ops,
             wrong |-> misread \cap {c}]
      <4>1. UsersAfter(usersArray[c], line) = usersArray[c] \cup line.nicks
        BY <1>2 DEF UsersAfter
      <4>2. OpsAfter(usersArray[c], opsArray[c], line) =
              (opsArray[c] \ line.nicks) \cup line.ops
        BY <1>2 DEF OpsAfter
      <4>3. Misread(usersArray[c], line) = {} /\ About(line, c)
        BY <1>2, <1>3 DEF Misread, About
      <4> QED BY <4>1, <4>2, <4>3, ViewShown
    <3>2. Shown(c)' = View(Shown(c), line, c)
      <4>1. /\ usersArray'[c] = usersArray[c] \cup line.nicks
            /\ opsArray'[c] = (opsArray[c] \ line.nicks) \cup line.ops
            /\ misread' = misread
        BY <1>1, <2>1, Appended
      <4> QED BY <3>1, <4>1 DEF Shown
    <3> QED
      BY <1>1, <1>2, <2>1, <3>2, Appended DEF WindowFollows, IsLeave, IsJoin
  <2>2. CASE ~hasRecipient(c) /\ UNCHANGED windowVars
    BY <1>2, <2>2, Unchanged DEF Untouched, WindowFollows, IsLeave, IsJoin
  <2> QED BY <1>2, <1>3, <2>1, <2>2 DEF namesListReceived
<1>5. ASSUME NEW d \in ChatChannels \ {c}
      PROVE  WindowFollows(d, line, myNickname)
  BY <1>2, <1>3, <1>4, ElsewhereFollows DEF About, Opens, IsJoin, Untouched
<1>6. NoWindowNoUsers'
  BY <1>4 DEF KnowsInv, NoWindowNoUsers, Untouched
<1> QED BY <1>1, <1>2, <1>4, <1>5, <1>6, GreetedReadInv DEF NickAfter

LEMMA userLeavesChannelInv ==
  ASSUME KnowsInv, NEW type \in {"part", "kick"}, userLeavesChannel(type)
  PROVE  KnowsInv'
<1>1. /\ IRCInv /\ IRCInv' /\ Reads(type)
      /\ UNCHANGED <<outbox, bIsJoining, myNickname>>
  BY userLeavesChannelKeeps DEF KnowsInv, userLeavesChannel
<1>2. PICK line : line = inbox[1] /\ line = Head(inbox) /\ line.type = type
  BY <1>1, HeadIsFirst
<1>3. PICK c \in ChatChannels, n \in Nicks : c = line.channel /\ n = line.nick
  BY <1>1, <1>2, HeadIsFirst DEF Lines
<1>4. /\ \A d \in ChatChannels \ {c} : Untouched(d)
      /\ WindowFollows(c, line, myNickname)
      /\ ~hasRecipient(c)' => Shown(c)' = NoUsers
  <2>1. CASE hasRecipient(c) /\ n = myNickname /\ killChatWindow(c)
    BY <1>1, <1>2, <1>3, <2>1, Killed DEF WindowFollows, IsLeave, IsJoin
  <2>2. CASE hasRecipient(c) /\ n # myNickname /\ removeNameFromCachedList(c, n)
    <3>1. View(Shown(c), line, c) =
            [users |-> usersArray[c] \ {n}, ops |-> opsArray[c] \ {n},
             wrong |-> misread \cap {c}]
      <4>1. UsersAfter(usersArray[c], line) = usersArray[c] \ {n}
        BY <1>2, <1>3 DEF UsersAfter
      <4>2. OpsAfter(usersArray[c], opsArray[c], line) = opsArray[c] \ {n}
        BY <1>2, <1>3 DEF OpsAfter
      <4>3. Misread(usersArray[c], line) = {} /\ About(line, c)
        BY <1>2, <1>3 DEF Misread, About
      <4> QED BY <4>1, <4>2, <4>3, ViewShown
    <3>2. Shown(c)' = View(Shown(c), line, c)
      BY <1>1, <2>2, <3>1, Removed DEF Shown
    <3> QED
      BY <1>1, <1>2, <1>3, <2>2, <3>2, Removed DEF WindowFollows, IsLeave, IsJoin
  <2>3. CASE ~hasRecipient(c) /\ UNCHANGED windowVars
    BY <1>2, <2>3, Unchanged
       DEF Untouched, WindowFollows, IsLeave, IsJoin, KnowsInv, NoWindowNoUsers
  <2> QED BY <1>2, <1>3, <2>1, <2>2, <2>3 DEF userLeavesChannel, isMyNickname
<1>5. ASSUME NEW d \in ChatChannels \ {c}
      PROVE  WindowFollows(d, line, myNickname)
  BY <1>2, <1>3, <1>4, ElsewhereFollows DEF About, Opens, IsJoin, Untouched
<1>6. NoWindowNoUsers'
  BY <1>4 DEF KnowsInv, NoWindowNoUsers, Untouched
<1> QED BY <1>1, <1>2, <1>4, <1>5, <1>6, GreetedReadInv DEF NickAfter

LEMMA userQuitsNetworkInv ==
  ASSUME KnowsInv, userQuitsNetwork
  PROVE  KnowsInv'
<1>1. /\ IRCInv /\ IRCInv' /\ Reads("quit")
      /\ UNCHANGED <<outbox, bIsJoining, myNickname>>
  BY userQuitsNetworkKeeps DEF KnowsInv, userQuitsNetwork
<1>2. PICK line : line = inbox[1] /\ line = Head(inbox) /\ line.type = "quit"
  BY <1>1, HeadIsFirst
<1>3. \A d \in ChatChannels :
        /\ hasRecipient(d)' <=> hasRecipient(d)
        /\ usersArray'[d] = usersArray[d] \ {line.nick}
        /\ opsArray'[d] = opsArray[d] \ {line.nick}
        /\ misread' = misread
  BY <1>2 DEF userQuitsNetwork, hasRecipient
<1>4. ASSUME NEW d \in ChatChannels
      PROVE  WindowFollows(d, line, myNickname)
  <2>1. View(Shown(d), line, d) =
          [users |-> usersArray[d] \ {line.nick}, ops |-> opsArray[d] \ {line.nick},
           wrong |-> misread \cap {d}]
    <3>1. UsersAfter(usersArray[d], line) = usersArray[d] \ {line.nick}
      BY <1>2 DEF UsersAfter
    <3>2. OpsAfter(usersArray[d], opsArray[d], line) = opsArray[d] \ {line.nick}
      BY <1>2 DEF OpsAfter
    <3>3. Misread(usersArray[d], line) = {} /\ About(line, d)
      BY <1>2 DEF Misread, About
    <3> QED BY <3>1, <3>2, <3>3, ViewShown
  <2>2. Shown(d)' = View(Shown(d), line, d)
    BY <1>3, <2>1 DEF Shown
  <2> QED BY <1>2, <1>3, <2>2 DEF WindowFollows, IsLeave, IsJoin
<1>5. NoWindowNoUsers'
  <2> SUFFICES ASSUME NEW d \in ChatChannels, ~hasRecipient(d)'
               PROVE  Shown(d)' = NoUsers
    BY DEF NoWindowNoUsers
  <2>1. usersArray[d] = {} /\ opsArray[d] = {} /\ misread \cap {d} = {}
    BY <1>3 DEF KnowsInv, NoWindowNoUsers, Shown, NoUsers
  <2>2. usersArray'[d] = {} /\ opsArray'[d] = {} /\ misread' \cap {d} = {}
    BY <1>3, <2>1
  <2> QED BY <2>2 DEF Shown, NoUsers
<1> QED BY <1>1, <1>2, <1>4, <1>5, GreetedReadInv DEF NickAfter

LEMMA userChangesNicknameInv ==
  ASSUME KnowsInv, userChangesNickname
  PROVE  KnowsInv'
<1>1. /\ IRCInv /\ IRCInv' /\ Reads("rename") /\ UNCHANGED <<outbox, bIsJoining>>
  BY userChangesNicknameKeeps DEF KnowsInv, userChangesNickname
<1>2. PICK line : line = inbox[1] /\ line = Head(inbox) /\ line.type = "rename"
  BY <1>1, HeadIsFirst
<1>3. PICK old \in Nicks, new \in Nicks : old = line.old /\ new = line.new
  BY <1>1, <1>2, HeadIsFirst DEF Lines
<1>4. /\ Renamed(old, new)
      /\ chatWindows' = [n \in Names |->
                           CASE ~hasRecipient(old) -> Recipient(n, old, new)
                             [] n = old -> NoName
                             [] n = new -> Recipient(old, old, new)
                             [] OTHER -> Recipient(n, old, new)]
      /\ UNCHANGED misread
  BY <1>2, <1>3 DEF userChangesNickname
<1>5. \A d \in ChatChannels : hasRecipient(d)' <=> hasRecipient(d)
  <2> SUFFICES ASSUME NEW d \in ChatChannels
               PROVE  hasRecipient(d)' <=> hasRecipient(d)
    OBVIOUS
  <2>1. d \in Names /\ d # old /\ d # new
    BY DEF Names
  <2>2. chatWindows[d] # old
    BY <1>1, <2>1 DEF IRCInv, KeyedByRecipient, hasRecipient, Names
  <2>3. chatWindows'[d] = Recipient(d, old, new)
    BY <1>4, <2>1
  <2> QED BY <2>2, <2>3 DEF Recipient, hasRecipient
<1>6. \A d \in ChatChannels :
        /\ usersArray'[d] = changeNick(usersArray[d], old, new)
        /\ opsArray'[d] = IF old \in usersArray[d]
                          THEN changeNick(opsArray[d] \ {new}, old, new)
                          ELSE opsArray[d]
  BY <1>4 DEF Renamed
<1>7. ASSUME NEW d \in ChatChannels
      PROVE  WindowFollows(d, line, myNickname)
  <2>1. View(Shown(d), line, d) =
          [users |-> usersArray'[d], ops |-> opsArray'[d], wrong |-> misread \cap {d}]
    <3>1. UsersAfter(usersArray[d], line) = usersArray'[d]
      BY <1>2, <1>3, <1>6 DEF UsersAfter
    <3>2. OpsAfter(usersArray[d], opsArray[d], line) = opsArray'[d]
      BY <1>2, <1>3, <1>6 DEF OpsAfter
    <3>3. Misread(usersArray[d], line) = {} /\ About(line, d)
      BY <1>2 DEF Misread, About
    <3> QED BY <3>1, <3>2, <3>3, ViewShown
  <2>2. Shown(d)' = View(Shown(d), line, d)
    BY <1>4, <2>1 DEF Shown
  <2> QED BY <1>2, <1>5, <2>2 DEF WindowFollows, IsLeave, IsJoin
<1>8. NoWindowNoUsers'
  <2> SUFFICES ASSUME NEW d \in ChatChannels, ~hasRecipient(d)'
               PROVE  Shown(d)' = NoUsers
    BY DEF NoWindowNoUsers
  <2>1. usersArray[d] = {} /\ opsArray[d] = {} /\ misread \cap {d} = {}
    BY <1>5 DEF KnowsInv, NoWindowNoUsers, Shown, NoUsers
  <2>2. usersArray'[d] = {} /\ opsArray'[d] = {} /\ misread' \cap {d} = {}
    BY <1>4, <1>6, <2>1 DEF changeNick
  <2> QED BY <2>2 DEF Shown, NoUsers
<1>9. myNickname' = NickAfter(myNickname, line)
  BY <1>2, <1>3, <1>4 DEF Renamed, isMyNickname, NickAfter
<1> QED BY <1>1, <1>2, <1>7, <1>8, <1>9, GreetedReadInv

LEMMA MODEInv ==
  ASSUME KnowsInv, MODE
  PROVE  KnowsInv'
<1>1. /\ IRCInv /\ IRCInv' /\ Reads("mode")
      /\ UNCHANGED <<outbox, bIsJoining, myNickname>>
  BY MODEKeeps DEF KnowsInv, MODE
<1>2. PICK line : line = inbox[1] /\ line = Head(inbox) /\ line.type = "mode"
  BY <1>1, HeadIsFirst
<1>3. PICK c \in ChatChannels, n \in Nicks : c = line.channel /\ n = line.nick
  BY <1>1, <1>2, HeadIsFirst DEF Lines
<1>4. /\ UsersAfter(usersArray[c], line) = usersArray[c]
      /\ About(line, c) /\ Opens(line, c, myNickname)
      /\ ~IsLeave(line, c, myNickname) /\ ~IsJoin(line, c, myNickname)
  BY <1>2, <1>3 DEF UsersAfter, About, Opens, IsLeave, IsJoin
<1>5. /\ \A d \in ChatChannels \ {c} : Untouched(d)
      /\ WindowFollows(c, line, myNickname)
      /\ ~hasRecipient(c)' => ~hasRecipient(c) /\ Shown(c)' = Shown(c)
  <2>1. CASE n \notin usersArray[c] /\ getOrCreateNewChatAdapter(c)
    <3>1. OpsAfter(usersArray[c], opsArray[c], line) = opsArray[c]
      BY <1>2, <1>3, <2>1 DEF OpsAfter
    <3>2. Misread(usersArray[c], line) = {}
      BY <1>2, <1>3, <2>1 DEF Misread
    <3>3. View(Shown(c), line, c) = Shown(c)
      BY <1>4, <3>1, <3>2, ViewShown DEF Shown
    <3> QED BY <1>1, <1>4, <2>1, <3>3, Created DEF WindowFollows, Names
  <2>2. CASE /\ n \in usersArray[c]
             /\ line.alone
             /\ opsArray' = [opsArray EXCEPT ![c] =
                               IF line.op THEN @ \cup {n} ELSE @ \ {n}]
             /\ UNCHANGED <<chatWindows, lost, usersArray, misread>>
    <3>1. OpsAfter(usersArray[c], opsArray[c], line) = opsArray'[c]
      BY <1>1, <1>2, <1>3, <2>2 DEF OpsAfter, IRCInv, ClientTypeOK
    <3>2. Misread(usersArray[c], line) = {}
      BY <2>2 DEF Misread
    <3>3. View(Shown(c), line, c) = Shown(c)'
      BY <1>4, <2>2, <3>1, <3>2, ViewShown DEF Shown
    <3>4. hasRecipient(c)
      BY <2>2 DEF KnowsInv, NoWindowNoUsers, Shown, NoUsers
    <3>5. \A d \in ChatChannels : hasRecipient(d)' <=> hasRecipient(d)
      BY <2>2 DEF hasRecipient
    <3>6. \A d \in ChatChannels \ {c} : Shown(d)' = Shown(d)
      BY <1>1, <2>2 DEF Shown, IRCInv, ClientTypeOK
    <3> QED BY <1>4, <3>3, <3>4, <3>5, <3>6 DEF WindowFollows, Untouched
  <2>3. CASE /\ n \in usersArray[c]
             /\ ~line.alone
             /\ misread' = misread \cup {c}
             /\ UNCHANGED <<chatWindows, lost, usersArray, opsArray>>
    <3>1. OpsAfter(usersArray[c], opsArray[c], line) = opsArray[c]
      BY <1>2, <2>3 DEF OpsAfter
    <3>2. Misread(usersArray[c], line) = {c}
      BY <1>2, <1>3, <2>3 DEF Misread
    <3>3. View(Shown(c), line, c) = Shown(c)'
      BY <1>4, <2>3, <3>1, <3>2, ViewShown DEF Shown
    <3>4. hasRecipient(c)
      BY <2>3 DEF KnowsInv, NoWindowNoUsers, Shown, NoUsers
    <3>5. \A d \in ChatChannels : hasRecipient(d)' <=> hasRecipient(d)
      BY <2>3 DEF hasRecipient
    <3>6. \A d \in ChatChannels \ {c} : Shown(d)' = Shown(d)
      BY <2>3 DEF Shown
    <3> QED BY <1>4, <3>3, <3>4, <3>5, <3>6 DEF WindowFollows, Untouched
  <2> QED BY <1>2, <1>3, <2>1, <2>2, <2>3 DEF MODE
<1>6. ASSUME NEW d \in ChatChannels \ {c}
      PROVE  WindowFollows(d, line, myNickname)
  BY <1>2, <1>3, <1>5, ElsewhereFollows DEF About, Opens, IsJoin, Untouched
<1>7. NoWindowNoUsers'
  BY <1>5 DEF KnowsInv, NoWindowNoUsers, Untouched
<1> QED BY <1>1, <1>2, <1>5, <1>6, <1>7, GreetedReadInv DEF NickAfter

LEMMA privMsgReceivedInv ==
  ASSUME KnowsInv, privMsgReceived
  PROVE  KnowsInv'
<1>1. /\ IRCInv /\ IRCInv' /\ Reads("message")
      /\ UNCHANGED <<outbox, bIsJoining, myNickname>>
  BY privMsgReceivedKeeps DEF KnowsInv, privMsgReceived
<1>2. PICK line : line = inbox[1] /\ line = Head(inbox) /\ line.type = "message"
  BY <1>1, HeadIsFirst
<1>3. PICK n \in Names : n = line.recipient
  BY <1>1, <1>2, HeadIsFirst DEF Lines
<1>4. getOrCreateNewChatAdapter(n)
  BY <1>2, <1>3 DEF privMsgReceived
<1>5. ASSUME NEW d \in ChatChannels
      PROVE  WindowFollows(d, line, myNickname)
  <2>1. View(Shown(d), line, d) = Shown(d)
    BY <1>2 DEF View, About
  <2> QED
    BY <1>1, <1>2, <1>3, <1>4, <2>1, Created
       DEF WindowFollows, Untouched, Opens, IsLeave, IsJoin
<1>6. NoWindowNoUsers'
  BY <1>1, <1>4, Created DEF KnowsInv, NoWindowNoUsers, Untouched
<1> QED BY <1>1, <1>2, <1>5, <1>6, GreetedReadInv DEF NickAfter

LEMMA ResponseInv ==
  ASSUME KnowsInv, ircServerResponse
  PROVE  KnowsInv'
BY helloClientInv, nicknameInUseInv, userJoinsChannelInv, namesListReceivedInv,
   userLeavesChannelInv, userQuitsNetworkInv, userChangesNicknameInv, MODEInv,
   privMsgReceivedInv, onWhoIsUserInv
   DEF ircServerResponse

-----------------------------------------------------------------------------
(* The user acts                                                           *)

(* No window of a channel is opened, and one that is closed is parted from.*)
WindowStays(c) ==
  /\ hasRecipient(c)' => hasRecipient(c) /\ Shown(c)' = Shown(c)
  /\ hasRecipient(c) /\ ~hasRecipient(c)' /\ connection = "connected" => Leaving(c)'
  /\ Leaving(c) => Leaving(c)'

LEMMA StaysClosed ==
  ASSUME NEW b, NEW c, NEW m, UNCHANGED inbox, hasRecipient(c)' => hasRecipient(c),
         ClosedAfter(b, c, m)
  PROVE  ClosedAfter(b, c, m)'
BY DEF ClosedAfter

LEMMA UserKnows ==
  ASSUME connection = "connected", NEW b, Knows(b),
         UNCHANGED <<inbox, nickOf, members, operators, bIsJoining, myNickname>>,
         \A c \in ChatChannels : WindowStays(c)
  PROVE  Knows(b)'
<1>1. NickFollows(b)'
  BY DEF Knows, NickFollows, Follows, Registered
<1>2. ASSUME NEW c \in ChatChannels
      PROVE  ChannelKnown(b, c)'
  <2>1. ChannelKnown(b, c) /\ WindowStays(c)
    BY DEF Knows
  <2>2. PICK n : n = Len(inbox)
    OBVIOUS
  <2>3. ASSUME Self \notin members[c]
        PROVE  ClosedAfter(b, c, Len(inbox))'
    <3>1. ClosedAfter(b, c, n)'
      BY <2>1, <2>2, <2>3, StaysClosed DEF ChannelKnown, WindowStays
    <3> QED BY <2>2, <3>1
  <2>4. ASSUME Self \in members[c], ~Leaving(c)'
        PROVE  \E v : \E k \in 0..Len(inbox') : Listed(b, c, k, v)'
    <3>1. ~Leaving(c) /\ (hasRecipient(c) => hasRecipient(c)')
      BY <2>1, <2>4 DEF WindowStays
    <3>2. PICK v : \E k \in 0..Len(inbox) : Listed(b, c, k, v)
      BY <2>1, <2>4, <3>1 DEF ChannelKnown
    <3>3. PICK k \in 0..Len(inbox) : Listed(b, c, k, v)
      BY <3>2
    <3>4. k = 0 => hasRecipient(c)' /\ v[0] = Shown(c)'
      BY <2>1, <3>1, <3>3 DEF Listed, WindowStays
    <3>5. k > 0 => ClosedAfter(b, c, k - 1)'
      BY <2>1, <3>3, StaysClosed DEF Listed, WindowStays
    <3>6. Matches(v[Len(inbox)], c)'
      BY <3>3 DEF Listed, Matches, NicksOf
    <3>7. Listed(b, c, k, v)'
      BY <3>3, <3>4, <3>5, <3>6 DEF Listed
    <3> QED BY <3>3, <3>7
  <2> QED BY <2>3, <2>4 DEF ChannelKnown
<1> QED BY <1>1, <1>2 DEF Knows

LEMMA UserInv ==
  ASSUME KnowsInv, IRCInv', UserActs, NoWindowNoUsers',
         \A c \in ChatChannels : WindowStays(c)
  PROVE  KnowsInv'
<1>1. /\ UNCHANGED <<connection, inbox, nickOf, members, operators, bIsJoining,
                     myNickname>>
      /\ connection # "connecting"
  BY DEF UserActs
<1>2. BeforeConnected'
  BY <1>1 DEF BeforeConnected
<1>3. ASSUME connection = "connected"
      PROVE  JoiningOK' /\ \E b : Knows(b)'
  <2>1. JoiningOK'
    BY <1>1, <1>3 DEF KnowsInv, JoiningOK, Registered, EarlyLine, Greeted
  <2>2. PICK b : Knows(b)
    BY <1>3 DEF KnowsInv
  <2> QED BY <1>1, <1>3, <2>1, <2>2, UserKnows
<1> QED BY <1>1, <1>2, <1>3 DEF KnowsInv

LEMMA SameWindowStays ==
  ASSUME UNCHANGED windowVars, NEW c, Leaving(c) => Leaving(c)'
  PROVE  WindowStays(c)
BY DEF WindowStays, windowVars, hasRecipient, Shown

LEMMA IRCConnectedInv ==
  ASSUME KnowsInv, IRCConnected
  PROVE  KnowsInv'
<1>1. IRCInv' /\ NoWindowNoUsers'
  BY IRCConnectedKeeps, SameUsers DEF KnowsInv, IRCConnected
<1>2. /\ inbox' = <<>> /\ bIsJoining' /\ connection' = "connected"
      /\ ~Registered(Self)'
      /\ \A c \in ChatChannels : ~hasRecipient(c)'
  BY DEF IRCConnected, KnowsInv, BeforeConnected, Registered, windowVars, hasRecipient
<1>3. BeforeConnected' /\ JoiningOK'
  BY <1>2 DEF BeforeConnected, JoiningOK
<1>4. \A c \in ChatChannels : Self \notin members'[c]
  BY <1>1, <1>2 DEF IRCInv, NetInv, NetOK
<1>5. PICK b : b = [i \in 0..0 |-> OwnNick]
  OBVIOUS
<1>6. NickFollows(b)'
  BY <1>2, <1>5, ClientAssumption DEF NickFollows, Follows
<1>7. \A c \in ChatChannels : ChannelKnown(b, c)'
  BY <1>2, <1>4 DEF ChannelKnown, ClosedAfter
<1>8. Knows(b)'
  BY <1>6, <1>7 DEF Knows
<1> QED BY <1>1, <1>3, <1>8 DEF KnowsInv

LEMMA TypesInv ==
  ASSUME KnowsInv, NEW command \in Commands, Types(command)
  PROVE  KnowsInv'
<1>1. IRCInv /\ IRCInv' /\ UserActs /\ UNCHANGED windowVars
  BY TypesKeeps DEF KnowsInv, Types
<1>2. \A c \in ChatChannels : Leaving(c) => Leaving(c)'
  BY <1>1, SendsLeaving DEF Types, IRCInv, NetInv, NetTypeOK
<1>3. NoWindowNoUsers'
  BY <1>1, SameUsers DEF KnowsInv
<1> QED BY <1>1, <1>2, <1>3, SameWindowStays, UserInv

LEMMA banUserInv ==
  ASSUME KnowsInv, NEW c \in ChatChannels, NEW n \in Nicks, banUser(c, n)
  PROVE  KnowsInv'
<1>1. IRCInv /\ IRCInv' /\ UserActs /\ UNCHANGED windowVars
  BY banUserKeeps DEF KnowsInv, banUser
<1>2. \A d \in ChatChannels : Leaving(d) => Leaving(d)'
  BY <1>1, CommandsTyped, SendsLeaving DEF banUser, IRCInv, NetInv, NetTypeOK
<1>3. NoWindowNoUsers'
  BY <1>1, SameUsers DEF KnowsInv
<1> QED BY <1>1, <1>2, <1>3, SameWindowStays, UserInv

LEMMA openNewAdapterInv ==
  ASSUME KnowsInv, NEW n \in Names, openNewAdapter(n)
  PROVE  KnowsInv'
<1>1. IRCInv /\ IRCInv' /\ UserActs /\ outbox \in Seq(Commands)
  BY openNewAdapterKeeps DEF KnowsInv, openNewAdapter, IRCInv, NetInv, NetTypeOK
<1>2. \A c \in ChatChannels : Leaving(c) => Leaving(c)'
  <2>1. CASE UNCHANGED outbox
    BY <2>1 DEF Leaving
  <2>2. CASE n \in ChatChannels /\ Sends([type |-> "join", channel |-> n])
    BY <1>1, <2>2, CommandsTyped, SendsLeaving
  <2> QED BY <2>1, <2>2 DEF openNewAdapter
<1>3. \A c \in ChatChannels : Untouched(c)
  <2>1. CASE n \in Nicks /\ getOrCreateNewChatAdapter(n)
    BY <1>1, <2>1, Created
  <2>2. CASE hasRecipient(n) /\ getOrCreateNewChatAdapter(n)
    BY <2>2, Unchanged DEF getOrCreateNewChatAdapter
  <2>3. CASE UNCHANGED windowVars
    BY <2>3, Unchanged
  <2> QED BY <2>1, <2>2, <2>3 DEF openNewAdapter
<1>4. NoWindowNoUsers'
  BY <1>3 DEF KnowsInv, NoWindowNoUsers, Untouched
<1>5. \A c \in ChatChannels : WindowStays(c)
  BY <1>2, <1>3 DEF WindowStays, Untouched
<1> QED BY <1>1, <1>4, <1>5, UserInv

LEMMA TabClosedInv ==
  ASSUME KnowsInv, NEW n \in Names, TabClosed(n)
  PROVE  KnowsInv'
<1>1. IRCInv /\ IRCInv' /\ UserActs /\ outbox \in Seq(Commands)
  BY TabClosedKeeps DEF KnowsInv, TabClosed, IRCInv, NetInv, NetTypeOK
<1>2. chatWindows[n] = n
  BY <1>1 DEF TabClosed, IRCInv, KeyedByRecipient
<1>3. ASSUME NEW c \in ChatChannels, Leaving(c)
      PROVE  Leaving(c)'
  <2>1. CASE UNCHANGED outbox
    BY <1>3, <2>1 DEF Leaving
  <2>2. CASE n \in ChatChannels /\ Sends([type |-> "part", channel |-> n])
    BY <1>1, <1>3, <2>2, CommandsTyped, SendsLeaving
  <2> QED BY <2>1, <2>2 DEF TabClosed
<1>4. n \in ChatChannels /\ connection = "connected" => Leaving(n)'
  <2> SUFFICES ASSUME n \in ChatChannels, connection = "connected"
               PROVE  Leaving(n)'
    OBVIOUS
  <2>1. outbox' = Append(outbox, [type |-> "part", channel |-> n])
    BY DEF TabClosed, Sends
  <2>2. /\ Len(outbox') = Len(outbox) + 1
        /\ outbox'[Len(outbox) + 1] = [type |-> "part", channel |-> n]
    BY <1>1, <2>1, CommandsTyped, AppendProperties
  <2>3. Len(outbox) + 1 \in 1..Len(outbox')
    BY <1>1, <2>2, LenProperties
  <2> QED BY <2>2, <2>3 DEF Leaving
<1>5. \A c \in ChatChannels :
        /\ chatWindows'[c] = IF c = n THEN NoName ELSE chatWindows[c]
        /\ usersArray'[c] = IF c = n THEN {} ELSE usersArray[c]
        /\ opsArray'[c] = IF c = n THEN {} ELSE opsArray[c]
        /\ misread' \cap {c} = IF c = n THEN {} ELSE misread \cap {c}
  BY <1>1, <1>2 DEF TabClosed, ListsDeleted, IRCInv, ClientTypeOK, Names
<1>6. \A c \in ChatChannels : IF c = n THEN ~hasRecipient(c)' /\ Shown(c)' = NoUsers
                                       ELSE Untouched(c)
  <2>1. \A c \in ChatChannels : c = n => ~hasRecipient(c)' /\ Shown(c)' = NoUsers
    BY <1>5 DEF hasRecipient, Shown, NoUsers
  <2>2. \A c \in ChatChannels : c # n => Untouched(c)
    BY <1>5 DEF Untouched, hasRecipient, Shown
  <2> QED BY <2>1, <2>2
<1>7. NoWindowNoUsers'
  BY <1>6 DEF KnowsInv, NoWindowNoUsers, Untouched
<1>8. \A c \in ChatChannels : WindowStays(c)
  BY <1>3, <1>4, <1>6 DEF WindowStays, Untouched
<1> QED BY <1>1, <1>7, <1>8, UserInv

LEMMA LostTabClosedInv ==
  ASSUME KnowsInv, NEW n \in Nicks, LostTabClosed(n)
  PROVE  KnowsInv'
<1>1. IRCInv /\ IRCInv' /\ UserActs
  BY LostTabClosedKeeps DEF KnowsInv, LostTabClosed
<1>2. \A c \in ChatChannels : Untouched(c)
  BY <1>1
     DEF LostTabClosed, Untouched, hasRecipient, Shown, IRCInv, ClientTypeOK, Names
<1>3. NoWindowNoUsers'
  BY <1>2 DEF KnowsInv, NoWindowNoUsers, Untouched
<1>4. \A c \in ChatChannels : WindowStays(c)
  BY <1>2 DEF LostTabClosed, WindowStays, Untouched, Leaving
<1> QED BY <1>1, <1>3, <1>4, UserInv

LEMMA ClosedInv ==
  ASSUME IRCInv', killAllChatWindows, connection' \in {"closed", "deleted"}
  PROVE  KnowsInv'
<1>1. BeforeConnected'
  BY DEF BeforeConnected
<1>2. NoWindowNoUsers'
  <2>1. \A c \in ChatChannels :
          usersArray'[c] = {} /\ opsArray'[c] = {} /\ misread' \cap {c} = {}
    BY DEF killAllChatWindows, ListsDeleted
  <2> QED BY <2>1 DEF NoWindowNoUsers, Shown, NoUsers
<1> QED BY <1>1, <1>2 DEF KnowsInv

LEMMA UserNextInv ==
  ASSUME KnowsInv, IRCUserNext
  PROVE  KnowsInv'
<1>1. CASE \E n \in Nicks : Types([type |-> "nick", nick |-> n])
  BY <1>1, TypesInv, CommandsTyped
<1>2. ASSUME NEW c \in ChatChannels,
             \/ Types([type |-> "join", channel |-> c])
             \/ Types([type |-> "part", channel |-> c])
      PROVE  KnowsInv'
  BY <1>2, TypesInv, CommandsTyped
<1>3. CASE \E c \in ChatChannels, n \in Nicks : banUser(c, n)
  BY <1>3, banUserInv
<1>4. CASE \E n \in Names : openNewAdapter(n) \/ TabClosed(n)
  BY <1>4, openNewAdapterInv, TabClosedInv
<1>5. CASE \E n \in Nicks : LostTabClosed(n)
  BY <1>5, LostTabClosedInv
<1>6. CASE IRCConnected
  BY <1>6, IRCConnectedInv
<1>7. CASE IRCDisconnected \/ NetworkDeleted
  BY <1>7, IRCDisconnectedKeeps, NetworkDeletedKeeps, ClosedInv
     DEF KnowsInv, IRCDisconnected, NetworkDeleted
<1> QED BY <1>1, <1>2, <1>3, <1>4, <1>5, <1>6, <1>7 DEF IRCUserNext

-----------------------------------------------------------------------------
(* A line is written                                                       *)

LEMMA AppendIndex ==
  ASSUME inbox \in Seq(Lines), NEW line \in Lines, inbox' = Append(inbox, line)
  PROVE  /\ Len(inbox) \in Nat
         /\ Len(inbox') = Len(inbox) + 1
         /\ \A i \in 1..Len(inbox) : inbox'[i] = inbox[i]
         /\ inbox'[Len(inbox) + 1] = line
BY AppendProperties, LenProperties

(* The line tells what becomes of the client's nickname, and of channel c. *)
TellsNick(line) ==
  /\ Registered(Self) => nickOf'[Self] = NickAfter(nickOf[Self], line)
  /\ ~Registered(Self) =>
       /\ line.type \in {"inUse", "whois", "hello"}
       /\ Registered(Self)' => line.type = "hello" /\ line.nick = nickOf'[Self]

TellsOf(c, line) ==
  /\ Self \notin members'[c] =>
       \/ Self \notin members[c] /\ \A n : ~Opens(line, c, n)
       \/ Self \in members[c] /\ IsLeave(line, c, nickOf[Self])
  /\ Self \in members'[c] =>
       /\ Self \in members[c]
       /\ Leaving(c) => Leaving(c)'
       /\ ~IsLeave(line, c, nickOf[Self])
       /\ ~IsJoin(line, c, nickOf[Self])
       /\ \A s : Matches(s, c) => Matches(View(s, line, c), c)'

LEMMA WriteCloses ==
  ASSUME Len(inbox) \in Nat, \A i \in 1..Len(inbox) : inbox'[i] = inbox[i],
         NEW b, NEW d, \A i \in 0..Len(inbox) : d[i] = b[i],
         NEW c, NEW m \in 0..Len(inbox), ClosedAfter(b, c, m),
         UNCHANGED windowVars
  PROVE  ClosedAfter(d, c, m)'
<1>2. \A i \in 1..m : inbox'[i] = inbox[i] /\ d[i - 1] = b[i - 1]
  OBVIOUS
<1>3. hasRecipient(c)' <=> hasRecipient(c)
  BY DEF windowVars, hasRecipient
<1>4. hasRecipient(c) => \E i \in 1..m : IsLeave(inbox'[i], c, d[i - 1])
  BY <1>2 DEF ClosedAfter
<1>5. ASSUME NEW i \in 1..m, Opens(inbox'[i], c, d[i - 1])
      PROVE  \E j \in (i + 1)..m : IsLeave(inbox'[j], c, d[j - 1])
  <2>1. PICK j \in (i + 1)..m : IsLeave(inbox[j], c, b[j - 1])
    BY <1>2, <1>5 DEF ClosedAfter
  <2>2. j \in 1..m
    OBVIOUS
  <2> QED BY <1>2, <2>1, <2>2
<1> QED BY <1>3, <1>4, <1>5 DEF ClosedAfter

LEMMA WriteClosesWith ==
  ASSUME inbox \in Seq(Lines), NEW line \in Lines, inbox' = Append(inbox, line),
         NEW b, NEW d, \A i \in 0..Len(inbox) : d[i] = b[i],
         NEW c, UNCHANGED windowVars,
         \/ ClosedAfter(b, c, Len(inbox)) /\ ~Opens(line, c, b[Len(inbox)])
         \/ IsLeave(line, c, b[Len(inbox)])
  PROVE  ClosedAfter(d, c, Len(inbox))'
<1>1. PICK n \in Nat : n = Len(inbox)
  BY LenProperties
<1>2. /\ Len(inbox') = n + 1
      /\ \A i \in 1..n : inbox'[i] = inbox[i]
      /\ inbox'[n + 1] = line /\ (n + 1) - 1 = n /\ d[n] = b[n]
  BY <1>1, AppendIndex
<1>3. hasRecipient(c)' <=> hasRecipient(c)
  BY DEF windowVars, hasRecipient
<1>4. CASE ClosedAfter(b, c, n) /\ ~Opens(line, c, b[n])
  <2>1. ClosedAfter(d, c, n)'
    BY <1>1, <1>2, <1>4, WriteCloses
  <2>2. ~Opens(inbox'[n + 1], c, d[(n + 1) - 1])
    BY <1>2, <1>4
  <2>3. hasRecipient(c)' => \E i \in 1..n : IsLeave(inbox'[i], c, d[i - 1])
    BY <2>1 DEF ClosedAfter
  <2>4. \A i \in 1..n : Opens(inbox'[i], c, d[i - 1]) =>
          \E j \in (i + 1)..n : IsLeave(inbox'[j], c, d[j - 1])
    BY <2>1 DEF ClosedAfter
  <2>5. ASSUME hasRecipient(c)'
        PROVE  \E i \in 1..(n + 1) : IsLeave(inbox'[i], c, d[i - 1])
    <3>1. PICK i \in 1..n : IsLeave(inbox'[i], c, d[i - 1])
      BY <2>3, <2>5
    <3>2. i \in 1..(n + 1)
      OBVIOUS
    <3> QED BY <3>1, <3>2
  <2>6. ASSUME NEW i \in 1..(n + 1), Opens(inbox'[i], c, d[i - 1])
        PROVE  \E j \in (i + 1)..(n + 1) : IsLeave(inbox'[j], c, d[j - 1])
    <3>4. i # n + 1
      BY <2>2, <2>6
    <3>1. i \in 1..n
      BY <3>4
    <3>2. PICK j \in (i + 1)..n : IsLeave(inbox'[j], c, d[j - 1])
      BY <2>4, <2>6, <3>1
    <3>3. j \in (i + 1)..(n + 1)
      OBVIOUS
    <3> QED BY <3>2, <3>3
  <2> QED BY <1>2, <2>5, <2>6 DEF ClosedAfter
<1>5. CASE IsLeave(line, c, b[n])
  <2>1. IsLeave(inbox'[n + 1], c, d[(n + 1) - 1])
    BY <1>2, <1>5
  <2>2. n + 1 \in 1..(n + 1) /\ \A i \in 1..n : n + 1 \in (i + 1)..(n + 1)
    OBVIOUS
  <2>3. ~Opens(inbox'[n + 1], c, d[(n + 1) - 1])
    BY <2>1 DEF IsLeave, IsJoin, Opens
  <2>4. \A i \in 1..(n + 1) : i \in 1..n \/ i = n + 1
    OBVIOUS
  <2> QED BY <1>2, <2>1, <2>2, <2>3, <2>4 DEF ClosedAfter
<1> QED BY <1>1, <1>4, <1>5

LEMMA WriteLists ==
  ASSUME inbox \in Seq(Lines), NEW line \in Lines, inbox' = Append(inbox, line),
         NEW b, NEW d, \A i \in 0..Len(inbox) : d[i] = b[i],
         NEW c, UNCHANGED windowVars,
         NEW v, NEW k \in 0..Len(inbox), Listed(b, c, k, v),
         ~IsLeave(line, c, b[Len(inbox)]), ~IsJoin(line, c, b[Len(inbox)]),
         \A s : Matches(s, c) => Matches(View(s, line, c), c)'
  PROVE  \E w : \E j \in 0..Len(inbox') : Listed(d, c, j, w)'
<1>1. PICK n \in Nat : n = Len(inbox)
  BY LenProperties
<1>2. /\ Len(inbox') = n + 1
      /\ \A i \in 1..n : inbox'[i] = inbox[i]
      /\ inbox'[n + 1] = line
  BY <1>1, AppendIndex
<1>3. PICK w : w = [i \in 0..(n + 1) |-> IF i = n + 1 THEN View(v[n], line, c) ELSE v[i]]
  OBVIOUS
<1>4. /\ \A i \in 0..n : w[i] = v[i]
      /\ w[n + 1] = View(v[n], line, c)
      /\ \A i \in 0..n : d[i] = b[i]
  BY <1>1, <1>3
<1>5. Matches(w[n + 1], c)'
  BY <1>1, <1>4 DEF Listed
<1>6. ASSUME NEW i \in (k + 1)..(n + 1)
      PROVE  /\ ~IsLeave(inbox'[i], c, d[i - 1])
             /\ ~IsJoin(inbox'[i], c, d[i - 1])
             /\ w[i] = View(w[i - 1], inbox'[i], c)
  <2>1. CASE i = n + 1
    <3>1. i - 1 = n /\ n \in 0..n
      BY <2>1
    <3> QED BY <1>1, <1>2, <1>4, <2>1, <3>1
  <2>2. CASE i # n + 1
    <3>1. i \in (k + 1)..n /\ i \in 1..n /\ i \in 0..n /\ i - 1 \in 0..n
      BY <1>1, <2>2
    <3>2. /\ ~IsLeave(inbox[i], c, b[i - 1])
          /\ ~IsJoin(inbox[i], c, b[i - 1])
          /\ v[i] = View(v[i - 1], inbox[i], c)
      BY <1>1, <3>1 DEF Listed
    <3> QED BY <1>2, <1>4, <3>1, <3>2
  <2> QED BY <2>1, <2>2
<1>7. k = 0 => hasRecipient(c)' /\ w[0] = Shown(c)'
  BY <1>4 DEF Listed, windowVars, hasRecipient, Shown
<1>8. ASSUME k > 0
      PROVE  /\ IsJoin(inbox'[k], c, d[k - 1])
             /\ ClosedAfter(d, c, k - 1)'
             /\ w[k] = NoUsers
  <2>1. k \in 1..n /\ k \in 0..n /\ k - 1 \in 0..n
    BY <1>1, <1>8
  <2>2. IsJoin(inbox[k], c, b[k - 1]) /\ ClosedAfter(b, c, k - 1) /\ v[k] = NoUsers
    BY <1>8 DEF Listed
  <2>3. ClosedAfter(d, c, k - 1)'
    BY <1>1, <1>2, <2>1, <2>2, WriteCloses
  <2> QED BY <1>2, <1>4, <2>1, <2>2, <2>3
<1>9. Listed(d, c, k, w)'
  BY <1>2, <1>5, <1>6, <1>7, <1>8 DEF Listed
<1>10. k \in 0..Len(inbox')
  BY <1>1, <1>2
<1> QED BY <1>9, <1>10

LEMMA WriteKnows ==
  ASSUME IRCInv, IRCInv', connection = "connected", NEW b, Knows(b),
         UNCHANGED <<bIsJoining, myNickname, windowVars>>,
         NEW line \in Lines, inbox' = Append(inbox, line), TellsNick(line),
         \A c \in ChatChannels : TellsOf(c, line)
  PROVE  \E d : Knows(d)'
<1>1. inbox \in Seq(Lines)
  BY DEF IRCInv, NetInv, NetTypeOK
<1>2. PICK n \in Nat : n = Len(inbox)
  BY <1>1, LenProperties
<1>3. /\ Len(inbox') = n + 1
      /\ \A i \in 1..n : inbox'[i] = inbox[i]
      /\ inbox'[n + 1] = line
  BY <1>1, <1>2, AppendIndex
<1>4. /\ b \in [0..n -> Nicks]
      /\ \A i \in 1..n : b[i] = NickAfter(b[i - 1], inbox[i])
      /\ ~bIsJoining => b[0] = myNickname
      /\ Registered(Self) => b[n] = nickOf[Self]
  BY <1>2 DEF Knows, NickFollows, Follows
<1>5. NickAfter(b[n], line) \in Nicks
  BY <1>4 DEF NickAfter, Lines
<1>6. PICK d : d = [i \in 0..(n + 1) |-> IF i = n + 1 THEN NickAfter(b[n], line) ELSE b[i]]
  OBVIOUS
<1>7. /\ d \in [0..(n + 1) -> Nicks]
      /\ \A i \in 0..n : d[i] = b[i]
      /\ d[n + 1] = NickAfter(b[n], line)
  BY <1>4, <1>5, <1>6
<1>8. NickFollows(d)'
  <2>1. ASSUME NEW i \in 1..(n + 1)
        PROVE  d[i] = NickAfter(d[i - 1], inbox'[i])
    <3>1. CASE i = n + 1
      <4>1. i - 1 = n /\ n \in 0..n
        BY <3>1
      <4> QED BY <1>3, <1>7, <3>1, <4>1
    <3>2. CASE i # n + 1
      <4>1. i \in 1..n /\ i \in 0..n /\ i - 1 \in 0..n
        BY <3>2
      <4> QED BY <1>3, <1>4, <1>7, <4>1
    <3> QED BY <3>1, <3>2
  <2>2. Registered(Self)' => d[n + 1] = nickOf'[Self]
    <3>1. CASE Registered(Self)
      BY <1>4, <1>7, <3>1 DEF TellsNick
    <3>2. CASE ~Registered(Self)
      BY <1>7, <3>2 DEF TellsNick, NickAfter
    <3> QED BY <3>1, <3>2
  <2>3. ~bIsJoining' => d[0] = myNickname'
    BY <1>4, <1>7
  <2> QED BY <1>3, <1>7, <2>1, <2>2, <2>3 DEF NickFollows, Follows
<1>9. ASSUME NEW c \in ChatChannels
      PROVE  ChannelKnown(d, c)'
  <2>1. ChannelKnown(b, c) /\ TellsOf(c, line)
    BY DEF Knows
  <2>2. Self \in members[c] => b[n] = nickOf[Self]
    BY <1>4 DEF IRCInv, NetInv, NetOK
  <2>3. ASSUME Self \notin members'[c]
        PROVE  ClosedAfter(d, c, Len(inbox))'
    <3>1. \/ ClosedAfter(b, c, n) /\ ~Opens(line, c, b[n])
          \/ IsLeave(line, c, b[n])
      BY <1>2, <2>1, <2>2, <2>3 DEF TellsOf, ChannelKnown
    <3> QED BY <1>1, <1>2, <1>7, <3>1, WriteClosesWith
  <2>4. ASSUME Self \in members'[c], ~Leaving(c)'
        PROVE  \E w : \E j \in 0..Len(inbox') : Listed(d, c, j, w)'
    <3>1. /\ Self \in members[c]
          /\ ~Leaving(c)
          /\ ~IsLeave(line, c, b[n])
          /\ ~IsJoin(line, c, b[n])
          /\ \A s : Matches(s, c) => Matches(View(s, line, c), c)'
      BY <2>1, <2>2, <2>4 DEF TellsOf
    <3>2. PICK v : \E k \in 0..Len(inbox) : Listed(b, c, k, v)
      BY <2>1, <3>1 DEF ChannelKnown
    <3> QED BY <1>1, <1>2, <1>7, <3>1, <3>2, WriteLists
  <2> QED BY <2>3, <2>4 DEF ChannelKnown
<1> QED BY <1>8, <1>9 DEF Knows

LEMMA WriteJoining ==
  ASSUME inbox \in Seq(Lines), JoiningOK, UNCHANGED bIsJoining,
         NEW line \in Lines, inbox' = Append(inbox, line), TellsNick(line)
  PROVE  JoiningOK'
<1> SUFFICES ASSUME bIsJoining
             PROVE  /\ Registered(Self)' => Greeted(Len(inbox) + 1)'
                    /\ \A i \in 1..Len(inbox') : EarlyLine(i)' \/ Greeted(i)'
  BY DEF JoiningOK
<1>1. PICK n \in Nat : n = Len(inbox)
  BY LenProperties
<1>2. /\ Len(inbox') = n + 1
      /\ \A i \in 1..n : inbox'[i] = inbox[i]
      /\ inbox'[n + 1] = line
  BY <1>1, AppendIndex
<1>3. \A i \in 1..(n + 1) : Greeted(i) => Greeted(i)' /\ Greeted(i + 1)'
  BY <1>2 DEF Greeted
<1>4. Registered(Self) => Greeted(n + 1)
  BY <1>1 DEF JoiningOK
<1>5. ASSUME Registered(Self)'
      PROVE  Greeted(Len(inbox) + 1)'
  <2>1. CASE Registered(Self)
    <3>1. Greeted((n + 1) + 1)'
      BY <1>3, <1>4, <2>1
    <3> QED BY <1>2, <3>1
  <2>2. CASE ~Registered(Self)
    <3>1. inbox'[n + 1].type = "hello" /\ n + 1 \in 1..(((n + 1) + 1) - 1)
      BY <1>2, <1>5, <2>2 DEF TellsNick
    <3>2. Greeted((n + 1) + 1)'
      BY <3>1 DEF Greeted
    <3> QED BY <1>2, <3>2
  <2> QED BY <2>1, <2>2
<1>6. ASSUME NEW i \in 1..Len(inbox')
      PROVE  EarlyLine(i)' \/ Greeted(i)'
  <2>1. CASE i = n + 1
    <3>1. CASE Registered(Self)
      BY <1>3, <1>4, <2>1, <3>1
    <3>2. CASE ~Registered(Self)
      BY <1>2, <2>1, <3>2 DEF TellsNick, EarlyLine
    <3> QED BY <3>1, <3>2
  <2>2. CASE i # n + 1
    <3>1. i \in 1..n
      BY <1>2, <2>2
    <3>2. EarlyLine(i) \/ Greeted(i)
      BY <1>1, <3>1 DEF JoiningOK
    <3> QED BY <1>2, <1>3, <3>1, <3>2 DEF EarlyLine
  <2> QED BY <2>1, <2>2
<1> QED BY <1>5, <1>6

LEMMA WriteInv ==
  ASSUME KnowsInv, IRCInv', connection = "connected", UNCHANGED connection,
         UNCHANGED <<bIsJoining, myNickname, windowVars>>,
         NEW line \in Lines, inbox' = Append(inbox, line), TellsNick(line),
         \A c \in ChatChannels : TellsOf(c, line)
  PROVE  KnowsInv'
<1>1. JoiningOK'
  BY WriteJoining DEF KnowsInv, IRCInv, NetInv, NetTypeOK
<1>2. PICK b : Knows(b)
  BY DEF KnowsInv
<1>3. \E d : Knows(d)'
  BY <1>2, WriteKnows DEF KnowsInv
<1>4. BeforeConnected'
  BY DEF BeforeConnected
<1>5. NoWindowNoUsers'
  BY SameUsers DEF KnowsInv
<1> QED BY <1>1, <1>3, <1>4, <1>5 DEF KnowsInv

(* Nothing is written, as the client does not see what happens.            *)
SilentOn(c) ==
  /\ Self \notin members'[c] => Self \notin members[c]
  /\ Self \in members'[c] =>
       /\ Self \in members[c]
       /\ Leaving(c) => Leaving(c)'
       /\ \A s : Matches(s, c) => Matches(s, c)'

LEMMA SilentInv ==
  ASSUME KnowsInv, IRCInv', connection = "connected", UNCHANGED connection,
         UNCHANGED <<bIsJoining, myNickname, windowVars>>,
         UNCHANGED inbox, nickOf'[Self] = nickOf[Self],
         \A c \in ChatChannels : SilentOn(c)
  PROVE  KnowsInv'
<1>1. JoiningOK'
  BY DEF KnowsInv, JoiningOK, Registered, EarlyLine, Greeted
<1>2. BeforeConnected' /\ NoWindowNoUsers'
  BY SameUsers DEF BeforeConnected, KnowsInv
<1>3. PICK b : Knows(b)
  BY DEF KnowsInv
<1>4. NickFollows(b)'
  BY <1>3 DEF Knows, NickFollows, Follows, Registered
<1>5. ASSUME NEW c \in ChatChannels
      PROVE  ChannelKnown(b, c)'
  <2>1. ChannelKnown(b, c) /\ SilentOn(c)
    BY <1>3 DEF Knows
  <2>2. hasRecipient(c)' <=> hasRecipient(c)
    BY DEF windowVars, hasRecipient
  <2>3. ASSUME Self \notin members'[c]
        PROVE  ClosedAfter(b, c, Len(inbox))'
    <3>1. ClosedAfter(b, c, Len(inbox))
      BY <2>1, <2>3 DEF SilentOn, ChannelKnown
    <3> QED BY <2>2, <3>1 DEF ClosedAfter
  <2>4. ASSUME Self \in members'[c], ~Leaving(c)'
        PROVE  \E v : \E k \in 0..Len(inbox') : Listed(b, c, k, v)'
    <3>1. PICK v : \E k \in 0..Len(inbox) : Listed(b, c, k, v)
      BY <2>1, <2>4 DEF SilentOn, ChannelKnown
    <3>2. PICK k \in 0..Len(inbox) : Listed(b, c, k, v)
      BY <3>1
    <3>3. Matches(v[Len(inbox)], c)'
      <4>1. PICK last : last = v[Len(inbox)]
        OBVIOUS
      <4>2. Matches(last, c)
        BY <3>2, <4>1 DEF Listed
      <4>3. Matches(last, c)'
        BY <2>1, <2>4, <4>2 DEF SilentOn
      <4> QED BY <4>1, <4>3
    <3>4. k > 0 => ClosedAfter(b, c, k - 1)'
      BY <2>2, <3>2, StaysClosed DEF Listed
    <3>5. k = 0 => hasRecipient(c)' /\ v[0] = Shown(c)'
      BY <2>2, <3>2 DEF Listed, Shown, windowVars
    <3>6. Listed(b, c, k, v)'
      BY <3>2, <3>3, <3>4, <3>5 DEF Listed
    <3> QED BY <3>2, <3>6
  <2> QED BY <2>3, <2>4 DEF ChannelKnown
<1>6. Knows(b)'
  BY <1>4, <1>5 DEF Knows
<1> QED BY <1>1, <1>2, <1>6 DEF KnowsInv

-----------------------------------------------------------------------------
(* The server serves, and the others act                                   *)

LEMMA ServesLeaving ==
  ASSUME outbox \in Seq(Commands), NEW type, Serves(type), NEW c, Leaving(c),
         ~(Head(outbox).type = "part" /\ Head(outbox).channel = c)
  PROVE  Leaving(c)'
<1>1. outbox # <<>> /\ outbox' = Tail(outbox)
  BY DEF Serves
<1>2. /\ Len(outbox) \in Nat \ {0}
      /\ Len(outbox') = Len(outbox) - 1
      /\ \A i \in 1..(Len(outbox) - 1) : outbox'[i] = outbox[i + 1]
      /\ Head(outbox) = outbox[1]
  BY <1>1, HeadTailProperties, EmptySeq
<1>3. PICK i \in 1..Len(outbox) : outbox[i].type = "part" /\ outbox[i].channel = c
  BY DEF Leaving
<1>4. i # 1
  BY <1>2, <1>3
<1>5. i - 1 \in 1..Len(outbox') /\ (i - 1) + 1 = i /\ i - 1 \in 1..(Len(outbox) - 1)
  BY <1>2, <1>4
<1>6. outbox'[i - 1] = outbox[i]
  BY <1>2, <1>5
<1> QED BY <1>3, <1>5, <1>6 DEF Leaving

LEMMA SameLeaving ==
  ASSUME UNCHANGED outbox, NEW c, Leaving(c)
  PROVE  Leaving(c)'
BY DEF Leaving

(* A line that says nothing about channel c, where nothing happens.        *)
LEMMA SameMatches ==
  ASSUME NetInv, NEW c \in ChatChannels, members'[c] = members[c],
         operators'[c] = operators[c],
         \A p \in members[c] : nickOf'[p] = nickOf[p],
         NEW s, Matches(s, c)
  PROVE  Matches(s, c)'
<1>1. NicksOf(members[c])' = NicksOf(members[c])
  BY DEF NicksOf
<1>2. NicksOf(operators[c])' = NicksOf(operators[c])
  BY DEF NicksOf, NetInv, NetOK
<1> QED BY <1>1, <1>2 DEF Matches

LEMMA ElsewhereMatches ==
  ASSUME NetInv, NEW c \in ChatChannels, members'[c] = members[c],
         operators'[c] = operators[c],
         \A p \in members[c] : nickOf'[p] = nickOf[p],
         NEW line, ~About(line, c),
         NEW s, Matches(s, c)
  PROVE  Matches(View(s, line, c), c)'
<1>1. View(s, line, c) = s
  BY DEF View
<1> QED BY <1>1, SameMatches

(* Nicknames are unique, so that a nickname stands for a person.           *)
LEMMA NickIsOnes ==
  ASSUME NetInv, NEW c \in ChatChannels, NEW p \in People, Registered(p),
         NEW ps \in SUBSET members[c]
  PROVE  /\ nickOf[p] \in NicksOf(ps) <=> p \in ps
         /\ NicksOf(ps \ {p}) = NicksOf(ps) \ {nickOf[p]}
<1>1. \A q \in ps : q \in People /\ (nickOf[q] = nickOf[p] => q = p)
  BY DEF NetInv, NetTypeOK, NetOK
<1> QED BY <1>1 DEF NicksOf

LEMMA LeavesMatches ==
  ASSUME NetInv, NEW c \in ChatChannels, NEW p \in People, Registered(p),
         NEW cs, c \in cs, Leaves(p, cs),
         \A q \in People \ {p} : nickOf'[q] = nickOf[q],
         NEW line, line.type \in {"part", "kick", "quit"}, About(line, c),
         line.nick = nickOf[p],
         NEW s, Matches(s, c)
  PROVE  Matches(View(s, line, c), c)'
<1>1. members'[c] = members[c] \ {p} /\ operators'[c] = operators[c] \ {p}
  BY DEF Leaves
<1>2. members[c] \subseteq People /\ operators[c] \subseteq members[c]
  BY DEF NetInv, NetTypeOK, NetOK
<1>3. NicksOf(members[c])' = NicksOf(members[c] \ {p})
  BY <1>1, <1>2 DEF NicksOf
<1>4. NicksOf(operators[c])' = NicksOf(operators[c] \ {p})
  BY <1>1, <1>2 DEF NicksOf
<1>5. /\ NicksOf(members[c] \ {p}) = NicksOf(members[c]) \ {nickOf[p]}
      /\ NicksOf(operators[c] \ {p}) = NicksOf(operators[c]) \ {nickOf[p]}
  BY <1>2, NickIsOnes
<1>6. /\ UsersAfter(s.users, line) = s.users \ {nickOf[p]}
      /\ OpsAfter(s.users, s.ops, line) = s.ops \ {nickOf[p]}
      /\ Misread(s.users, line) = {}
  BY DEF UsersAfter, OpsAfter, Misread
<1>7. View(s, line, c).users = s.users \ {nickOf[p]}
  BY <1>6 DEF View
<1>8. View(s, line, c).ops = s.ops \ {nickOf[p]}
  BY <1>6 DEF View
<1>9. View(s, line, c).wrong = s.wrong
  BY <1>6 DEF View
<1> QED BY <1>3, <1>4, <1>5, <1>7, <1>8, <1>9 DEF Matches

LEMMA RenameMatches ==
  ASSUME NetInv, NEW c \in ChatChannels, NEW p \in People, Registered(p),
         NEW n \in Nicks, IsFree(n), nickOf' = [nickOf EXCEPT ![p] = n],
         UNCHANGED <<members, operators>>,
         NEW line, line.type = "rename", line.old = nickOf[p], line.new = n,
         NEW s, Matches(s, c)
  PROVE  Matches(View(s, line, c), c)'
<1>1. members[c] \subseteq People /\ operators[c] \subseteq members[c]
  BY DEF NetInv, NetTypeOK, NetOK
<1>2. \A q \in People : nickOf'[q] = IF q = p THEN n ELSE nickOf[q]
  BY DEF NetInv, NetTypeOK
<1>3. ASSUME NEW ps \in SUBSET members[c]
      PROVE  /\ {nickOf'[q] : q \in ps} = changeNick(NicksOf(ps), nickOf[p], n)
             /\ nickOf[p] \in NicksOf(ps) <=> p \in ps
             /\ n \notin NicksOf(ps)
  <2>1. nickOf[p] \in NicksOf(ps) <=> p \in ps
    BY NickIsOnes
  <2>2. n \notin NicksOf(ps)
    BY <1>1 DEF IsFree, NicksOf
  <2>3. CASE p \in ps
    <3>1. {nickOf'[q] : q \in ps} = NicksOf(ps \ {p}) \cup {n}
      BY <1>1, <1>2, <2>3 DEF NicksOf
    <3>2. NicksOf(ps \ {p}) = NicksOf(ps) \ {nickOf[p]}
      BY NickIsOnes
    <3> QED BY <2>1, <2>2, <2>3, <3>1, <3>2 DEF changeNick
  <2>4. CASE p \notin ps
    <3>1. {nickOf'[q] : q \in ps} = NicksOf(ps)
      BY <1>1, <1>2, <2>4 DEF NicksOf
    <3> QED BY <2>1, <2>2, <2>4, <3>1 DEF changeNick
  <2> QED BY <2>3, <2>4
<1>4. NicksOf(members[c])' = changeNick(NicksOf(members[c]), nickOf[p], n)
  BY <1>3 DEF NicksOf
<1>5. NicksOf(operators[c])' = changeNick(NicksOf(operators[c]), nickOf[p], n)
  BY <1>1, <1>3 DEF NicksOf
<1>6. /\ UsersAfter(s.users, line) = changeNick(s.users, nickOf[p], n)
      /\ Misread(s.users, line) = {}
      /\ About(line, c)
  BY DEF UsersAfter, Misread, About
<1>7. s.wrong = {} => OpsAfter(s.users, s.ops, line) = changeNick(s.ops, nickOf[p], n)
  <2> SUFFICES ASSUME s.wrong = {}
               PROVE  OpsAfter(s.users, s.ops, line) = changeNick(s.ops, nickOf[p], n)
    OBVIOUS
  <2>1. s.users = NicksOf(members[c]) /\ s.ops = NicksOf(operators[c])
    BY DEF Matches
  <2>2. n \notin s.ops /\ s.ops \ {n} = s.ops
    BY <1>1, <1>3, <2>1
  <2>3. CASE nickOf[p] \in s.users
    BY <2>2, <2>3 DEF OpsAfter
  <2>4. CASE nickOf[p] \notin s.users
    <3>1. nickOf[p] \notin s.ops
      BY <1>1, <1>3, <2>1, <2>4
    <3>2. OpsAfter(s.users, s.ops, line) = s.ops
      BY <2>4 DEF OpsAfter
    <3> QED BY <3>1, <3>2 DEF changeNick
  <2> QED BY <2>3, <2>4
<1>8. View(s, line, c).users = changeNick(s.users, nickOf[p], n)
  BY <1>6 DEF View
<1>9. View(s, line, c).ops = OpsAfter(s.users, s.ops, line)
  BY <1>6 DEF View
<1>10. View(s, line, c).wrong = s.wrong
  BY <1>6 DEF View
<1> QED BY <1>4, <1>5, <1>7, <1>8, <1>9, <1>10 DEF Matches

LEMMA JoinsMatches ==
  ASSUME NetInv, NEW c \in ChatChannels, members[c] # {},
         NEW p \in People, Registered(p), p \notin members[c],
         UNCHANGED nickOf, members'[c] = members[c] \cup {p},
         operators'[c] = operators[c],
         NEW line, line.type = "join", line.channel = c, line.nick = nickOf[p],
         NEW s, Matches(s, c)
  PROVE  Matches(View(s, line, c), c)'
<1>1. NicksOf(members[c])' = NicksOf(members[c]) \cup {nickOf[p]}
  BY DEF NicksOf
<1>2. NicksOf(operators[c])' = NicksOf(operators[c])
  BY DEF NicksOf
<1>3. nickOf[p] \notin NicksOf(operators[c])
  <2>1. operators[c] \in SUBSET members[c]
    BY DEF NetInv, NetOK
  <2> QED BY <2>1, NickIsOnes
<1>4. /\ UsersAfter(s.users, line) = s.users \cup {nickOf[p]}
      /\ OpsAfter(s.users, s.ops, line) = s.ops \ {nickOf[p]}
      /\ Misread(s.users, line) = {}
      /\ About(line, c)
  BY DEF UsersAfter, OpsAfter, Misread, About
<1>5. View(s, line, c).users = s.users \cup {nickOf[p]}
  BY <1>4 DEF View
<1>6. View(s, line, c).ops = s.ops \ {nickOf[p]}
  BY <1>4 DEF View
<1>7. View(s, line, c).wrong = s.wrong
  BY <1>4 DEF View
<1> QED BY <1>1, <1>2, <1>3, <1>5, <1>6, <1>7 DEF Matches

LEMMA OperatorMatches ==
  ASSUME NetInv, NEW c \in ChatChannels, NEW p \in members[c],
         NEW op \in BOOLEAN, NEW alone \in BOOLEAN,
         UNCHANGED <<nickOf, members>>,
         operators'[c] = IF op THEN operators[c] \cup {p} ELSE operators[c] \ {p},
         NEW line, line.type = "mode", line.channel = c, line.nick = nickOf[p],
         line.op = op, line.alone = alone,
         NEW s, Matches(s, c)
  PROVE  Matches(View(s, line, c), c)'
<1>1. NicksOf(members[c])' = NicksOf(members[c])
  BY DEF NicksOf
<1>2. p \in People /\ Registered(p) /\ operators[c] \in SUBSET members[c]
  BY DEF NetInv, NetTypeOK, NetOK
<1>3. NicksOf(operators[c])' = IF op THEN NicksOf(operators[c]) \cup {nickOf[p]}
                               ELSE NicksOf(operators[c]) \ {nickOf[p]}
  <2>1. CASE op
    BY <2>1 DEF NicksOf
  <2>2. CASE ~op
    <3>1. NicksOf(operators[c])' = NicksOf(operators[c] \ {p})
      BY <2>2 DEF NicksOf
    <3>2. NicksOf(operators[c] \ {p}) = NicksOf(operators[c]) \ {nickOf[p]}
      BY <1>2, NickIsOnes
    <3> QED BY <2>2, <3>1, <3>2
  <2> QED BY <2>1, <2>2
<1>4. nickOf[p] \in s.users
  BY DEF Matches, NicksOf
<1>5. View(s, line, c).users = s.users
  BY DEF View, About, UsersAfter
<1>6. View(s, line, c).wrong = s.wrong \cup Misread(s.users, line)
  BY DEF View, About
<1>7. View(s, line, c).ops = OpsAfter(s.users, s.ops, line)
  BY DEF View, About
<1>8. CASE alone
  <2>1. OpsAfter(s.users, s.ops, line) =
          IF op THEN s.ops \cup {nickOf[p]} ELSE s.ops \ {nickOf[p]}
    BY <1>4, <1>8 DEF OpsAfter
  <2>2. Misread(s.users, line) = {}
    BY <1>8 DEF Misread
  <2> QED BY <1>1, <1>3, <1>5, <1>6, <1>7, <2>1, <2>2 DEF Matches
<1>9. CASE ~alone
  <2>1. Misread(s.users, line) = {c}
    BY <1>4, <1>9 DEF Misread
  <2> QED BY <1>1, <1>5, <1>6, <2>1 DEF Matches
<1> QED BY <1>8, <1>9

(* A line that is not about channel c, where nothing changes.              *)
LEMMA ElsewhereTells ==
  ASSUME NetInv, NEW c \in ChatChannels, members'[c] = members[c],
         operators'[c] = operators[c],
         \A p \in members[c] : nickOf'[p] = nickOf[p],
         Leaving(c) => Leaving(c)',
         NEW line, ~About(line, c),
         Self \in members[c] \/ line.type # "message" \/ line.recipient # c
  PROVE  TellsOf(c, line)
<1>1. \A s : Matches(s, c) => Matches(View(s, line, c), c)'
  BY ElsewhereMatches
<1>2. ASSUME NEW n
      PROVE  /\ ~IsLeave(line, c, n)
             /\ ~IsJoin(line, c, n)
             /\ Opens(line, c, n) => line.type = "message" /\ line.recipient = c
  BY DEF IsLeave, IsJoin, Opens, About
<1> QED BY <1>1, <1>2 DEF TellsOf

LEMMA ElsewhereSilent ==
  ASSUME NetInv, NEW c \in ChatChannels, members'[c] = members[c],
         operators'[c] = operators[c],
         \A p \in members[c] : nickOf'[p] = nickOf[p],
         Leaving(c) => Leaving(c)'
  PROVE  SilentOn(c)
BY SameMatches DEF SilentOn

LEMMA HiddenSilent ==
  ASSUME NEW c, Self \notin members[c], Self \notin members'[c]
  PROVE  SilentOn(c)
BY DEF SilentOn

LEMMA KnownNet ==
  ASSUME KnowsInv
  PROVE  /\ NetInv
         /\ Self \in People
         /\ outbox \in Seq(Commands)
         /\ nickOf \in [People -> Nicks \cup {NoName}]
         /\ members \in [ChatChannels -> SUBSET People]
         /\ operators \in [ChatChannels -> SUBSET People]
         /\ \A c \in ChatChannels :
              /\ operators[c] \subseteq members[c]
              /\ \A p \in members[c] : Registered(p) /\ nickOf[p] \in Nicks
         /\ \A p, q \in People : p # q /\ nickOf[p] = nickOf[q] => ~Registered(p)
BY DEF KnowsInv, IRCInv, NetInv, NetTypeOK, NetOK, People, Registered

(* Somebody leaves channel c, by a part or a kick.                         *)
LEMMA LeavesTells ==
  ASSUME KnowsInv, NEW c \in ChatChannels, NEW p \in members[c],
         Self \in members[c], Leaves(p, {c}), UNCHANGED nickOf,
         NEW line, line.type \in {"part", "kick"}, line.channel = c,
         line.nick = nickOf[p],
         NEW e \in ChatChannels,
         Leaving(e) /\ (e # c \/ p # Self) => Leaving(e)'
  PROVE  TellsOf(e, line)
<1>1. p \in People /\ Registered(p)
  BY KnownNet
<1>2. CASE e # c
  <2>1. members'[e] = members[e] /\ operators'[e] = operators[e]
    BY <1>2 DEF Leaves
  <2>2. ~About(line, e) /\ line.type # "message"
    BY <1>2 DEF About
  <2> QED BY <1>2, <2>1, <2>2, KnownNet, ElsewhereTells
<1>3. CASE e = c /\ p = Self
  <2>1. Self \notin members'[c]
    BY <1>3 DEF Leaves
  <2> QED BY <1>3, <2>1 DEF TellsOf, IsLeave
<1>4. CASE e = c /\ p # Self
  <2>1. About(line, c)
    BY DEF About
  <2>2. \A s : Matches(s, c) => Matches(View(s, line, c), c)'
    BY <1>1, <2>1, KnownNet, LeavesMatches
  <2>3. nickOf[p] # nickOf[Self]
    BY <1>1, <1>4, KnownNet
  <2>4. Self \in members'[c]
    BY <1>4, KnownNet DEF Leaves
  <2> QED BY <1>4, <2>2, <2>3, <2>4 DEF TellsOf, IsLeave, IsJoin
<1> QED BY <1>2, <1>3, <1>4

LEMMA LeavesSilent ==
  ASSUME KnowsInv, NEW c \in ChatChannels, NEW p, Self \notin members[c],
         Leaves(p, {c}), UNCHANGED nickOf, NEW e \in ChatChannels,
         e # c /\ Leaving(e) => Leaving(e)'
  PROVE  SilentOn(e)
<1>1. CASE e = c
  <2>1. Self \notin members'[c]
    BY DEF Leaves
  <2> QED BY <1>1, <2>1, HiddenSilent
<1>2. CASE e # c
  <2>1. members'[e] = members[e] /\ operators'[e] = operators[e]
    BY <1>2 DEF Leaves
  <2> QED BY <1>2, <2>1, KnownNet, ElsewhereSilent
<1> QED BY <1>1, <1>2

(* Another person's line does not name the client's nickname.              *)
LEMMA LineTellsNick ==
  ASSUME Registered(Self), nickOf'[Self] = nickOf[Self],
         NEW line, line.type # "hello",
         line.type = "rename" => line.old # nickOf[Self]
  PROVE  TellsNick(line)
BY DEF TellsNick, NickAfter

LEMMA ServesNickInv ==
  ASSUME KnowsInv, IRCInv', UNCHANGED <<bIsJoining, myNickname, windowVars>>,
         ServesNick
  PROVE  KnowsInv'
<1>1. PICK n \in Nicks : n = Head(outbox).nick
  BY KnownNet, ServesTyped DEF ServesNick, Serves, Commands
<1>2. /\ connection = "connected" /\ UNCHANGED connection
      /\ UNCHANGED <<members, operators>>
      /\ Head(outbox).type # "part"
  BY DEF ServesNick, Serves
<1>3. \A c : Leaving(c) => Leaving(c)'
  BY <1>2, KnownNet, ServesLeaving DEF ServesNick
<1>4. CASE IsFree(n) /\ Registered(Self)
  <2>1. PICK line : line = [type |-> "rename", old |-> nickOf[Self], new |-> n]
    OBVIOUS
  <2>2. nickOf' = [nickOf EXCEPT ![Self] = n] /\ inbox' = Append(inbox, line)
    BY <1>1, <1>4, <2>1 DEF ServesNick
  <2>3. line \in Lines /\ line.type = "rename" /\ line.old = nickOf[Self] /\ line.new = n
    BY <1>4, <2>1, KnownNet DEF Lines, Registered
  <2>4. TellsNick(line)
    BY <1>4, <2>2, <2>3, KnownNet DEF TellsNick, NickAfter
  <2>5. ASSUME NEW c \in ChatChannels
        PROVE  TellsOf(c, line)
    <3>1. \A s : Matches(s, c) => Matches(View(s, line, c), c)'
      BY <1>2, <1>4, <2>2, <2>3, KnownNet, RenameMatches
    <3> QED BY <1>2, <1>3, <2>3, <3>1 DEF TellsOf, IsLeave, IsJoin, Opens
  <2> QED BY <1>2, <2>2, <2>3, <2>4, <2>5, WriteInv
<1>5. CASE IsFree(n) /\ ~Registered(Self)
  <2>1. PICK line : line = [type |-> "hello", nick |-> n]
    OBVIOUS
  <2>2. nickOf' = [nickOf EXCEPT ![Self] = n] /\ inbox' = Append(inbox, line)
    BY <1>1, <1>5, <2>1 DEF ServesNick
  <2>3. line \in Lines /\ line.type = "hello" /\ line.nick = n
    BY <2>1 DEF Lines
  <2>4. TellsNick(line)
    BY <1>5, <2>2, <2>3, KnownNet DEF TellsNick
  <2>5. ASSUME NEW c \in ChatChannels
        PROVE  TellsOf(c, line)
    <3>1. Self \notin members[c] /\ Self \notin members'[c]
      BY <1>2, <1>5, KnownNet
    <3> QED BY <2>3, <3>1 DEF TellsOf, IsJoin, Opens
  <2> QED BY <1>2, <2>2, <2>3, <2>4, <2>5, WriteInv
<1>6. CASE ~IsFree(n) /\ n = nickOf[Self]
  <2>1. UNCHANGED <<inbox, nickOf>>
    BY <1>1, <1>6 DEF ServesNick
  <2>2. \A c \in ChatChannels : SilentOn(c)
    BY <1>2, <1>3, <2>1, KnownNet, ElsewhereSilent
  <2> QED BY <1>2, <2>1, <2>2, SilentInv
<1>7. CASE ~IsFree(n) /\ n # nickOf[Self]
  <2>1. PICK line : line = [type |-> "inUse", nick |-> n]
    OBVIOUS
  <2>2. UNCHANGED nickOf /\ inbox' = Append(inbox, line)
    BY <1>1, <1>7, <2>1 DEF ServesNick
  <2>3. line \in Lines /\ line.type = "inUse"
    BY <2>1 DEF Lines
  <2>4. TellsNick(line)
    BY <2>2, <2>3 DEF TellsNick, NickAfter, Registered
  <2>5. ASSUME NEW c \in ChatChannels
        PROVE  TellsOf(c, line)
    <3>1. ~About(line, c)
      BY <2>3 DEF About
    <3> QED BY <1>2, <1>3, <2>2, <2>3, <3>1, KnownNet, ElsewhereTells
  <2> QED BY <1>2, <2>2, <2>3, <2>4, <2>5, WriteInv
<1> QED BY <1>4, <1>5, <1>6, <1>7

LEMMA RefusesJoinInv ==
  ASSUME KnowsInv, IRCInv', UNCHANGED <<bIsJoining, myNickname, windowVars>>,
         RefusesJoin
  PROVE  KnowsInv'
<1>1. /\ connection = "connected" /\ UNCHANGED connection
      /\ UNCHANGED <<inbox, nickOf, members, operators>>
      /\ Head(outbox).type # "part"
  BY DEF RefusesJoin, Serves
<1>2. \A c : Leaving(c) => Leaving(c)'
  BY <1>1, KnownNet, ServesLeaving DEF RefusesJoin
<1>3. \A c \in ChatChannels : SilentOn(c)
  BY <1>1, <1>2, KnownNet, ElsewhereSilent
<1> QED BY <1>1, <1>3, SilentInv

LEMMA ServesPartInv ==
  ASSUME KnowsInv, IRCInv', UNCHANGED <<bIsJoining, myNickname, windowVars>>,
         ServesPart
  PROVE  KnowsInv'
<1>1. PICK c \in ChatChannels : c = Head(outbox).channel
  BY KnownNet, ServesTyped DEF ServesPart, Serves, Commands
<1>2. /\ connection = "connected" /\ UNCHANGED connection
      /\ UNCHANGED nickOf
      /\ Leaves(Self, {c})
      /\ Head(outbox).channel = c
  BY <1>1 DEF ServesPart, Serves
<1>3. \A e : e # c /\ Leaving(e) => Leaving(e)'
  BY <1>2, KnownNet, ServesLeaving DEF ServesPart
<1>4. CASE Self \in members[c]
  <2>1. PICK line : line = [type |-> "part", channel |-> c, nick |-> nickOf[Self]]
    OBVIOUS
  <2>2. inbox' = Append(inbox, line)
    BY <1>1, <1>4, <2>1 DEF ServesPart, TellsChannel
  <2>3. /\ line \in Lines
        /\ line.type = "part" /\ line.channel = c /\ line.nick = nickOf[Self]
    BY <1>4, <2>1, KnownNet DEF Lines
  <2>4. TellsNick(line)
    BY <1>2, <1>4, <2>3, KnownNet, LineTellsNick
  <2>5. \A e \in ChatChannels : TellsOf(e, line)
    BY <1>2, <1>3, <1>4, <2>3, LeavesTells
  <2> QED BY <1>2, <2>2, <2>3, <2>4, <2>5, WriteInv
<1>5. CASE Self \notin members[c]
  <2>1. UNCHANGED inbox
    BY <1>1, <1>5 DEF ServesPart, TellsChannel
  <2>2. \A e \in ChatChannels : SilentOn(e)
    BY <1>2, <1>3, <1>5, LeavesSilent
  <2> QED BY <1>2, <2>1, <2>2, SilentInv
<1> QED BY <1>4, <1>5

LEMMA ServesWhoisInv ==
  ASSUME KnowsInv, IRCInv', UNCHANGED <<bIsJoining, myNickname, windowVars>>,
         ServesWhois
  PROVE  KnowsInv'
<1>1. PICK n \in Nicks : n = Head(outbox).nick
  BY KnownNet, ServesTyped DEF ServesWhois, Serves, Commands
<1>2. /\ connection = "connected" /\ UNCHANGED connection
      /\ UNCHANGED <<nickOf, members, operators>>
      /\ Head(outbox).type # "part"
  BY DEF ServesWhois, Serves
<1>3. \A c : Leaving(c) => Leaving(c)'
  BY <1>2, KnownNet, ServesLeaving DEF ServesWhois
<1>4. ASSUME NEW p \in People,
             inbox' = Append(inbox, [type |-> "whois", nick |-> n, host |-> p])
      PROVE  KnowsInv'
  <2>1. PICK line : line = [type |-> "whois", nick |-> n, host |-> p]
    OBVIOUS
  <2>2. line \in Lines /\ line.type = "whois"
    BY <2>1 DEF Lines
  <2>3. TellsNick(line)
    BY <1>2, <2>2 DEF TellsNick, NickAfter, Registered
  <2>4. ASSUME NEW c \in ChatChannels
        PROVE  TellsOf(c, line)
    <3>1. ~About(line, c)
      BY <2>2 DEF About
    <3> QED BY <1>2, <1>3, <2>2, <3>1, KnownNet, ElsewhereTells
  <2> QED BY <1>2, <1>4, <2>1, <2>2, <2>3, <2>4, WriteInv
<1>5. CASE UNCHANGED inbox
  <2>1. \A c \in ChatChannels : SilentOn(c)
    BY <1>2, <1>3, KnownNet, ElsewhereSilent
  <2> QED BY <1>2, <1>5, <2>1, SilentInv
<1> QED BY <1>1, <1>4, <1>5 DEF ServesWhois

LEMMA ServesBanInv ==
  ASSUME KnowsInv, IRCInv', UNCHANGED <<bIsJoining, myNickname, windowVars>>,
         ServesBan
  PROVE  KnowsInv'
<1>1. PICK c \in ChatChannels : c = Head(outbox).channel
  BY KnownNet, ServesTyped DEF ServesBan, Serves, Commands
<1>2. /\ connection = "connected" /\ UNCHANGED connection
      /\ UNCHANGED nickOf
      /\ Head(outbox).type # "part"
  BY DEF ServesBan, Serves
<1>3. \A e : Leaving(e) => Leaving(e)'
  BY <1>2, KnownNet, ServesLeaving DEF ServesBan
<1>4. ASSUME NEW p \in members[c], Self \in operators[c],
             nickOf[p] = Head(outbox).nick, Leaves(p, {c}),
             TellsChannel(c, [type |-> "kick", channel |-> c, nick |-> Head(outbox).nick])
      PROVE  KnowsInv'
  <2>1. PICK line : line = [type |-> "kick", channel |-> c, nick |-> nickOf[p]]
    OBVIOUS
  <2>2. Self \in members[c] /\ Registered(Self)
    BY <1>4, KnownNet
  <2>3. inbox' = Append(inbox, line)
    BY <1>4, <2>1, <2>2 DEF TellsChannel
  <2>4. /\ line \in Lines
        /\ line.type = "kick" /\ line.channel = c /\ line.nick = nickOf[p]
    BY <2>1, KnownNet DEF Lines
  <2>5. TellsNick(line)
    BY <1>2, <2>2, <2>4, LineTellsNick
  <2>6. \A e \in ChatChannels : TellsOf(e, line)
    BY <1>2, <1>3, <1>4, <2>2, <2>4, LeavesTells
  <2> QED BY <1>2, <2>3, <2>4, <2>5, <2>6, WriteInv
<1>5. CASE UNCHANGED <<inbox, members, operators>>
  <2>1. \A e \in ChatChannels : SilentOn(e)
    BY <1>2, <1>3, <1>5, KnownNet, ElsewhereSilent
  <2> QED BY <1>2, <1>5, <2>1, SilentInv
<1> QED BY <1>1, <1>4, <1>5 DEF ServesBan

(* What the others do keeps the commands waiting.                          *)
LEMMA HappensFacts ==
  ASSUME Happens
  PROVE  /\ connection = "connected" /\ UNCHANGED connection
         /\ \A c : Leaving(c) => Leaving(c)'
BY SameLeaving DEF Happens

LEMMA OtherTakesNickInv ==
  ASSUME KnowsInv, IRCInv', UNCHANGED <<bIsJoining, myNickname, windowVars>>,
         NEW p \in Others, NEW n \in Nicks, OtherTakesNick(p, n)
  PROVE  KnowsInv'
<1>1. /\ connection = "connected" /\ UNCHANGED connection
      /\ \A c : Leaving(c) => Leaving(c)'
      /\ UNCHANGED <<members, operators>>
      /\ IsFree(n)
      /\ nickOf' = [nickOf EXCEPT ![p] = n]
      /\ p \in People /\ p # Self
  BY HappensFacts DEF OtherTakesNick, People
<1>2. nickOf'[Self] = nickOf[Self]
  BY <1>1, KnownNet
<1>3. CASE Registered(p) /\ On(p) \cap On(Self) # {}
  <2>1. PICK line : line = [type |-> "rename", old |-> nickOf[p], new |-> n]
    OBVIOUS
  <2>2. inbox' = Append(inbox, line)
    BY <1>1, <1>3, <2>1 DEF OtherTakesNick, Tells
  <2>3. /\ line \in Lines
        /\ line.type = "rename" /\ line.old = nickOf[p] /\ line.new = n
    BY <1>1, <1>3, <2>1, KnownNet DEF Lines, Registered
  <2>4. Registered(Self) /\ nickOf[p] # nickOf[Self]
    BY <1>1, <1>3, KnownNet DEF On
  <2>5. TellsNick(line)
    BY <1>2, <2>3, <2>4, LineTellsNick
  <2>6. ASSUME NEW c \in ChatChannels
        PROVE  TellsOf(c, line)
    <3>1. \A s : Matches(s, c) => Matches(View(s, line, c), c)'
      BY <1>1, <1>3, <2>3, KnownNet, RenameMatches
    <3> QED BY <1>1, <2>3, <3>1 DEF TellsOf, IsLeave, IsJoin, Opens
  <2> QED BY <1>1, <2>2, <2>3, <2>5, <2>6, WriteInv
<1>4. CASE ~Registered(p) \/ On(p) \cap On(Self) = {}
  <2>1. UNCHANGED inbox
    BY <1>1, <1>4 DEF OtherTakesNick, Tells
  <2>2. ASSUME NEW c \in ChatChannels
        PROVE  SilentOn(c)
    <3>1. CASE Self \notin members[c]
      BY <1>1, <3>1, HiddenSilent
    <3>2. CASE Self \in members[c]
      <4>1. p \notin members[c]
        BY <1>4, <3>2, KnownNet DEF On
      <4>2. \A q \in members[c] : nickOf'[q] = nickOf[q]
        BY <1>1, <4>1, KnownNet
      <4> QED BY <1>1, <4>2, KnownNet, ElsewhereSilent
    <3> QED BY <3>1, <3>2
  <2> QED BY <1>1, <1>2, <2>1, <2>2, SilentInv
<1> QED BY <1>3, <1>4

LEMMA OtherJoinsInv ==
  ASSUME KnowsInv, IRCInv', UNCHANGED <<bIsJoining, myNickname, windowVars>>,
         NEW p \in Others, NEW c \in ChatChannels, OtherJoins(p, c)
  PROVE  KnowsInv'
<1>1. /\ connection = "connected" /\ UNCHANGED connection
      /\ \A e : Leaving(e) => Leaving(e)'
      /\ Registered(p) /\ p \notin members[c]
      /\ members' = [members EXCEPT ![c] = @ \cup {p}]
      /\ operators' = IF members[c] = {}
                       THEN [operators EXCEPT ![c] = {p}] ELSE operators
      /\ UNCHANGED nickOf
      /\ p \in People /\ p # Self
  BY HappensFacts DEF OtherJoins, People
<1>2. \A e \in ChatChannels : e # c => members'[e] = members[e] /\ operators'[e] = operators[e]
  BY <1>1, KnownNet
<1>3. members'[c] = members[c] \cup {p}
  BY <1>1, KnownNet
<1>4. CASE Self \in members[c]
  <2>1. PICK line : line = [type |-> "join", channel |-> c, nick |-> nickOf[p]]
    OBVIOUS
  <2>2. inbox' = Append(inbox, line)
    BY <1>4, <2>1 DEF OtherJoins, TellsChannel
  <2>3. /\ line \in Lines
        /\ line.type = "join" /\ line.channel = c /\ line.nick = nickOf[p]
    BY <1>1, <2>1, KnownNet DEF Lines, Registered
  <2>4. Registered(Self) /\ nickOf[p] # nickOf[Self]
    BY <1>1, <1>4, KnownNet
  <2>5. TellsNick(line)
    BY <1>1, <2>3, <2>4, LineTellsNick
  <2>6. ASSUME NEW e \in ChatChannels
        PROVE  TellsOf(e, line)
    <3>1. CASE e = c
      <4>1. operators'[c] = operators[c]
        BY <1>1, <1>4
      <4>2. \A s : Matches(s, c) => Matches(View(s, line, c), c)'
        BY <1>1, <1>3, <1>4, <2>3, <4>1, KnownNet, JoinsMatches
      <4> QED BY <1>1, <1>3, <1>4, <2>3, <2>4, <3>1, <4>2 DEF TellsOf, IsLeave, IsJoin
    <3>2. CASE e # c
      <4>1. ~About(line, e)
        BY <2>3, <3>2 DEF About
      <4> QED BY <1>1, <1>2, <2>3, <3>2, <4>1, KnownNet, ElsewhereTells
    <3> QED BY <3>1, <3>2
  <2> QED BY <1>1, <2>2, <2>3, <2>5, <2>6, WriteInv
<1>5. CASE Self \notin members[c]
  <2>1. UNCHANGED inbox
    BY <1>5 DEF OtherJoins, TellsChannel
  <2>2. ASSUME NEW e \in ChatChannels
        PROVE  SilentOn(e)
    <3>1. CASE e = c
      BY <1>1, <1>3, <1>5, <3>1, HiddenSilent
    <3>2. CASE e # c
      BY <1>1, <1>2, <3>2, KnownNet, ElsewhereSilent
    <3> QED BY <3>1, <3>2
  <2> QED BY <1>1, <2>1, <2>2, SilentInv
<1> QED BY <1>4, <1>5

(* Another person parts, or is kicked.                                     *)
LEMMA OtherLeavesInv ==
  ASSUME KnowsInv, IRCInv', UNCHANGED <<bIsJoining, myNickname, windowVars>>,
         Happens, NEW c \in ChatChannels, NEW p \in members[c],
         NEW type \in {"part", "kick"},
         TellsChannel(c, [type |-> type, channel |-> c, nick |-> nickOf[p]]),
         Leaves(p, {c}), UNCHANGED nickOf
  PROVE  KnowsInv'
<1>1. /\ connection = "connected" /\ UNCHANGED connection
      /\ \A e : Leaving(e) => Leaving(e)'
  BY HappensFacts
<1>2. CASE Self \in members[c]
  <2>1. PICK line : line = [type |-> type, channel |-> c, nick |-> nickOf[p]]
    OBVIOUS
  <2>2. inbox' = Append(inbox, line)
    BY <1>2, <2>1 DEF TellsChannel
  <2>3. /\ line \in Lines
        /\ line.type \in {"part", "kick"} /\ line.channel = c /\ line.nick = nickOf[p]
    BY <2>1, KnownNet DEF Lines
  <2>4. Registered(Self) /\ line.type # "hello" /\ line.type # "rename"
    BY <1>2, <2>3, KnownNet
  <2>5. TellsNick(line)
    BY <2>4, LineTellsNick
  <2>6. \A e \in ChatChannels : TellsOf(e, line)
    BY <1>1, <1>2, <2>3, LeavesTells
  <2> QED BY <1>1, <2>2, <2>3, <2>5, <2>6, WriteInv
<1>3. CASE Self \notin members[c]
  <2>1. UNCHANGED inbox
    BY <1>3 DEF TellsChannel
  <2>2. \A e \in ChatChannels : SilentOn(e)
    BY <1>1, <1>3, LeavesSilent
  <2> QED BY <1>1, <2>1, <2>2, SilentInv
<1> QED BY <1>2, <1>3

LEMMA OtherQuitsInv ==
  ASSUME KnowsInv, IRCInv', UNCHANGED <<bIsJoining, myNickname, windowVars>>,
         NEW p \in Others, OtherQuits(p)
  PROVE  KnowsInv'
<1>1. /\ connection = "connected" /\ UNCHANGED connection
      /\ \A c : Leaving(c) => Leaving(c)'
      /\ Registered(p)
      /\ Leaves(p, ChatChannels)
      /\ nickOf' = [nickOf EXCEPT ![p] = NoName]
      /\ p \in People /\ p # Self
  BY HappensFacts DEF OtherQuits, People
<1>2. \A q \in People \ {p} : nickOf'[q] = nickOf[q]
  BY <1>1, KnownNet
<1>3. nickOf'[Self] = nickOf[Self]
  BY <1>1, <1>2, KnownNet
<1>4. \A c \in ChatChannels : /\ members'[c] = members[c] \ {p}
                              /\ operators'[c] = operators[c] \ {p}
  BY <1>1 DEF Leaves
<1>5. CASE On(p) \cap On(Self) # {}
  <2>1. PICK line : line = [type |-> "quit", nick |-> nickOf[p]]
    OBVIOUS
  <2>2. inbox' = Append(inbox, line)
    BY <1>5, <2>1 DEF OtherQuits, Tells
  <2>3. line \in Lines /\ line.type = "quit" /\ line.nick = nickOf[p]
    BY <1>1, <2>1, KnownNet DEF Lines, Registered
  <2>4. Registered(Self)
    BY <1>5, KnownNet DEF On
  <2>5. TellsNick(line)
    BY <1>3, <2>3, <2>4, LineTellsNick
  <2>6. ASSUME NEW c \in ChatChannels
        PROVE  TellsOf(c, line)
    <3>1. About(line, c)
      BY <2>3 DEF About
    <3>2. \A s : Matches(s, c) => Matches(View(s, line, c), c)'
      BY <1>1, <1>2, <2>3, <3>1, KnownNet, LeavesMatches
    <3> QED BY <1>1, <1>4, <2>3, <3>2 DEF TellsOf, IsLeave, IsJoin, Opens
  <2> QED BY <1>1, <2>2, <2>3, <2>5, <2>6, WriteInv
<1>6. CASE On(p) \cap On(Self) = {}
  <2>1. UNCHANGED inbox
    BY <1>1, <1>6 DEF OtherQuits, Tells
  <2>2. ASSUME NEW c \in ChatChannels
        PROVE  SilentOn(c)
    <3>1. CASE Self \notin members[c]
      BY <1>4, <3>1, HiddenSilent
    <3>2. CASE Self \in members[c]
      <4>1. p \notin members[c] /\ p \notin operators[c]
        BY <1>6, <3>2, KnownNet DEF On
      <4>2. members'[c] = members[c] /\ operators'[c] = operators[c]
        BY <1>4, <4>1
      <4>3. \A q \in members[c] : nickOf'[q] = nickOf[q]
        BY <1>2, <4>1, KnownNet
      <4> QED BY <1>1, <4>2, <4>3, KnownNet, ElsewhereSilent
    <3> QED BY <3>1, <3>2
  <2> QED BY <1>1, <1>3, <2>1, <2>2, SilentInv
<1> QED BY <1>5, <1>6

LEMMA OperatorChangesInv ==
  ASSUME KnowsInv, IRCInv', UNCHANGED <<bIsJoining, myNickname, windowVars>>,
         NEW p \in People, NEW c \in ChatChannels,
         NEW op \in BOOLEAN, NEW alone \in BOOLEAN,
         OperatorChanges(p, c, op, alone)
  PROVE  KnowsInv'
<1>1. /\ connection = "connected" /\ UNCHANGED connection
      /\ \A e : Leaving(e) => Leaving(e)'
      /\ p \in members[c]
      /\ UNCHANGED <<nickOf, members>>
  BY HappensFacts DEF OperatorChanges
<1>2. /\ \A e \in ChatChannels : e # c => operators'[e] = operators[e]
      /\ operators'[c] = IF op THEN operators[c] \cup {p} ELSE operators[c] \ {p}
  BY KnownNet DEF OperatorChanges
<1>3. CASE Self \in members[c]
  <2>1. PICK line : line = [type |-> "mode", channel |-> c, nick |-> nickOf[p],
                            op |-> op, alone |-> alone]
    OBVIOUS
  <2>2. inbox' = Append(inbox, line)
    BY <1>3, <2>1 DEF OperatorChanges, TellsChannel
  <2>3. /\ line \in Lines
        /\ line.type = "mode" /\ line.channel = c /\ line.nick = nickOf[p]
        /\ line.op = op /\ line.alone = alone
    BY <1>1, <2>1, KnownNet DEF Lines
  <2>4. Registered(Self)
    BY <1>3, KnownNet
  <2>5. TellsNick(line)
    BY <1>1, <2>3, <2>4, LineTellsNick
  <2>6. ASSUME NEW e \in ChatChannels
        PROVE  TellsOf(e, line)
    <3>1. CASE e = c
      <4>1. \A s : Matches(s, c) => Matches(View(s, line, c), c)'
        BY <1>1, <1>2, <2>3, KnownNet, OperatorMatches
      <4> QED BY <1>1, <1>3, <2>3, <3>1, <4>1 DEF TellsOf, IsLeave, IsJoin
    <3>2. CASE e # c
      <4>1. ~About(line, e)
        BY <2>3, <3>2 DEF About
      <4> QED BY <1>1, <1>2, <2>3, <3>2, <4>1, KnownNet, ElsewhereTells
    <3> QED BY <3>1, <3>2
  <2> QED BY <1>1, <2>2, <2>3, <2>5, <2>6, WriteInv
<1>4. CASE Self \notin members[c]
  <2>1. UNCHANGED inbox
    BY <1>4 DEF OperatorChanges, TellsChannel
  <2>2. ASSUME NEW e \in ChatChannels
        PROVE  SilentOn(e)
    <3>1. CASE e = c
      BY <1>1, <1>4, <3>1, HiddenSilent
    <3>2. CASE e # c
      BY <1>1, <1>2, <3>2, KnownNet, ElsewhereSilent
    <3> QED BY <3>1, <3>2
  <2> QED BY <1>1, <2>1, <2>2, SilentInv
<1> QED BY <1>3, <1>4

LEMMA OtherSpeaksInv ==
  ASSUME KnowsInv, IRCInv', UNCHANGED <<bIsJoining, myNickname, windowVars>>,
         NEW p \in Others, NEW c \in ChatChannels, OtherSpeaks(p, c)
  PROVE  KnowsInv'
<1>1. /\ connection = "connected" /\ UNCHANGED connection
      /\ \A e : Leaving(e) => Leaving(e)'
      /\ Registered(p) /\ Registered(Self)
      /\ UNCHANGED <<nickOf, members, operators>>
      /\ p \in People
  BY HappensFacts DEF OtherSpeaks, People
<1>2. PICK n \in Names : /\ inbox' = Append(inbox, [type |-> "message", recipient |-> n])
                         /\ n \in Nicks \/ (n = c /\ Self \in members[c])
  <2>1. nickOf[p] \in Nicks /\ nickOf[p] \in Names /\ c \in Names
    BY <1>1, KnownNet DEF Names, Registered
  <2>2. \/ inbox' = Append(inbox, [type |-> "message", recipient |-> nickOf[p]])
        \/ /\ Self \in members[c]
           /\ inbox' = Append(inbox, [type |-> "message", recipient |-> c])
    BY DEF OtherSpeaks
  <2>3. CASE inbox' = Append(inbox, [type |-> "message", recipient |-> nickOf[p]])
    BY <2>1, <2>3
  <2>4. CASE /\ Self \in members[c]
             /\ inbox' = Append(inbox, [type |-> "message", recipient |-> c])
    BY <2>1, <2>4
  <2> QED BY <2>2, <2>3, <2>4
<1>3. PICK line : line = [type |-> "message", recipient |-> n]
  OBVIOUS
<1>4. line \in Lines /\ line.type = "message" /\ line.recipient = n
  BY <1>3 DEF Lines
<1>5. TellsNick(line)
  BY <1>1, <1>4, LineTellsNick
<1>6. ASSUME NEW e \in ChatChannels
      PROVE  TellsOf(e, line)
  <2>1. ~About(line, e)
    BY <1>4 DEF About
  <2>2. Self \in members[e] \/ line.recipient # e
    BY <1>2, <1>4
  <2> QED BY <1>1, <2>1, <2>2, KnownNet, ElsewhereTells
<1> QED BY <1>1, <1>2, <1>3, <1>4, <1>5, <1>6, WriteInv

(* Two lines at once: the client is in the channel, and who else is.       *)
LEMMA TwoLinesIndex ==
  ASSUME inbox \in Seq(Lines), NEW n, n = Len(inbox),
         NEW line1 \in Lines, NEW line2 \in Lines,
         inbox' = inbox \o <<line1, line2>>
  PROVE  /\ n \in Nat
         /\ Len(inbox') = n + 2
         /\ \A i \in 1..n : inbox'[i] = inbox[i]
         /\ inbox'[n + 1] = line1
         /\ inbox'[n + 2] = line2
<1>1. <<line1, line2>> \in Seq(Lines) /\ Len(<<line1, line2>>) = 2
  OBVIOUS
<1>2. /\ Len(inbox') = Len(inbox) + 2
      /\ \A i \in 1..(Len(inbox) + 2) :
           inbox'[i] = IF i <= Len(inbox) THEN inbox[i] ELSE <<line1, line2>>[i - Len(inbox)]
  BY <1>1, ConcatProperties
<1>3. n \in Nat
  BY LenProperties
<1>4. inbox'[n + 1] = line1
  <2>1. (n + 1) - n = 1 /\ ~(n + 1 <= n) /\ n + 1 \in 1..(n + 2)
    BY <1>3
  <2> QED BY <1>2, <2>1
<1>5. inbox'[n + 2] = line2
  <2>1. (n + 2) - n = 2 /\ ~(n + 2 <= n) /\ n + 2 \in 1..(n + 2)
    BY <1>3
  <2> QED BY <1>2, <2>1
<1> QED BY <1>2, <1>3, <1>4, <1>5

LEMMA ServesJoinFacts ==
  ASSUME KnowsInv, ServesJoin, NEW n, n = Len(inbox)
  PROVE  \E c \in ChatChannels, join \in Lines, names \in Lines :
           /\ join.type = "join" /\ join.channel = c /\ join.nick = nickOf[Self]
           /\ names.type = "names" /\ names.channel = c
           /\ names.nicks = NicksOf(members[c])'
           /\ names.ops = NicksOf(operators[c])'
           /\ \A e \in ChatChannels \ {c} : members'[e] = members[e] /\ operators'[e] = operators[e]
           /\ Self \notin members[c] /\ Self \in members'[c]
           /\ n \in Nat
           /\ Len(inbox') = n + 2
           /\ \A i \in 1..n : inbox'[i] = inbox[i]
           /\ inbox'[n + 1] = join
           /\ inbox'[n + 2] = names
<1>1. PICK c \in ChatChannels : c = Head(outbox).channel
  BY KnownNet, ServesTyped DEF ServesJoin, Serves, Commands
<1>2. PICK mem : mem = members[c] \cup {Self}
  OBVIOUS
<1>3. PICK ops : ops = operators[c] \cup (IF members[c] = {} THEN {Self} ELSE {})
  OBVIOUS
<1>4. PICK join : join = [type |-> "join", channel |-> c, nick |-> nickOf[Self]]
  OBVIOUS
<1>5. PICK names : names = [type |-> "names", channel |-> c,
                            nicks |-> NicksOf(mem), ops |-> NicksOf(ops)]
  OBVIOUS
<1>6. /\ members' = [members EXCEPT ![c] = mem]
      /\ operators' = [operators EXCEPT ![c] = ops]
      /\ inbox' = inbox \o <<join, names>>
      /\ Registered(Self)
      /\ Self \notin members[c]
      /\ nickOf' = nickOf
  BY <1>1, <1>2, <1>3, <1>4, <1>5 DEF ServesJoin
<1>7. \A p \in mem : nickOf[p] \in Nicks
  BY <1>2, <1>6, KnownNet DEF Registered
<1>8. ops \subseteq mem
  BY <1>2, <1>3, KnownNet
<1>9. NicksOf(mem) \in SUBSET Nicks /\ NicksOf(ops) \in SUBSET Nicks
  BY <1>7, <1>8 DEF NicksOf
<1>10. join \in Lines
  BY <1>4, <1>6, KnownNet DEF Lines, Registered
<1>11. names \in Lines
  BY <1>5, <1>9 DEF Lines
<1>12. members'[c] = mem /\ operators'[c] = ops /\ Self \in mem
  BY <1>2, <1>6, KnownNet
<1>13. NicksOf(members[c])' = NicksOf(mem) /\ NicksOf(operators[c])' = NicksOf(ops)
  BY <1>6, <1>12 DEF NicksOf
<1>14. \A e \in ChatChannels \ {c} : members'[e] = members[e] /\ operators'[e] = operators[e]
  BY <1>6, KnownNet
<1>15. /\ n \in Nat
       /\ Len(inbox') = n + 2
       /\ \A i \in 1..n : inbox'[i] = inbox[i]
       /\ inbox'[n + 1] = join
       /\ inbox'[n + 2] = names
  BY <1>6, <1>10, <1>11, TwoLinesIndex DEF KnowsInv, IRCInv, NetInv, NetTypeOK
<1>16. /\ join.type = "join" /\ join.channel = c /\ join.nick = nickOf[Self]
       /\ names.type = "names" /\ names.channel = c
       /\ names.nicks = NicksOf(members[c])'
       /\ names.ops = NicksOf(operators[c])'
  BY <1>4, <1>5, <1>13
<1> QED BY <1>6, <1>10, <1>11, <1>12, <1>14, <1>15, <1>16

LEMMA ServesJoinInv ==
  ASSUME KnowsInv, IRCInv', UNCHANGED <<bIsJoining, myNickname, windowVars>>,
         ServesJoin
  PROVE  KnowsInv'
<1>1. /\ connection = "connected" /\ UNCHANGED connection
      /\ Head(outbox).type # "part"
      /\ Registered(Self) /\ UNCHANGED nickOf
  BY DEF ServesJoin, Serves
<1>2. PICK n : n = Len(inbox)
  OBVIOUS
<1>3. PICK c \in ChatChannels, join \in Lines, names \in Lines :
        /\ join.type = "join" /\ join.channel = c /\ join.nick = nickOf[Self]
        /\ names.type = "names" /\ names.channel = c
        /\ names.nicks = NicksOf(members[c])'
        /\ names.ops = NicksOf(operators[c])'
        /\ \A e \in ChatChannels \ {c} : members'[e] = members[e] /\ operators'[e] = operators[e]
        /\ Self \notin members[c] /\ Self \in members'[c]
        /\ n \in Nat
        /\ Len(inbox') = n + 2
        /\ \A i \in 1..n : inbox'[i] = inbox[i]
        /\ inbox'[n + 1] = join
        /\ inbox'[n + 2] = names
  BY <1>2, ServesJoinFacts
<1>4. \A e : Leaving(e) => Leaving(e)'
  BY <1>1, KnownNet, ServesLeaving DEF ServesJoin
<1>5. PICK b : Knows(b)
  BY <1>1 DEF KnowsInv
<1>6. /\ b \in [0..n -> Nicks]
      /\ \A i \in 1..n : b[i] = NickAfter(b[i - 1], inbox[i])
      /\ ~bIsJoining => b[0] = myNickname
      /\ b[n] = nickOf[Self]
      /\ \A e \in ChatChannels : ChannelKnown(b, e)
  BY <1>1, <1>2, <1>5 DEF Knows, NickFollows, Follows
<1>7. PICK d : d = [i \in 0..(n + 2) |-> IF i <= n THEN b[i] ELSE b[n]]
  OBVIOUS
<1>8. /\ d \in [0..(n + 2) -> Nicks]
      /\ \A i \in 0..n : d[i] = b[i]
      /\ d[n + 1] = b[n] /\ d[n + 2] = b[n]
  BY <1>3, <1>6, <1>7
<1>9. \A i \in 1..(n + 2) : i \in 1..n \/ i = n + 1 \/ i = n + 2
  BY <1>3
<1>10. (n + 1) - 1 = n /\ (n + 2) - 1 = n + 1 /\ n \in 0..n
  BY <1>3
<1>11. NickFollows(d)'
  <2>1. ASSUME NEW i \in 1..n
        PROVE  d[i] = NickAfter(d[i - 1], inbox'[i])
    <3>1. i \in 0..n /\ i - 1 \in 0..n
      BY <1>3
    <3> QED BY <1>3, <1>6, <1>8, <3>1
  <2>2. /\ NickAfter(d[n], inbox'[n + 1]) = d[n]
        /\ NickAfter(d[n + 1], inbox'[n + 2]) = d[n + 1]
    BY <1>3 DEF NickAfter
  <2>3. \A i \in 1..(n + 2) : d[i] = NickAfter(d[i - 1], inbox'[i])
    BY <1>8, <1>9, <1>10, <2>1, <2>2
  <2>4. 0 \in 0..n
    BY <1>3
  <2> QED BY <1>1, <1>3, <1>6, <1>8, <2>3, <2>4 DEF NickFollows, Follows
<1>12. ASSUME NEW e, ClosedAfter(b, e, n)
       PROVE  ClosedAfter(d, e, n)'
  BY <1>2, <1>3, <1>8, <1>10, <1>12, WriteCloses
<1>13. ChannelKnown(d, c)'
  <2>1. ClosedAfter(d, c, n)'
    BY <1>2, <1>3, <1>6, <1>12 DEF ChannelKnown
  <2>2. PICK v : v = [i \in {n + 1, n + 2} |->
                        IF i = n + 1 THEN NoUsers ELSE View(NoUsers, names, c)]
    OBVIOUS
  <2>3. v[n + 1] = NoUsers /\ v[n + 2] = View(v[n + 1], inbox'[n + 2], c)
    BY <1>3, <2>2
  <2>4. Matches(v[n + 2], c)'
    <3>1. About(names, c) /\ Misread({}, names) = {}
      BY <1>3 DEF About, Misread
    <3>2. /\ UsersAfter({}, names) = names.nicks
          /\ OpsAfter({}, {}, names) = names.ops
      BY <1>3 DEF UsersAfter, OpsAfter
    <3>3. NoUsers.users = {} /\ NoUsers.ops = {} /\ NoUsers.wrong = {}
      BY DEF NoUsers
    <3>4. View(NoUsers, names, c).users = names.nicks
      BY <3>1, <3>2, <3>3 DEF View
    <3>5. View(NoUsers, names, c).ops = names.ops
      BY <3>1, <3>2, <3>3 DEF View
    <3>6. v[n + 2] = View(NoUsers, names, c)
      BY <1>3, <2>3
    <3> QED BY <1>3, <3>4, <3>5, <3>6 DEF Matches
  <2>5. IsJoin(inbox'[n + 1], c, d[n])
    BY <1>3, <1>6, <1>8, <1>10 DEF IsJoin
  <2>6. ~IsLeave(inbox'[n + 2], c, d[n + 1]) /\ ~IsJoin(inbox'[n + 2], c, d[n + 1])
    BY <1>3 DEF IsLeave, IsJoin
  <2>7. \A i \in ((n + 1) + 1)..(n + 2) : i = n + 2
    BY <1>3
  <2>8. Listed(d, c, n + 1, v)'
    BY <1>3, <1>10, <2>1, <2>3, <2>4, <2>5, <2>6, <2>7 DEF Listed
  <2>9. n + 1 \in 0..(n + 2)
    BY <1>3
  <2> QED BY <1>3, <2>8, <2>9 DEF ChannelKnown
<1>14. ASSUME NEW e \in ChatChannels, e # c
       PROVE  ChannelKnown(d, e)'
  <2>1. /\ members'[e] = members[e] /\ operators'[e] = operators[e]
        /\ ChannelKnown(b, e)
    BY <1>3, <1>6, <1>14
  <2>2. \A m, s : /\ ~Opens(inbox'[n + 1], e, m) /\ ~Opens(inbox'[n + 2], e, m)
                  /\ ~IsLeave(inbox'[n + 1], e, m) /\ ~IsLeave(inbox'[n + 2], e, m)
                  /\ ~IsJoin(inbox'[n + 1], e, m) /\ ~IsJoin(inbox'[n + 2], e, m)
                  /\ View(s, inbox'[n + 1], e) = s /\ View(s, inbox'[n + 2], e) = s
    BY <1>3, <1>14 DEF Opens, IsLeave, IsJoin, View, About
  <2>3. ASSUME Self \notin members'[e]
        PROVE  ClosedAfter(d, e, n + 2)'
    <3>1. ClosedAfter(d, e, n)'
      BY <1>2, <1>12, <2>1, <2>3 DEF ChannelKnown
    <3>2. hasRecipient(e)' => \E i \in 1..n : IsLeave(inbox'[i], e, d[i - 1])
      BY <3>1 DEF ClosedAfter
    <3>3. \A i \in 1..n : Opens(inbox'[i], e, d[i - 1]) =>
            \E j \in (i + 1)..n : IsLeave(inbox'[j], e, d[j - 1])
      BY <3>1 DEF ClosedAfter
    <3>4. \A i \in 1..n : i \in 1..(n + 2)
      BY <1>3
    <3>5. \A i \in 1..n : \A j \in (i + 1)..n : j \in (i + 1)..(n + 2)
      BY <1>3
    <3> QED BY <1>9, <2>2, <3>2, <3>3, <3>4, <3>5 DEF ClosedAfter
  <2>4. ASSUME Self \in members'[e], ~Leaving(e)'
        PROVE  \E w : \E j \in 0..Len(inbox') : Listed(d, e, j, w)'
    <3>1. PICK v : \E k \in 0..n : Listed(b, e, k, v)
      BY <1>2, <1>4, <2>1, <2>4 DEF ChannelKnown
    <3>2. PICK k \in 0..n : Listed(b, e, k, v)
      BY <3>1
    <3>3. PICK w : w = [i \in 0..(n + 2) |-> IF i <= n THEN v[i] ELSE v[n]]
      OBVIOUS
    <3>4. /\ \A i \in 0..n : w[i] = v[i]
          /\ w[n + 1] = v[n] /\ w[n + 2] = v[n] /\ w[n] = v[n]
      BY <1>3, <3>3
    <3>5. Matches(w[n + 2], e)'
      <4>1. PICK s : s = v[n]
        OBVIOUS
      <4>2. Matches(s, e)
        BY <1>2, <3>2, <4>1 DEF Listed
      <4>3. \A p \in members[e] : nickOf'[p] = nickOf[p]
        BY <1>1
      <4>4. Matches(s, e)'
        BY <2>1, <4>2, <4>3, KnownNet, SameMatches
      <4> QED BY <3>4, <4>1, <4>4
    <3>6. ASSUME NEW i \in (k + 1)..(n + 2)
          PROVE  /\ ~IsLeave(inbox'[i], e, d[i - 1])
                 /\ ~IsJoin(inbox'[i], e, d[i - 1])
                 /\ w[i] = View(w[i - 1], inbox'[i], e)
      <4>1. CASE i = n + 1 \/ i = n + 2
        BY <1>10, <2>2, <3>4, <4>1
      <4>2. CASE i # n + 1 /\ i # n + 2
        <5>1. i \in (k + 1)..n /\ i \in 1..n /\ i \in 0..n /\ i - 1 \in 0..n
          BY <1>3, <4>2
        <5>2. /\ ~IsLeave(inbox[i], e, b[i - 1])
              /\ ~IsJoin(inbox[i], e, b[i - 1])
              /\ v[i] = View(v[i - 1], inbox[i], e)
          BY <1>2, <3>2, <5>1 DEF Listed
        <5> QED BY <1>3, <1>8, <3>4, <5>1, <5>2
      <4> QED BY <4>1, <4>2
    <3>7. k = 0 => hasRecipient(e)' /\ w[0] = Shown(e)'
      <4>1. k = 0 => hasRecipient(e) /\ v[0] = Shown(e)
        BY <3>2 DEF Listed
      <4> QED BY <3>4, <4>1 DEF windowVars, hasRecipient, Shown
    <3>8. ASSUME k > 0
          PROVE  /\ IsJoin(inbox'[k], e, d[k - 1])
                 /\ ClosedAfter(d, e, k - 1)'
                 /\ w[k] = NoUsers
      <4>1. k \in 1..n /\ k \in 0..n /\ k - 1 \in 0..n
        BY <1>3, <3>8
      <4>2. IsJoin(inbox[k], e, b[k - 1]) /\ ClosedAfter(b, e, k - 1) /\ v[k] = NoUsers
        BY <3>2, <3>8 DEF Listed
      <4>3. ClosedAfter(d, e, k - 1)'
        BY <1>2, <1>3, <1>8, <4>1, <4>2, WriteCloses
      <4> QED BY <1>3, <1>8, <3>4, <4>1, <4>2, <4>3
    <3>9. Listed(d, e, k, w)'
      BY <1>3, <3>5, <3>6, <3>7, <3>8 DEF Listed
    <3>10. k \in 0..(n + 2)
      BY <1>3
    <3> QED BY <1>3, <3>9, <3>10
  <2> QED BY <1>3, <2>3, <2>4 DEF ChannelKnown
<1>15. Knows(d)'
  BY <1>11, <1>13, <1>14 DEF Knows
<1>16. JoiningOK'
  <2> SUFFICES ASSUME bIsJoining
               PROVE  /\ Greeted((n + 2) + 1)'
                      /\ \A i \in 1..(n + 2) : EarlyLine(i)' \/ Greeted(i)'
    BY <1>3 DEF JoiningOK
  <2>1. /\ Greeted(n + 1)
        /\ \A i \in 1..n : EarlyLine(i) \/ Greeted(i)
    BY <1>1, <1>2 DEF KnowsInv, JoiningOK
  <2>2. PICK g \in 1..n : inbox[g].type = "hello"
    BY <1>10, <2>1 DEF Greeted
  <2>3. inbox'[g].type = "hello" /\ g \in Nat /\ g <= n
    BY <1>3, <2>2
  <2>4. /\ g \in 1..((n + 1) - 1) /\ g \in 1..((n + 2) - 1)
        /\ g \in 1..(((n + 2) + 1) - 1)
    BY <1>3, <2>2
  <2>5. Greeted(n + 1)' /\ Greeted(n + 2)' /\ Greeted((n + 2) + 1)'
    BY <2>3, <2>4 DEF Greeted
  <2>6. \A i \in 1..n : EarlyLine(i)' \/ Greeted(i)'
    <3>1. \A i \in 1..n : \A j \in 1..(i - 1) : j \in 1..n
      BY <1>3
    <3> QED BY <1>3, <2>1, <3>1 DEF EarlyLine, Greeted
  <2> QED BY <1>9, <2>5, <2>6
<1>17. BeforeConnected' /\ NoWindowNoUsers'
  BY <1>1, SameUsers DEF BeforeConnected, KnowsInv
<1> QED BY <1>15, <1>16, <1>17 DEF KnowsInv

LEMMA NetNextInv ==
  ASSUME KnowsInv, IRCInv', UNCHANGED <<bIsJoining, myNickname, windowVars>>,
         NetNext
  PROVE  KnowsInv'
<1>1. CASE ServesNick \/ RefusesJoin \/ ServesJoin \/ ServesPart \/ ServesWhois \/ ServesBan
  BY <1>1, ServesNickInv, RefusesJoinInv, ServesJoinInv, ServesPartInv,
     ServesWhoisInv, ServesBanInv
<1>2. ASSUME NEW p \in Others, NEW n \in Nicks, OtherTakesNick(p, n)
      PROVE  KnowsInv'
  BY <1>2, OtherTakesNickInv
<1>3. ASSUME NEW p \in Others, OtherQuits(p)
      PROVE  KnowsInv'
  BY <1>3, OtherQuitsInv
<1>4. ASSUME NEW p \in Others, NEW c \in ChatChannels, OtherJoins(p, c)
      PROVE  KnowsInv'
  BY <1>4, OtherJoinsInv
<1>5. ASSUME NEW p \in Others, NEW c \in ChatChannels, OtherParts(p, c)
      PROVE  KnowsInv'
  BY <1>5, OtherLeavesInv DEF OtherParts
<1>6. ASSUME NEW p \in Others, NEW c \in ChatChannels, OtherSpeaks(p, c)
      PROVE  KnowsInv'
  BY <1>6, OtherSpeaksInv
<1>7. ASSUME NEW p \in Others, NEW c \in ChatChannels, NEW victim \in People,
             OtherKicks(p, victim, c)
      PROVE  KnowsInv'
  BY <1>7, OtherLeavesInv DEF OtherKicks
<1>8. ASSUME NEW p \in People, NEW c \in ChatChannels, NEW op \in BOOLEAN,
             NEW alone \in BOOLEAN, OperatorChanges(p, c, op, alone)
      PROVE  KnowsInv'
  BY <1>8, OperatorChangesInv
<1> QED BY <1>1, <1>2, <1>3, <1>4, <1>5, <1>6, <1>7, <1>8 DEF NetNext

-----------------------------------------------------------------------------
(* What the client knows                                                   *)

LEMMA KnowsInit == IRCInit => KnowsInv
<1> SUFFICES ASSUME IRCInit PROVE KnowsInv
  OBVIOUS
<1>1. IRCInv
  BY IRCInitInv
<1>2. \A c \in ChatChannels : c \in Names /\ ~hasRecipient(c) /\ Shown(c) = NoUsers
  BY DEF IRCInit, ClientInit, hasRecipient, Shown, NoUsers, Names
<1>3. connection = "connecting" /\ inbox = <<>> /\ ~Registered(Self)
  BY DEF IRCInit, NetInit, Registered
<1> QED BY <1>1, <1>2, <1>3 DEF KnowsInv, BeforeConnected, NoWindowNoUsers

LEMMA SameKnows ==
  ASSUME KnowsInv, IRCInv',
         UNCHANGED <<netVars, bIsJoining, myNickname, windowVars>>
  PROVE  KnowsInv'
<1>1. IRCInv'
  OBVIOUS
<1>2. /\ UNCHANGED connection /\ UNCHANGED inbox /\ nickOf'[Self] = nickOf[Self]
      /\ UNCHANGED <<bIsJoining, myNickname, windowVars>>
      /\ UNCHANGED <<nickOf, members, operators, outbox>>
  BY DEF netVars
<1>3. \A c \in ChatChannels : SilentOn(c)
  BY <1>2, KnownNet, SameLeaving, ElsewhereSilent
<1>4. CASE connection = "connected"
  BY <1>1, <1>2, <1>3, <1>4, SilentInv
<1>5. CASE connection # "connected"
  <2>1. NoWindowNoUsers'
    BY <1>2, SameUsers DEF KnowsInv
  <2>2. BeforeConnected'
    BY <1>2 DEF KnowsInv, BeforeConnected, Registered, hasRecipient, windowVars
  <2> QED BY <1>1, <1>2, <1>5, <2>1, <2>2 DEF KnowsInv
<1> QED BY <1>4, <1>5

LEMMA KnowsStep == KnowsInv /\ [IRCNext]_ircVars => KnowsInv'
<1> SUFFICES ASSUME KnowsInv, [IRCNext]_ircVars PROVE KnowsInv'
  OBVIOUS
<1>1. CASE ircServerResponse \/ IRCUserNext
  BY <1>1, ResponseInv, UserNextInv
<1>2. CASE NetNext /\ UNCHANGED <<bIsJoining, myNickname, windowVars, bans>>
  <2>1. IRCInv'
    BY IRCStep DEF KnowsInv
  <2> QED BY <1>2, <2>1, NetNextInv
<1>3. CASE UNCHANGED ircVars \/ BansDeleted
  <2>1. IRCInv'
    BY IRCStep DEF KnowsInv
  <2>2. UNCHANGED <<netVars, bIsJoining, myNickname, windowVars>>
    BY <1>3 DEF ircVars, BansDeleted
  <2> QED BY <2>1, <2>2, SameKnows
<1> QED BY <1>1, <1>2, <1>3 DEF IRCNext

THEOREM IRCAlwaysKnows == IRCSpec => []KnowsInv
BY KnowsInit, KnowsStep, PTL DEF IRCSpec

(* A registered client that has read all lines knows its own nickname,     *)
(* however many nicknames were asked for, refused and changed on the way   *)
(* (nicknameInUse(), helloClient(), userChangesNickname()).                *)
THEOREM NickIsKnown == IRCSpec => []NickKnown
<1>1. KnowsInv => NickKnown
  <2> SUFFICES ASSUME KnowsInv, connection = "connected", inbox = <<>>, Registered(Self)
               PROVE  myNickname = nickOf[Self]
    BY DEF NickKnown
  <2>1. PICK b : Knows(b)
    BY DEF KnowsInv
  <2>2. Len(inbox) = 0
    OBVIOUS
  <2>3. ~bIsJoining
    BY <2>2 DEF KnowsInv, JoiningOK, Greeted
  <2> QED BY <2>1, <2>2, <2>3 DEF Knows, NickFollows
<1> QED BY <1>1, IRCAlwaysKnows, PTL

(* What is settled about a channel the client is in.                       *)
LEMMA SettledShows ==
  ASSUME KnowsInv, NEW c \in ChatChannels, Settled(c), Self \in members[c]
  PROVE  hasRecipient(c) /\ Matches(Shown(c), c)
<1>1. connection = "connected" /\ Len(inbox) = 0 /\ ~Leaving(c)
  BY DEF Settled, Leaving
<1>2. PICK b : Knows(b)
  BY <1>1 DEF KnowsInv
<1>3. PICK v : \E k \in 0..0 : Listed(b, c, k, v)
  BY <1>1, <1>2 DEF Knows, ChannelKnown
<1>4. Listed(b, c, 0, v)
  BY <1>3
<1> QED BY <1>1, <1>4 DEF Listed

(* Once nothing about a channel is under way, it has a window exactly when *)
(* the client is in it (userPartsChannel(), kick(),                        *)
(* getOrCreateNewChatAdapter()).                                           *)
THEOREM MembershipIsKnown == IRCSpec => []MembershipKnown
<1>1. KnowsInv => MembershipKnown
  <2> SUFFICES ASSUME KnowsInv, NEW c \in ChatChannels, Settled(c)
               PROVE  hasRecipient(c) <=> Self \in members[c]
    BY DEF MembershipKnown
  <2>1. CASE Self \in members[c]
    BY <2>1, SettledShows
  <2>2. CASE Self \notin members[c]
    <3>1. connection = "connected" /\ Len(inbox) = 0
      BY DEF Settled
    <3>2. PICK b : Knows(b)
      BY <3>1 DEF KnowsInv
    <3>3. ClosedAfter(b, c, 0)
      BY <2>2, <3>1, <3>2 DEF Knows, ChannelKnown
    <3> QED BY <2>2, <3>3 DEF ClosedAfter
  <2> QED BY <2>1, <2>2
<1> QED BY <1>1, IRCAlwaysKnows, PTL

(* Then the window lists who is in the channel, and its operators unless a *)
(* MODE line was misread (IRCUserList, IRCChannelAdapter).                 *)
THEOREM UsersAreKnown == IRCSpec => []UsersKnown
<1>1. KnowsInv => UsersKnown
  BY SettledShows DEF UsersKnown, Matches, Shown
<1> QED BY <1>1, IRCAlwaysKnows, PTL

=============================================================================
