----------------------------- MODULE IRCNetwork -----------------------------
(***************************************************************************)
(* What is at the other end of an IRC connection: a server, the people on  *)
(* it and its channels, as the client's handlers assume them.  The server  *)
(* tells its client, in order, of whatever happens in the channels the     *)
(* client is on.  Lines that change nothing in the client are left out.    *)
(***************************************************************************)
EXTENDS Integers, Sequences

CONSTANTS
  Self,
  Others,         \* people
  Nicks,
  ChatChannels,
  NoName,
  MaxLines,       \* bound: when the server writes no further line
  MaxCommands     \* bound: when the user enters no further command

People == Others \cup {Self}

Names == Nicks \cup ChatChannels

ASSUME NamesAssumption ==
  /\ NoName \notin Names
  /\ Nicks \cap ChatChannels = {}

ASSUME PeopleAssumption == Self \notin Others

VARIABLES
  connection,   \* "connecting", "connected", "closed", "deleted"
  inbox,        \* lines that the client has not read
  outbox,       \* commands that the server has not read
  nickOf,       \* NoName for who is not registered
  members,
  operators     \* members whose nickname has a "@"

netVars == <<connection, inbox, outbox, nickOf, members, operators>>

Lines ==
  [type : {"hello", "inUse", "quit"}, nick : Nicks]
    \cup [type : {"join", "part", "kick"}, channel : ChatChannels, nick : Nicks]
    \cup [type : {"rename"}, old : Nicks, new : Nicks]
    \cup [type : {"names"}, channel : ChatChannels,
          nicks : SUBSET Nicks, ops : SUBSET Nicks]
    \cup [type : {"mode"}, channel : ChatChannels, nick : Nicks,
          op : BOOLEAN, alone : BOOLEAN]
    \cup [type : {"message"}, recipient : Names]
    \cup [type : {"whois"}, nick : Nicks, host : People]

Commands ==
  [type : {"nick", "whois"}, nick : Nicks]
    \cup [type : {"join", "part"}, channel : ChatChannels]
    \cup [type : {"ban"}, channel : ChatChannels, nick : Nicks,
          answered : Nicks, host : People]

NetTypeOK ==
  /\ connection \in {"connecting", "connected", "closed", "deleted"}
  /\ inbox \in Seq(Lines)
  /\ outbox \in Seq(Commands)
  /\ nickOf \in [People -> Nicks \cup {NoName}]
  /\ members \in [ChatChannels -> SUBSET People]
  /\ operators \in [ChatChannels -> SUBSET People]

(* The people who are already there are in no channel.                     *)
NetInit ==
  /\ connection = "connecting"
  /\ inbox = <<>>
  /\ outbox = <<>>
  /\ nickOf \in [People -> Nicks \cup {NoName}]
  /\ nickOf[Self] = NoName
  /\ \A p, q \in Others : p # q /\ nickOf[p] = nickOf[q] => nickOf[p] = NoName
  /\ members = [c \in ChatChannels |-> {}]
  /\ operators = [c \in ChatChannels |-> {}]

Registered(p) == nickOf[p] # NoName

IsFree(n) == \A p \in People : nickOf[p] # n

NicksOf(people) == {nickOf[p] : p \in people}

On(p) == {c \in ChatChannels : p \in members[c]}

(* Of what p does to the network, the client hears where it is with p.     *)
Tells(p, line) ==
  inbox' = IF p = Self \/ On(p) \cap On(Self) # {} THEN Append(inbox, line)
                                                   ELSE inbox

TellsChannel(c, line) ==
  inbox' = IF Self \in members[c] THEN Append(inbox, line) ELSE inbox

Leaves(p, cs) ==
  /\ members' = [c \in ChatChannels |->
                   IF c \in cs THEN members[c] \ {p} ELSE members[c]]
  /\ operators' = [c \in ChatChannels |->
                     IF c \in cs THEN operators[c] \ {p} ELSE operators[c]]

-----------------------------------------------------------------------------
(* The client's commands                                                   *)

Serves(type) ==
  /\ connection = "connected"
  /\ Len(inbox) < MaxLines
  /\ outbox # <<>>
  /\ Head(outbox).type = type
  /\ outbox' = Tail(outbox)
  /\ UNCHANGED connection

ServesNick ==
  /\ Serves("nick")
  /\ LET n == Head(outbox).nick IN
       \/ /\ IsFree(n)
          /\ nickOf' = [nickOf EXCEPT ![Self] = n]
          /\ inbox' = Append(inbox,
                IF Registered(Self)
                THEN [type |-> "rename", old |-> nickOf[Self], new |-> n]
                ELSE [type |-> "hello", nick |-> n])
       \/ /\ ~IsFree(n)
          /\ inbox' = IF n = nickOf[Self]
                      THEN inbox
                      ELSE Append(inbox, [type |-> "inUse", nick |-> n])
          /\ UNCHANGED nickOf
  /\ UNCHANGED <<members, operators>>

(* A channel that lets nobody in, or a client that is in it, or not        *)
(* registered: nothing the client keeps.                                   *)
RefusesJoin ==
  /\ Serves("join")
  /\ UNCHANGED <<inbox, nickOf, members, operators>>

(* Who opens a channel is its operator.                                    *)
ServesJoin ==
  /\ Serves("join")
  /\ Registered(Self)
  /\ LET c == Head(outbox).channel
         ops == operators[c] \cup (IF members[c] = {} THEN {Self} ELSE {})
     IN  /\ Self \notin members[c]
         /\ members' = [members EXCEPT ![c] = @ \cup {Self}]
         /\ operators' = [operators EXCEPT ![c] = ops]
         /\ inbox' = inbox \o
              <<[type |-> "join", channel |-> c, nick |-> nickOf[Self]],
                [type |-> "names", channel |-> c,
                 nicks |-> NicksOf(members[c] \cup {Self}),
                 ops |-> NicksOf(ops)]>>
  /\ UNCHANGED nickOf

ServesPart ==
  /\ Serves("part")
  /\ LET c == Head(outbox).channel IN
       /\ TellsChannel(c, [type |-> "part", channel |-> c, nick |-> nickOf[Self]])
       /\ Leaves(Self, {c})
  /\ UNCHANGED nickOf

(* For a nickname that nobody has the reply is ERR_NOSUCHNICK, which is    *)
(* only displayed.                                                         *)
ServesWhois ==
  /\ Serves("whois")
  /\ LET n == Head(outbox).nick IN
       \/ \E p \in People :
            /\ nickOf[p] = n
            /\ inbox' = Append(inbox, [type |-> "whois", nick |-> n, host |-> p])
       \/ /\ IsFree(n)
          /\ UNCHANGED inbox
  /\ UNCHANGED <<nickOf, members, operators>>

(* MODE +b, whose line does what a message to the channel does, and KICK.  *)
ServesBan ==
  /\ Serves("ban")
  /\ LET c == Head(outbox).channel
         n == Head(outbox).nick
     IN  \/ \E p \in members[c] :
              /\ Self \in operators[c]
              /\ nickOf[p] = n
              /\ TellsChannel(c, [type |-> "kick", channel |-> c, nick |-> n])
              /\ Leaves(p, {c})
         \/ /\ Self \notin operators[c] \/ n \notin NicksOf(members[c])
            /\ UNCHANGED <<inbox, members, operators>>
  /\ UNCHANGED nickOf

-----------------------------------------------------------------------------
(* The others                                                              *)

Happens ==
  /\ connection = "connected"
  /\ Len(inbox) < MaxLines
  /\ UNCHANGED <<connection, outbox>>

OtherTakesNick(p, n) ==
  /\ Happens
  /\ IsFree(n)
  /\ nickOf' = [nickOf EXCEPT ![p] = n]
  /\ IF Registered(p)
     THEN Tells(p, [type |-> "rename", old |-> nickOf[p], new |-> n])
     ELSE UNCHANGED inbox
  /\ UNCHANGED <<members, operators>>

OtherJoins(p, c) ==
  /\ Happens
  /\ Registered(p)
  /\ p \notin members[c]
  /\ members' = [members EXCEPT ![c] = @ \cup {p}]
  /\ operators' = IF members[c] = {}
                  THEN [operators EXCEPT ![c] = {p}] ELSE operators
  /\ TellsChannel(c, [type |-> "join", channel |-> c, nick |-> nickOf[p]])
  /\ UNCHANGED nickOf

OtherParts(p, c) ==
  /\ Happens
  /\ p \in members[c]
  /\ TellsChannel(c, [type |-> "part", channel |-> c, nick |-> nickOf[p]])
  /\ Leaves(p, {c})
  /\ UNCHANGED nickOf

(* Also when a connection is killed.                                       *)
OtherQuits(p) ==
  /\ Happens
  /\ Registered(p)
  /\ Tells(p, [type |-> "quit", nick |-> nickOf[p]])
  /\ Leaves(p, ChatChannels)
  /\ nickOf' = [nickOf EXCEPT ![p] = NoName]

OtherKicks(p, victim, c) ==
  /\ Happens
  /\ p \in operators[c]
  /\ victim \in members[c]
  /\ TellsChannel(c, [type |-> "kick", channel |-> c, nick |-> nickOf[victim]])
  /\ Leaves(victim, {c})
  /\ UNCHANGED nickOf

(* "alone": no flag that takes no parameter stands before this one.        *)
OperatorChanges(p, c, op, alone) ==
  /\ Happens
  /\ p \in members[c]
  /\ (p \in operators[c]) # op
  /\ operators' = [operators EXCEPT ![c] = IF op THEN @ \cup {p} ELSE @ \ {p}]
  /\ TellsChannel(c, [type |-> "mode", channel |-> c, nick |-> nickOf[p],
                      op |-> op, alone |-> alone])
  /\ UNCHANGED <<nickOf, members>>

(* Nobody sees any more what becomes of the network.                       *)
OutOfSight ==
  /\ nickOf' = [p \in People |-> NoName]
  /\ members' = [c \in ChatChannels |-> {}]
  /\ operators' = [c \in ChatChannels |-> {}]

(* To the client itself, in which case the window is that of the sender,   *)
(* or to a channel.                                                        *)
OtherSpeaks(p, c) ==
  /\ Happens
  /\ Registered(p)
  /\ Registered(Self)
  /\ \/ inbox' = Append(inbox, [type |-> "message", recipient |-> nickOf[p]])
     \/ /\ p \in members[c]
        /\ Self \in members[c]
        /\ inbox' = Append(inbox, [type |-> "message", recipient |-> c])
  /\ UNCHANGED <<nickOf, members, operators>>

NetNext ==
  \/ ServesNick
  \/ RefusesJoin
  \/ ServesJoin
  \/ ServesPart
  \/ ServesWhois
  \/ ServesBan
  \/ \E p \in Others :
       \/ \E n \in Nicks : OtherTakesNick(p, n)
       \/ OtherQuits(p)
       \/ \E c \in ChatChannels :
            \/ OtherJoins(p, c)
            \/ OtherParts(p, c)
            \/ OtherSpeaks(p, c)
            \/ \E victim \in People : OtherKicks(p, victim, c)
  \/ \E p \in People, c \in ChatChannels, op, alone \in BOOLEAN :
       OperatorChanges(p, c, op, alone)

=============================================================================
