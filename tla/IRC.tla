-------------------------------- MODULE IRC ---------------------------------
(***************************************************************************)
(* The IRC client: an adapter for a network, which owns one for each chat  *)
(* window and reads the server's lines one after the other.  A network is  *)
(* connected to once; whoever connects again gets a new adapter.           *)
(*                                                                         *)
(* A window is an adapter; its tab goes with it and takes it along.  It is *)
(* represented by the name of its recipient, as at most one window has a   *)
(* key in chatWindows.                                                     *)
(* What is displayed, sounds, logs and ignored senders are left out.       *)
(***************************************************************************)
EXTENDS IRCNetwork, FiniteSets

CONSTANTS
  OwnNick,         \* in the dialog: connectionInfo.nick
  AlternateNick,
  AutoJoin,        \* the network's autojoinChannels
  MaxBans,         \* bound: bans asked for and not yet delivered
  MaxLost          \* bound: windows lost of one name

ASSUME ClientAssumption ==
  /\ OwnNick \in Nicks
  /\ AlternateNick \in Nicks
  /\ AutoJoin \subseteq ChatChannels
  /\ IsFiniteSet(AutoJoin)

VARIABLES
  bIsJoining,
  myNickname,      \* connectionInfo.nick
  chatWindows,     \* recipientName of the window with this key, or NoName
  lost,            \* open windows without a key: how many of each name
  usersArray,      \* of each channel's window, the nicknames
  opsArray,        \* and those with mode "o"
  bans,            \* IRCDelayedOperationBan objects, the oldest first; the
                   \* fired ones have called deleteLater()
  misread          \* history: channels whose operators a MODE line with
                   \* several flags has left wrong

windowVars == <<chatWindows, lost, usersArray, opsArray, misread>>

ircVars == <<netVars, bIsJoining, myNickname, windowVars, bans>>

Bans == [channel : ChatChannels, nick : Nicks, fired : BOOLEAN]

ClientTypeOK ==
  /\ bIsJoining \in BOOLEAN
  /\ myNickname \in Nicks
  /\ chatWindows \in [Names -> Names \cup {NoName}]
  /\ lost \in [Nicks -> Nat]
  /\ usersArray \in [ChatChannels -> SUBSET Nicks]
  /\ opsArray \in [ChatChannels -> SUBSET Nicks]
  /\ bans \in Seq(Bans)
  /\ misread \subseteq ChatChannels

ClientInit ==
  /\ bIsJoining = FALSE
  /\ myNickname = OwnNick
  /\ chatWindows = [n \in Names |-> NoName]
  /\ lost = [n \in Nicks |-> 0]
  /\ usersArray = [c \in ChatChannels |-> {}]
  /\ opsArray = [c \in ChatChannels |-> {}]
  /\ bans = <<>>
  /\ misread = {}

IRCInit == NetInit /\ ClientInit

-----------------------------------------------------------------------------
(* Windows                                                                 *)

hasRecipient(n) == chatWindows[n] # NoName

getOrCreateNewChatAdapter(n) ==
  \/ /\ hasRecipient(n)
     /\ UNCHANGED windowVars
  \/ /\ ~hasRecipient(n)
     /\ chatWindows' = [chatWindows EXCEPT ![n] = n]
     /\ UNCHANGED <<lost, usersArray, opsArray, misread>>

(* The windows of the channels cs go, with their lists of users.           *)
ListsDeleted(cs) ==
  /\ usersArray' = [c \in ChatChannels |-> IF c \in cs THEN {} ELSE usersArray[c]]
  /\ opsArray' = [c \in ChatChannels |-> IF c \in cs THEN {} ELSE opsArray[c]]
  /\ misread' = misread \ cs

killChatWindow(c) ==
  /\ chatWindows' = [chatWindows EXCEPT ![c] = NoName]
  /\ ListsDeleted({c})
  /\ UNCHANGED lost

(* A lost window is not among chatWindows.values().                        *)
killAllChatWindows ==
  /\ chatWindows' = [n \in Names |-> NoName]
  /\ ListsDeleted(ChatChannels)
  /\ UNCHANGED lost

removeNameFromCachedList(c, n) ==
  /\ usersArray' = [usersArray EXCEPT ![c] = @ \ {n}]
  /\ opsArray' = [opsArray EXCEPT ![c] = @ \ {n}]
  /\ UNCHANGED <<chatWindows, lost, misread>>

(* Every name replaces what the list knew of its user.                     *)
appendNamesToCachedList(c, ns, ops) ==
  /\ usersArray' = [usersArray EXCEPT ![c] = @ \cup ns]
  /\ opsArray' = [opsArray EXCEPT ![c] = (@ \ ns) \cup ops]
  /\ UNCHANGED <<chatWindows, lost, misread>>

(* Mutant: the old nickname stays on the list.                             *)
changeNickKeepsOld(ns, old, new) == IF old \in ns THEN ns \cup {new} ELSE ns

changeNick(ns, old, new) == IF old \in ns THEN (ns \ {old}) \cup {new} ELSE ns

-----------------------------------------------------------------------------
(* The user                                                                *)

IRCConnected ==
  /\ connection = "connecting"
  /\ connection' = "connected"
  /\ bIsJoining' = TRUE
  /\ outbox' = Append(outbox, [type |-> "nick", nick |-> myNickname])
  /\ UNCHANGED <<inbox, nickOf, members, operators, myNickname, windowVars, bans>>

(* doSendMessage(): what cannot be sent is an error message.               *)
Sends(command) ==
  outbox' = IF connection = "connected" THEN Append(outbox, command) ELSE outbox

UserActs ==
  /\ connection \in {"connected", "closed"}
  /\ Len(outbox) < MaxCommands
  /\ UNCHANGED <<connection, inbox, nickOf, members, operators, bIsJoining,
                 myNickname>>

(* Commands that are sent as they are typed.                               *)
Types(command) ==
  /\ UserActs
  /\ connection = "connected"
  /\ Sends(command)
  /\ UNCHANGED <<windowVars, bans>>

openNewAdapter(n) ==
  /\ UserActs
  /\ connection = "connected"
  /\ \/ /\ n \in Nicks \/ hasRecipient(n)
        /\ getOrCreateNewChatAdapter(n)
        /\ UNCHANGED outbox
     \/ /\ n \in ChatChannels
        /\ ~hasRecipient(n)
        /\ Sends([type |-> "join", channel |-> n])
        /\ UNCHANGED windowVars
  /\ UNCHANGED bans

(* The tab is closed: ~IRCChannelAdapter() parts, ~IRCChatAdapter() then   *)
(* calls detachChatWindow(), which goes by the name.                       *)
TabClosed(n) ==
  /\ UserActs
  /\ hasRecipient(n)
  /\ chatWindows' = [chatWindows EXCEPT ![chatWindows[n]] = NoName]
  /\ IF n \in ChatChannels
     THEN Sends([type |-> "part", channel |-> n])
     ELSE UNCHANGED outbox
  /\ ListsDeleted({n})
  /\ UNCHANGED <<lost, bans>>

(* The window that has the name's key, if one does, is lost instead.       *)
LostTabClosed(n) ==
  /\ UserActs
  /\ lost[n] > 0
  /\ chatWindows' = [chatWindows EXCEPT ![n] = NoName]
  /\ lost' = [lost EXCEPT ![n] = IF hasRecipient(n) THEN @ ELSE @ - 1]
  /\ UNCHANGED <<usersArray, opsArray, misread, outbox, bans>>

(* banUser() and the operation's start().                                  *)
banUser(c, n) ==
  /\ UserActs
  /\ hasRecipient(c)
  /\ n \in usersArray[c]
  /\ Len(bans) < MaxBans
  /\ bans' = Append(bans, [channel |-> c, nick |-> n, fired |-> FALSE])
  /\ Sends([type |-> "whois", nick |-> n])
  /\ UNCHANGED windowVars

(* The server closes the connection, after /quit or for its own reasons.   *)
(* A timer reads what has arrived, so that disconnected() may come before. *)
IRCDisconnected ==
  /\ connection = "connected"
  /\ connection' = "closed"
  /\ \E n \in 0..Len(inbox) : inbox' = SubSeq(inbox, 1, n)
  /\ outbox' = <<>>
  /\ killAllChatWindows
  /\ OutOfSight
  /\ UNCHANGED <<bIsJoining, myNickname, bans>>

(* The network's own tab is closed.  A window that it does not know of     *)
(* stays, with a pointer to a network that is gone.                        *)
NetworkDeleted ==
  /\ connection \in {"connecting", "connected", "closed"}
  /\ connection' = "deleted"
  /\ inbox' = <<>>
  /\ outbox' = <<>>
  /\ killAllChatWindows
  /\ OutOfSight
  /\ bans' = <<>>
  /\ UNCHANGED <<bIsJoining, myNickname>>

-----------------------------------------------------------------------------
(* The server's lines                                                      *)

Reads(type) ==
  /\ connection \in {"connected", "closed"}
  /\ inbox # <<>>
  /\ Head(inbox).type = type
  /\ inbox' = Tail(inbox)
  /\ UNCHANGED <<connection, nickOf, members, operators>>

Orders(S) ==
  { s \in [1..Cardinality(S) -> S] : \A x \in S : \E i \in 1..Cardinality(S) : s[i] = x }

(* Joins the channels to join by itself, in any order; openNewAdapter()    *)
(* sends nothing for a channel with a window.                              *)
helloClient ==
  /\ Reads("hello")
  /\ myNickname' = Head(inbox).nick
  /\ bIsJoining' = FALSE
  /\ LET new == {c \in AutoJoin : ~hasRecipient(c)} IN
       \E joins \in Orders(new) :
         outbox' = IF connection = "connected"
                   THEN outbox \o [i \in 1..Cardinality(new) |->
                                     [type |-> "join", channel |-> joins[i]]]
                   ELSE outbox
  /\ UNCHANGED <<windowVars, bans>>

(* Mutant: also when a nickname is refused later.                          *)
nicknameInUseAlways ==
  /\ Reads("inUse")
  /\ \/ /\ myNickname # AlternateNick
        /\ myNickname' = AlternateNick
        /\ Sends([type |-> "nick", nick |-> AlternateNick])
     \/ /\ myNickname = AlternateNick
        /\ UNCHANGED <<myNickname, outbox>>
  /\ UNCHANGED <<bIsJoining, windowVars, bans>>

nicknameInUse ==
  /\ Reads("inUse")
  /\ \/ /\ bIsJoining
        /\ myNickname # AlternateNick
        /\ myNickname' = AlternateNick
        /\ Sends([type |-> "nick", nick |-> AlternateNick])
     \/ /\ ~bIsJoining \/ myNickname = AlternateNick
        /\ UNCHANGED <<myNickname, outbox>>
  /\ UNCHANGED <<bIsJoining, windowVars, bans>>

isMyNickname(n) == n = myNickname

userJoinsChannel ==
  /\ Reads("join")
  /\ LET c == Head(inbox).channel
         n == Head(inbox).nick
     IN  \/ /\ isMyNickname(n)
            /\ getOrCreateNewChatAdapter(c)
         \/ /\ ~isMyNickname(n)
            /\ hasRecipient(c)
            /\ appendNamesToCachedList(c, {n}, {})
         \/ /\ ~isMyNickname(n)
            /\ ~hasRecipient(c)
            /\ UNCHANGED windowVars
  /\ UNCHANGED <<outbox, bIsJoining, myNickname, bans>>

namesListReceived ==
  /\ Reads("names")
  /\ LET c == Head(inbox).channel IN
       \/ /\ hasRecipient(c)
          /\ appendNamesToCachedList(c, Head(inbox).nicks, Head(inbox).ops)
       \/ /\ ~hasRecipient(c)
          /\ UNCHANGED windowVars
  /\ UNCHANGED <<outbox, bIsJoining, myNickname, bans>>

(* Mutant: a window stays when its user has to leave the channel.          *)
userLeavesListOnly(type) ==
  /\ Reads(type)
  /\ LET c == Head(inbox).channel
         n == Head(inbox).nick
     IN  \/ /\ hasRecipient(c)
            /\ removeNameFromCachedList(c, n)
         \/ /\ ~hasRecipient(c)
            /\ UNCHANGED windowVars
  /\ UNCHANGED <<outbox, bIsJoining, myNickname, bans>>

(* userPartsChannel() and kick()                                           *)
userLeavesChannel(type) ==
  /\ Reads(type)
  /\ LET c == Head(inbox).channel
         n == Head(inbox).nick
     IN  \/ /\ hasRecipient(c)
            /\ isMyNickname(n)
            /\ killChatWindow(c)
         \/ /\ hasRecipient(c)
            /\ ~isMyNickname(n)
            /\ removeNameFromCachedList(c, n)
         \/ /\ ~hasRecipient(c)
            /\ UNCHANGED windowVars
  /\ UNCHANGED <<outbox, bIsJoining, myNickname, bans>>

(* userQuitsNetwork() and kill(); a list without a window is empty.        *)
userQuitsNetwork ==
  /\ Reads("quit")
  /\ LET n == Head(inbox).nick IN
       /\ usersArray' = [c \in ChatChannels |-> usersArray[c] \ {n}]
       /\ opsArray' = [c \in ChatChannels |-> opsArray[c] \ {n}]
  /\ UNCHANGED <<chatWindows, lost, misread, outbox, bIsJoining, myNickname, bans>>

(* What the network and its windows make of a new nickname.                *)
Renamed(old, new) ==
  /\ myNickname' = IF isMyNickname(old) THEN new ELSE myNickname
  /\ usersArray' = [c \in ChatChannels |-> changeNick(usersArray[c], old, new)]
  /\ opsArray' = [c \in ChatChannels |->
                    IF old \in usersArray[c]
                    THEN changeNick(opsArray[c] \ {new}, old, new)
                    ELSE opsArray[c]]

Recipient(n, old, new) == IF chatWindows[n] = old THEN new ELSE chatWindows[n]

(* Mutant: the recipient's name changes and the key does not.              *)
userChangesNicknameKeepsKey ==
  /\ Reads("rename")
  /\ LET old == Head(inbox).old
         new == Head(inbox).new
     IN  /\ Renamed(old, new)
         /\ chatWindows' = [n \in Names |-> Recipient(n, old, new)]
  /\ UNCHANGED <<lost, misread, outbox, bIsJoining, bans>>

(* The window with the user gets the key of the new name; the window that  *)
(* had it is lost.                                                         *)
userChangesNickname ==
  /\ Reads("rename")
  /\ LET old == Head(inbox).old
         new == Head(inbox).new
     IN  /\ Renamed(old, new)
         /\ chatWindows' = [n \in Names |->
                              CASE ~hasRecipient(old) -> Recipient(n, old, new)
                                [] n = old -> NoName
                                [] n = new -> Recipient(old, old, new)
                                [] OTHER -> Recipient(n, old, new)]
         /\ \/ /\ hasRecipient(old)
               /\ hasRecipient(new)
               /\ lost[new] < MaxLost
               /\ lost' = [lost EXCEPT ![new] = @ + 1]
            \/ /\ ~hasRecipient(old) \/ ~hasRecipient(new)
               /\ UNCHANGED lost
  /\ UNCHANGED <<misread, outbox, bIsJoining, bans>>

(* modeInfo() opens a window where there is none.  parseUserModeMessage()  *)
(* gives the first flag the first parameter, whether it takes one or not.  *)
MODE ==
  /\ Reads("mode")
  /\ LET c == Head(inbox).channel
         n == Head(inbox).nick
     IN  \/ /\ n \notin usersArray[c]
            /\ getOrCreateNewChatAdapter(c)
         \/ /\ n \in usersArray[c]
            /\ Head(inbox).alone
            /\ opsArray' = [opsArray EXCEPT ![c] =
                              IF Head(inbox).op THEN @ \cup {n} ELSE @ \ {n}]
            /\ UNCHANGED <<chatWindows, lost, usersArray, misread>>
         \/ /\ n \in usersArray[c]
            /\ ~Head(inbox).alone
            /\ misread' = misread \cup {c}
            /\ UNCHANGED <<chatWindows, lost, usersArray, opsArray>>
  /\ UNCHANGED <<outbox, bIsJoining, myNickname, bans>>

privMsgReceived ==
  /\ Reads("message")
  /\ getOrCreateNewChatAdapter(Head(inbox).recipient)
  /\ UNCHANGED <<outbox, bIsJoining, myNickname, bans>>

(* Every ban that waits takes the answer for its own, and so does one that *)
(* has fired: it stays connected until receiveSocketData() returns.        *)
onWhoIsUser ==
  /\ Reads("whois")
  /\ outbox' =
       IF connection = "connected"
       THEN outbox \o
              [i \in 1..Len(bans) |->
                 [type |-> "ban", channel |-> bans[i].channel,
                  nick |-> bans[i].nick, answered |-> Head(inbox).nick,
                  host |-> Head(inbox).host]]
       ELSE outbox
  /\ bans' = [i \in 1..Len(bans) |-> [bans[i] EXCEPT !.fired = TRUE]]
  /\ UNCHANGED <<bIsJoining, myNickname, windowVars>>

(* The loop of receiveSocketData() in which a ban has fired goes on.       *)
Reading == \E i \in 1..Len(bans) : bans[i].fired

(* Back in the event loop, the fired bans are deleted.  All have fired, as *)
(* nobody asks for one while lines are read.                               *)
BansDeleted ==
  /\ Reading
  /\ bans' = <<>>
  /\ UNCHANGED <<netVars, bIsJoining, myNickname, windowVars>>

ircServerResponse ==
  \/ helloClient
  \/ nicknameInUse
  \/ userJoinsChannel
  \/ namesListReceived
  \/ userLeavesChannel("part")
  \/ userLeavesChannel("kick")
  \/ userQuitsNetwork
  \/ userChangesNickname
  \/ MODE
  \/ privMsgReceived
  \/ onWhoIsUser

IRCUserNext ==
  \/ IRCConnected
  \/ \E n \in Nicks : Types([type |-> "nick", nick |-> n])
  \/ \E c \in ChatChannels :
       \/ Types([type |-> "join", channel |-> c])
       \/ Types([type |-> "part", channel |-> c])
       \/ \E n \in Nicks : banUser(c, n)
  \/ \E n \in Names : openNewAdapter(n) \/ TabClosed(n)
  \/ \E n \in Nicks : LostTabClosed(n)
  \/ IRCDisconnected
  \/ NetworkDeleted

(* While lines are read after a ban has fired nobody else acts: what the   *)
(* network does meanwhile could as well come before or after.              *)
IRCNext ==
  \/ ircServerResponse
  \/ BansDeleted
  \/ ~Reading /\ IRCUserNext
  \/ /\ ~Reading /\ NetNext
     /\ UNCHANGED <<bIsJoining, myNickname, windowVars, bans>>

IRCSpec == IRCInit /\ [][IRCNext]_ircVars

-----------------------------------------------------------------------------
(* Properties                                                              *)

IRCTypeOK == NetTypeOK /\ ClientTypeOK

(* Nothing about channel c is under way.                                   *)
Settled(c) ==
  /\ connection = "connected"
  /\ inbox = <<>>
  /\ \A i \in 1..Len(outbox) :
       outbox[i].type \in {"join", "part"} => outbox[i].channel # c

(* Whatever crossed on the wire, once it has arrived a channel has a       *)
(* window exactly when the client is in it: closing a window, being kicked *)
(* and messages that reopen a closed window leave neither a window behind  *)
(* nor a channel without one (userPartsChannel(), kick(),                  *)
(* getOrCreateNewChatAdapter()).                                           *)
MembershipKnown ==
  \A c \in ChatChannels :
    Settled(c) => (hasRecipient(c) <=> Self \in members[c])

(* Then its list holds who is in the channel, through joins, parts, kicks, *)
(* quits and new nicknames, and knows the operators, unless a MODE line of *)
(* several flags was misread (IRCUserList, IRCChannelAdapter).             *)
UsersKnown ==
  \A c \in ChatChannels :
    Settled(c) /\ Self \in members[c] =>
      /\ usersArray[c] = NicksOf(members[c])
      /\ c \notin misread => opsArray[c] = NicksOf(operators[c])

(* The client knows its own nickname once it is registered, whichever of   *)
(* its nicknames were refused and when (nicknameInUse(), helloClient(),    *)
(* userChangesNickname()): what it takes for itself depends on it.         *)
NickKnown ==
  connection = "connected" /\ inbox = <<>> /\ Registered(Self) =>
    myNickname = nickOf[Self]

(* A message is displayed in the window of its sender: through all changes *)
(* of nicknames the key of a window is its recipient's name                *)
(* (userChangesNickname(), IRCPrivAdapter::userChangesNickname()).         *)
KeyedByRecipient ==
  \A n \in Names : hasRecipient(n) => chatWindows[n] = n

(* ircnetworkadapter.h: "Bans specified user from a channel", by the       *)
(* answer to the /whois that was sent for that user.                       *)
BansHitWhoWasMeant ==
  \A i \in 1..Len(outbox) :
    outbox[i].type = "ban" => outbox[i].answered = outbox[i].nick

=============================================================================
