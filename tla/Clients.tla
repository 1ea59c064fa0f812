------------------------------ MODULE Clients -------------------------------
(***************************************************************************)
(* The small parts of the program around the server browser: the remote    *)
(* console, the country database's loader and its lookup, program updates  *)
(* and chat.  They share no state, so that a behaviour is one of any of    *)
(* them and nothing is gained from interleaving two.                       *)
(***************************************************************************)
EXTENDS RCon, IP2CLoader, IP2C, Updates, IRC

VARIABLE client   \* the part that this behaviour is of

vars == <<client, rconVars, ip2cVars, ip2cLookupVars, updVars, ircVars>>

Init ==
  /\ client \in {"rcon", "loader", "lookup", "updates", "irc"}
  /\ RConInit
  /\ IP2CInit
  /\ client # "loader" => file = "missing" /\ precompiled
  /\ LookupInit
  /\ client # "lookup" =>
       /\ database = CHOOSE db \in Databases : TRUE
       /\ ipaddress = CHOOSE a \in Addresses : TRUE
  /\ UpdatesInit
  /\ client # "updates" => channel = CHOOSE c \in Channels : TRUE
  /\ IRCInit
  /\ client # "irc" => \A p \in Others : ~Registered(p)

Next ==
  \/ /\ client = "rcon"
     /\ RConNext
     /\ UNCHANGED <<client, ip2cVars, ip2cLookupVars, updVars, ircVars>>
  \/ /\ client = "loader"
     /\ IP2CNext
     /\ UNCHANGED <<client, rconVars, ip2cLookupVars, updVars, ircVars>>
  \/ /\ client = "lookup"
     /\ LookupNext
     /\ UNCHANGED <<client, rconVars, ip2cVars, updVars, ircVars>>
  \/ /\ client = "updates"
     /\ UpdatesNext
     /\ UNCHANGED <<client, rconVars, ip2cVars, ip2cLookupVars, ircVars>>
  \/ /\ client = "irc"
     /\ IRCNext
     /\ UNCHANGED <<client, rconVars, ip2cVars, ip2cLookupVars, updVars>>

Spec == Init /\ [][Next]_vars /\ RConFairness /\ IP2CFairness

=============================================================================
