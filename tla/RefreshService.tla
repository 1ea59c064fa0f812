--------------------------- MODULE RefreshService ---------------------------
(***************************************************************************)
(* What the rest of Doomseeker relies on when it hands servers and masters *)
(* to the query engine: everything handed over is done with in the end,    *)
(* the engine is asleep only when nothing is left, and it falls asleep     *)
(* again after every round.  How servers are queried does not appear here. *)
(***************************************************************************)
CONSTANTS Servers, Masters

VARIABLES
  pending,   \* servers whose refresh was asked for and has not ended
  fetching,  \* masters whose list was asked for and is not known
  asleep

vars == <<pending, fetching, asleep>>

Init ==
  /\ pending = {}
  /\ fetching = {}
  /\ asleep = TRUE

(* New work wakes the engine.                                              *)
Ask(servers, masters) ==
  /\ servers \cup masters # {}
  /\ servers \cap pending = {}
  /\ masters \cap fetching = {}
  /\ pending' = pending \cup servers
  /\ fetching' = fetching \cup masters
  /\ asleep' = FALSE

(* Refreshes end: answered, given up, or of servers that no longer exist.  *)
EndRefreshes(servers) ==
  /\ servers \subseteq pending
  /\ pending' = pending \ servers
  /\ UNCHANGED <<fetching, asleep>>

(* Masters are done with.  The servers of their lists are refreshed next;  *)
(* if there are none the engine may go to sleep at once.                   *)
EndLists(masters, listed) ==
  /\ masters # {}
  /\ masters \subseteq fetching
  /\ listed \cap pending = {}
  /\ fetching' = fetching \ masters
  /\ pending' = pending \cup listed
  /\ asleep' \in BOOLEAN
  /\ asleep' => pending' = {} /\ fetching' = {}

Sleep ==
  /\ pending = {}
  /\ fetching = {}
  /\ asleep' = TRUE
  /\ UNCHANGED <<pending, fetching>>

Next ==
  \/ \E servers \in SUBSET Servers, masters \in SUBSET Masters : Ask(servers, masters)
  \/ \E servers \in SUBSET Servers : EndRefreshes(servers)
  \/ \E masters \in SUBSET Masters, listed \in SUBSET Servers : EndLists(masters, listed)
  \/ Sleep

Safe == Init /\ [][Next]_vars

(* Every single server and master is done with, and the engine sleeps.     *)
EndRefreshOf(s) == \E servers \in SUBSET Servers : s \in servers /\ EndRefreshes(servers)
EndListOf(m) ==
  \E masters \in SUBSET Masters, listed \in SUBSET Servers :
    m \in masters /\ EndLists(masters, listed)

Fairness ==
  /\ \A s \in Servers : WF_vars(EndRefreshOf(s))
  /\ \A m \in Masters : WF_vars(EndListOf(m))
  /\ WF_vars(Sleep)

Spec == Safe /\ Fairness

=============================================================================
