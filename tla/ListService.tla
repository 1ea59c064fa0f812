---------------------------- MODULE ListService -----------------------------
(***************************************************************************)
(* What a master client promises to the Refresher and the server list:     *)
(* asked, it gathers parts of the list that a master held at one moment,   *)
(* each once; it announces once that it is done, and from then on, until   *)
(* it is asked again, the list stays as it is.  A list announced as        *)
(* complete is the whole list of this round.  Datagrams, their order, the  *)
(* cache and the timeout do not appear here.                               *)
(***************************************************************************)
EXTENDS Integers

CONSTANTS NumPackets, MaxRounds

VARIABLES round, shown, told, outcome

vars == <<round, shown, told, outcome>>

Packets == (1..MaxRounds) \X (0..NumPackets - 1)

None == [p \in Packets |-> 0]
Whole == [p \in Packets |-> IF p[1] = round THEN 1 ELSE 0]

Init ==
  /\ round = 0
  /\ shown = None
  /\ told = 0
  /\ outcome = "none"

Ask ==
  /\ outcome # "asked"
  /\ round' = round + 1
  /\ shown' = None
  /\ told' = 0
  /\ outcome' = "asked"

(* One more part of the list that the others are of.                       *)
Gathered(p) ==
  /\ shown[p] = 0
  /\ \A q \in Packets : shown[q] > 0 => q[1] = p[1]
  /\ shown' = [shown EXCEPT ![p] = 1]

Gather(p) ==
  /\ outcome = "asked"
  /\ Gathered(p)
  /\ UNCHANGED <<round, told, outcome>>

Announce ==
  /\ outcome = "asked"
  /\ shown' = shown \/ \E p \in Packets : Gathered(p)
  /\ told' = told + 1
  /\ outcome' \in {"complete", "cached"}
  /\ outcome' = "complete" => shown' = Whole
  /\ UNCHANGED round

Refuse ==
  /\ outcome = "asked"
  /\ outcome' = "refused"
  /\ UNCHANGED <<round, shown, told>>

Vanish ==
  /\ shown' = None
  /\ told' = 0
  /\ outcome' = "crashed"
  /\ UNCHANGED round

Next ==
  \/ Ask
  \/ \E p \in Packets : Gather(p)
  \/ Announce
  \/ Refuse
  \/ Vanish

Spec == Init /\ [][Next]_vars

=============================================================================
