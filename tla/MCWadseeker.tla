---------------------------- MODULE MCWadseeker -----------------------------
(* Small instances of Wadseeker for TLC.                                   *)
EXTENDS Wadseeker, TLC

OneHost == [u \in Urls |-> "host"]

OwnHosts == [u \in Urls |-> u]

(* Nothing tells files apart, nor sites, nor URLs with hosts of their own. *)
Symmetry ==
  Permutations(Files) \cup Permutations(Urls) \cup Permutations(Sites)

=============================================================================
