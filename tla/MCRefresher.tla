---------------------------- MODULE MCRefresher -----------------------------
(* Small instances of Refresher for TLC: model values for the objects.     *)
EXTENDS Refresher, TLC

CONSTANTS c1, l1, n1, m1, m2

(* The masters are interchangeable.                                        *)
MasterSymmetry == Permutations({m1, m2})

=============================================================================
