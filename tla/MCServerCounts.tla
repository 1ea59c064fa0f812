--------------------------- MODULE MCServerCounts ---------------------------
(* Small instances of ServerCounts for TLC: what reports which address.    *)
EXTENDS ServerCounts, TLC

CONSTANTS m1, m2, g1, l1, l2, p1

(* A master reports an address twice, and the configuration and a          *)
(* broadcast report it too; another LAN server has its own.                *)
Shared == m1 :> "a" @@ m2 :> "a" @@ g1 :> "a" @@ l1 :> "a" @@ l2 :> "b"

(* Where any number may go astray, none is told apart: no step depends on  *)
(* one, and each adds and subtracts the same wherever it starts from.      *)
WithoutNumbers == <<serverVars, list, found, countedServers>>

(* What a master reports twice are two objects that nothing tells apart.   *)
Twins == Permutations({m1, m2})

=============================================================================
