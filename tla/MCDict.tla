------------------------------- MODULE MCDict -------------------------------
(* Dict with small constants, which the .cfg file gives. *)
EXTENDS Dict, TLC

(* Of the keys 0, 1 and 8, two have the same hash; the third meets them in *)
(* tables of size 1 and 4, and parts from them in size 9.                  *)
MCHash == [k \in Keys |-> k \div 2]

DataSymmetry == Permutations(Data)

=============================================================================
