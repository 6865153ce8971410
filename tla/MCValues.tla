------------------------------ MODULE MCValues ------------------------------
(* Values with small constants, which the .cfg file gives. *)
EXTENDS Values, TLC

Symmetry == Permutations(Cells) \cup Permutations(Data)

=============================================================================
