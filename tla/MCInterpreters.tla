--------------------------- MODULE MCInterpreters ---------------------------
(* Interpreters with two guests (two model values that may be swapped).    *)
EXTENDS Interpreters, TLC

MCSymmetry == Permutations(Guests) \cup Permutations(Names) \cup Permutations(Functions) \cup Permutations(Addresses)

=============================================================================
