------------------------------ MODULE MCProxy ------------------------------
(* Proxy with small constants, which the .cfg files give. *)
EXTENDS ProxyInvariant, TLC

(* No name is special. *)
NameSymmetry == Permutations(Names)

=============================================================================
