------------------------------ MODULE MCGuests ------------------------------
(* Guests with small constants, which the .cfg files give. *)
EXTENDS Guests

=============================================================================
