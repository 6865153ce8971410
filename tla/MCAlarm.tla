------------------------------ MODULE MCAlarm ------------------------------
(* Alarm with small constants, which the .cfg files give. *)
EXTENDS Alarm

=============================================================================
