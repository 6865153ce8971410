------------------------------ MODULE CFunction -----------------------------
(***************************************************************************)
(* cfunction_call of function.c: a function of the application, with a     *)
(* signature such as "is[", is called with an array of values.  Each value *)
(* is converted to the type of its parameter in a slot of its own; slot 0  *)
(* is for the context.  A number or an array that is passed for a string   *)
(* needs room for its text as well, and the code takes that from the slot  *)
(* 2i for the i-th parameter (counted from 0), where other slots are.  The *)
(* module describes one call: nothing is kept from one call to the next.   *)
(***************************************************************************)
EXTENDS Naturals, Sequences

CONSTANTS
  Signatures,  \* of the functions: sequences of types
  Arguments    \* what they may be called with: sequences of kinds

(* What the letters of a signature stand for. *)
Types == {"float", "int", "boolean", "string", "array"}

(* What a value can be; "NULL" is an element without a value. *)
Kinds == Types \cup {"void", "function", "NULL"}

ASSUME CFunctionAssumption == Signatures \subseteq Seq(Types) /\ Arguments \subseteq Seq(Kinds)

VARIABLES
  at,        \* where cfunction_call is
  params,    \* sig->param
  kinds,     \* of the elements of _args
  filled,    \* i: the parameters that have been converted
  slots,     \* args_data
  beyond     \* a text was written behind the end of args_data

cvars == <<at, params, kinds, filled, slots, beyond>>

Places == {"idle", "entered", "filling", "called", "returned", "refused", "crashed"}

(* A converted value (or a pointer to the characters or the array of the   *)
(* argument itself), the text of an argument, a pointer to another slot.   *)
Empty      == [holds |-> "nothing", number |-> 0]
Direct(i)  == [holds |-> "value", number |-> i]
Text(i)    == [holds |-> "text", number |-> i]
Pointer(j) == [holds |-> "pointer", number |-> j]

Slot == [holds : {"nothing", "value", "text", "pointer"}, number : Nat]

CTypeOK ==
  /\ at \in Places
  /\ params \in Seq(Types) /\ kinds \in Seq(Kinds)
  /\ filled \in 0..Len(params)
  /\ slots \in [0..Len(params) -> Slot]
  /\ beyond \in BOOLEAN

CInit ==
  /\ at = "idle" /\ params = <<>> /\ kinds = <<>> /\ filled = 0
  /\ slots = [k \in {0} |-> Empty] /\ beyond = FALSE

-----------------------------------------------------------------------------
Scalars == {"float", "int", "boolean"}

(* true and false have constant texts; the others are printed. *)
Fits(kind, type) ==
  \/ kind \in Scalars /\ type \in Scalars
  \/ kind \in {"boolean", "string"} /\ type = "string"
  \/ kind = "array" /\ type = "array"

NeedsText(kind, type) == kind \in {"float", "int", "array"} /\ type = "string"

(* Fault: the text goes to slot i, which holds the parameter before. *)
TextSlotBefore(i) == i

(* Fault: one more. *)
TextSlotAfter(i) == i + i + 1

(* args_data[i+i].tmp_str *)
TextSlot(i) == i + i

(* function_get_signature, function_ffi_args_plus_one *)
Enter(p, k) ==
  /\ at' = "entered" /\ params' = p /\ kinds' = k
  /\ filled' = 0 /\ slots' = [s \in 0..Len(p) |-> Empty] /\ beyond' = FALSE

(* An early return.  (Two more are never taken: ffi_prep_cif does not fail *)
(* for these types, and every caller passes an array.)                     *)
RefuseCall ==
  /\ at = "entered" /\ Len(kinds) # Len(params)
  /\ at' = "refused"
  /\ UNCHANGED <<params, kinds, filled, slots, beyond>>

Accept ==
  /\ at = "entered" /\ Len(kinds) = Len(params)
  /\ at' = "filling"
  /\ UNCHANGED <<params, kinds, filled, slots, beyond>>

-----------------------------------------------------------------------------
(* The loop over the parameters.                                           *)

More == at = "filling" /\ filled < Len(params)
Kind == kinds[filled + 1]
Type == params[filled + 1]

Fill ==
  /\ More /\ Fits(Kind, Type)
  /\ slots' = [slots EXCEPT ![filled + 1] = Direct(filled)]
  /\ filled' = filled + 1
  /\ UNCHANGED <<at, params, kinds, beyond>>

(* The text first, then the pointer to it.  Behind the slots is the stack  *)
(* of the application: what becomes of the text, and of what was there, is *)
(* undefined.  The function may find the text, and the application may     *)
(* come to harm (Natives).                                                 *)
FillText ==
  /\ More /\ NeedsText(Kind, Type)
  /\ LET j      == TextSlot(filled)
         inside == j <= Len(params)
         text   == IF inside THEN [slots EXCEPT ![j] = Text(filled)] ELSE slots
     IN slots' = [text EXCEPT ![filled + 1] = Pointer(j)] /\ beyond' = (beyond \/ ~inside)
  /\ filled' = filled + 1
  /\ UNCHANGED <<at, params, kinds>>

(* Can't convert parameter *)
RefuseArgument ==
  /\ More /\ Kind # "NULL" /\ ~Fits(Kind, Type) /\ ~NeedsText(Kind, Type)
  /\ at' = "refused"
  /\ UNCHANGED <<params, kinds, filled, slots, beyond>>

(* _args->data[i]->type *)
MeetNull ==
  /\ More /\ Kind = "NULL"
  /\ at' = "crashed"
  /\ UNCHANGED <<params, kinds, filled, slots, beyond>>

(* ffi_call: the function runs with what is in the slots. *)
CallC ==
  /\ at = "filling" /\ filled = Len(params)
  /\ at' = "called"
  /\ UNCHANGED <<params, kinds, filled, slots, beyond>>

ReturnC ==
  /\ at = "called"
  /\ at' = "returned"
  /\ UNCHANGED <<params, kinds, filled, slots, beyond>>

CStep == RefuseCall \/ Accept \/ Fill \/ FillText \/ RefuseArgument \/ MeetNull \/ CallC \/ ReturnC

Begin == at = "idle" /\ \E p \in Signatures, k \in Arguments : Enter(p, k)

CNext == Begin \/ CStep

CSpec == CInit /\ [][CNext]_cvars

-----------------------------------------------------------------------------
(* Properties                                                              *)

(* The function finds the k-th argument in its k-th parameter. *)
Arrives(k) ==
  \/ slots[k] = Direct(k - 1)
  \/ \E j \in 0..Len(params) : slots[k] = Pointer(j) /\ slots[j] = Text(k - 1)

Texts == {k \in 1..Len(params) : NeedsText(kinds[k], params[k])}

Behind(k) == 2 * (k - 1) > Len(params)

(* When the function of the application is called, every parameter is the  *)
(* argument in its place, except texts after the first parameter: those    *)
(* in a slot are lost without exception, whatever the signature            *)
(* (args_data[i+i]), and nothing is known of those behind the slots.       *)
Delivered ==
  at = "called" => \A k \in 1..Len(params) : ~(k \in Texts /\ Behind(k)) => (Arrives(k) <=> k \notin Texts \ {1})

(* The stack behind args_data is written to exactly when a text is needed  *)
(* in the second half of the parameters, after the second.                 *)
InBounds ==
  at = "called" => (beyond <=> \E k \in Texts : Behind(k))

-----------------------------------------------------------------------------
(* What has been converted, and is not touched again: an inductive         *)
(* invariant.                                                              *)

Converting == at \in {"filling", "called"}

Converted(k) ==
  IF k \in Texts THEN slots[k] = Pointer(2 * (k - 1)) ELSE slots[k] = Direct(k - 1)

CInv ==
  /\ CTypeOK
  /\ Converting =>
       /\ Len(kinds) = Len(params)
       /\ at = "called" => filled = Len(params)
       /\ \A k \in 1..filled : Converted(k)
       /\ filled > 0 /\ 1 \in Texts => slots[0] = Text(0)
       /\ beyond <=> \E k \in Texts : k <= filled /\ 2 * (k - 1) > Len(params)

=============================================================================
