-------------------------------- MODULE Wire --------------------------------
(***************************************************************************)
(* How one value goes through a pipe: write_value on one side, read_value  *)
(* (with limits and a time limit, in the host) or read_value_nolimit (in   *)
(* the child) on the other.  The reader's recursion is a stack of arrays.  *)
(*                                                                         *)
(* A token is what one write() puts into the pipe; it is small enough to   *)
(* arrive as a whole.  Numbers and characters are left out: a string is    *)
(* known by its length.  So is the check against INT_MAX: there is no room *)
(* for as many values.                                                     *)
(*                                                                         *)
(* A value is a tree: a function from the paths of the values in it to     *)
(* what each of them is.  The path of an element is that of its array,     *)
(* followed by its place in the array.                                     *)
(***************************************************************************)
EXTENDS Integers, Sequences, FiniteSets, SequencesExt, FiniteSetsExt

CONSTANTS
  Values,     \* the values that may be sent
  MAX_STRING_SIZE,
  MAX_ARRAY_SIZE

VARIABLES
  value,   \* the value being sent
  at,      \* the path of the part of it that write_value is about to write
  piece,   \* which of its tokens is next
  alive,   \* the writer is
  pipe,
  limited, \* the reader is read_value, not read_value_nolimit
  status,  \* of the reader: "reading", "done", "refused" or "lost"
  want,    \* what it is about to read
  stack,   \* the arrays it is inside of, the outermost first
  count,   \* *count
  result   \* what it has built so far, and returns when done

writer == <<value, at, piece, alive, limited>>
vars   == <<writer, pipe, status, want, stack, count, result>>

Void      == [type |-> "void"]
Function  == [type |-> "function"]
Scalar    == [type |-> "scalar"]      \* int32, float32, boolean
String(l) == [type |-> "string", length |-> l]
Array(l)  == [type |-> "array", length |-> l]

Label == {Void, Function, Scalar} \cup [type : {"string", "array"}, length : Nat]

(* How many elements something has. *)
Size(x) == IF x.type = "array" THEN x.length ELSE 0

Tree(v) ==
  /\ v \in [DOMAIN v -> Label]
  /\ IsFiniteSet(DOMAIN v) /\ DOMAIN v \subseteq Seq(Nat \ {0}) /\ <<>> \in DOMAIN v
  /\ \A p \in DOMAIN v : \A i \in 1..Size(v[p]) : Append(p, i) \in DOMAIN v
  /\ \A p \in DOMAIN v \ {<<>>} : Front(p) \in DOMAIN v /\ Last(p) \in 1..Size(v[Front(p)])

ASSUME WireAssumption ==
  /\ MAX_STRING_SIZE \in Nat \ {0} /\ MAX_ARRAY_SIZE \in Nat \ {0}
  /\ \A v \in Values : Tree(v)

NoPath == <<0>>

Init ==
  /\ value \in Values /\ at = <<>> /\ piece = 1 /\ alive = TRUE /\ pipe = <<>>
  /\ limited \in BOOLEAN
  /\ status = "reading" /\ want = "type" /\ stack = <<>> /\ count = 0 /\ result = <<>>

-----------------------------------------------------------------------------
(* The writer                                                              *)

(* What is written for a value, except for its elements. *)
Tokens(x) ==
  CASE x.type = "scalar" -> <<"scalar", x>>
    [] x.type = "string" -> IF x.length = 0 THEN <<"string", 0>> ELSE <<"string", x.length, x>>
    [] x.type = "array"  -> <<"array", x.length>>
    [] OTHER             -> <<x.type>>

(* The loops around a path, by their levels, that have elements left. *)
Unfinished(v, p) == {j \in 1..Len(p) : p[j] < Size(v[SubSeq(p, 1, j - 1)])}

(* When the elements of a value are written, the innermost of them goes on. *)
After(v, p) ==
  IF Unfinished(v, p) = {} THEN NoPath
  ELSE LET j == Max(Unfinished(v, p)) IN Append(SubSeq(p, 1, j - 1), p[j] + 1)

Following(v, p) == IF Size(v[p]) > 0 THEN Append(p, 1) ELSE After(v, p)

Write ==
  /\ alive /\ at # NoPath
  /\ pipe' = Append(pipe, Tokens(value[at])[piece])
  /\ IF piece < Len(Tokens(value[at]))
     THEN piece' = piece + 1 /\ UNCHANGED at
     ELSE piece' = 1 /\ at' = Following(value, at)
  /\ UNCHANGED <<value, alive, limited, status, want, stack, count, result>>

Dies ==
  /\ alive /\ alive' = FALSE
  /\ UNCHANGED <<value, at, piece, limited, pipe, status, want, stack, count, result>>

-----------------------------------------------------------------------------
(* The reader: _read_value, read_string                                    *)

(* The path of what is being read: each array is at its i-th element. *)
Here == [j \in DOMAIN stack |-> stack[j].i]

Takes(what) ==
  /\ status = "reading" /\ want = what /\ pipe # <<>>
  /\ pipe' = Tail(pipe)
  /\ UNCHANGED writer

(* Fault: the loop over the elements ends one too early. *)
CompleteEarly(array) == array.i + 1 >= array.length

Complete(array) == array.i = array.length

(* _read_value returns: to its caller, or to the loop of the last of the   *)
(* arrays s, which appends the element.                                    *)
Return(s) ==
  IF s = <<>>
  THEN status' = "done" /\ stack' = s /\ UNCHANGED want
  ELSE /\ stack' = [s EXCEPT ![Len(s)].i = @ + 1]
       /\ want' = IF Complete(Last(s)) THEN "end" ELSE "type"
       /\ UNCHANGED status

(* A value is made. *)
Make(x) == result' = [p \in DOMAIN result \cup {Here} |-> IF p = Here THEN x ELSE result[p]]

Go(next) == want' = next /\ UNCHANGED <<status, stack, result>>

(* NULL, all the way up.  What has not been read yet stays in the pipe. *)
Refuse == status' = "refused" /\ UNCHANGED <<want, stack, result>>

ReadType ==
  /\ Takes("type")
  /\ UNCHANGED count
  /\ \/ Head(pipe) = "void"     /\ Make(Void) /\ Return(stack)
     \/ Head(pipe) = "scalar"   /\ Go("bytes")
     \/ Head(pipe) = "string"   /\ Go("string length")
     \/ Head(pipe) = "array"    /\ Go("array length")
     \/ Head(pipe) = "function" /\ Refuse

ReadBytes ==
  /\ Takes("bytes")
  /\ UNCHANGED count
  /\ Make(Head(pipe)) /\ Return(stack)

TooLongString(length) == limited /\ length >= MAX_STRING_SIZE

ReadStringLength ==
  /\ Takes("string length")
  /\ UNCHANGED count
  /\ \/ TooLongString(Head(pipe)) /\ Refuse
     \/ /\ ~TooLongString(Head(pipe))
        /\ IF Head(pipe) = 0 THEN Make(String(0)) /\ Return(stack) ELSE Go("bytes")

(* Fault: what the arrays before this one hold is not counted. *)
TooLongAlone(length) == limited /\ length >= MAX_ARRAY_SIZE

(* Fault: an array counts as one of its own values. *)
TooLongWithSelf(length) == limited /\ length + 1 + count >= MAX_ARRAY_SIZE

TooLong(length) == limited /\ length + count >= MAX_ARRAY_SIZE

ReadArrayLength ==
  /\ Takes("array length")
  /\ UNCHANGED count
  /\ \/ TooLong(Head(pipe)) /\ Refuse
     \/ /\ ~TooLong(Head(pipe))
        /\ Make(Array(Head(pipe)))
        /\ stack' = Append(stack, [length |-> Head(pipe), i |-> 1])
        /\ want' = IF Head(pipe) = 0 THEN "end" ELSE "type"
        /\ UNCHANGED status

(* The array is complete; only now do its elements count. *)
EndArray ==
  /\ status = "reading" /\ want = "end"
  /\ count' = count + Last(stack).length
  /\ Return(Front(stack))
  /\ UNCHANGED <<writer, pipe, result>>

(* Fault: the end of the pipe is taken for a delay. *)
GivesUpOnTime ==
  /\ status = "reading" /\ want # "end" /\ pipe = <<>>
  /\ limited
  /\ status' = "lost"
  /\ UNCHANGED <<writer, pipe, want, stack, count, result>>

(* select timed out, or the pipe has ended. *)
GivesUp ==
  /\ status = "reading" /\ want # "end" /\ pipe = <<>>
  /\ limited \/ ~alive
  /\ status' = "lost"
  /\ UNCHANGED <<writer, pipe, want, stack, count, result>>

Reader ==
  ReadType \/ ReadBytes \/ ReadStringLength \/ ReadArrayLength \/ EndArray \/ GivesUp

Next == Write \/ Dies \/ Reader

Spec == Init /\ [][Next]_vars

(* The reader runs; the writer goes on until it is done or dies. *)
FairSpec == Spec /\ WF_vars(Reader) /\ WF_vars(Write)

-----------------------------------------------------------------------------
(* Properties                                                              *)

(* A received value is the value sent, and the pipe is at its end: the     *)
(* next header is where process_callbacks looks for it.                    *)
RoundTrip == status = "done" => result = value /\ pipe = <<>> /\ at = NoPath

(* How many values it contains, and how deep they are. *)
Total(v)  == Cardinality(DOMAIN v) - 1
Height(v) == Max({Len(p) : p \in DOMAIN v})

(* Neither functions nor long strings are in it. *)
Harmless(v) ==
  \A p \in DOMAIN v :
    v[p].type # "function" /\ (limited /\ v[p].type = "string" => v[p].length < MAX_STRING_SIZE)

(* The limits refuse nothing they need not: not a value that has fewer     *)
(* than MAX_ARRAY_SIZE values in all.                                      *)
RefusedForCause ==
  status = "refused" => ~Harmless(value) \/ (limited /\ Total(value) >= MAX_ARRAY_SIZE)

(* What the host builds in memory for a guest is limited, if by more than  *)
(* MAX_ARRAY_SIZE: arrays count only when they are complete, so each level *)
(* of nesting is limited by itself.                                        *)
Limited ==
  status = "done" /\ limited =>
    Harmless(value) /\ Total(value) <= Height(value) * (MAX_ARRAY_SIZE - 1)

(* Reading comes to an end, with or without a time limit. *)
ReadEnds == status = "reading" ~> status # "reading"

=============================================================================
