------------------------------- MODULE Trees --------------------------------
(***************************************************************************)
(* What values are to those who use them: trees without identity.  A clone *)
(* has the content of its original, and whatever is done to one value is   *)
(* not seen in another.  Void values have no clones: there is a NULL       *)
(* instead, and who destroys or clones an array that has one crashes.      *)
(***************************************************************************)
EXTENDS Naturals, Sequences, SequencesExt

CONSTANT Data

VARIABLES
  held,      \* the values in use, by their handles
  crashed

(* A tree is a function from the paths into it to what is there; an array  *)
(* has its elements one step further.                                      *)
Null      == [type |-> "null"]
Void      == [type |-> "void"]
Simple(d) == [type |-> "simple", data |-> d]
Array(n)  == [type |-> "array", length |-> n]

Leaf(x) == [p \in {<<>>} |-> x]

HasNull(v) == \E p \in DOMAIN v : v[p] = Null

Subtree(v, p) ==
  [q \in {SubSeq(r, Len(p) + 1, Len(r)) : r \in {r \in DOMAIN v : IsPrefix(p, r)}} |-> v[p \o q]]

CloneOf(v) == [p \in DOMAIN v |-> IF v[p] = Void THEN Null ELSE v[p]]

(* The array t with one more element. *)
Extended(t, v) ==
  LET n == t[<<>>].length + 1
  IN [p \in DOMAIN t \cup {<<n>> \o q : q \in DOMAIN v} |->
        IF p = <<>> THEN Array(n) ELSE IF p[1] = n THEN v[Tail(p)] ELSE t[p]]

Init == held = [h \in {} |-> Leaf(Null)] /\ crashed = FALSE

Holds(h, v) == held' = [x \in DOMAIN held \cup {h} |-> IF x = h THEN v ELSE held[x]]

New(h) == \E x \in {Void, Array(0)} \cup {Simple(d) : d \in Data} : Holds(h, Leaf(x))

Extend(a, v, H) ==
  /\ held[a][<<>>].type = "array"
  /\ held' = [x \in H |-> IF x = a THEN Extended(held[a], v) ELSE held[x]]

Give(a, h) == a # h /\ Extend(a, held[h], DOMAIN held \ {h})

Clone(h, src) ==
  \E p \in DOMAIN held[src] :
    LET v == Subtree(held[src], p)
    IN ~HasNull(v) /\ held[src][p] # Void /\ Holds(h, CloneOf(v))

Destroy(h) == ~HasNull(held[h]) /\ held' = [x \in DOMAIN held \ {h} |-> held[x]]

Crash == (\E h \in DOMAIN held : HasNull(held[h])) /\ crashed' = TRUE /\ UNCHANGED held

(* A handle comes into use, or goes out of use, or neither. *)
Work ==
  \/ \E h \in DOMAIN held' \ DOMAIN held : New(h) \/ (\E src \in DOMAIN held : Clone(h, src))
  \/ \E h \in DOMAIN held \ DOMAIN held' : Destroy(h) \/ (\E a \in DOMAIN held : Give(a, h))
  \/ \E a \in DOMAIN held : Extend(a, Leaf(Null), DOMAIN held)

Next == ~crashed /\ (Crash \/ (Work /\ UNCHANGED crashed))

Spec == Init /\ [][Next]_<<held, crashed>>

=============================================================================
