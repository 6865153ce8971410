------------------------------- MODULE Values -------------------------------
(***************************************************************************)
(* The values of function.c on the heap.  A value is a cell; an array also *)
(* has a vector of pointers to its elements, which grows as needed.        *)
(* Whoever makes a value owns it, and must either destroy it or append it  *)
(* to an array, which then owns it.  That is a convention: nothing in a    *)
(* cell says whose it is, and the memory of a destroyed value is used      *)
(* again.  The actions are the functions of function.c in the hands of     *)
(* callers that keep to it: interpreters, the proxy, the application.      *)
(*                                                                         *)
(* Numbers, booleans and strings are "simple" values with some content; a  *)
(* string and its characters are one cell.  A function value is, as far as *)
(* these operations go, like "void": value_clone has no case for either.   *)
(***************************************************************************)
EXTENDS Integers, Sequences, FiniteSets, Functions

CONSTANTS
  Cells,      \* places in memory
  Data,       \* what simple values may hold
  Nothing,    \* no data, no element: NULL
  Mask,       \* 3 in array_append: the first vector has room for 2 * Mask + 1
  MaxLength   \* bound: elements of an array

ASSUME ValuesAssumption ==
  /\ IsFiniteSet(Cells) /\ Nothing \notin Cells \cup Data
  /\ Mask \in Nat /\ MaxLength \in Nat

VARIABLES
  kind,      \* of each cell; "free" if it is not allocated
  content,   \* of a simple value
  items,     \* array->data, as far as array->length
  room,      \* internal->size
  owned,     \* the values that callers own
  crashed    \* a NULL was followed

heap == <<kind, content, items, room>>
vars == <<heap, owned, crashed>>

Kinds == {"void", "simple", "array"}

HeapTyped ==
  /\ kind \in [Cells -> Kinds \cup {"free"}]
  /\ content \in [Cells -> Data \cup {Nothing}]
  /\ items \in [Cells -> Seq(Cells \cup {Nothing})]
  /\ owned \subseteq Cells

TypeOK == HeapTyped /\ room \in [Cells -> Nat] /\ crashed \in BOOLEAN

Init ==
  /\ kind = [c \in Cells |-> "free"] /\ content = [c \in Cells |-> Nothing]
  /\ items = [c \in Cells |-> <<>>] /\ room = [c \in Cells |-> 0]
  /\ owned = {} /\ crashed = FALSE

-----------------------------------------------------------------------------
(* The elements of an array, and all that recursion from c comes to.       *)

Elements(c) == {x \in Cells : \E i \in DOMAIN items[c] : items[c][i] = x}

Closed(S) == \A c \in S : Elements(c) \subseteq S

Below(c) == {x \in Cells : \A S \in SUBSET Cells : c \in S /\ Closed(S) => x \in S}

MeetsNull(c) == \E x \in Below(c) : \E i \in DOMAIN items[x] : items[x][i] = Nothing

(* Recursion into a NULL element: v->destroy, src->type. *)
Crash == crashed' = TRUE /\ UNCHANGED <<heap, owned>>

-----------------------------------------------------------------------------
(* The value_new_... functions: calloc gives a cell that nobody uses.      *)

(* Fault: malloc in the place of calloc. *)
NewUncleared(k, d) ==
  \E c \in Cells :
    /\ kind[c] = "free"
    /\ kind' = [kind EXCEPT ![c] = k] /\ content' = [content EXCEPT ![c] = d]
    /\ owned' = owned \cup {c}
    /\ room' = [room EXCEPT ![c] = -1]
    /\ UNCHANGED <<items, crashed>>

New(k, d) ==
  \E c \in Cells :
    /\ kind[c] = "free"
    /\ kind' = [kind EXCEPT ![c] = k] /\ content' = [content EXCEPT ![c] = d]
    /\ owned' = owned \cup {c}
    /\ UNCHANGED <<items, room, crashed>>

NewSimple == \E d \in Data : New("simple", d)
NewOther  == \E k \in {"void", "array"} : New(k, Nothing)

(* Fault: the vector grows one append too late. *)
GrownLate(size, length) == IF size < length THEN 2 * (IF size < Mask THEN Mask ELSE size) + 1 ELSE size

(* size | 3 is 3 or size, because sizes are 0, 7, 15, 31, ... *)
Grown(size, length) ==
  IF size <= length THEN 2 * (IF size < Mask THEN Mask ELSE size) + 1 ELSE size

Push(a, x) ==
  /\ Len(items[a]) < MaxLength
  /\ items' = [items EXCEPT ![a] = Append(@, x)]
  /\ room' = [room EXCEPT ![a] = Grown(@, Len(items[a]))]
  /\ UNCHANGED <<kind, content, crashed>>

(* Fault: the caller goes on owning what it has appended. *)
AppendShared(a, v) ==
  /\ a # v /\ kind[a] = "array"
  /\ Push(a, v)
  /\ UNCHANGED owned

(* array_append: v belongs to the array from now on. *)
AppendOwned(a, v) ==
  /\ a # v /\ kind[a] = "array"
  /\ Push(a, v)
  /\ owned' = owned \ {v}

(* array_append of what value_clone or a conversion gave: NULL. *)
AppendNull(a) ==
  /\ kind[a] = "array"
  /\ Push(a, Nothing)
  /\ UNCHANGED owned

-----------------------------------------------------------------------------
(* value_clone makes an array by appending, so its vector grows as usual. *)
RoomFor(n) ==
  LET size[k \in Nat] == IF k = 0 THEN 0 ELSE Grown(size[k - 1], k - 1) IN size[n]

(* What is copied below src, and where an element is copied to. *)
Cloned(src) == {x \in Below(src) : kind[x] # "void"}

(* Fault: the elements of an array are shared with its clone. *)
ShallowTarget(f, x) == x

Target(f, x) == IF x \in DOMAIN f THEN f[x] ELSE Nothing

Copied(f, s) == [i \in DOMAIN s |-> Target(f, s[i])]

(* The heap with a copy of each x in the domain of f at f[x]. *)
Copies(f) ==
  LET of(y) == CHOOSE x \in DOMAIN f : f[x] = y
      new   == {f[x] : x \in DOMAIN f}
  IN /\ kind'    = [y \in Cells |-> IF y \in new THEN kind[of(y)] ELSE kind[y]]
     /\ content' = [y \in Cells |-> IF y \in new THEN content[of(y)] ELSE content[y]]
     /\ items'   = [y \in Cells |-> IF y \in new THEN Copied(f, items[of(y)]) ELSE items[y]]
     /\ room'    = [y \in Cells |-> IF y \in new THEN RoomFor(Len(items[of(y)])) ELSE room[y]]

(* value_clone(src), of any value that can be reached: it may be borrowed. *)
(* For a void value there is no copy, and nothing changes.                 *)
Clone(src) ==
  IF MeetsNull(src) THEN Crash
  ELSE /\ src \in Cloned(src)
       /\ \E f \in Injection(Cloned(src), {c \in Cells : kind[c] = "free"}) :
            Copies(f) /\ owned' = owned \cup {f[src]}
       /\ UNCHANGED crashed

(* Fault: value_destroy_array frees only the array. *)
Itself(c) == {c}

Destroyed(c) == Below(c)

Destroy(c) ==
  IF MeetsNull(c) THEN Crash
  ELSE LET Kept(old, none) == [x \in Cells |-> IF x \in Destroyed(c) THEN none ELSE old[x]]
       IN /\ kind' = Kept(kind, "free") /\ content' = Kept(content, Nothing)
          /\ items' = Kept(items, <<>>) /\ room' = Kept(room, 0)
          /\ owned' = owned \ {c}
          /\ UNCHANGED crashed

Next ==
  /\ ~crashed
  /\ \/ NewSimple \/ NewOther
     \/ \E a \in owned : AppendNull(a) \/ (\E v \in owned : AppendOwned(a, v))
     \/ \E c \in owned : Destroy(c) \/ (\E src \in Below(c) : Clone(src))

Spec == Init /\ [][Next]_vars

-----------------------------------------------------------------------------
(* Properties                                                              *)

(* No vector is too short: array_append never writes behind its end. *)
InRoom == \A c \in Cells : Len(items[c]) <= room[c]

Live(x) == kind[x] # "free"

(* Every pointer is the only one to its value, and the value is still      *)
(* there: nothing is used after it was destroyed, or destroyed twice.      *)
OwnedOnce ==
  /\ \A c \in owned : Live(c) /\ \A a \in Cells : c \notin Elements(a)
  /\ \A a \in Cells : \A x \in Elements(a) : Live(x)
  /\ \A a, b \in Cells : \A i \in DOMAIN items[a], j \in DOMAIN items[b] :
       items[a][i] = items[b][j] /\ items[a][i] # Nothing => a = b /\ i = j

(* Every value that is allocated can still be destroyed by somebody. *)
NoLeak == \A x \in Cells : Live(x) => \E c \in owned : x \in Below(c)

(* Only arrays have elements. *)
Clean == \A c \in Cells : kind[c] # "array" => items[c] = <<>>

(* Values form a forest, whose roots have owners: an inductive invariant. *)
IInv == HeapTyped /\ Clean /\ OwnedOnce /\ NoLeak

-----------------------------------------------------------------------------
(* What values mean.                                                       *)

(* The elements of an array, one step further than the array itself. *)
Onward(w) ==
  IF w.to = Nothing THEN {}
  ELSE {[path |-> Append(w.path, i), to |-> items[w.to][i]] : i \in DOMAIN items[w.to]}

(* Where the paths into c lead.  As nothing contains itself, none is       *)
(* longer than there are cells.                                            *)
Ways(c) ==
  LET upto[n \in Nat] ==
        IF n = 0 THEN {[path |-> <<>>, to |-> c]}
        ELSE UNION {{w} \cup Onward(w) : w \in upto[n - 1]}
  IN upto[Cardinality(Cells)]

Label(x) ==
  IF x = Nothing THEN [type |-> "null"]
  ELSE CASE kind[x] = "simple" -> [type |-> "simple", data |-> content[x]]
         [] kind[x] = "array"  -> [type |-> "array", length |-> Len(items[x])]
         [] OTHER              -> [type |-> kind[x]]

End(ways, p) == (CHOOSE w \in ways : w.path = p).to

Tree(c) == LET ways == Ways(c) IN [p \in {w.path : w \in ways} |-> Label(End(ways, p))]

Meaning == INSTANCE Trees WITH held <- [c \in owned |-> Tree(c)]

(* Values on the heap behave like trees: a clone has the content of its    *)
(* original (value_clone), appending and destroying one value changes no   *)
(* other, and only who meets a NULL element crashes.                       *)
AreTrees == Meaning!Spec

=============================================================================
