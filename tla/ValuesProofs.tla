---------------------------- MODULE ValuesProofs ----------------------------
(***************************************************************************)
(* Values stay a forest: what can be reached from a value has one pointer  *)
(* to each of its parts, and everything allocated can be reached from what *)
(* somebody owns.  The facts about reaching are stated for any vectors it, *)
(* so that they can be used before and after a step.  The last part shows  *)
(* that values behave like the trees of Trees.                             *)
(***************************************************************************)
EXTENDS Values, TLAPS, WellFoundedInduction, SequenceTheorems, FiniteSetTheorems

Kids(it, c) == {x \in Cells : \E i \in DOMAIN it[c] : it[c][i] = x}

Reach(it, c) ==
  {x \in Cells : \A S \in SUBSET Cells :
     c \in S /\ (\A y \in S : Kids(it, y) \subseteq S) => x \in S}

(* Below is Reach, now and in the next state. *)
LEMMA BelowIsReach ==
  /\ \A c : Elements(c) = Kids(items, c) /\ Below(c) = Reach(items, c)
  /\ \A c : Elements(c)' = Kids(items', c) /\ Below(c)' = Reach(items', c)
BY DEF Below, Closed, Elements, Reach, Kids

(* What is reached contains its origin, and the elements of its arrays. *)
LEMMA Reaching ==
  ASSUME NEW it, NEW c \in Cells
  PROVE  /\ c \in Reach(it, c) /\ Reach(it, c) \subseteq Cells
         /\ \A y \in Reach(it, c) : Kids(it, y) \subseteq Reach(it, c)
<1>1. ASSUME NEW y \in Reach(it, c), NEW x \in Kids(it, y)
      PROVE  x \in Reach(it, c)
  BY <1>1 DEF Reach, Kids
<1> QED
  BY <1>1 DEF Reach

(* It is the least such set. *)
LEMMA Least ==
  ASSUME NEW it, NEW c, NEW S \in SUBSET Cells,
         c \in S, \A y \in S : Kids(it, y) \subseteq S
  PROVE  Reach(it, c) \subseteq S
BY DEF Reach

(* All that is reached, but the origin, is an element of what is reached. *)
LEMMA Parent ==
  ASSUME NEW it, NEW c \in Cells, NEW x \in Reach(it, c), x # c
  PROVE  \E y \in Reach(it, c) : x \in Kids(it, y)
<1> SUFFICES ASSUME \A y \in Reach(it, c) : x \notin Kids(it, y) PROVE FALSE
  OBVIOUS
<1> DEFINE S == Reach(it, c) \ {x}
<1>1. c \in S /\ S \in SUBSET Cells
  BY Reaching
<1>2. \A y \in S : Kids(it, y) \subseteq S
  BY Reaching
<1> HIDE DEF S
<1>3. Reach(it, c) \subseteq S
  BY <1>1, <1>2, Least
<1> QED
  BY <1>3 DEF S

(* What is reached from something reached is reached. *)
LEMMA Transitive ==
  ASSUME NEW it, NEW c \in Cells, NEW x \in Reach(it, c)
  PROVE  Reach(it, x) \subseteq Reach(it, c)
BY Reaching, Least

(* Where elements are only added, nothing that was reached is lost. *)
LEMMA Growing ==
  ASSUME NEW it, NEW it2, NEW c \in Cells,
         \A y \in Reach(it, c) : Kids(it, y) \subseteq Kids(it2, y)
  PROVE  Reach(it, c) \subseteq Reach(it2, c)
<1> DEFINE S == Reach(it, c) \cap Reach(it2, c)
<1>1. c \in S /\ S \in SUBSET Cells
  BY Reaching
<1>2. \A y \in S : Kids(it, y) \subseteq S
  BY Reaching
<1> HIDE DEF S
<1>3. Reach(it, c) \subseteq S
  BY <1>1, <1>2, Least
<1> QED
  BY <1>3 DEF S

(* A root is no element, and no value is an element twice. *)
Root(it, c) == c \in Cells /\ \A y \in Cells : c \notin Kids(it, y)
Single(it)  == \A y, z \in Cells : Kids(it, y) \cap Kids(it, z) # {} => y = z

(* What is reached from two roots has nothing in common. *)
LEMMA Apart ==
  ASSUME NEW it, Single(it), NEW r, Root(it, r), NEW c, Root(it, c), r # c
  PROVE  Reach(it, r) \cap Reach(it, c) = {}
<1> DEFINE S == Cells \ Reach(it, r)
<1>1. c \in S /\ S \in SUBSET Cells
  BY Parent, Reaching DEF Root
<1>2. ASSUME NEW y \in S, NEW z \in Kids(it, y) PROVE z \in S
  <2>1. z \in Cells /\ z # r
    BY <1>2 DEF Root, Kids
  <2>2. ASSUME z \in Reach(it, r) PROVE FALSE
    <3>1. PICK w \in Reach(it, r) : z \in Kids(it, w)
      BY <2>1, <2>2, Parent DEF Root
    <3>2. w \in Cells /\ w = y
      BY <3>1, <1>2, Reaching DEF Root, Single
    <3> QED
      BY <3>1, <3>2
  <2> QED
    BY <2>1, <2>2
<1> HIDE DEF S
<1>3. Reach(it, c) \subseteq S
  BY <1>1, <1>2, Least
<1> QED
  BY <1>3 DEF S

(* Nothing that a root reaches contains itself. *)
LEMMA Acyclic ==
  ASSUME NEW it, Single(it), NEW r, Root(it, r), NEW c \in Reach(it, r),
         NEW x \in Reach(it, c), c \in Kids(it, x)
  PROVE  FALSE
<1> DEFINE T == Reach(it, r) \ Reach(it, c)
<1>1. c \in Cells /\ r \in Cells /\ x \in Cells /\ c # r
  BY Reaching DEF Root, Reach
<1>2. r \in T /\ T \in SUBSET Cells
  BY <1>1, Parent, Reaching DEF Root
<1>3. ASSUME NEW y \in T, NEW z \in Kids(it, y) PROVE z \in T
  <2>1. z \in Reach(it, r) /\ z \in Cells /\ y \in Cells
    BY <1>1, <1>3, Reaching
  <2>2. ASSUME z \in Reach(it, c) PROVE FALSE
    <3>1. PICK w \in Reach(it, c) : z \in Kids(it, w)
      BY <1>1, <2>2, Parent
    <3>2. w = y
      BY <1>1, <2>1, <3>1, <1>3, Reaching DEF Single
    <3> QED
      BY <3>1, <3>2
  <2> QED
    BY <2>1, <2>2
<1> HIDE DEF T
<1>4. Reach(it, r) \subseteq T
  BY <1>2, <1>3, Least
<1> QED
  BY <1>1, <1>4, Reaching DEF T

-----------------------------------------------------------------------------
(* Types                                                                   *)

(* Appending to a sequence. *)
LEMMA Appending ==
  ASSUME NEW T, NEW s \in Seq(T), NEW x \in T
  PROVE  /\ Append(s, x) \in Seq(T) /\ Len(s) \in Nat
         /\ DOMAIN s = 1..Len(s) /\ DOMAIN Append(s, x) = 1..Len(s) + 1
         /\ Append(s, x)[Len(s) + 1] = x
         /\ \A i \in 1..Len(s) : Append(s, x)[i] = s[i]
OBVIOUS

(* The initial state is well typed, and nothing is allocated in it. *)
LEMMA InitInvariant == Init => IInv
<1> SUFFICES ASSUME Init PROVE IInv
  OBVIOUS
<1>1. HeapTyped
  BY DEF Init, HeapTyped
<1>2. \A c \in Cells : Elements(c) = {} /\ DOMAIN items[c] = {}
  BY DEF Init, Elements
<1> QED
  BY <1>1, <1>2 DEF Init, IInv, Clean, OwnedOnce, NoLeak, Live

(* What an append changes: one more place. *)
LEMMA Pushing ==
  ASSUME HeapTyped, NEW a \in Cells, NEW x \in Cells \cup {Nothing}, Push(a, x)
  PROVE  /\ items' \in [Cells -> Seq(Cells \cup {Nothing})]
         /\ UNCHANGED <<kind, content, crashed>>
         /\ \A c \in Cells \ {a} : items'[c] = items[c]
         /\ Len(items[a]) \in Nat
         /\ DOMAIN items[a] = 1..Len(items[a]) /\ DOMAIN items'[a] = 1..Len(items[a]) + 1
         /\ items'[a][Len(items[a]) + 1] = x
         /\ \A i \in 1..Len(items[a]) : items'[a][i] = items[a][i]
<1> DEFINE T == Cells \cup {Nothing}
<1>1. items \in [Cells -> Seq(T)] /\ x \in T
  BY DEF HeapTyped
<1> HIDE DEF T
<1>2. items' = [items EXCEPT ![a] = Append(items[a], x)] /\ items[a] \in Seq(T)
  BY <1>1 DEF Push
<1>3. items'[a] = Append(items[a], x) /\ items' \in [Cells -> Seq(T)]
  BY <1>1, <1>2, Appending
<1>4. \A c \in Cells \ {a} : items'[c] = items[c]
  BY <1>1, <1>2
<1> QED
  BY <1>1, <1>2, <1>3, <1>4, Appending DEF T, Push

(* Every place there is after an append was there before, or is the new one. *)
LEMMA Pushed ==
  ASSUME HeapTyped, NEW a \in Cells, NEW x \in Cells \cup {Nothing}, Push(a, x),
         NEW e \in Cells, NEW k
  PROVE  k \in DOMAIN items'[e] <=>
           \/ k \in DOMAIN items[e] /\ items'[e][k] = items[e][k]
           \/ e = a /\ k = Len(items[a]) + 1 /\ items'[e][k] = x
<1>1. CASE e # a
  BY <1>1, Pushing
<1>2. CASE e = a
  <2>1. Len(items[a]) \in Nat /\ DOMAIN items[a] = 1..Len(items[a])
        /\ DOMAIN items'[a] = 1..Len(items[a]) + 1
    BY Pushing
  <2>2. k \in DOMAIN items'[a] <=> k \in DOMAIN items[a] \/ k = Len(items[a]) + 1
    BY <2>1
  <2>3. /\ items'[a][Len(items[a]) + 1] = x
        /\ \A i \in DOMAIN items[a] : items'[a][i] = items[a][i]
    BY Pushing
  <2> QED
    BY <1>2, <2>2, <2>3
<1> QED
  BY <1>1, <1>2

-----------------------------------------------------------------------------
(* The forest                                                              *)

(* OwnedOnce in terms of vectors: values in arrays are in one place only.  *)
LEMMA Forest ==
  ASSUME HeapTyped, OwnedOnce
  PROVE  /\ Single(items)
         /\ \A c \in owned : Root(items, c)
         /\ \A c \in owned : \A x \in Below(c) : Live(x)
<1>1. Single(items)
  BY ValuesAssumption DEF Single, Kids, OwnedOnce, HeapTyped
<1>2. \A c \in owned : Root(items, c)
  BY BelowIsReach DEF Root, OwnedOnce, HeapTyped
<1>3. ASSUME NEW c \in owned PROVE \A x \in Below(c) : Live(x)
  <2> DEFINE S == {x \in Cells : Live(x)}
  <2>1. c \in S /\ S \in SUBSET Cells /\ c \in Cells
    BY DEF OwnedOnce, HeapTyped
  <2>2. \A y \in S : Kids(items, y) \subseteq S
    BY BelowIsReach DEF OwnedOnce, Kids
  <2> HIDE DEF S
  <2>3. Reach(items, c) \subseteq S
    BY <2>1, <2>2, Least
  <2> QED
    BY <2>3, BelowIsReach DEF S
<1> QED
  BY <1>1, <1>2, <1>3

(* A new value is a root of its own. *)
LEMMA NewStep ==
  ASSUME IInv, NEW k \in Kinds, NEW d \in Data \cup {Nothing}, New(k, d)
  PROVE  IInv'
<1> USE DEF IInv
<1>1. PICK c \in Cells :
        /\ kind[c] = "free" /\ kind' = [kind EXCEPT ![c] = k]
        /\ content' = [content EXCEPT ![c] = d]
        /\ owned' = owned \cup {c} /\ items' = items
  BY DEF New
<1>2. HeapTyped'
  BY <1>1 DEF HeapTyped
<1>3. Clean'
  BY <1>1 DEF Clean, HeapTyped
<1>4. \A x : Elements(x)' = Elements(x) /\ Below(x)' = Below(x)
  BY <1>1, BelowIsReach
<1>5. OwnedOnce'
  <2>1. \A a \in Cells : c \notin Elements(a)
    BY <1>1 DEF OwnedOnce, Live
  <2>2. \A x \in Cells : Live(x) => Live(x)'
    BY <1>1 DEF Live, HeapTyped, Kinds
  <2>3. Live(c)'
    BY <1>1 DEF Live, HeapTyped, Kinds
  <2>4. \A x \in owned' : Live(x)' /\ \A a \in Cells : x \notin Elements(a)'
    BY <1>1, <1>4, <2>1, <2>2, <2>3 DEF OwnedOnce, HeapTyped
  <2>5. \A a \in Cells : \A x \in Elements(a)' : Live(x)'
    BY <1>4, <2>2 DEF OwnedOnce, Elements
  <2> QED
    BY <1>1, <2>4, <2>5 DEF OwnedOnce
<1>6. NoLeak'
  <2>1. c \in Below(c)
    BY BelowIsReach, Reaching
  <2>2. \A x \in Cells : Live(x)' => Live(x) \/ x = c
    BY <1>1 DEF Live, HeapTyped
  <2> QED
    BY <1>1, <1>4, <2>1, <2>2 DEF NoLeak
<1> QED
  BY <1>2, <1>3, <1>5, <1>6

(* An array that gets a value: what was reached from it still is. *)
LEMMA PushReach ==
  ASSUME HeapTyped, NEW a \in Cells, NEW x \in Cells \cup {Nothing}, Push(a, x)
  PROVE  /\ \A c \in Cells \ {a} : Elements(c)' = Elements(c)
         /\ Elements(a)' = Elements(a) \cup ({x} \cap Cells)
         /\ \A c \in Cells : Below(c) \subseteq Below(c)'
<1>1. \A c \in Cells \ {a} : Elements(c)' = Elements(c)
  BY Pushing DEF Elements
<1>2. Elements(a)' = Elements(a) \cup ({x} \cap Cells)
  <2>1. ASSUME NEW y \in Cells PROVE y \in Elements(a)' <=> y \in Elements(a) \/ y = x
    <3>1. ASSUME NEW k \in DOMAIN items'[a], items'[a][k] = y PROVE y \in Elements(a) \/ y = x
      BY <3>1, Pushed DEF Elements
    <3>2. ASSUME NEW k \in DOMAIN items[a], items[a][k] = y PROVE y \in Elements(a)'
      <4>1. DOMAIN items[a] = 1..Len(items[a]) /\ items'[a][k] = items[a][k]
        BY Pushing
      <4>2. k \in DOMAIN items'[a]
        BY <4>1, Pushed
      <4> QED
        BY <3>2, <4>1, <4>2 DEF Elements
    <3>3. y = x => y \in Elements(a)'
      <4> DEFINE n == Len(items[a]) + 1
      <4>1. items'[a][n] = x
        BY Pushing
      <4>2. n \in DOMAIN items'[a]
        BY <4>1, Pushed
      <4> QED
        BY <4>1, <4>2 DEF Elements
    <3> QED
      BY <3>1, <3>2, <3>3 DEF Elements
  <2> QED
    BY <2>1 DEF Elements
<1>3. ASSUME NEW c \in Cells PROVE Below(c) \subseteq Below(c)'
  <2>1. \A y \in Reach(items, c) : Kids(items, y) \subseteq Kids(items', y)
    BY <1>1, <1>2, BelowIsReach, Reaching
  <2> QED
    BY <2>1, Growing, BelowIsReach
<1> QED
  BY <1>1, <1>2, <1>3

(* array_append: the value was a root, and now has its one place. *)
LEMMA AppendStep ==
  ASSUME IInv, NEW a \in owned, NEW v \in owned, AppendOwned(a, v)
  PROVE  IInv'
<1> USE DEF IInv
<1>1. /\ a \in Cells /\ v \in Cells /\ a # v /\ kind[a] = "array"
      /\ Push(a, v) /\ owned' = owned \ {v}
  BY DEF AppendOwned, HeapTyped
<1>2. HeapTyped' /\ Clean'
  BY <1>1, Pushing DEF HeapTyped, Clean
<1>3. kind' = kind /\ \A x : Live(x)' <=> Live(x)
  BY <1>1, Pushing DEF Live
<1>4. /\ \A c \in Cells \ {a} : Elements(c)' = Elements(c)
      /\ Elements(a)' = Elements(a) \cup {v}
  BY <1>1, PushReach
<1>5. OwnedOnce'
  <2>1. \A x \in owned' : Live(x)' /\ \A b \in Cells : x \notin Elements(b)'
    BY <1>1, <1>3, <1>4 DEF OwnedOnce
  <2>2. \A b \in Cells : \A x \in Elements(b)' : Live(x)'
    BY <1>1, <1>3, <1>4 DEF OwnedOnce
  <2>3. ASSUME NEW b \in Cells, NEW c \in Cells, NEW i \in DOMAIN items'[b], NEW j \in DOMAIN items'[c],
               items'[b][i] = items'[c][j], items'[b][i] # Nothing
        PROVE  b = c /\ i = j
    <3> DEFINE Old(e, k) == k \in DOMAIN items[e] /\ items'[e][k] = items[e][k]
               Added(e, k) == e = a /\ k = Len(items[a]) + 1 /\ items'[e][k] = v
    <3>1. ASSUME NEW e \in Cells, NEW k \in DOMAIN items'[e] PROVE Old(e, k) \/ Added(e, k)
      BY <1>1, <3>1, Pushed
    <3>2. ASSUME NEW e \in Cells, NEW k \in DOMAIN items[e] PROVE items[e][k] # v
      BY <1>1, <3>2 DEF OwnedOnce, Elements
    <3>3. (Old(b, i) /\ Old(c, j)) \/ (Added(b, i) /\ Added(c, j))
      BY <2>3, <3>1, <3>2
    <3> QED
      BY <2>3, <3>3 DEF OwnedOnce
  <2> QED
    BY <2>1, <2>2, <2>3 DEF OwnedOnce
<1>6. NoLeak'
  <2> SUFFICES ASSUME NEW x \in Cells, Live(x) PROVE \E c \in owned' : x \in Below(c)'
    BY <1>3 DEF NoLeak
  <2>1. PICK r \in owned : x \in Below(r)
    BY DEF NoLeak
  <2>2. x \in Below(r)' /\ r \in Cells
    BY <1>1, <2>1, PushReach DEF HeapTyped
  <2>3. CASE r # v
    BY <1>1, <2>2, <2>3
  <2>4. CASE r = v
    <3>1. v \in Reach(items', a)
      BY <1>1, <1>4, Reaching, BelowIsReach
    <3>2. x \in Below(a)'
      BY <1>1, <2>2, <2>4, <3>1, Transitive, BelowIsReach
    <3> QED
      BY <1>1, <3>2
  <2> QED
    BY <2>3, <2>4
<1> QED
  BY <1>2, <1>5, <1>6

(* A NULL in an array is nobody's. *)
LEMMA NullStep ==
  ASSUME IInv, NEW a \in owned, AppendNull(a)
  PROVE  IInv'
<1> USE DEF IInv
<1>1. a \in Cells /\ kind[a] = "array" /\ Push(a, Nothing) /\ owned' = owned
  BY DEF AppendNull, HeapTyped
<1>2. HeapTyped' /\ Clean'
  BY <1>1, Pushing DEF HeapTyped, Clean
<1>3. kind' = kind /\ \A x : Live(x)' <=> Live(x)
  BY <1>1, Pushing DEF Live
<1>4. \A c \in Cells : Elements(c)' = Elements(c)
  BY <1>1, PushReach, ValuesAssumption
<1>5. OwnedOnce'
  <2>1. ASSUME NEW b \in Cells, NEW c \in Cells, NEW i \in DOMAIN items'[b], NEW j \in DOMAIN items'[c],
               items'[b][i] = items'[c][j], items'[b][i] # Nothing
        PROVE  b = c /\ i = j
    <3>1. ASSUME NEW e \in Cells, NEW k \in DOMAIN items'[e], items'[e][k] # Nothing
          PROVE  k \in DOMAIN items[e] /\ items'[e][k] = items[e][k]
      BY <1>1, <3>1, Pushed
    <3> QED
      BY <2>1, <3>1 DEF OwnedOnce
  <2>2. \A x \in owned' : Live(x)' /\ \A b \in Cells : x \notin Elements(b)'
    BY <1>1, <1>3, <1>4 DEF OwnedOnce
  <2>3. \A b \in Cells : \A x \in Elements(b)' : Live(x)'
    BY <1>3, <1>4 DEF OwnedOnce
  <2> QED
    BY <2>1, <2>2, <2>3 DEF OwnedOnce
<1>6. NoLeak'
  BY <1>1, <1>3, PushReach DEF NoLeak, HeapTyped
<1> QED
  BY <1>2, <1>5, <1>6

(* value_destroy: what it frees is a whole tree, and no other.  What stays *)
(* has the elements it had, and they stay too.                             *)
LEMMA DestroyStep ==
  ASSUME IInv, NEW c \in owned, ~MeetsNull(c), Destroy(c)
  PROVE  IInv'
<1> USE DEF IInv
<1>1. /\ c \in Cells /\ owned' = owned \ {c}
      /\ kind' = [x \in Cells |-> IF x \in Below(c) THEN "free" ELSE kind[x]]
      /\ content' = [x \in Cells |-> IF x \in Below(c) THEN Nothing ELSE content[x]]
      /\ items' = [x \in Cells |-> IF x \in Below(c) THEN <<>> ELSE items[x]]
  BY DEF Destroy, Destroyed, HeapTyped
<1>2. HeapTyped' /\ Clean'
  BY <1>1 DEF HeapTyped, Clean
<1>3. \A x \in Cells : Live(x)' <=> Live(x) /\ x \notin Below(c)
  BY <1>1 DEF Live
<1>4. \A x \in Cells : Elements(x)' = IF x \in Below(c) THEN {} ELSE Elements(x)
  BY <1>1 DEF Elements
<1>5. ASSUME NEW r \in owned' PROVE r \in Cells /\ Below(r) \cap Below(c) = {} /\ r \notin Below(c)
  <2>1. Below(r) \cap Below(c) = {} /\ r \in Cells
    BY <1>1, Forest, Apart, BelowIsReach DEF HeapTyped
  <2> QED
    BY <2>1, Reaching, BelowIsReach
<1>6. ASSUME NEW a \in Cells, a \notin Below(c), NEW x \in Elements(a) PROVE x \notin Below(c)
  <2>1. x # c /\ x \in Cells
    BY <1>1, <1>6 DEF OwnedOnce, Elements
  <2>2. ASSUME x \in Below(c) PROVE FALSE
    <3>1. PICK y \in Below(c) : x \in Elements(y)
      BY <1>1, <2>1, <2>2, Parent, BelowIsReach
    <3>2. y \in Cells /\ y = a
      BY <1>1, <1>6, <3>1, Reaching, Forest, BelowIsReach DEF Single
    <3> QED
      BY <1>6, <3>1, <3>2
  <2> QED
    BY <2>2
<1>7. OwnedOnce'
  <2>1. \A x \in owned' : Live(x)' /\ \A b \in Cells : x \notin Elements(b)'
    BY <1>1, <1>3, <1>4, <1>5 DEF OwnedOnce
  <2>2. \A b \in Cells : \A x \in Elements(b)' : Live(x)'
    BY <1>3, <1>4, <1>6 DEF OwnedOnce, Elements
  <2>3. \A a, b \in Cells : \A i \in DOMAIN items'[a], j \in DOMAIN items'[b] :
          items'[a][i] = items'[b][j] /\ items'[a][i] # Nothing => a = b /\ i = j
    BY <1>1 DEF OwnedOnce
  <2> QED
    BY <2>1, <2>2, <2>3 DEF OwnedOnce
<1>8. NoLeak'
  <2> SUFFICES ASSUME NEW x \in Cells, Live(x), x \notin Below(c) PROVE \E r \in owned' : x \in Below(r)'
    BY <1>3 DEF NoLeak
  <2>1. PICK r \in owned : x \in Below(r)
    BY DEF NoLeak
  <2>2. r \in owned' /\ r \in Cells
    BY <1>1, <2>1 DEF HeapTyped
  <2>3. \A y \in Reach(items, r) : Kids(items, y) \subseteq Kids(items', y)
    BY <1>4, <1>5, <2>2, Reaching, BelowIsReach
  <2>4. Below(r) \subseteq Below(r)'
    BY <2>2, <2>3, Growing, BelowIsReach
  <2> QED
    BY <2>1, <2>2, <2>4
<1> QED
  BY <1>2, <1>7, <1>8

-----------------------------------------------------------------------------
(* Clones                                                                  *)

(* What the copies contain, and that all else is as it was. *)
LEMMA Copying ==
  ASSUME NEW D \in SUBSET Cells, NEW f \in Injection(D, {c \in Cells : kind[c] = "free"}),
         Copies(f)
  PROVE  /\ DOMAIN f = D
         /\ \A x \in D : /\ f[x] \in Cells /\ kind[f[x]] = "free"
                         /\ kind'[f[x]] = kind[x] /\ content'[f[x]] = content[x]
                         /\ items'[f[x]] = Copied(f, items[x])
         /\ \A x, y \in D : f[x] = f[y] => x = y
         /\ \A y \in Cells : (\A x \in D : f[x] # y) =>
              kind'[y] = kind[y] /\ content'[y] = content[y] /\ items'[y] = items[y]
         /\ DOMAIN kind' = Cells /\ DOMAIN content' = Cells /\ DOMAIN items' = Cells
<1> DEFINE of(y) == CHOOSE x \in D : f[x] = y
           new   == {f[x] : x \in D}
<1>1. /\ DOMAIN f = D /\ f \in [D -> Cells]
      /\ \A x \in D : kind[f[x]] = "free"
      /\ \A x, y \in D : f[x] = f[y] => x = y
  BY DEF Injection, IsInjective
<1>2. /\ kind'    = [y \in Cells |-> IF y \in new THEN kind[of(y)] ELSE kind[y]]
      /\ content' = [y \in Cells |-> IF y \in new THEN content[of(y)] ELSE content[y]]
      /\ items'   = [y \in Cells |-> IF y \in new THEN Copied(f, items[of(y)]) ELSE items[y]]
  BY <1>1 DEF Copies
<1>3. ASSUME NEW x \in D PROVE f[x] \in new /\ of(f[x]) = x
  BY <1>1
<1>4. ASSUME NEW y \in Cells, \A x \in D : f[x] # y PROVE y \notin new
  BY <1>4
<1> HIDE DEF of, new
<1>5. ASSUME NEW x \in D
      PROVE  /\ kind'[f[x]] = kind[x] /\ content'[f[x]] = content[x]
             /\ items'[f[x]] = Copied(f, items[x])
  <2>1. f[x] \in Cells /\ f[x] \in new /\ of(f[x]) = x
    BY <1>1, <1>3
  <2> QED
    BY <1>2, <2>1
<1>6. ASSUME NEW y \in Cells, \A x \in D : f[x] # y
      PROVE  kind'[y] = kind[y] /\ content'[y] = content[y] /\ items'[y] = items[y]
  BY <1>2, <1>4, <1>6
<1>7. DOMAIN kind' = Cells /\ DOMAIN content' = Cells /\ DOMAIN items' = Cells
  BY <1>2
<1> QED
  BY <1>1, <1>5, <1>6, <1>7

(* The copy of a vector is a vector, and has a pointer where there was one *)
(* to something that is copied.                                            *)
LEMMA CopiedVector ==
  ASSUME HeapTyped, NEW f, DOMAIN f \subseteq Cells, \A x \in DOMAIN f : f[x] \in Cells,
         NEW x \in Cells
  PROVE  /\ Copied(f, items[x]) \in Seq(Cells \cup {Nothing})
         /\ items[x] = <<>> => Copied(f, items[x]) = <<>>
         /\ DOMAIN Copied(f, items[x]) = DOMAIN items[x]
         /\ \A i \in DOMAIN items[x] :
              Copied(f, items[x])[i] =
                IF items[x][i] \in DOMAIN f THEN f[items[x][i]] ELSE Nothing
<1> DEFINE T == Cells \cup {Nothing}
           s == Copied(f, items[x])
<1>1. items[x] \in Seq(T) /\ DOMAIN items[x] = 1..Len(items[x]) /\ Len(items[x]) \in Nat
  BY DEF HeapTyped
<1>2. \A y : Target(f, y) \in T
  BY DEF Target
<1> HIDE DEF T
<1>3. s \in Seq(T)
  BY <1>1, <1>2 DEF Copied
<1>4. items[x] = <<>> => s = <<>>
  BY <1>1, <1>3 DEF Copied
<1>5. \A i \in DOMAIN s :
        s[i] = IF items[x][i] \in DOMAIN f THEN f[items[x][i]] ELSE Nothing
  BY DEF Target, Copied
<1> QED
  BY <1>3, <1>4, <1>5 DEF T, Copied

(* value_clone: the copy is a tree of its own, in cells that were free.    *)
LEMMA CloneStep ==
  ASSUME IInv, NEW c \in owned, NEW src \in Below(c), ~MeetsNull(src), Clone(src)
  PROVE  IInv'
<1> USE DEF IInv
<1> DEFINE D == Cloned(src)
<1>1. PICK f \in Injection(D, {y \in Cells : kind[y] = "free"}) :
        Copies(f) /\ owned' = owned \cup {f[src]}
  BY DEF Clone
<1> DEFINE Old(y) == \A x \in D : f[x] # y
<1>2. /\ src \in D /\ src \in Cells /\ c \in Cells
      /\ D \subseteq Below(src) /\ Below(src) \subseteq Below(c) /\ Below(src) \subseteq Cells
      /\ D \subseteq Cells
  <2>1. c \in Cells /\ src \in Cells /\ src \in D
    BY BelowIsReach, Reaching DEF HeapTyped, Clone, Below
  <2> QED
    BY <2>1, Transitive, Reaching, BelowIsReach DEF Cloned
<1>3. /\ DOMAIN f = D
      /\ \A x \in D : /\ f[x] \in Cells /\ kind[f[x]] = "free"
                      /\ kind'[f[x]] = kind[x] /\ content'[f[x]] = content[x]
                      /\ items'[f[x]] = Copied(f, items[x])
      /\ \A x, y \in D : f[x] = f[y] => x = y
      /\ \A y \in Cells : Old(y) =>
           kind'[y] = kind[y] /\ content'[y] = content[y] /\ items'[y] = items[y]
      /\ DOMAIN kind' = Cells /\ DOMAIN content' = Cells /\ DOMAIN items' = Cells
  BY <1>1, <1>2, Copying
<1> HIDE DEF D
<1>4. ASSUME NEW x \in D
      PROVE  /\ items'[f[x]] \in Seq(Cells \cup {Nothing})
             /\ items[x] = <<>> => items'[f[x]] = <<>>
             /\ DOMAIN items'[f[x]] = DOMAIN items[x]
             /\ \A i \in DOMAIN items[x] :
                  items'[f[x]][i] = IF items[x][i] \in D THEN f[items[x][i]] ELSE Nothing
  BY <1>2, <1>3, CopiedVector
<1>5. ASSUME NEW y \in Cells PROVE Old(y) \/ \E x \in D : y = f[x]
  OBVIOUS
<1>6. HeapTyped'
  <2>1. \A y \in Cells : kind'[y] \in Kinds \cup {"free"} /\ content'[y] \in Data \cup {Nothing}
    BY <1>2, <1>3, <1>5 DEF HeapTyped
  <2>2. \A y \in Cells : items'[y] \in Seq(Cells \cup {Nothing})
    BY <1>3, <1>4, <1>5 DEF HeapTyped
  <2>3. owned' \subseteq Cells
    BY <1>1, <1>2, <1>3 DEF HeapTyped
  <2>4. /\ kind' = [y \in Cells |-> kind'[y]] /\ content' = [y \in Cells |-> content'[y]]
        /\ items' = [y \in Cells |-> items'[y]]
    BY <1>1 DEF Copies
  <2> QED
    BY <2>1, <2>2, <2>3, <2>4 DEF HeapTyped
<1>7. Clean'
  BY <1>2, <1>3, <1>4, <1>5 DEF Clean
<1>8. ASSUME NEW y \in Cells, NEW w \in Cells
      PROVE  w \in Elements(y)' <=>
               \/ Old(y) /\ w \in Elements(y)
               \/ \E x, z \in D : y = f[x] /\ w = f[z] /\ z \in Elements(x)
  <2>1. CASE Old(y)
    BY <1>3, <2>1 DEF Elements
  <2>2. CASE \E x \in D : y = f[x]
    <3>1. PICK x \in D : y = f[x]
      BY <2>2
    <3>2. ASSUME w \in Elements(y)' PROVE \E z \in D : w = f[z] /\ z \in Elements(x)
      <4>1. PICK i \in DOMAIN items[x] : items'[f[x]][i] = w
        BY <1>4, <3>1, <3>2 DEF Elements
      <4>2. items[x][i] \in D /\ w = f[items[x][i]]
        BY <1>4, <4>1, ValuesAssumption
      <4> QED
        BY <1>2, <4>2 DEF Elements
    <3>3. ASSUME NEW z \in D, w = f[z], z \in Elements(x) PROVE w \in Elements(y)'
      <4>1. PICK i \in DOMAIN items[x] : items[x][i] = z
        BY <3>3 DEF Elements
      <4>2. i \in DOMAIN items'[y] /\ items'[y][i] = w
        BY <1>4, <3>1, <3>3, <4>1
      <4> QED
        BY <4>2 DEF Elements
    <3> QED
      BY <1>3, <3>1, <3>2, <3>3
  <2> QED
    BY <1>5, <2>1, <2>2
<1>9. \A x \in D : Live(x) /\ Live(f[x])' /\ ~Live(f[x])
  BY <1>2, <1>3, Forest DEF Live
<1>10. \A y \in Cells : Live(y) => Old(y) /\ Live(y)'
  BY <1>3, <1>9 DEF Live
<1>11. OwnedOnce'
  <2>1. ASSUME NEW o \in owned, NEW a \in Cells PROVE Live(o)' /\ o \notin Elements(a)'
    <3>1. o \in Cells /\ Live(o) /\ o \notin Elements(a)
      BY DEF HeapTyped, OwnedOnce
    <3> QED
      BY <1>8, <1>10, <3>1
  <2>2. ASSUME NEW a \in Cells PROVE Live(f[src])' /\ f[src] \notin Elements(a)'
    <3>1. f[src] \notin Elements(a)
      BY <1>2, <1>9 DEF OwnedOnce
    <3>2. ASSUME NEW x \in D, NEW z \in D, f[src] = f[z], z \in Elements(x) PROVE FALSE
      <4>1. x \in Reach(items, src) /\ src \in Kids(items, x)
        BY <1>2, <1>3, <3>2, BelowIsReach
      <4>2. Single(items) /\ Root(items, c) /\ src \in Reach(items, c)
        BY Forest, BelowIsReach
      <4> QED
        BY <4>1, <4>2, Acyclic
    <3> QED
      BY <1>2, <1>3, <1>8, <1>9, <3>1, <3>2
  <2>3. ASSUME NEW a \in Cells, NEW x \in Elements(a)' PROVE Live(x)'
    <3>1. x \in Cells
      BY <2>3 DEF Elements
    <3> QED
      BY <1>8, <1>9, <1>10, <2>3, <3>1 DEF OwnedOnce
  <2>4. ASSUME NEW a \in Cells, NEW i \in DOMAIN items'[a], items'[a][i] # Nothing
        PROVE  \/ /\ Old(a) /\ i \in DOMAIN items[a] /\ items'[a][i] = items[a][i]
                  /\ items[a][i] \in Cells /\ Live(items[a][i])
               \/ \E x \in D : /\ a = f[x] /\ i \in DOMAIN items[x] /\ items[x][i] \in D
                               /\ items'[a][i] = f[items[x][i]]
    <3>1. CASE Old(a)
      <4>1. i \in DOMAIN items[a] /\ items'[a][i] = items[a][i] /\ items[a][i] \in Cells
        BY <1>3, <2>4, <3>1 DEF HeapTyped
      <4>2. Live(items[a][i])
        BY <4>1 DEF OwnedOnce, Elements
      <4> QED
        BY <3>1, <4>1, <4>2
    <3>2. CASE \E x \in D : a = f[x]
      BY <1>4, <2>4, <3>2
    <3> QED
      BY <1>5, <3>1, <3>2
  <2>5. ASSUME NEW a \in Cells, NEW b \in Cells, NEW i \in DOMAIN items'[a], NEW j \in DOMAIN items'[b],
               items'[a][i] = items'[b][j], items'[a][i] # Nothing
        PROVE  a = b /\ i = j
    <3>1. CASE Old(a) /\ Old(b)
      BY <1>3, <2>5, <3>1 DEF OwnedOnce
    <3>2. CASE ~Old(a) /\ ~Old(b)
      <4>1. PICK x \in D : /\ a = f[x] /\ i \in DOMAIN items[x] /\ items[x][i] \in D
                          /\ items'[a][i] = f[items[x][i]]
        BY <2>4, <2>5, <3>2
      <4>2. PICK y \in D : /\ b = f[y] /\ j \in DOMAIN items[y] /\ items[y][j] \in D
                          /\ items'[b][j] = f[items[y][j]]
        BY <2>4, <2>5, <3>2
      <4>3. items[x][i] = items[y][j] /\ items[x][i] # Nothing
        BY <1>2, <1>3, <2>5, <4>1, <4>2, ValuesAssumption
      <4>4. x = y /\ i = j
        BY <1>2, <4>1, <4>2, <4>3 DEF OwnedOnce
      <4> QED
        BY <4>1, <4>2, <4>4
    <3>3. CASE Old(a) /\ ~Old(b)
      BY <1>9, <2>4, <2>5, <3>3
    <3>4. CASE ~Old(a) /\ Old(b)
      BY <1>9, <2>4, <2>5, <3>4
    <3> QED
      BY <3>1, <3>2, <3>3, <3>4
  <2> HIDE DEF Old
  <2>6. \A x \in owned' : Live(x)' /\ \A a \in Cells : x \notin Elements(a)'
    BY <1>1, <1>2, <2>1, <2>2
  <2> QED
    BY <2>3, <2>5, <2>6 DEF OwnedOnce
<1>12. NoLeak'
  <2>1. ASSUME NEW y \in Cells, Live(y) PROVE \E r \in owned' : y \in Below(r)'
    <3>1. PICK r \in owned : y \in Below(r)
      BY <2>1 DEF NoLeak
    <3>2. r \in Cells /\ r \in owned'
      BY <1>1, <3>1 DEF HeapTyped
    <3>3. \A z \in Reach(items, r) : Kids(items, z) \subseteq Kids(items', z)
      <4>1. \A z \in Reach(items, r) : z \in Cells /\ Old(z)
        BY <1>10, <3>1, <3>2, Forest, Reaching, BelowIsReach
      <4> QED
        BY <1>3, <4>1 DEF Kids
    <3> QED
      BY <3>1, <3>2, <3>3, Growing, BelowIsReach
  <2>2. ASSUME NEW x \in D PROVE f[x] \in Below(f[src])'
    <3> DEFINE S == {z \in Below(src) : z \in D => f[z] \in Below(f[src])'}
    <3>1. src \in S /\ S \in SUBSET Cells
      BY <1>2, <1>3, Reaching, BelowIsReach
    <3>2. ASSUME NEW z \in S, NEW w \in Kids(items, z) PROVE w \in S
      <4>1. w \in Below(src) /\ w \in Elements(z) /\ z \in Cells
        BY <1>2, <3>2, Reaching, BelowIsReach
      <4>2. z \in D
        BY <4>1 DEF D, Cloned, Clean, Elements
      <4>3. f[z] \in Reach(items', f[src])
        BY <4>2, BelowIsReach
      <4>4. ASSUME w \in D PROVE f[w] \in Kids(items', f[z])
        BY <1>3, <1>8, <4>1, <4>2, <4>4, BelowIsReach
      <4>5. f[src] \in Cells
        BY <1>2, <1>3
      <4>6. w \in D => f[w] \in Below(f[src])'
        BY <4>3, <4>4, <4>5, Reaching, BelowIsReach
      <4> QED
        BY <4>1, <4>6
    <3> HIDE DEF S
    <3>3. Reach(items, src) \subseteq S
      BY <3>1, <3>2, Least
    <3> QED
      BY <1>2, <3>3, BelowIsReach DEF S
  <2>3. f[src] \in owned'
    BY <1>1
  <2>4. ASSUME NEW y \in Cells, Live(y)' PROVE \E r \in owned' : y \in Below(r)'
    <3>1. CASE Old(y)
      BY <1>3, <2>1, <2>4, <3>1 DEF Live
    <3>2. CASE \E x \in D : y = f[x]
      BY <2>2, <2>3, <3>2
    <3> QED
      BY <1>5, <3>1, <3>2
  <2> QED
    BY <2>4 DEF NoLeak
<1> QED
  BY <1>6, <1>7, <1>11, <1>12

-----------------------------------------------------------------------------
(* Where the heap and the owners are unchanged, so is the invariant. *)
LEMMA SameHeap == IInv /\ UNCHANGED <<kind, content, items, owned>> => IInv'
<1> SUFFICES ASSUME IInv, UNCHANGED <<kind, content, items, owned>> PROVE IInv'
  OBVIOUS
<1>1. \A x : Elements(x)' = Elements(x) /\ Below(x)' = Below(x) /\ (Live(x)' <=> Live(x))
  BY BelowIsReach DEF Live
<1> QED
  BY <1>1 DEF IInv, HeapTyped, Clean, OwnedOnce, NoLeak

(* Every step keeps values a forest whose roots have owners. *)
LEMMA NextInvariant == IInv /\ [Next]_vars => IInv'
<1> SUFFICES ASSUME IInv, [Next]_vars PROVE IInv'
  OBVIOUS
<1>1. CASE UNCHANGED vars
  BY <1>1, SameHeap DEF vars, heap
<1>2. CASE NewSimple
  <2>1. PICK d \in Data : New("simple", d)
    BY <1>2 DEF NewSimple
  <2> QED
    BY <2>1, NewStep DEF Kinds
<1>3. CASE NewOther
  <2>1. PICK k \in {"void", "array"} : New(k, Nothing)
    BY <1>3 DEF NewOther
  <2> QED
    BY <2>1, NewStep DEF Kinds
<1>4. ASSUME NEW a \in owned, AppendNull(a) PROVE IInv'
  BY <1>4, NullStep
<1>5. ASSUME NEW a \in owned, NEW v \in owned, AppendOwned(a, v) PROVE IInv'
  BY <1>5, AppendStep
<1>6. CASE Crash
  BY <1>6, SameHeap DEF Crash, heap
<1>7. ASSUME NEW c \in owned, Destroy(c) PROVE IInv'
  <2>1. CASE MeetsNull(c)
    BY <1>6, <1>7, <2>1 DEF Destroy
  <2>2. CASE ~MeetsNull(c)
    BY <1>7, <2>2, DestroyStep
  <2> QED
    BY <2>1, <2>2
<1>8. ASSUME NEW c \in owned, NEW src \in Below(c), Clone(src) PROVE IInv'
  <2>1. CASE MeetsNull(src)
    BY <1>6, <1>8, <2>1 DEF Clone
  <2>2. CASE ~MeetsNull(src)
    BY <1>8, <2>2, CloneStep
  <2> QED
    BY <2>1, <2>2
<1> QED
  BY <1>1, <1>2, <1>3, <1>4, <1>5, <1>7, <1>8 DEF Next

(* Values are a forest, whose roots are what the callers of function.c own. *)
THEOREM Invariance == Spec => []IInv
<1> QED
  BY InitInvariant, NextInvariant, PTL DEF Spec

(* However many values there are, and however they are nested, every       *)
(* pointer to a value is the only one and its value is still there: no     *)
(* value_destroy frees twice or leaves an array with a freed element.      *)
THEOREM NothingFreedInUse == Spec => []OwnedOnce
<1>1. IInv => OwnedOnce
  BY DEF IInv
<1> QED
  BY <1>1, Invariance, PTL

(* Whatever is allocated can be reached from a value that somebody owns,   *)
(* and is freed by a value_destroy of it.                                  *)
THEOREM NothingLost == Spec => []NoLeak
<1>1. IInv => NoLeak
  BY DEF IInv
<1> QED
  BY <1>1, Invariance, PTL

-----------------------------------------------------------------------------
(* Recursion                                                               *)

(* A set of natural numbers has a least element. *)
LEMMA NatMin ==
  ASSUME NEW T, T \subseteq Nat, T # {}
  PROVE  \E n \in T : \A m \in T : n <= m
<1>1. IsWellFoundedOn(OpToRel(<, Nat), Nat)
  BY NatLessThanWellFounded
<1>2. PICK n \in T : \A m \in T : ~ (<<m, n>> \in OpToRel(<, Nat))
  BY <1>1, WFMin
<1>3. \A m \in T : ~(m < n)
  BY <1>2 DEF OpToRel
<1> QED
  BY <1>3

(* What holds of 0 and of whatever follows holds of all natural numbers. *)
LEMMA NatInduct ==
  ASSUME NEW T, 0 \in T, \A n \in Nat : n \in T => n + 1 \in T
  PROVE  Nat \subseteq T
<1> DEFINE U == Nat \ T
<1> SUFFICES ASSUME U # {} PROVE FALSE
  OBVIOUS
<1>1. PICK n \in U : \A m \in U : n <= m
  <2> U \subseteq Nat
    OBVIOUS
  <2> HIDE DEF U
  <2> QED BY NatMin
<1>2. n # 0 /\ n - 1 \in Nat /\ n - 1 \notin U
  BY <1>1
<1> QED
  BY <1>1, <1>2

Defines(f, S, f0, G) == f \in [Nat -> S] /\ f[0] = f0 /\ \A n \in Nat : f[n + 1] = G[<<f[n], n>>]

(* The first n values of that function. *)
Starts(g, n, S, f0, G) ==
  g \in [0..n -> S] /\ g[0] = f0 /\ \A i \in 0..n : i # n => g[i + 1] = G[<<g[i], i>>]

LEMMA Longer ==
  ASSUME NEW S, NEW f0, NEW G \in [S \X Nat -> S], NEW n \in Nat, NEW g, Starts(g, n, S, f0, G)
  PROVE  \E h : Starts(h, n + 1, S, f0, G)
<1>1. g[n] \in S /\ G[<<g[n], n>>] \in S
  BY DEF Starts
<1> DEFINE h == [i \in 0..n + 1 |-> IF i = n + 1 THEN G[<<g[n], n>>] ELSE g[i]]
<1>2. h \in [0..n + 1 -> S]
  BY <1>1 DEF Starts
<1>3. h[0] = f0
  BY DEF Starts
<1>4. ASSUME NEW i \in 0..n + 1, i # n + 1 PROVE h[i + 1] = G[<<h[i], i>>]
  <2>1. h[i] = g[i]
    BY <1>4
  <2>2. CASE i = n
    <3>1. h[n + 1] = G[<<g[n], n>>]
      OBVIOUS
    <3> QED
      BY <2>1, <2>2, <3>1
  <2>3. CASE i # n
    <3>1. i \in 0..n /\ i + 1 \in 0..n
      BY <1>4, <2>3
    <3> QED
      BY <2>1, <2>3, <3>1 DEF Starts
  <2> QED
    BY <2>2, <2>3
<1> HIDE DEF h
<1> QED
  BY <1>2, <1>3, <1>4 DEF Starts

LEMMA Agree ==
  ASSUME NEW S, NEW f0, NEW G, NEW n \in Nat, NEW m \in Nat, NEW g, NEW h,
         Starts(g, n, S, f0, G), Starts(h, m, S, f0, G), n <= m
  PROVE  g[n] = h[n]
<1> DEFINE Same == {i \in Nat : i <= n => g[i] = h[i]}
<1>1. 0 \in Same
  BY DEF Starts
<1>2. ASSUME NEW i \in Nat, i \in Same PROVE i + 1 \in Same
  <2>1. CASE i + 1 <= n
    <3>1. g[i] = h[i] /\ i \in 0..n /\ i # n /\ i \in 0..m /\ i # m
      BY <1>2, <2>1
    <3>2. g[i + 1] = G[<<g[i], i>>] /\ h[i + 1] = G[<<h[i], i>>]
      BY <3>1 DEF Starts
    <3> QED
      BY <3>1, <3>2
  <2> QED
    BY <2>1
<1> HIDE DEF Same
<1>3. n \in Same
  BY <1>1, <1>2, NatInduct
<1> QED
  BY <1>3 DEF Same

(* Recursion over the natural numbers defines a function. *)
LEMMA Recursion ==
  ASSUME NEW S, NEW f0 \in S, NEW G \in [S \X Nat -> S]
  PROVE  \E f : Defines(f, S, f0, G)
<1> DEFINE Has == {n \in Nat : \E g : Starts(g, n, S, f0, G)}
<1>1. 0 \in Has
  <2> DEFINE g == [i \in 0..0 |-> f0]
  <2>1. Starts(g, 0, S, f0, G)
    BY DEF Starts
  <2> HIDE DEF g
  <2> QED
    BY <2>1
<1>2. ASSUME NEW n \in Nat, n \in Has PROVE n + 1 \in Has
  BY <1>2, Longer
<1> HIDE DEF Has
<1>3. Nat \subseteq Has
  BY <1>1, <1>2, NatInduct
<1> DEFINE at(n) == CHOOSE g : Starts(g, n, S, f0, G)
           f == [n \in Nat |-> at(n)[n]]
<1>4. ASSUME NEW n \in Nat PROVE Starts(at(n), n, S, f0, G)
  BY <1>3 DEF Has
<1> HIDE DEF at
<1>5. f \in [Nat -> S]
  BY <1>4 DEF Starts
<1>6. f[0] = f0
  BY <1>4 DEF Starts
<1>7. ASSUME NEW n \in Nat PROVE f[n + 1] = G[<<f[n], n>>]
  <2>1. f[n] = at(n + 1)[n]
    <3>1. Starts(at(n), n, S, f0, G) /\ Starts(at(n + 1), n + 1, S, f0, G)
      BY <1>4
    <3> QED
      BY <3>1, Agree
  <2>2. at(n + 1)[n + 1] = G[<<at(n + 1)[n], n>>]
    <3>1. Starts(at(n + 1), n + 1, S, f0, G)
      BY <1>4
    <3> QED
      BY <3>1 DEF Starts
  <2> QED
    BY <2>1, <2>2
<1> HIDE DEF f
<1> QED
  BY <1>5, <1>6, <1>7 DEF Defines

-----------------------------------------------------------------------------
(* Room                                                                    *)

(* Growing never shrinks a vector, and makes room for one more element. *)
LEMMA Growth ==
  ASSUME NEW size \in Nat, NEW length \in Nat, length <= size
  PROVE  Grown(size, length) \in Nat /\ length < Grown(size, length) /\ size <= Grown(size, length)
BY ValuesAssumption DEF Grown

(* The recursion of RoomFor is well founded. *)
LEMMA RoomDefined ==
  \E f : f = [k \in Nat |-> IF k = 0 THEN 0 ELSE Grown(f[k - 1], k - 1)]
<1> DEFINE G == [x \in Nat \X Nat |-> Grown(x[1], x[2])]
<1>1. G \in [Nat \X Nat -> Nat]
  BY ValuesAssumption DEF Grown
<1>2. \A s, n \in Nat : G[<<s, n>>] = Grown(s, n)
  OBVIOUS
<1> HIDE DEF G
<1>3. PICK f : Defines(f, Nat, 0, G)
  BY <1>1, Recursion
<1>4. ASSUME NEW k \in Nat PROVE f[k] = IF k = 0 THEN 0 ELSE Grown(f[k - 1], k - 1)
  <2>1. CASE k = 0
    BY <1>3, <2>1 DEF Defines
  <2>2. CASE k # 0
    <3> DEFINE m == k - 1
    <3>1. m \in Nat /\ k = m + 1
      BY <2>2
    <3> HIDE DEF m
    <3>2. f[m + 1] = G[<<f[m], m>>] /\ f[m] \in Nat
      BY <1>3, <3>1 DEF Defines
    <3>3. f[k] = Grown(f[m], m)
      BY <1>2, <3>1, <3>2
    <3> QED
      BY <2>2, <3>3 DEF m
  <2> QED
    BY <2>1, <2>2
<1>5. f = [k \in Nat |-> f[k]]
  BY <1>3 DEF Defines
<1>6. f = [k \in Nat |-> IF k = 0 THEN 0 ELSE Grown(f[k - 1], k - 1)]
  BY <1>4, <1>5
<1> QED
  BY <1>6

(* A vector made by n appends has room for n elements. *)
LEMMA RoomEnough == ASSUME NEW n \in Nat PROVE RoomFor(n) \in Nat /\ n <= RoomFor(n)
<1> DEFINE size == CHOOSE f : f = [k \in Nat |-> IF k = 0 THEN 0 ELSE Grown(f[k - 1], k - 1)]
<1>1. size = [k \in Nat |-> IF k = 0 THEN 0 ELSE Grown(size[k - 1], k - 1)]
  BY RoomDefined
<1>2. RoomFor(n) = size[n]
  BY DEF RoomFor
<1> HIDE DEF size
<1> DEFINE T == {k \in Nat : size[k] \in Nat /\ k <= size[k]}
<1>3. 0 \in T
  BY <1>1
<1>4. ASSUME NEW k \in Nat, k \in T PROVE k + 1 \in T
  <2>1. size[k + 1] = Grown(size[k], k)
    BY <1>1
  <2> QED
    BY <1>4, <2>1, Growth
<1> HIDE DEF T
<1>5. n \in T
  BY <1>3, <1>4, NatInduct
<1> QED
  BY <1>2, <1>5 DEF T

(* What the forest says nothing about: how large the vectors are. *)
RoomInv == room \in [Cells -> Nat] /\ crashed \in BOOLEAN /\ InRoom

(* The lengths of vectors. *)
LEMMA Lengths == ASSUME HeapTyped, NEW c \in Cells PROVE Len(items[c]) \in Nat
BY DEF HeapTyped

(* array_append grows the vector before the last room is used. *)
LEMMA RoomPush ==
  ASSUME HeapTyped, RoomInv, NEW a \in Cells, NEW x \in Cells \cup {Nothing}, Push(a, x)
  PROVE  RoomInv'
<1>1. room' = [room EXCEPT ![a] = Grown(room[a], Len(items[a]))] /\ crashed' = crashed
  BY DEF Push, RoomInv
<1>2. Len(items[a]) \in Nat /\ room[a] \in Nat /\ Len(items[a]) <= room[a]
  BY Lengths DEF RoomInv, InRoom
<1>3. Grown(room[a], Len(items[a])) \in Nat /\ Len(items[a]) < Grown(room[a], Len(items[a]))
  BY <1>2, Growth
<1>4. Len(items'[a]) = Len(items[a]) + 1 /\ \A c \in Cells \ {a} : items'[c] = items[c]
  <2>1. items'[a] \in Seq(Cells \cup {Nothing}) /\ DOMAIN items'[a] = 1..Len(items[a]) + 1
    BY Pushing
  <2> QED
    BY <1>2, <2>1, Pushing
<1>5. room' \in [Cells -> Nat]
  BY <1>1, <1>3 DEF RoomInv
<1>6. ASSUME NEW c \in Cells PROVE Len(items'[c]) <= room'[c]
  BY <1>1, <1>2, <1>3, <1>4 DEF RoomInv, InRoom
<1> QED
  BY <1>1, <1>5, <1>6 DEF RoomInv, InRoom

(* The vectors of a copy are as large as n appends make them. *)
LEMMA CopyingRoom ==
  ASSUME NEW D \in SUBSET Cells, NEW f \in Injection(D, {c \in Cells : kind[c] = "free"}),
         Copies(f)
  PROVE  /\ \A x \in D : room'[f[x]] = RoomFor(Len(items[x]))
         /\ \A y \in Cells : (\A x \in D : f[x] # y) => room'[y] = room[y]
         /\ room' = [y \in Cells |-> room'[y]]
<1> DEFINE of(y) == CHOOSE x \in D : f[x] = y
           new   == {f[x] : x \in D}
<1>1. DOMAIN f = D /\ f \in [D -> Cells] /\ \A x, y \in D : f[x] = f[y] => x = y
  BY DEF Injection, IsInjective
<1>2. room' = [y \in Cells |-> IF y \in new THEN RoomFor(Len(items[of(y)])) ELSE room[y]]
  BY <1>1 DEF Copies
<1>3. ASSUME NEW x \in D PROVE f[x] \in Cells /\ f[x] \in new /\ of(f[x]) = x
  BY <1>1
<1>4. ASSUME NEW y \in Cells, \A x \in D : f[x] # y PROVE y \notin new
  BY <1>4
<1> HIDE DEF of, new
<1> QED
  BY <1>2, <1>3, <1>4

(* value_clone appends the elements of the copy one by one. *)
LEMMA RoomClone ==
  ASSUME IInv, RoomInv, NEW c \in owned, NEW src \in Below(c), ~MeetsNull(src), Clone(src)
  PROVE  RoomInv'
<1> DEFINE D == Cloned(src)
<1>1. PICK f \in Injection(D, {y \in Cells : kind[y] = "free"}) : Copies(f)
  BY DEF Clone
<1>2. D \in SUBSET Cells
  BY DEF Cloned, Below
<1>3. HeapTyped /\ crashed' = crashed
  BY DEF IInv, Clone
<1> HIDE DEF D
<1>4. /\ DOMAIN f = D
      /\ \A x \in D : f[x] \in Cells /\ items'[f[x]] = Copied(f, items[x])
      /\ \A y \in Cells : (\A x \in D : f[x] # y) => items'[y] = items[y]
  BY <1>1, <1>2, Copying
<1>5. /\ \A x \in D : room'[f[x]] = RoomFor(Len(items[x]))
      /\ \A y \in Cells : (\A x \in D : f[x] # y) => room'[y] = room[y]
      /\ room' = [y \in Cells |-> room'[y]]
  BY <1>1, <1>2, CopyingRoom
<1>6. ASSUME NEW y \in Cells PROVE room'[y] \in Nat /\ Len(items'[y]) <= room'[y]
  <2>1. CASE \E x \in D : f[x] = y
    <3>1. PICK x \in D : f[x] = y
      BY <2>1
    <3>2. x \in Cells /\ Len(items[x]) \in Nat
      BY <1>2, <1>3, Lengths
    <3>3. Copied(f, items[x]) \in Seq(Cells \cup {Nothing})
          /\ DOMAIN Copied(f, items[x]) = DOMAIN items[x]
      BY <1>2, <1>3, <1>4, <3>2, CopiedVector
    <3>4. items[x] \in Seq(Cells \cup {Nothing})
      BY <1>3, <3>2 DEF HeapTyped
    <3>5. Len(items'[y]) = Len(items[x]) /\ room'[y] = RoomFor(Len(items[x]))
      BY <1>4, <1>5, <3>1, <3>3, <3>4
    <3> QED
      BY <3>2, <3>5, RoomEnough
  <2>2. CASE \A x \in D : f[x] # y
    BY <1>4, <1>5, <2>2 DEF RoomInv, InRoom
  <2> QED
    BY <2>1, <2>2
<1> QED
  BY <1>3, <1>5, <1>6 DEF RoomInv, InRoom

(* No step leaves a vector too short. *)
LEMMA NextRoom == IInv /\ RoomInv /\ [Next]_vars => RoomInv'
<1> SUFFICES ASSUME IInv, RoomInv, [Next]_vars PROVE RoomInv'
  OBVIOUS
<1>1. HeapTyped /\ \A c \in owned : c \in Cells
  BY DEF IInv, HeapTyped
<1>2. ASSUME UNCHANGED <<items, room>>, crashed' \in BOOLEAN PROVE RoomInv'
  BY <1>2 DEF RoomInv, InRoom
<1>3. CASE UNCHANGED vars
  BY <1>2, <1>3 DEF vars, heap, RoomInv
<1>4. CASE NewSimple \/ NewOther
  BY <1>2, <1>4 DEF NewSimple, NewOther, New, RoomInv
<1>5. CASE Crash
  BY <1>2, <1>5 DEF Crash, heap
<1>6. ASSUME NEW a \in owned, AppendNull(a) PROVE RoomInv'
  BY <1>1, <1>6, RoomPush DEF AppendNull
<1>7. ASSUME NEW a \in owned, NEW v \in owned, AppendOwned(a, v) PROVE RoomInv'
  BY <1>1, <1>7, RoomPush DEF AppendOwned
<1>8. ASSUME NEW c \in owned, Destroy(c) PROVE RoomInv'
  <2>1. CASE MeetsNull(c)
    BY <1>5, <1>8, <2>1 DEF Destroy
  <2>2. CASE ~MeetsNull(c)
    <3>1. /\ items' = [x \in Cells |-> IF x \in Destroyed(c) THEN <<>> ELSE items[x]]
          /\ room' = [x \in Cells |-> IF x \in Destroyed(c) THEN 0 ELSE room[x]]
          /\ crashed' = crashed
      BY <1>8, <2>2 DEF Destroy
    <3> QED
      BY <3>1 DEF RoomInv, InRoom
  <2> QED
    BY <2>1, <2>2
<1>9. ASSUME NEW c \in owned, NEW src \in Below(c), Clone(src) PROVE RoomInv'
  <2>1. CASE MeetsNull(src)
    BY <1>5, <1>9, <2>1 DEF Clone
  <2>2. CASE ~MeetsNull(src)
    BY <1>9, <2>2, RoomClone
  <2> QED
    BY <2>1, <2>2
<1> QED
  BY <1>3, <1>4, <1>6, <1>7, <1>8, <1>9 DEF Next

(* Forest and room together. *)
LEMMA RoomInvariance == Spec => [](IInv /\ RoomInv)
<1>1. ASSUME Init PROVE RoomInv
  <2>1. \A c \in Cells : Len(items[c]) = 0 /\ room[c] = 0
    BY <1>1 DEF Init
  <2>2. InRoom
    BY <2>1 DEF InRoom
  <2>3. room \in [Cells -> Nat]
    BY <1>1 DEF Init
  <2>4. crashed \in BOOLEAN
    BY <1>1 DEF Init
  <2> QED
    BY <2>2, <2>3, <2>4 DEF RoomInv
<1> QED
  BY <1>1, InitInvariant, NextInvariant, NextRoom, PTL DEF Spec

(* Cells, vectors and their sizes keep their types: sizes stay natural     *)
(* numbers, also those that value_clone makes by appending.                *)
THEOREM TypeCorrect == Spec => []TypeOK
<1>1. IInv /\ RoomInv => TypeOK
  BY DEF IInv, RoomInv, TypeOK
<1> QED
  BY <1>1, RoomInvariance, PTL

(* However an array came to its elements, by array_append or by            *)
(* value_clone, its vector is as long as they are: no append writes behind *)
(* the end of the allocation.                                              *)
THEOREM NothingBehind == Spec => []InRoom
<1>1. RoomInv => InRoom
  BY DEF RoomInv
<1> QED
  BY <1>1, RoomInvariance, PTL

-----------------------------------------------------------------------------
(* Paths and maps.  A map says what is at the end of each path from a      *)
(* value.  The tree of a value is what one map of it means, and there is   *)
(* only one: so every step on the heap is shown by the map it makes of     *)
(* the maps before it.                                                     *)

Path == Seq(Nat)

(* One step further. *)
LEMMA Steps ==
  ASSUME NEW q \in Path, NEW i \in Nat
  PROVE  /\ Append(q, i) \in Path /\ Len(q) \in Nat /\ Len(Append(q, i)) = Len(q) + 1
         /\ Append(q, i)[Len(q) + 1] = i
         /\ \A k \in 1..Len(q) : Append(q, i)[k] = q[k]
         /\ Append(q, i) # <<>>
BY DEF Path

(* A path tells its last step. *)
LEMMA SameStep ==
  ASSUME NEW q \in Path, NEW r \in Path, NEW i \in Nat, NEW j \in Nat, Append(q, i) = Append(r, j)
  PROVE  q = r /\ i = j
BY AppendInjective DEF Path

(* The path to a value itself. *)
LEMMA NoStep == <<>> \in Path /\ Len(<<>>) = 0 /\ \A p \in Path : Len(p) = 0 => p = <<>>
BY EmptySeq DEF Path

(* What a vector may have in it. *)
Things == Cells \cup {Nothing}

Vectors(it) == it \in [Cells -> Seq(Things)]

(* What is in a vector. *)
LEMMA Indices ==
  ASSUME NEW it, Vectors(it), NEW x \in Things, x # Nothing, NEW i \in DOMAIN it[x]
  PROVE  x \in Cells /\ i \in Nat /\ i # 0 /\ it[x][i] \in Things
<1>1. x \in Cells /\ it[x] \in Seq(Things)
  BY DEF Things, Vectors
<1> QED
  BY <1>1, LenProperties, ElementOfSeq

(* f tells what is at the end of each path from c. *)
MapOf(it, f, c) ==
  /\ f = [p \in DOMAIN f |-> f[p]] /\ DOMAIN f \subseteq Path
  /\ <<>> \in DOMAIN f /\ f[<<>>] = c
  /\ \A q \in DOMAIN f : f[q] \in Things
  /\ \A q \in DOMAIN f : f[q] # Nothing =>
       \A i \in DOMAIN it[f[q]] : Append(q, i) \in DOMAIN f /\ f[Append(q, i)] = it[f[q]][i]
  /\ \A p \in DOMAIN f : p # <<>> =>
       \E q \in DOMAIN f : f[q] # Nothing /\ \E i \in DOMAIN it[f[q]] : p = Append(q, i)

(* What holds at the origin, and one step further than wherever it holds, *)
(* holds everywhere.                                                      *)
LEMMA PathInduct ==
  ASSUME NEW it, Vectors(it), NEW f, NEW c, MapOf(it, f, c), NEW S, <<>> \in S,
         \A q \in DOMAIN f : q \in S /\ f[q] # Nothing => \A i \in DOMAIN it[f[q]] : Append(q, i) \in S
  PROVE  DOMAIN f \subseteq S
<1> DEFINE T == {n \in Nat : \A p \in DOMAIN f : Len(p) = n => p \in S}
<1>1. 0 \in T
  BY NoStep DEF MapOf
<1>2. ASSUME NEW n \in Nat, n \in T PROVE n + 1 \in T
  <2> SUFFICES ASSUME NEW p \in DOMAIN f, Len(p) = n + 1 PROVE p \in S
    OBVIOUS
  <2>1. p # <<>>
    BY NoStep
  <2>9. PICK q \in DOMAIN f : f[q] # Nothing /\ \E i \in DOMAIN it[f[q]] : p = Append(q, i)
    BY <2>1 DEF MapOf
  <2>2. PICK i \in DOMAIN it[f[q]] : p = Append(q, i)
    BY <2>9
  <2>3. q \in Path /\ i \in Nat
    BY <2>9, Indices DEF MapOf
  <2>4. Len(q) = n
    BY <2>2, <2>3, Steps
  <2> QED
    BY <1>2, <2>2, <2>4, <2>9
<1> HIDE DEF T
<1>3. Nat \subseteq T
  BY <1>1, <1>2, NatInduct
<1>4. \A p \in DOMAIN f : Len(p) \in Nat
  BY LenProperties DEF MapOf, Path
<1> QED
  BY <1>3, <1>4 DEF T

(* There is one such map. *)
LEMMA SameMap ==
  ASSUME NEW it, Vectors(it), NEW c, NEW f, MapOf(it, f, c), NEW g, MapOf(it, g, c)
  PROVE  f = g
<1>1. ASSUME NEW h, NEW k, MapOf(it, h, c), MapOf(it, k, c)
      PROVE  DOMAIN h \subseteq DOMAIN k /\ \A p \in DOMAIN h : h[p] = k[p]
  <2> DEFINE S == {p \in DOMAIN k : h[p] = k[p]}
  <2>1. <<>> \in S
    BY <1>1 DEF MapOf
  <2>2. \A q \in DOMAIN h : q \in S /\ h[q] # Nothing => \A i \in DOMAIN it[h[q]] : Append(q, i) \in S
    BY <1>1 DEF MapOf
  <2> HIDE DEF S
  <2>3. DOMAIN h \subseteq S
    BY <1>1, <2>1, <2>2, PathInduct
  <2> QED
    BY <2>3 DEF S
<1>2. DOMAIN f = DOMAIN g /\ \A p \in DOMAIN f : f[p] = g[p]
  BY <1>1
<1> QED
  BY <1>2 DEF MapOf

(* It shows what is reached, and nothing else but NULL. *)
LEMMA MapShows ==
  ASSUME NEW it, Vectors(it), NEW c \in Cells, NEW f, MapOf(it, f, c)
  PROVE  /\ \A p \in DOMAIN f : f[p] # Nothing => f[p] \in Reach(it, c)
         /\ \A x \in Reach(it, c) : \E p \in DOMAIN f : f[p] = x
<1>1. \A p \in DOMAIN f : f[p] # Nothing => f[p] \in Reach(it, c)
  <2> DEFINE S == {p \in DOMAIN f : f[p] # Nothing => f[p] \in Reach(it, c)}
  <2>1. <<>> \in S
    BY Reaching DEF MapOf
  <2>2. ASSUME NEW q \in DOMAIN f, q \in S, f[q] # Nothing, NEW i \in DOMAIN it[f[q]]
        PROVE  Append(q, i) \in S
    <3>1. f[q] \in Reach(it, c) /\ Append(q, i) \in DOMAIN f /\ f[Append(q, i)] = it[f[q]][i]
          /\ f[Append(q, i)] \in Things
      BY <2>2 DEF MapOf
    <3>2. ASSUME it[f[q]][i] # Nothing PROVE it[f[q]][i] \in Kids(it, f[q])
      BY <3>1, <3>2 DEF Kids, Things
    <3> QED
      BY <3>1, <3>2, Reaching
  <2> HIDE DEF S
  <2>3. DOMAIN f \subseteq S
    BY <2>1, <2>2, PathInduct
  <2> QED
    BY <2>3 DEF S
<1>2. \A x \in Reach(it, c) : \E p \in DOMAIN f : f[p] = x
  <2> DEFINE S == {x \in Cells : \E p \in DOMAIN f : f[p] = x}
  <2>1. c \in S /\ S \in SUBSET Cells
    BY DEF MapOf
  <2>2. \A y \in S : Kids(it, y) \subseteq S
    <3> SUFFICES ASSUME NEW y \in S, NEW x \in Kids(it, y) PROVE x \in S
      OBVIOUS
    <3>1. PICK p \in DOMAIN f : f[p] = y
      OBVIOUS
    <3>2. PICK i \in DOMAIN it[y] : it[y][i] = x
      BY DEF Kids
    <3>3. y # Nothing /\ x \in Cells
      BY ValuesAssumption DEF Kids
    <3> QED
      BY <3>1, <3>2, <3>3 DEF MapOf
  <2> HIDE DEF S
  <2>3. Reach(it, c) \subseteq S
    BY <2>1, <2>2, Least
  <2> QED
    BY <2>3 DEF S
<1> QED
  BY <1>1, <1>2

-----------------------------------------------------------------------------
(* The things along a path. *)
Trail(it, c, p, t) ==
  /\ t \in [0..Len(p) -> Things] /\ t[0] = c
  /\ \A k \in 1..Len(p) : t[k - 1] # Nothing /\ p[k] \in DOMAIN it[t[k - 1]] /\ t[k] = it[t[k - 1]][p[k]]

(* The trails of no step and of one step more. *)
LEMMA NoTrail == ASSUME NEW it, NEW c \in Things PROVE Trail(it, c, <<>>, [k \in 0..0 |-> c])
BY NoStep DEF Trail

LEMMA FurtherTrail ==
  ASSUME NEW it, Vectors(it), NEW c, NEW p \in Path, NEW t, Trail(it, c, p, t),
         NEW y, t[Len(p)] = y, y # Nothing, NEW i \in DOMAIN it[y]
  PROVE  \E u : Trail(it, c, Append(p, i), u) /\ u[Len(Append(p, i))] = it[y][i]
<1> DEFINE n == Len(p)
           x == it[t[n]][i]
           u == [k \in 0..n + 1 |-> IF k = n + 1 THEN x ELSE t[k]]
<1>1. n \in Nat /\ n \in 0..n /\ t[n] \in Things
  BY LenProperties DEF Path, Trail
<1>2. i \in Nat /\ x \in Things
  BY <1>1, Indices
<1>3. /\ Len(Append(p, i)) = n + 1 /\ Append(p, i)[n + 1] = i
      /\ \A k \in 1..n : Append(p, i)[k] = p[k]
  BY <1>2, Steps
<1> HIDE DEF n
<1>4. u \in [0..n + 1 -> Things]
  BY <1>1, <1>2 DEF Trail, n
<1>5. u[0] = c /\ u[n + 1] = x /\ \A k \in 0..n : u[k] = t[k]
  BY <1>1 DEF Trail
<1>6. ASSUME NEW k \in 1..n + 1
      PROVE  u[k - 1] # Nothing /\ Append(p, i)[k] \in DOMAIN it[u[k - 1]] /\ u[k] = it[u[k - 1]][Append(p, i)[k]]
  <2>1. CASE k = n + 1
    <3>1. k - 1 = n /\ u[k - 1] = t[n]
      BY <1>1, <1>5, <2>1
    <3> QED
      BY <1>3, <1>5, <2>1, <3>1 DEF n
  <2>2. CASE k # n + 1
    <3>1. k \in 1..n /\ k \in 0..n /\ k - 1 \in 0..n
      BY <1>1, <2>2
    <3>2. u[k - 1] = t[k - 1] /\ u[k] = t[k] /\ Append(p, i)[k] = p[k]
      BY <1>3, <1>5, <3>1
    <3>3. t[k - 1] # Nothing /\ p[k] \in DOMAIN it[t[k - 1]] /\ t[k] = it[t[k - 1]][p[k]]
      BY <3>1 DEF Trail, n
    <3> QED
      BY <3>2, <3>3
  <2> QED
    BY <2>1, <2>2
<1> HIDE DEF u
<1>7. Trail(it, c, Append(p, i), u)
  BY <1>3, <1>4, <1>5, <1>6 DEF Trail
<1> QED
  BY <1>3, <1>5, <1>7 DEF n

(* A path leads to one place. *)
LEMMA OneTrail ==
  ASSUME NEW it, NEW c, NEW p \in Path, NEW t, Trail(it, c, p, t), NEW u, Trail(it, c, p, u)
  PROVE  t[Len(p)] = u[Len(p)]
<1> DEFINE n == Len(p)
           T == {k \in Nat : k <= n => t[k] = u[k]}
<1>1. n \in Nat
  BY LenProperties DEF Path
<1>2. 0 \in T
  BY DEF Trail
<1>3. ASSUME NEW k \in Nat, k \in T PROVE k + 1 \in T
  <2> SUFFICES ASSUME k + 1 <= n PROVE t[k + 1] = u[k + 1]
    OBVIOUS
  <2>1. k + 1 \in 1..n /\ (k + 1) - 1 = k /\ t[k] = u[k]
    BY <1>1, <1>3
  <2> HIDE DEF T
  <2>2. t[k + 1] = it[t[k]][p[k + 1]] /\ u[k + 1] = it[u[k]][p[k + 1]]
    BY <2>1 DEF Trail
  <2> QED
    BY <2>1, <2>2
<1> HIDE DEF T
<1>4. Nat \subseteq T
  BY <1>2, <1>3, NatInduct
<1> QED
  BY <1>1, <1>4 DEF T

(* From a root, it never comes twice to the same value: it is no longer    *)
(* than there are cells.                                                   *)
LEMMA ShortTrail ==
  ASSUME NEW it, Vectors(it), Single(it), NEW c, Root(it, c), NEW p \in Path, NEW t, Trail(it, c, p, t)
  PROVE  Len(p) <= Cardinality(Cells)
<1> DEFINE n == Len(p)
<1>1. n \in Nat
  BY LenProperties DEF Path
<1>2. ASSUME NEW k \in 1..n PROVE t[k - 1] \in Cells /\ (t[k] # Nothing => t[k] \in Kids(it, t[k - 1]))
  <2>1. k - 1 \in 0..n /\ k \in 0..n
    BY <1>1
  <2>2. t[k - 1] \in Things /\ t[k] \in Things /\ t[k - 1] # Nothing
        /\ p[k] \in DOMAIN it[t[k - 1]] /\ t[k] = it[t[k - 1]][p[k]]
    BY <2>1 DEF Trail
  <2> QED
    BY <2>2 DEF Kids, Things
<1> DEFINE T == {i \in Nat : \A j \in Nat : i < j /\ j < n => t[i] # t[j]}
<1>3. 0 \in T
  <2> SUFFICES ASSUME NEW j \in Nat, 0 < j, j < n, t[0] = t[j] PROVE FALSE
    OBVIOUS
  <2>1. j \in 1..n /\ j + 1 \in 1..n /\ (j + 1) - 1 = j
    BY <1>1
  <2>2. t[j] \in Cells /\ t[j - 1] \in Cells
    BY <1>2, <2>1
  <2>3. t[j] \in Kids(it, t[j - 1])
    BY <1>2, <2>1, <2>2, ValuesAssumption
  <2> QED
    BY <2>2, <2>3 DEF Root, Trail
<1>4. ASSUME NEW i \in Nat, i \in T PROVE i + 1 \in T
  <2> SUFFICES ASSUME NEW j \in Nat, i + 1 < j, j < n, t[i + 1] = t[j] PROVE FALSE
    OBVIOUS
  <2>1. j \in 1..n /\ j + 1 \in 1..n /\ (j + 1) - 1 = j /\ i + 1 \in 1..n /\ (i + 1) - 1 = i
        /\ j - 1 \in Nat /\ i < j - 1 /\ j - 1 < n
    BY <1>1
  <2>2. t[j] \in Cells /\ t[j - 1] \in Cells /\ t[i] \in Cells
    BY <1>2, <2>1
  <2>3. t[j] \in Kids(it, t[j - 1]) /\ t[j] \in Kids(it, t[i])
    BY <1>2, <2>1, <2>2, ValuesAssumption
  <2>4. t[i] = t[j - 1]
    BY <2>2, <2>3 DEF Single
  <2> QED
    BY <1>4, <2>1, <2>4
<1> HIDE DEF T
<1>5. Nat \subseteq T
  BY <1>3, <1>4, NatInduct
<1> SUFFICES ASSUME Cardinality(Cells) < n PROVE FALSE
  BY <1>1, FS_CardinalityType, ValuesAssumption
<1> DEFINE g == [i \in 0..n - 1 |-> t[i]]
<1>6. g \in [0..n - 1 -> Cells]
  <2> SUFFICES ASSUME NEW i \in 0..n - 1 PROVE t[i] \in Cells
    OBVIOUS
  <2>1. i + 1 \in 1..n /\ (i + 1) - 1 = i
    BY <1>1
  <2> QED
    BY <1>2, <2>1
<1>7. IsFiniteSet(0..n - 1) /\ Cardinality(0..n - 1) = n
  <2>1. 0 \in Int /\ n - 1 \in Int
    BY <1>1
  <2>2. IsFiniteSet(0..n - 1) /\ Cardinality(0..n - 1) = IF 0 > n - 1 THEN 0 ELSE (n - 1) - 0 + 1
    BY <2>1, FS_Interval
  <2> QED
    BY <1>1, <2>2
<1> HIDE DEF g
<1>8. PICK i, j \in 0..n - 1 : i # j /\ g[i] = g[j]
  BY <1>6, <1>7, FS_PigeonHole, ValuesAssumption
<1>9. \A i1 \in Nat, j1 \in Nat : i1 < j1 /\ j1 < n => t[i1] # t[j1]
  BY <1>5 DEF T
<1>10. t[i] = t[j] /\ i \in Nat /\ j \in Nat /\ i < n /\ j < n /\ (i < j \/ j < i)
  BY <1>1, <1>8 DEF g
<1> QED
  BY <1>9, <1>10

-----------------------------------------------------------------------------
(* Ways of any vectors.                                                    *)

OnwardIn(it, w) ==
  IF w.to = Nothing THEN {}
  ELSE {[path |-> Append(w.path, i), to |-> it[w.to][i]] : i \in DOMAIN it[w.to]}

WaysIn(it, c) ==
  LET upto[n \in Nat] ==
        IF n = 0 THEN {[path |-> <<>>, to |-> c]}
        ELSE UNION {{w} \cup OnwardIn(it, w) : w \in upto[n - 1]}
  IN upto[Cardinality(Cells)]

(* The map that they make. *)
Chart(it, c) ==
  [p \in {w.path : w \in WaysIn(it, c)} |-> End(WaysIn(it, c), p)]

(* They are those of the heap, now and in the next state. *)
LEMMA WaysAre == \A c : Ways(c) = WaysIn(items, c) /\ Ways(c)' = WaysIn(items', c)
BY DEF Ways, WaysIn, Onward, OnwardIn

Way == [path : Path, to : Things]

(* Going one step on. *)
LEMMA OnwardIs ==
  ASSUME NEW it, Vectors(it), NEW w \in Way, NEW v
  PROVE  /\ v \in OnwardIn(it, w) <=>
              w.to # Nothing /\ \E i \in DOMAIN it[w.to] : v = [path |-> Append(w.path, i), to |-> it[w.to][i]]
         /\ v \in OnwardIn(it, w) => v \in Way /\ Len(v.path) = Len(w.path) + 1
<1>1. w.path \in Path /\ w.to \in Things
  BY DEF Way
<1>2. v \in OnwardIn(it, w) <=>
        w.to # Nothing /\ \E i \in DOMAIN it[w.to] : v = [path |-> Append(w.path, i), to |-> it[w.to][i]]
  BY DEF OnwardIn
<1>3. ASSUME v \in OnwardIn(it, w) PROVE v \in Way /\ Len(v.path) = Len(w.path) + 1
  <2>1. PICK i \in DOMAIN it[w.to] : v = [path |-> Append(w.path, i), to |-> it[w.to][i]] /\ w.to # Nothing
    BY <1>2, <1>3
  <2>2. i \in Nat /\ it[w.to][i] \in Things
    BY <1>1, <2>1, Indices
  <2>3. Append(w.path, i) \in Path /\ Len(Append(w.path, i)) = Len(w.path) + 1
    BY <1>1, <2>2, Steps
  <2> QED
    BY <2>1, <2>2, <2>3 DEF Way
<1> QED
  BY <1>2, <1>3

(* The ways of up to n steps. *)
UptoIs(it, c, U) ==
  /\ U \in [Nat -> SUBSET Way]
  /\ U[0] = {[path |-> <<>>, to |-> c]}
  /\ \A n \in Nat : U[n + 1] = UNION {{w} \cup OnwardIn(it, w) : w \in U[n]}

(* The recursion in Ways has a result, which is the last of the U here. *)
LEMMA Upto ==
  ASSUME NEW it, Vectors(it), NEW c \in Things
  PROVE  \E U : UptoIs(it, c, U) /\ WaysIn(it, c) = U[Cardinality(Cells)]
<1> DEFINE M(s) == UNION {{w} \cup OnwardIn(it, w) : w \in s}
           S == SUBSET Way
           s0 == {[path |-> <<>>, to |-> c]}
           G == [x \in S \X Nat |-> M(x[1])]
           Is(f) == f = [n \in Nat |-> IF n = 0 THEN s0 ELSE M(f[n - 1])]
<1>1. \A s \in S : M(s) \in S
  BY OnwardIs
<1>2. s0 \in S
  BY NoStep DEF Way
<1> HIDE DEF M, S, s0
<1>3. G \in [S \X Nat -> S] /\ \A s \in S, n \in Nat : G[<<s, n>>] = M(s)
  BY <1>1
<1> HIDE DEF G
<1>4. PICK f : Defines(f, S, s0, G)
  BY <1>2, <1>3, Recursion
<1>5. Is(f)
  <2>1. ASSUME NEW k \in Nat PROVE f[k] = IF k = 0 THEN s0 ELSE M(f[k - 1])
    <3>1. CASE k = 0
      BY <1>4, <3>1 DEF Defines
    <3>2. CASE k # 0
      <4> DEFINE m == k - 1
      <4>1. m \in Nat /\ k = m + 1
        BY <3>2
      <4> HIDE DEF m
      <4>2. f[m + 1] = G[<<f[m], m>>] /\ f[m] \in S
        BY <1>4, <4>1 DEF Defines
      <4>3. f[k] = M(f[m])
        BY <1>3, <4>1, <4>2
      <4> QED
        BY <3>2, <4>3 DEF m
    <3> QED
      BY <3>1, <3>2
  <2>2. f = [k \in Nat |-> f[k]]
    BY <1>4 DEF Defines
  <2>3. f = [n \in Nat |-> IF n = 0 THEN s0 ELSE M(f[n - 1])]
    BY <2>1, <2>2
  <2> QED
    BY <2>3
<1> DEFINE U == CHOOSE u : Is(u)
<1>6. Is(U)
  BY <1>5
<1>7. WaysIn(it, c) = U[Cardinality(Cells)]
  BY DEF WaysIn, M, s0
<1> HIDE DEF U
<1>8. U[0] = s0
  BY <1>6
<1>9. ASSUME NEW n \in Nat PROVE U[n + 1] = M(U[n])
  BY <1>6
<1>10. U \in [Nat -> S]
  <2> DEFINE T == {n \in Nat : U[n] \in S}
  <2>1. 0 \in T
    BY <1>2, <1>8
  <2>2. ASSUME NEW n \in Nat, n \in T PROVE n + 1 \in T
    BY <1>1, <1>9, <2>2
  <2> HIDE DEF T
  <2>3. Nat \subseteq T
    BY <2>1, <2>2, NatInduct
  <2>4. U = [n \in Nat |-> U[n]]
    BY <1>6
  <2> HIDE DEF Is
  <2> QED
    BY <2>3, <2>4 DEF T
<1> QED
  BY <1>7, <1>8, <1>9, <1>10 DEF UptoIs, M, S, s0

(* Every way has its trail; and the last ways of n steps have n steps. *)
LEMMA WayTrail ==
  ASSUME NEW it, Vectors(it), NEW c \in Things, NEW U, UptoIs(it, c, U), NEW n \in Nat
  PROVE  \A w \in U[n] : \E t : Trail(it, c, w.path, t) /\ t[Len(w.path)] = w.to
<1> DEFINE T == {m \in Nat : \A w \in U[m] : \E t : Trail(it, c, w.path, t) /\ t[Len(w.path)] = w.to}
<1>1. 0 \in T
  <2> SUFFICES ASSUME NEW w \in U[0]
               PROVE  \E t : Trail(it, c, w.path, t) /\ t[Len(w.path)] = w.to
    OBVIOUS
  <2>1. w.path = <<>> /\ w.to = c
    BY DEF UptoIs
  <2>2. [k \in 0..0 |-> c][0] = c
    OBVIOUS
  <2> QED
    BY <2>1, <2>2, NoTrail, NoStep
<1>2. ASSUME NEW m \in Nat, m \in T PROVE m + 1 \in T
  <2> SUFFICES ASSUME NEW v \in U[m + 1]
               PROVE  \E t : Trail(it, c, v.path, t) /\ t[Len(v.path)] = v.to
    OBVIOUS
  <2>1. PICK w \in U[m] : v \in {w} \cup OnwardIn(it, w)
    BY DEF UptoIs
  <2>2. w \in Way /\ w.path \in Path /\ w.to \in Things
    BY DEF UptoIs, Way
  <2>3. PICK t : Trail(it, c, w.path, t) /\ t[Len(w.path)] = w.to
    BY <1>2
  <2>4. CASE v = w
    BY <2>3, <2>4
  <2>5. CASE v \in OnwardIn(it, w)
    <3>1. PICK i \in DOMAIN it[w.to] : v = [path |-> Append(w.path, i), to |-> it[w.to][i]] /\ w.to # Nothing
      BY <2>2, <2>5, OnwardIs
    <3>2. Len(v.path) = Len(w.path) + 1 /\ v.path = Append(w.path, i) /\ v.to = it[w.to][i]
      BY <2>2, <2>5, <3>1, OnwardIs
    <3>3. w.path \in Path /\ Trail(it, c, w.path, t) /\ t[Len(w.path)] = w.to /\ w.to # Nothing
      BY <2>2, <2>3, <3>1
    <3>4. PICK u : Trail(it, c, Append(w.path, i), u) /\ u[Len(Append(w.path, i))] = it[w.to][i]
      BY <3>3, FurtherTrail
    <3> QED
      BY <3>2, <3>4
  <2> QED
    BY <2>1, <2>4, <2>5
<1> HIDE DEF T
<1>3. Nat \subseteq T
  BY <1>1, <1>2, NatInduct
<1> QED
  BY <1>3 DEF T

(* The ways that are new in a round are as long as the round says. *)
LEMMA LastWays ==
  ASSUME NEW it, Vectors(it), NEW c \in Things, NEW U, UptoIs(it, c, U), NEW n \in Nat
  PROVE  \A v \in U[n + 1] : v \in U[n] \/ Len(v.path) = n + 1
<1> DEFINE T == {m \in Nat : \A v \in U[m] : Len(v.path) = m \/ (m # 0 /\ v \in U[m - 1])}
<1>1. 0 \in T
  BY NoStep DEF UptoIs
<1>2. ASSUME NEW m \in Nat, m \in T PROVE m + 1 \in T
  <2> SUFFICES ASSUME NEW v \in U[m + 1], v \notin U[m]
               PROVE  Len(v.path) = m + 1
    OBVIOUS
  <2>1. PICK w \in U[m] : v \in {w} \cup OnwardIn(it, w)
    BY DEF UptoIs
  <2>2. w \in Way /\ v \in OnwardIn(it, w)
    BY <2>1 DEF UptoIs
  <2>3. Len(v.path) = Len(w.path) + 1
    BY <2>2, OnwardIs
  <2>4. ASSUME m # 0, w \in U[m - 1] PROVE FALSE
    <3>1. m - 1 \in Nat /\ (m - 1) + 1 = m
      BY <2>4
    <3>2. v \in U[(m - 1) + 1]
      BY <2>2, <2>4, <3>1 DEF UptoIs
    <3> QED
      BY <3>1, <3>2
  <2> QED
    BY <1>2, <2>3, <2>4
<1> HIDE DEF T
<1>3. n + 1 \in T
  BY <1>1, <1>2, NatInduct
<1> QED
  BY <1>3 DEF T

(* Every way but the first goes on from another one. *)
LEMMA WayBefore ==
  ASSUME NEW it, Vectors(it), NEW c \in Things, NEW U, UptoIs(it, c, U), NEW n \in Nat
  PROVE  \A v \in U[n] : v = [path |-> <<>>, to |-> c] \/ \E w \in U[n] : v \in OnwardIn(it, w)
<1> DEFINE T == {m \in Nat : \A v \in U[m] : v = [path |-> <<>>, to |-> c] \/ \E w \in U[m] : v \in OnwardIn(it, w)}
<1>1. 0 \in T
  BY DEF UptoIs
<1>2. ASSUME NEW m \in Nat, m \in T PROVE m + 1 \in T
  <2>1. U[m] \subseteq U[m + 1]
    BY DEF UptoIs
  <2>2. \A v \in U[m + 1] : v \in U[m] \/ \E w \in U[m] : v \in OnwardIn(it, w)
    BY DEF UptoIs
  <2> QED
    BY <1>2, <2>1, <2>2
<1> HIDE DEF T
<1>3. n \in T
  BY <1>1, <1>2, NatInduct
<1> QED
  BY <1>3 DEF T

(* The first way is among them in every round. *)
LEMMA FirstWay ==
  ASSUME NEW it, NEW c, NEW U, UptoIs(it, c, U), NEW n \in Nat
  PROVE  [path |-> <<>>, to |-> c] \in U[n]
<1> DEFINE T == {m \in Nat : [path |-> <<>>, to |-> c] \in U[m]}
<1>1. 0 \in T
  BY DEF UptoIs
<1>2. ASSUME NEW m \in Nat, m \in T PROVE m + 1 \in T
  BY <1>2 DEF UptoIs
<1> HIDE DEF T
<1>3. n \in T
  BY <1>1, <1>2, NatInduct
<1> QED
  BY <1>3 DEF T

(* From a root, the ways make a map. *)
LEMMA Charted ==
  ASSUME NEW it, Vectors(it), Single(it), NEW c, Root(it, c)
  PROVE  MapOf(it, Chart(it, c), c)
<1> DEFINE N == Cardinality(Cells)
           W == WaysIn(it, c)
           f == Chart(it, c)
<1>1. c \in Things /\ N \in Nat
  BY FS_CardinalityType, ValuesAssumption DEF Root, Things
<1>2. PICK U : UptoIs(it, c, U) /\ W = U[N]
  BY <1>1, Upto
<1>3. f = [p \in {w.path : w \in W} |-> End(W, p)]
  BY DEF Chart
<1> HIDE DEF N, W, f
<1>4. W \subseteq Way
  BY <1>1, <1>2 DEF UptoIs
<1>5. ASSUME NEW w \in W, NEW v \in W, w.path = v.path PROVE w.to = v.to
  <2>1. PICK t : Trail(it, c, w.path, t) /\ t[Len(w.path)] = w.to
    BY <1>1, <1>2, WayTrail
  <2>2. PICK u : Trail(it, c, v.path, u) /\ u[Len(v.path)] = v.to
    BY <1>1, <1>2, WayTrail
  <2>3. w.path \in Path
    BY <1>4 DEF Way
  <2> QED
    BY <1>5, <2>1, <2>2, <2>3, OneTrail
<1>6. DOMAIN f = {w.path : w \in W} /\ f = [p \in DOMAIN f |-> f[p]]
  BY <1>3
<1>7. ASSUME NEW w \in W PROVE w.path \in DOMAIN f /\ f[w.path] = w.to
  <2> DEFINE x == CHOOSE v \in W : v.path = w.path
  <2>1. x \in W /\ x.path = w.path
    OBVIOUS
  <2>2. f[w.path] = x.to
    BY <1>3 DEF End
  <2> HIDE DEF x
  <2> QED
    BY <1>5, <1>6, <2>1, <2>2
<1>8. ASSUME NEW p \in DOMAIN f PROVE \E w \in W : w.path = p /\ f[p] = w.to /\ p \in Path /\ f[p] \in Things
  <2>1. PICK w \in W : w.path = p
    BY <1>6
  <2> QED
    BY <1>4, <1>7, <2>1 DEF Way
<1>9. <<>> \in DOMAIN f /\ f[<<>>] = c
  <2>1. [path |-> <<>>, to |-> c] \in W
    BY <1>1, <1>2, FirstWay
  <2> QED
    BY <1>7, <2>1
<1>10. ASSUME NEW q \in DOMAIN f, f[q] # Nothing, NEW i \in DOMAIN it[f[q]]
       PROVE  Append(q, i) \in DOMAIN f /\ f[Append(q, i)] = it[f[q]][i]
  <2>1. PICK w \in W : w.path = q /\ f[q] = w.to
    BY <1>8
  <2> DEFINE v == [path |-> Append(w.path, i), to |-> it[w.to][i]]
  <2>2. w \in Way /\ w.path \in Path
    BY <1>4 DEF Way
  <2>3. v \in OnwardIn(it, w)
    BY <1>10, <2>1 DEF OnwardIn
  <2>4. v.path = Append(q, i) /\ v.to = it[f[q]][i]
    BY <2>1
  <2> HIDE DEF v
  <2>5. v \in Way
    BY <2>2, <2>3, OnwardIs
  <2>6. v \in U[N + 1]
    BY <1>1, <1>2, <2>3 DEF UptoIs
  <2>7. ASSUME Len(v.path) = N + 1 PROVE FALSE
    <3>1. N + 1 \in Nat
      BY <1>1
    <3>2. PICK t : Trail(it, c, v.path, t)
      BY <1>1, <1>2, <2>6, <3>1, WayTrail
    <3>3. Len(v.path) <= N
      BY <2>5, <3>2, ShortTrail DEF Way, N
    <3> QED
      BY <1>1, <2>7, <3>3
  <2>8. v \in W
    BY <1>1, <1>2, <2>6, <2>7, LastWays
  <2> QED
    BY <1>7, <2>4, <2>8
<1>11. ASSUME NEW p \in DOMAIN f, p # <<>>
       PROVE  \E q \in DOMAIN f : f[q] # Nothing /\ \E i \in DOMAIN it[f[q]] : p = Append(q, i)
  <2>1. PICK v \in W : v.path = p
    BY <1>8
  <2>2. PICK w \in W : v \in OnwardIn(it, w)
    BY <1>1, <1>2, <1>11, <2>1, WayBefore
  <2>3. w \in Way
    BY <1>4
  <2>4. w.to # Nothing /\ \E i \in DOMAIN it[w.to] : v = [path |-> Append(w.path, i), to |-> it[w.to][i]]
    BY <2>2, <2>3, OnwardIs
  <2> QED
    BY <1>7, <2>1, <2>4
<1> QED
  BY <1>6, <1>8, <1>9, <1>10, <1>11 DEF MapOf, f

-----------------------------------------------------------------------------
(* Trees                                                                   *)

(* Label, with any heap. *)
LabelIn(k, d, it, x) ==
  IF x = Nothing THEN [type |-> "null"]
  ELSE CASE k[x] = "simple" -> [type |-> "simple", data |-> d[x]]
         [] k[x] = "array"  -> [type |-> "array", length |-> Len(it[x])]
         [] OTHER           -> [type |-> k[x]]

(* What a value is by itself: the label that its tree has at its path. *)
LEMMA Labels ==
  ASSUME NEW k, NEW d, NEW it, NEW x
  PROVE  /\ x = Nothing => LabelIn(k, d, it, x) = [type |-> "null"]
         /\ x # Nothing /\ k[x] = "simple" => LabelIn(k, d, it, x) = [type |-> "simple", data |-> d[x]]
         /\ x # Nothing /\ k[x] = "array" => LabelIn(k, d, it, x) = [type |-> "array", length |-> Len(it[x])]
         /\ x # Nothing /\ k[x] = "void" => LabelIn(k, d, it, x) = [type |-> "void"]
BY DEF LabelIn

(* What a map means. *)
Means(k, d, it, f) == [p \in DOMAIN f |-> LabelIn(k, d, it, f[p])]

(* Tree is the meaning of the chart, now and in the next state. *)
LEMMA TreesAre ==
  \A c : /\ Tree(c) = Means(kind, content, items, Chart(items, c))
         /\ Tree(c)' = Means(kind', content', items', Chart(items', c))
<1>1. \A x : Label(x) = LabelIn(kind, content, items, x) /\ Label(x)' = LabelIn(kind', content', items', x)
  BY DEF Label, LabelIn
<1> SUFFICES ASSUME NEW c
             PROVE  /\ Tree(c) = Means(kind, content, items, Chart(items, c))
                    /\ Tree(c)' = Means(kind', content', items', Chart(items', c))
  OBVIOUS
<1>2. Tree(c) = [p \in {w.path : w \in WaysIn(items, c)} |->
                   LabelIn(kind, content, items, End(WaysIn(items, c), p))]
  BY <1>1, WaysAre DEF Tree
<1>3. Tree(c)' = [p \in {w.path : w \in WaysIn(items', c)} |->
                    LabelIn(kind', content', items', End(WaysIn(items', c), p))]
  BY <1>1, WaysAre DEF Tree
<1>4. Tree(c) = Means(kind, content, items, Chart(items, c))
  BY <1>2 DEF Means, Chart
<1>5. Tree(c)' = Means(kind', content', items', Chart(items', c))
  BY <1>3 DEF Means, Chart
<1> QED
  BY <1>4, <1>5

(* Every map of an owner's value tells its tree, now and then. *)
LEMMA TreeNow ==
  ASSUME IInv, NEW c \in owned
  PROVE  /\ Vectors(items) /\ c \in Cells /\ MapOf(items, Chart(items, c), c)
         /\ \A f : MapOf(items, f, c) => Tree(c) = Means(kind, content, items, f)
<1>1. Vectors(items) /\ Single(items) /\ Root(items, c) /\ c \in Cells
  BY Forest DEF IInv, HeapTyped, Vectors, Things
<1>2. MapOf(items, Chart(items, c), c)
  BY <1>1, Charted
<1> QED
  BY <1>1, <1>2, SameMap, TreesAre

(* The same in the next state. *)
LEMMA TreeThen ==
  ASSUME IInv', NEW c \in owned'
  PROVE  /\ Vectors(items') /\ c \in Cells /\ MapOf(items', Chart(items', c), c)
         /\ \A f : MapOf(items', f, c) => Tree(c)' = Means(kind', content', items', f)
<1>1. Vectors(items') /\ c \in Cells
  BY DEF IInv, HeapTyped, Vectors, Things
<1>2. Single(items')
  BY ValuesAssumption DEF Single, Kids, OwnedOnce, HeapTyped, IInv
<1>3. Root(items', c)
  BY <1>1, BelowIsReach DEF Root, OwnedOnce, IInv
<1>4. MapOf(items', Chart(items', c), c)
  BY <1>1, <1>2, <1>3, Charted
<1> QED
  BY <1>1, <1>4, SameMap, TreesAre

(* A map is one of other vectors too, if they are the same where it leads. *)
LEMMA MapStays ==
  ASSUME NEW it, NEW it2, NEW f, NEW c, MapOf(it, f, c),
         \A p \in DOMAIN f : f[p] # Nothing => it2[f[p]] = it[f[p]]
  PROVE  MapOf(it2, f, c)
BY DEF MapOf

(* Where nothing below a value changes, what it means does not. *)
LEMMA TreeStays ==
  ASSUME IInv, IInv', NEW c \in owned \cap owned',
         \A x \in Below(c) : kind'[x] = kind[x] /\ content'[x] = content[x] /\ items'[x] = items[x]
  PROVE  Tree(c)' = Tree(c)
<1> DEFINE f == Chart(items, c)
<1>1. Vectors(items) /\ c \in Cells /\ MapOf(items, f, c) /\ Tree(c) = Means(kind, content, items, f)
  BY TreeNow
<1> HIDE DEF f
<1>2. \A p \in DOMAIN f : f[p] # Nothing => f[p] \in Below(c)
  BY <1>1, MapShows, BelowIsReach
<1>3. MapOf(items', f, c)
  BY <1>1, <1>2, MapStays
<1>4. Tree(c)' = Means(kind', content', items', f)
  BY <1>3, TreeThen
<1>5. \A p \in DOMAIN f : LabelIn(kind', content', items', f[p]) = LabelIn(kind, content, items, f[p])
  BY <1>2 DEF LabelIn
<1>6. Means(kind', content', items', f) = Means(kind, content, items, f)
  BY <1>5 DEF Means
<1> QED
  BY <1>1, <1>4, <1>6

(* The map of something without elements. *)
LEMMA MapOfOne ==
  ASSUME NEW it, NEW c \in Things, c # Nothing => it[c] = <<>>
  PROVE  MapOf(it, [p \in {<<>>} |-> c], c)
<1> DEFINE f == [p \in {<<>>} |-> c]
<1>1. DOMAIN f = {<<>>} /\ f[<<>>] = c /\ f = [p \in DOMAIN f |-> f[p]]
  OBVIOUS
<1>2. c # Nothing => DOMAIN it[c] = {}
  OBVIOUS
<1> HIDE DEF f
<1>3. MapOf(it, f, c)
  BY <1>1, <1>2, NoStep DEF MapOf
<1> QED
  BY <1>3 DEF f

(* A NULL can be met exactly where the map has one. *)
LEMMA NullShows ==
  ASSUME Vectors(items), NEW c \in Cells, NEW f, MapOf(items, f, c)
  PROVE  MeetsNull(c) <=> \E p \in DOMAIN f : f[p] = Nothing
<1>1. ASSUME MeetsNull(c) PROVE \E p \in DOMAIN f : f[p] = Nothing
  <2>1. PICK x \in Below(c) : \E i \in DOMAIN items[x] : items[x][i] = Nothing
    BY <1>1 DEF MeetsNull
  <2>2. PICK i \in DOMAIN items[x] : items[x][i] = Nothing
    BY <2>1
  <2>3. PICK p \in DOMAIN f : f[p] = x
    BY MapShows, BelowIsReach
  <2>4. x # Nothing
    BY ValuesAssumption DEF Below
  <2> QED
    BY <2>2, <2>3, <2>4 DEF MapOf
<1>2. ASSUME NEW p \in DOMAIN f, f[p] = Nothing PROVE MeetsNull(c)
  <2>1. p # <<>>
    BY <1>2, ValuesAssumption DEF MapOf
  <2>2. PICK q \in DOMAIN f : f[q] # Nothing /\ \E i \in DOMAIN items[f[q]] : p = Append(q, i)
    BY <2>1 DEF MapOf
  <2>3. PICK i \in DOMAIN items[f[q]] : p = Append(q, i)
    BY <2>2
  <2>4. items[f[q]][i] = Nothing
    BY <1>2, <2>2, <2>3 DEF MapOf
  <2>5. f[q] \in Below(c)
    BY <2>2, MapShows, BelowIsReach
  <2> QED
    BY <2>4, <2>5 DEF MeetsNull
<1> QED
  BY <1>1, <1>2

(* A tree has a NULL where its map has one. *)
LEMMA NullMeans ==
  ASSUME HeapTyped, NEW f, \A p \in DOMAIN f : f[p] \in Things
  PROVE  Meaning!HasNull(Means(kind, content, items, f)) <=> \E p \in DOMAIN f : f[p] = Nothing
<1>1. ASSUME NEW x \in Things PROVE LabelIn(kind, content, items, x) = [type |-> "null"] <=> x = Nothing
  <2>1. CASE x = Nothing
    BY <2>1, Labels
  <2>2. CASE x # Nothing
    <3>1. LabelIn(kind, content, items, x).type = kind[x] /\ kind[x] # "null"
      BY <2>2 DEF LabelIn, HeapTyped, Things, Kinds
    <3> QED
      BY <2>2, <3>1
  <2> QED
    BY <2>1, <2>2
<1> QED
  BY <1>1 DEF Meaning!HasNull, Meaning!Null, Means

(* What is below something in a tree is a tree. *)
LEMMA SubMap ==
  ASSUME NEW it, Vectors(it), NEW c, NEW f, MapOf(it, f, c), NEW p \in DOMAIN f
  PROVE  MapOf(it, [q \in {q \in Path : p \o q \in DOMAIN f} |-> f[p \o q]], f[p])
<1> DEFINE D == {q \in Path : p \o q \in DOMAIN f}
           g == [q \in D |-> f[p \o q]]
<1>1. DOMAIN g = D /\ g = [q \in DOMAIN g |-> g[q]] /\ p \in Path
  BY DEF MapOf
<1>2. \A q \in D : q \in Path /\ p \o q \in DOMAIN f /\ g[q] = f[p \o q] /\ g[q] \in Things
  BY DEF MapOf
<1>3. \A q \in Path : p \o q \in DOMAIN f => q \in D
  OBVIOUS
<1> HIDE DEF g, D
<1>4. <<>> \in D /\ g[<<>>] = f[p]
  <2>1. p \o <<>> = p
    BY <1>1, ConcatEmptySeq DEF Path
  <2> QED
    BY <1>2, <1>3, <2>1, NoStep
<1>5. ASSUME NEW q \in Path, NEW i \in Nat PROVE p \o Append(q, i) = Append(p \o q, i) /\ p \o q \in Path
  <2>1. p \in Seq(Nat) /\ q \in Seq(Nat)
    BY <1>1 DEF Path
  <2> QED
    BY <2>1 DEF Path
<1>6. ASSUME NEW q \in D, g[q] # Nothing, NEW i \in DOMAIN it[g[q]]
      PROVE  Append(q, i) \in D /\ g[Append(q, i)] = it[g[q]][i]
  <2>1. i \in Nat
    BY <1>2, <1>6, Indices
  <2>2. p \o q \in DOMAIN f /\ q \in Path /\ g[q] = f[p \o q]
    BY <1>2
  <2>3. Append(p \o q, i) \in DOMAIN f /\ f[Append(p \o q, i)] = it[f[p \o q]][i]
    BY <1>6, <2>2 DEF MapOf
  <2>4. Append(q, i) \in Path /\ p \o Append(q, i) = Append(p \o q, i)
    BY <1>5, <2>1, <2>2, Steps
  <2> QED
    BY <1>2, <1>3, <2>2, <2>3, <2>4
<1>7. ASSUME NEW r \in D, r # <<>>
      PROVE  \E q \in D : g[q] # Nothing /\ \E i \in DOMAIN it[g[q]] : r = Append(q, i)
  <2>1. r \in Path /\ p \o r \in DOMAIN f
    BY <1>2
  <2>2. PICK q \in Path, j \in Nat : r = Append(q, j)
    BY <1>7, <2>1, SequenceEmptyOrAppend DEF Path
  <2>3. p \o r = Append(p \o q, j) /\ p \o q \in Path
    BY <1>5, <2>2
  <2>4. p \o r # <<>>
    BY <2>2, <2>3, Steps
  <2>5. PICK s \in DOMAIN f : f[s] # Nothing /\ \E i \in DOMAIN it[f[s]] : p \o r = Append(s, i)
    BY <2>1, <2>4 DEF MapOf
  <2>6. PICK i \in DOMAIN it[f[s]] : p \o r = Append(s, i)
    BY <2>5
  <2>7. s \in Path /\ i \in Nat
    BY <2>5, <2>6, Indices DEF MapOf
  <2> DEFINE u == p \o q
  <2>10. Append(s, i) = Append(u, j) /\ u \in Path /\ s \in Path
    BY <2>3, <2>6, <2>7
  <2> HIDE DEF u
  <2>11. s = u /\ i = j
    BY <2>2, <2>7, <2>10, SameStep
  <2>8. s = p \o q /\ i = j
    BY <2>11 DEF u
  <2>9. q \in D /\ g[q] = f[s]
    BY <1>2, <1>3, <2>8
  <2> QED
    BY <2>2, <2>5, <2>6, <2>8, <2>9
<1>8. MapOf(it, g, f[p])
  BY <1>1, <1>2, <1>4, <1>6, <1>7 DEF MapOf
<1> QED
  BY <1>8 DEF g, D

-----------------------------------------------------------------------------
(* Each step on the heap, on trees                                         *)

(* Nothing free can be reached. *)
LEMMA LiveBelow ==
  ASSUME IInv, NEW c \in owned
  PROVE  \A x \in Below(c) : x \in Cells /\ Live(x) /\ kind[x] \in Kinds
BY Forest DEF IInv, Below, Live, HeapTyped

(* A new value is a tree of its own, and the others stay as they are. *)
LEMMA NewTree ==
  ASSUME IInv, IInv', NEW k \in Kinds, NEW d, New(k, d)
  PROVE  \E h \in owned' : /\ h \notin owned /\ owned' = owned \cup {h}
                           /\ \A x \in owned : Tree(x)' = Tree(x)
                           /\ k = "simple" => Tree(h)' = Meaning!Leaf(Meaning!Simple(d))
                           /\ k = "array" => Tree(h)' = Meaning!Leaf(Meaning!Array(0))
                           /\ k = "void" => Tree(h)' = Meaning!Leaf(Meaning!Void)
<1>1. PICK h \in Cells :
        /\ kind[h] = "free" /\ kind' = [kind EXCEPT ![h] = k] /\ content' = [content EXCEPT ![h] = d]
        /\ owned' = owned \cup {h} /\ items' = items
  BY DEF New
<1>2. h \notin owned /\ h \in owned'
  BY <1>1 DEF IInv, OwnedOnce, Live
<1>3. ASSUME NEW x \in owned PROVE Tree(x)' = Tree(x)
  <2>1. \A y \in Below(x) : y # h
    BY <1>1, LiveBelow DEF Live
  <2>2. \A y \in Below(x) : kind'[y] = kind[y] /\ content'[y] = content[y] /\ items'[y] = items[y]
    BY <1>1, <2>1, LiveBelow DEF IInv, HeapTyped
  <2> QED
    BY <1>1, <2>2, TreeStays
<1> DEFINE f == [p \in {<<>>} |-> h]
<1>4. h \in Things /\ items'[h] = <<>> /\ h # Nothing
  BY <1>1, ValuesAssumption DEF IInv, Clean, Things
<1>5. MapOf(items', f, h)
  BY <1>4, MapOfOne
<1>6. Tree(h)' = Means(kind', content', items', f)
  BY <1>2, <1>5, TreeThen
<1>7. Means(kind', content', items', f) = [p \in {<<>>} |-> LabelIn(kind', content', items', h)]
  BY DEF Means
<1>8. kind'[h] = k /\ content'[h] = d /\ Len(items'[h]) = 0
  BY <1>1, <1>4 DEF IInv, HeapTyped
<1>9. /\ k = "simple" => LabelIn(kind', content', items', h) = [type |-> "simple", data |-> d]
      /\ k = "array" => LabelIn(kind', content', items', h) = [type |-> "array", length |-> 0]
      /\ k = "void" => LabelIn(kind', content', items', h) = [type |-> "void"]
  BY <1>4, <1>8, Labels
<1> HIDE DEF f
<1> QED
  BY <1>1, <1>2, <1>3, <1>6, <1>7, <1>9 DEF Meaning!Leaf, Meaning!Simple, Meaning!Array, Meaning!Void

(* The owned value itself is nowhere else in its tree. *)
LEMMA RootOnce ==
  ASSUME NEW it, Vectors(it), NEW a, Root(it, a), NEW f, MapOf(it, f, a), NEW p \in DOMAIN f, f[p] = a
  PROVE  p = <<>>
<1> SUFFICES ASSUME p # <<>> PROVE FALSE
  OBVIOUS
<1>1. PICK q \in DOMAIN f : f[q] # Nothing /\ \E i \in DOMAIN it[f[q]] : p = Append(q, i)
  BY DEF MapOf
<1>2. PICK i \in DOMAIN it[f[q]] : p = Append(q, i)
  BY <1>1
<1>3. it[f[q]][i] = a /\ f[q] \in Cells
  BY <1>1, <1>2 DEF MapOf, Things
<1> QED
  BY <1>2, <1>3 DEF Root, Kids

(* Paths, seen from their first step. *)
LEMMA FirstSteps ==
  ASSUME NEW n \in Nat, NEW q \in Path
  PROVE  /\ <<n>> \o q \in Path /\ <<n>> \o q # <<>> /\ (<<n>> \o q)[1] = n /\ Tail(<<n>> \o q) = q
         /\ \A i \in Nat : <<n>> \o Append(q, i) = Append(<<n>> \o q, i)
         /\ Append(<<>>, n) = <<n>> \o <<>>
         /\ \A i \in Nat : Append(<<>>, i)[1] = i
         /\ q # <<>> => \A i \in Nat : Append(q, i)[1] = q[1]
<1>1. q \in Seq(Nat) /\ <<n>> \in Seq(Nat)
  BY DEF Path
<1>2. <<n>> \o q \in Path /\ <<n>> \o q # <<>> /\ (<<n>> \o q)[1] = n
  BY <1>1 DEF Path
<1>3. Tail(<<n>> \o q) = q
  BY <1>1
<1>4. \A i \in Nat : <<n>> \o Append(q, i) = Append(<<n>> \o q, i)
  BY <1>1
<1>5. Append(<<>>, n) = <<n>> \o <<>> /\ \A i \in Nat : Append(<<>>, i)[1] = i
  OBVIOUS
<1>6. q # <<>> => \A i \in Nat : Append(q, i)[1] = q[1]
  BY <1>1
<1> QED
  BY <1>2, <1>3, <1>4, <1>5, <1>6

(* No path into an array begins behind its last element. *)
LEMMA FirstStep ==
  ASSUME NEW it, Vectors(it), NEW a \in Cells, NEW f, MapOf(it, f, a), NEW n \in Nat, n \notin DOMAIN it[a]
  PROVE  \A p \in DOMAIN f : p # <<>> => p[1] # n
<1> DEFINE S == {p \in DOMAIN f : p # <<>> => p[1] # n}
<1>1. <<>> \in S
  BY DEF MapOf
<1>2. ASSUME NEW q \in DOMAIN f, q \in S, f[q] # Nothing, NEW i \in DOMAIN it[f[q]] PROVE Append(q, i) \in S
  <2>1. Append(q, i) \in DOMAIN f /\ q \in Path /\ f[q] \in Things
    BY <1>2 DEF MapOf
  <2>2. i \in Nat
    BY <1>2, <2>1, Indices
  <2>3. CASE q = <<>>
    <3>1. i # n
      BY <1>2, <2>3 DEF MapOf
    <3>2. Append(q, i)[1] = i
      BY <2>2, <2>3, FirstSteps, NoStep
    <3> QED
      BY <2>1, <3>1, <3>2
  <2>4. CASE q # <<>>
    BY <1>2, <2>1, <2>2, <2>4, FirstSteps
  <2> QED
    BY <2>3, <2>4
<1> HIDE DEF S
<1>3. DOMAIN f \subseteq S
  BY <1>1, <1>2, PathInduct
<1> QED
  BY <1>3 DEF S

(* The map of an array, with the map g at the n-th place. *)
Joined(f, g, n, a) ==
  [p \in DOMAIN f \cup {<<n>> \o q : q \in DOMAIN g} |->
     IF p = <<>> THEN a ELSE IF p[1] = n THEN g[Tail(p)] ELSE f[p]]

(* It is a map of the array, once x is appended. *)
LEMMA Joining ==
  ASSUME NEW it, Vectors(it), NEW a, Root(it, a), NEW f, MapOf(it, f, a),
         NEW x \in Things, NEW g, MapOf(it, g, x), \A q \in DOMAIN g : g[q] # a,
         NEW n \in Nat, n # 0, DOMAIN it[a] = 1..n - 1,
         NEW it2, DOMAIN it2[a] = 1..n, it2[a][n] = x, \A i \in 1..n - 1 : it2[a][i] = it[a][i],
         \A y \in Cells \ {a} : it2[y] = it[y]
  PROVE  /\ MapOf(it2, Joined(f, g, n, a), a)
         /\ \A p \in DOMAIN Joined(f, g, n, a) : Joined(f, g, n, a)[p] = a => p = <<>>
         /\ \A p \in DOMAIN f : Joined(f, g, n, a)[p] = f[p]
<1> DEFINE F == Joined(f, g, n, a)
           G == {<<n>> \o q : q \in DOMAIN g}
<1>1. /\ a \in Things /\ a # Nothing /\ a \in Cells /\ n \notin 1..n - 1 /\ 1..n - 1 \subseteq 1..n
      /\ n \in 1..n
  BY ValuesAssumption DEF Root, Things
<1>2. DOMAIN f \subseteq Path /\ DOMAIN g \subseteq Path /\ <<>> \in DOMAIN f /\ f[<<>>] = a
      /\ <<>> \in DOMAIN g /\ g[<<>>] = x
      /\ (\A q \in DOMAIN f : f[q] \in Things) /\ (\A q \in DOMAIN g : g[q] \in Things)
  BY DEF MapOf
<1>3. DOMAIN F = DOMAIN f \cup G /\ F = [p \in DOMAIN F |-> F[p]]
  BY DEF Joined
<1>4. \A p \in DOMAIN f : p # <<>> => p[1] # n
  BY <1>1, FirstStep
<1>5. ASSUME NEW p \in DOMAIN f PROVE p \in DOMAIN F /\ F[p] = f[p] /\ (f[p] = a => p = <<>>)
  <2>1. F[p] = f[p]
    BY <1>2, <1>4 DEF Joined
  <2> QED
    BY <1>3, <2>1, RootOnce
<1>6. ASSUME NEW q \in DOMAIN g
      PROVE  <<n>> \o q \in DOMAIN F /\ F[<<n>> \o q] = g[q] /\ <<n>> \o q \in Path
  <2>1. q \in Path /\ <<n>> \o q \in G
    BY <1>2
  <2> DEFINE r == <<n>> \o q
  <2>2. r # <<>> /\ r[1] = n /\ Tail(r) = q /\ r \in Path
    BY <2>1, FirstSteps
  <2>3. r \in DOMAIN F
    BY <1>3, <2>1
  <2> HIDE DEF r
  <2>4. F[r] = g[q]
    BY <2>2, <2>3, <1>3 DEF Joined
  <2> QED
    BY <2>2, <2>3, <2>4 DEF r
<1>7. ASSUME NEW p \in DOMAIN F
      PROVE  \/ p \in DOMAIN f
             \/ \E q \in DOMAIN g : p = <<n>> \o q
  BY <1>3
<1> HIDE DEF F, G
<1>8. ASSUME NEW p \in DOMAIN F PROVE p \in Path /\ F[p] \in Things /\ (F[p] = a => p = <<>>)
  <2>1. CASE p \in DOMAIN f
    BY <1>2, <1>5, <2>1
  <2>2. CASE \E q \in DOMAIN g : p = <<n>> \o q
    <3>1. PICK q \in DOMAIN g : p = <<n>> \o q
      BY <2>2
    <3>2. p \in Path /\ F[p] = g[q]
      BY <1>6, <3>1
    <3> QED
      BY <1>2, <3>2
  <2> QED
    BY <1>7, <2>1, <2>2
<1>10. <<>> \in DOMAIN F /\ F[<<>>] = a
  BY <1>2, <1>5
<1>11. ASSUME NEW y \in Things, y # Nothing, y # a PROVE it2[y] = it[y]
  BY <1>11 DEF Things
<1>12. ASSUME NEW q \in DOMAIN F, F[q] # Nothing, NEW i \in DOMAIN it2[F[q]]
       PROVE  Append(q, i) \in DOMAIN F /\ F[Append(q, i)] = it2[F[q]][i]
  <2>1. CASE q = <<>>
    <3>1. F[q] = a /\ i \in 1..n
      BY <1>10, <1>12, <2>1
    <3>2. CASE i = n
      <4>1. Append(<<>>, n) = <<n>> \o <<>>
        BY FirstSteps, NoStep
      <4> QED
        BY <1>2, <1>6, <2>1, <3>1, <3>2, <4>1
    <3>3. CASE i # n
      <4>1. i \in 1..n - 1
        BY <3>1, <3>3
      <4>2. <<>> \in DOMAIN f /\ f[<<>>] # Nothing /\ i \in DOMAIN it[f[<<>>]]
        BY <1>1, <1>2, <4>1
      <4>3. Append(<<>>, i) \in DOMAIN f /\ f[Append(<<>>, i)] = it[f[<<>>]][i]
        BY <4>2 DEF MapOf
      <4> QED
        BY <1>2, <1>5, <2>1, <3>1, <4>1, <4>3
    <3> QED
      BY <3>2, <3>3
  <2>2. CASE q # <<>> /\ q \in DOMAIN f
    <3>1. F[q] = f[q] /\ f[q] # a /\ f[q] \in Things /\ f[q] # Nothing
      BY <1>2, <1>5, <1>12, <2>2
    <3>2. it2[F[q]] = it[f[q]]
      BY <1>11, <3>1
    <3>3. Append(q, i) \in DOMAIN f /\ f[Append(q, i)] = it[f[q]][i]
      BY <1>12, <2>2, <3>1, <3>2 DEF MapOf
    <3> QED
      BY <1>5, <3>2, <3>3
  <2>3. CASE \E r \in DOMAIN g : q = <<n>> \o r
    <3>1. PICK r \in DOMAIN g : q = <<n>> \o r
      BY <2>3
    <3>2. F[q] = g[r] /\ g[r] # a /\ g[r] \in Things /\ g[r] # Nothing /\ r \in Path
      BY <1>2, <1>6, <1>12, <3>1
    <3>3. it2[F[q]] = it[g[r]]
      BY <1>11, <3>2
    <3>4. Append(r, i) \in DOMAIN g /\ g[Append(r, i)] = it[g[r]][i] /\ i \in Nat
      BY <1>12, <3>2, <3>3, Indices DEF MapOf
    <3>5. Append(q, i) = <<n>> \o Append(r, i)
      BY <3>1, <3>2, <3>4, FirstSteps
    <3> QED
      BY <1>6, <3>3, <3>4, <3>5
  <2> QED
    BY <1>7, <2>1, <2>2, <2>3
<1>13. ASSUME NEW p \in DOMAIN F, p # <<>>
       PROVE  \E q \in DOMAIN F : F[q] # Nothing /\ \E i \in DOMAIN it2[F[q]] : p = Append(q, i)
  <2>1. CASE p \in DOMAIN f
    <3>1. PICK q \in DOMAIN f : f[q] # Nothing /\ \E i \in DOMAIN it[f[q]] : p = Append(q, i)
      BY <1>13, <2>1 DEF MapOf
    <3>2. PICK i \in DOMAIN it[f[q]] : p = Append(q, i)
      BY <3>1
    <3>3. q \in DOMAIN F /\ F[q] = f[q] /\ f[q] \in Things
      BY <1>2, <1>5
    <3>4. i \in DOMAIN it2[f[q]]
      BY <1>1, <1>11, <3>1, <3>2, <3>3
    <3> QED
      BY <3>1, <3>2, <3>3, <3>4
  <2>2. CASE \E r \in DOMAIN g : p = <<n>> \o r
    <3>1. PICK r \in DOMAIN g : p = <<n>> \o r
      BY <2>2
    <3>2. CASE r = <<>>
      <4>1. p = Append(<<>>, n)
        BY <3>1, <3>2, FirstSteps, NoStep
      <4> QED
        BY <1>1, <1>10, <4>1
    <3>3. CASE r # <<>>
      <4>1. PICK q \in DOMAIN g : g[q] # Nothing /\ \E i \in DOMAIN it[g[q]] : r = Append(q, i)
        BY <3>3 DEF MapOf
      <4>2. PICK i \in DOMAIN it[g[q]] : r = Append(q, i)
        BY <4>1
      <4>3. q \in Path /\ g[q] \in Things /\ g[q] # a /\ i \in Nat
        BY <1>2, <4>1, <4>2, Indices
      <4>4. p = Append(<<n>> \o q, i)
        BY <3>1, <4>2, <4>3, FirstSteps
      <4>5. <<n>> \o q \in DOMAIN F /\ F[<<n>> \o q] = g[q] /\ it2[g[q]] = it[g[q]]
        BY <1>6, <1>11, <4>1, <4>3
      <4> QED
        BY <4>1, <4>2, <4>4, <4>5
    <3> QED
      BY <3>2, <3>3
  <2> QED
    BY <1>7, <2>1, <2>2
<1>14. DOMAIN F \subseteq Path /\ \A q \in DOMAIN F : F[q] \in Things
  BY <1>8
<1>15. MapOf(it2, F, a)
  BY <1>3, <1>10, <1>12, <1>13, <1>14 DEF MapOf
<1> QED
  BY <1>5, <1>8, <1>15 DEF F

(* What different owners can reach has nothing in common. *)
LEMMA OthersBelow ==
  ASSUME IInv, NEW a \in owned, NEW c \in owned, a # c
  PROVE  Below(a) \cap Below(c) = {} /\ a \in Below(a)
<1>1. Single(items) /\ Root(items, a) /\ Root(items, c) /\ a \in Cells
  BY Forest DEF IInv, HeapTyped
<1> QED
  BY <1>1, Apart, Reaching, BelowIsReach

(* The array gets one more element, and the others stay as they are. *)
LEMMA ExtendTree ==
  ASSUME IInv, IInv', NEW a \in owned \cap owned', kind[a] = "array",
         NEW x \in Things, Push(a, x), NEW g, MapOf(items, g, x), \A q \in DOMAIN g : g[q] # a
  PROVE  /\ Tree(a)[<<>>].type = "array"
         /\ Tree(a)' = Meaning!Extended(Tree(a), Means(kind, content, items, g))
         /\ \A c \in owned \cap owned' : c # a => Tree(c)' = Tree(c)
<1> DEFINE n == Len(items[a]) + 1
           f == Chart(items, a)
           F == Joined(f, g, n, a)
           t == Tree(a)
           v == Means(kind, content, items, g)
<1>1. /\ a \in Cells /\ HeapTyped /\ Vectors(items) /\ Root(items, a) /\ MapOf(items, f, a)
      /\ t = Means(kind, content, items, f)
  BY TreeNow, Forest DEF IInv
<1>2. /\ n \in Nat /\ n # 0 /\ DOMAIN items[a] = 1..n - 1 /\ DOMAIN items'[a] = 1..n
      /\ items'[a][n] = x /\ \A i \in 1..n - 1 : items'[a][i] = items[a][i]
      /\ \A y \in Cells \ {a} : items'[y] = items[y]
      /\ kind' = kind /\ content' = content
  <2>1. x \in Cells \cup {Nothing}
    BY DEF Things
  <2>2. Len(items[a]) \in Nat /\ n - 1 = Len(items[a])
    BY <1>1, <2>1, Pushing
  <2> QED
    BY <1>1, <2>1, <2>2, Pushing
<1>3. Len(items'[a]) = n
  <2>1. items'[a] \in Seq(Things)
    BY <1>1, TreeThen DEF Vectors
  <2>2. Len(items'[a]) \in Nat /\ DOMAIN items'[a] = 1..Len(items'[a])
    BY <2>1, LenProperties
  <2> HIDE DEF n
  <2> QED
    BY <1>2, <2>2
<1>4. Len(items[a]) = n - 1
  BY <1>2, LenProperties, <1>1 DEF HeapTyped
<1> HIDE DEF n, f, F, t, v
<1>5. /\ MapOf(items', F, a) /\ \A p \in DOMAIN F : F[p] = a => p = <<>>
      /\ \A p \in DOMAIN f : F[p] = f[p]
  BY <1>1, <1>2, Joining DEF F
<1>6. Tree(a)' = Means(kind', content', items', F)
  BY <1>5, TreeThen
<1>7. /\ <<>> \in DOMAIN F /\ F[<<>>] = a /\ <<>> \in DOMAIN f /\ f[<<>>] = a
      /\ \A p \in DOMAIN F : F[p] \in Things
  BY <1>1, <1>5 DEF MapOf
<1>8. a # Nothing
  BY <1>1, ValuesAssumption
<1>9. t[<<>>] = [type |-> "array", length |-> n - 1]
  BY <1>1, <1>4, <1>7, <1>8, Labels DEF Means
<1>10. t[<<>>].type = "array" /\ t[<<>>].length + 1 = n
  BY <1>2, <1>9
<1>11. ASSUME NEW p \in DOMAIN F, p # <<>>
       PROVE  LabelIn(kind', content', items', F[p]) = LabelIn(kind, content, items, F[p])
  BY <1>2, <1>5, <1>7, <1>11 DEF LabelIn, Things
<1>12. LabelIn(kind', content', items', F[<<>>]) = [type |-> "array", length |-> n]
  BY <1>2, <1>3, <1>7, <1>8, Labels
<1> DEFINE E == [p \in DOMAIN t \cup {<<n>> \o q : q \in DOMAIN v} |->
                   IF p = <<>> THEN Meaning!Array(n) ELSE IF p[1] = n THEN v[Tail(p)] ELSE t[p]]
<1>13. Meaning!Extended(t, v) = E
  BY <1>10 DEF Meaning!Extended
<1>14. DOMAIN t = DOMAIN f /\ DOMAIN v = DOMAIN g
  BY <1>1 DEF Means, v
<1>15. DOMAIN F = DOMAIN f \cup {<<n>> \o q : q \in DOMAIN g}
  BY DEF F, Joined
<1>16. ASSUME NEW p \in DOMAIN F PROVE E[p] = LabelIn(kind', content', items', F[p])
  <2>1. CASE p = <<>>
    BY <1>12, <1>14, <1>15, <2>1 DEF Meaning!Array
  <2>2. CASE p # <<>> /\ p \in DOMAIN f /\ p[1] # n
    <3>1. E[p] = t[p]
      BY <1>14, <1>15, <2>2
    <3>2. t[p] = LabelIn(kind, content, items, f[p])
      BY <1>1, <2>2 DEF Means
    <3> QED
      BY <1>5, <1>11, <2>2, <3>1, <3>2
  <2>3. CASE p # <<>> /\ \E q \in DOMAIN g : p = <<n>> \o q
    <3>1. PICK q \in DOMAIN g : p = <<n>> \o q
      BY <2>3
    <3>2. q \in Path
      BY DEF MapOf
    <3>3. p[1] = n /\ Tail(p) = q
      BY <1>2, <3>1, <3>2, FirstSteps
    <3>4. E[p] = v[q]
      BY <1>14, <1>15, <2>3, <3>3
    <3>5. F[p] = g[q]
      BY <1>15, <2>3, <3>3 DEF F, Joined
    <3>6. v[q] = LabelIn(kind, content, items, g[q])
      BY DEF Means, v
    <3> QED
      BY <1>11, <2>3, <3>4, <3>5, <3>6
  <2>4. ASSUME p \in DOMAIN f, p # <<>> PROVE p[1] # n
    <3>1. n \notin DOMAIN items[a]
      BY <1>2
    <3> QED
      BY <1>1, <1>2, <2>4, <3>1, FirstStep
  <2> QED
    BY <1>15, <2>1, <2>2, <2>3, <2>4
<1>17. DOMAIN E = DOMAIN F
  BY <1>14, <1>15
<1>18. E = [p \in DOMAIN E |-> E[p]]
  OBVIOUS
<1> HIDE DEF E
<1>19. E = Means(kind', content', items', F)
  BY <1>16, <1>17, <1>18 DEF Means
<1>20. ASSUME NEW c \in owned \cap owned', c # a PROVE Tree(c)' = Tree(c)
  <2>1. \A y \in Below(c) : y # a /\ y \in Cells
    BY <1>20, OthersBelow, LiveBelow
  <2> QED
    BY <1>2, <2>1, TreeStays
<1> QED
  BY <1>6, <1>10, <1>13, <1>19, <1>20 DEF t, v

(* array_append of an owned value. *)
LEMMA AppendTree ==
  ASSUME IInv, IInv', NEW a \in owned, NEW v \in owned, AppendOwned(a, v)
  PROVE  /\ a # v /\ owned' = owned \ {v} /\ Tree(a)[<<>>].type = "array"
         /\ Tree(a)' = Meaning!Extended(Tree(a), Tree(v))
         /\ \A c \in owned' : c # a => Tree(c)' = Tree(c)
<1>1. a # v /\ kind[a] = "array" /\ Push(a, v) /\ owned' = owned \ {v}
  BY DEF AppendOwned
<1> DEFINE g == Chart(items, v)
<1>2. /\ Vectors(items) /\ v \in Cells /\ v \in Things /\ MapOf(items, g, v)
      /\ Tree(v) = Means(kind, content, items, g)
  BY TreeNow DEF Things
<1> HIDE DEF g
<1>3. ASSUME NEW q \in DOMAIN g, g[q] = a PROVE FALSE
  <2>1. a # Nothing
    BY TreeNow, ValuesAssumption
  <2>2. a \in Below(v)
    BY <1>2, <1>3, <2>1, MapShows, BelowIsReach
  <2> QED
    BY <1>1, <2>2, OthersBelow
<1> QED
  BY <1>1, <1>2, <1>3, ExtendTree

(* array_append of NULL. *)
LEMMA NullTree ==
  ASSUME IInv, IInv', NEW a \in owned, AppendNull(a)
  PROVE  /\ owned' = owned /\ Tree(a)[<<>>].type = "array"
         /\ Tree(a)' = Meaning!Extended(Tree(a), Meaning!Leaf(Meaning!Null))
         /\ \A c \in owned' : c # a => Tree(c)' = Tree(c)
<1>1. kind[a] = "array" /\ Push(a, Nothing) /\ owned' = owned
  BY DEF AppendNull
<1> DEFINE g == [p \in {<<>>} |-> Nothing]
<1>2. Nothing \in Things
  BY DEF Things
<1>3. MapOf(items, g, Nothing)
  BY <1>2, MapOfOne
<1>4. Nothing # a
  BY TreeNow, ValuesAssumption
<1>5. \A q \in DOMAIN g : g[q] # a
  BY <1>4
<1>6. Means(kind, content, items, g) = Meaning!Leaf(Meaning!Null)
  BY Labels DEF Means, Meaning!Leaf, Meaning!Null
<1> HIDE DEF g
<1> QED
  BY <1>1, <1>2, <1>3, <1>5, <1>6, ExtendTree

(* Recursion meets a NULL where the tree has one. *)
LEMMA CrashTree ==
  ASSUME IInv, NEW c \in owned, NEW x \in Below(c), MeetsNull(x)
  PROVE  Meaning!HasNull(Tree(c))
<1>1. Vectors(items) /\ c \in Cells /\ MapOf(items, Chart(items, c), c)
      /\ Tree(c) = Means(kind, content, items, Chart(items, c))
  BY TreeNow
<1>2. MeetsNull(c)
  BY <1>1, Transitive, BelowIsReach DEF MeetsNull
<1> DEFINE f == Chart(items, c)
<1>3. \E p \in DOMAIN f : f[p] = Nothing
  BY <1>1, <1>2, NullShows
<1>4. HeapTyped /\ \A p \in DOMAIN f : f[p] \in Things
  BY <1>1 DEF MapOf, IInv
<1> HIDE DEF f
<1> QED
  BY <1>1, <1>3, <1>4, NullMeans DEF f

(* value_destroy of a tree without NULL changes no other. *)
LEMMA DestroyTree ==
  ASSUME IInv, IInv', NEW c \in owned, ~MeetsNull(c), Destroy(c)
  PROVE  owned' = owned \ {c} /\ ~Meaning!HasNull(Tree(c)) /\ \A x \in owned' : Tree(x)' = Tree(x)
<1>1. /\ owned' = owned \ {c}
      /\ kind' = [x \in Cells |-> IF x \in Below(c) THEN "free" ELSE kind[x]]
      /\ content' = [x \in Cells |-> IF x \in Below(c) THEN Nothing ELSE content[x]]
      /\ items' = [x \in Cells |-> IF x \in Below(c) THEN <<>> ELSE items[x]]
  BY DEF Destroy, Destroyed
<1>2. ~Meaning!HasNull(Tree(c))
  <2> DEFINE f == Chart(items, c)
  <2>1. Vectors(items) /\ c \in Cells /\ MapOf(items, f, c) /\ Tree(c) = Means(kind, content, items, f)
    BY TreeNow
  <2> HIDE DEF f
  <2>2. ~ \E p \in DOMAIN f : f[p] = Nothing
    BY <2>1, NullShows
  <2>3. HeapTyped /\ \A p \in DOMAIN f : f[p] \in Things
    BY <2>1 DEF MapOf, IInv
  <2> QED
    BY <2>1, <2>2, <2>3, NullMeans
<1>3. ASSUME NEW x \in owned' PROVE Tree(x)' = Tree(x)
  <2>1. x \in owned /\ x # c
    BY <1>1
  <2>2. \A y \in Below(x) : y \in Cells /\ y \notin Below(c)
    BY <2>1, OthersBelow, LiveBelow
  <2>3. \A y \in Below(x) : kind'[y] = kind[y] /\ content'[y] = content[y] /\ items'[y] = items[y]
    BY <1>1, <2>2
  <2> QED
    BY <2>1, <2>3, TreeStays
<1> QED
  BY <1>1, <1>2, <1>3

(* The paths of a part are those of the whole that begin at it. *)
LEMMA Suffixes ==
  ASSUME NEW p \in Path, NEW D \in SUBSET Path
  PROVE  {SubSeq(r, Len(p) + 1, Len(r)) : r \in {r \in D : Meaning!IsPrefix(p, r)}} =
           {q \in Path : p \o q \in D}
<1>1. ASSUME NEW r \in D, Meaning!IsPrefix(p, r)
      PROVE  SubSeq(r, Len(p) + 1, Len(r)) \in Path /\ p \o SubSeq(r, Len(p) + 1, Len(r)) = r
  <2> DEFINE n == Len(p)
             q == SubSeq(r, n + 1, Len(r))
  <2>1. p \in Seq(Nat) /\ r \in Seq(Nat) /\ n \in Nat /\ Len(r) \in Nat /\ n <= Len(r)
        /\ SubSeq(p, 1, n) = SubSeq(r, 1, n)
    BY <1>1 DEF Path, Meaning!IsPrefix
  <2>2. q \in Seq(Nat) /\ Len(q) = Len(r) - n /\ \A i \in 1..Len(r) - n : q[i] = r[n + i]
    BY <2>1
  <2>3. \A i \in 1..n : p[i] = r[i]
    <3> SUFFICES ASSUME NEW i \in 1..n PROVE p[i] = r[i]
      OBVIOUS
    <3>1. SubSeq(p, 1, n)[i] = p[i] /\ SubSeq(r, 1, n)[i] = r[i]
      BY <2>1
    <3> QED
      BY <2>1, <3>1
  <2> HIDE DEF q
  <2>4. /\ p \o q \in Seq(Nat) /\ Len(p \o q) = Len(r)
        /\ \A i \in 1..Len(r) : (p \o q)[i] = IF i <= n THEN p[i] ELSE q[i - n]
    BY <2>1, <2>2, ConcatProperties
  <2>5. \A i \in 1..Len(r) : (p \o q)[i] = r[i]
    <3> SUFFICES ASSUME NEW i \in 1..Len(r) PROVE (p \o q)[i] = r[i]
      OBVIOUS
    <3>1. CASE i <= n
      BY <2>1, <2>3, <2>4, <3>1
    <3>2. CASE ~(i <= n)
      <4>1. i - n \in 1..Len(r) - n /\ n + (i - n) = i
        BY <2>1, <3>2
      <4> QED
        BY <2>2, <2>4, <3>2, <4>1
    <3> QED
      BY <3>1, <3>2
  <2>6. p \o q = r
    BY <2>1, <2>4, <2>5, SeqEqual
  <2> QED
    BY <2>2, <2>6 DEF Path, q
<1>2. ASSUME NEW q \in Path, p \o q \in D
      PROVE  \E r \in D : Meaning!IsPrefix(p, r) /\ q = SubSeq(r, Len(p) + 1, Len(r))
  <2> DEFINE n == Len(p)
             r == p \o q
  <2>1. p \in Seq(Nat) /\ q \in Seq(Nat) /\ n \in Nat /\ Len(q) \in Nat
    BY DEF Path
  <2>2. /\ r \in Seq(Nat) /\ Len(r) = n + Len(q)
        /\ \A i \in 1..n + Len(q) : r[i] = IF i <= n THEN p[i] ELSE q[i - n]
    BY <2>1, ConcatProperties
  <2> HIDE DEF r
  <2>3. SubSeq(p, 1, n) = SubSeq(r, 1, n)
    <3>1. SubSeq(p, 1, n) \in Seq(Nat) /\ SubSeq(r, 1, n) \in Seq(Nat)
          /\ Len(SubSeq(p, 1, n)) = n /\ Len(SubSeq(r, 1, n)) = n
          /\ \A i \in 1..n : SubSeq(p, 1, n)[i] = p[i] /\ SubSeq(r, 1, n)[i] = r[i]
      BY <2>1, <2>2
    <3>2. \A i \in 1..n : p[i] = r[i]
      BY <2>1, <2>2
    <3> QED
      BY <3>1, <3>2, SeqEqual
  <2>4. Meaning!IsPrefix(p, r)
    BY <2>1, <2>2, <2>3 DEF Meaning!IsPrefix
  <2>5. q = SubSeq(r, n + 1, Len(r))
    <3> DEFINE s == SubSeq(r, n + 1, Len(r))
    <3>1. s \in Seq(Nat) /\ Len(s) = Len(q) /\ \A i \in 1..Len(q) : s[i] = r[n + i]
      BY <2>1, <2>2
    <3>2. \A i \in 1..Len(q) : r[n + i] = q[i]
      <4> SUFFICES ASSUME NEW i \in 1..Len(q) PROVE r[n + i] = q[i]
        OBVIOUS
      <4>1. n + i \in 1..n + Len(q) /\ ~(n + i <= n) /\ (n + i) - n = i
        BY <2>1
      <4> QED
        BY <2>2, <4>1
    <3> HIDE DEF s
    <3>3. q = s
      BY <2>1, <3>1, <3>2, SeqEqual
    <3> QED
      BY <3>3 DEF s
  <2> QED
    BY <1>2, <2>4, <2>5 DEF r
<1> QED
  BY <1>1, <1>2

(* The tree of a part. *)
LEMMA Subtrees ==
  ASSUME NEW k, NEW d, NEW it, NEW f, DOMAIN f \subseteq Path, NEW p \in DOMAIN f
  PROVE  Meaning!Subtree(Means(k, d, it, f), p) =
           Means(k, d, it, [q \in {q \in Path : p \o q \in DOMAIN f} |-> f[p \o q]])
<1> DEFINE v == Means(k, d, it, f)
           D == {q \in Path : p \o q \in DOMAIN f}
           g == [q \in D |-> f[p \o q]]
<1>1. DOMAIN v = DOMAIN f /\ \A q \in DOMAIN f : v[q] = LabelIn(k, d, it, f[q])
  BY DEF Means
<1>2. {SubSeq(r, Len(p) + 1, Len(r)) : r \in {r \in DOMAIN v : Meaning!IsPrefix(p, r)}} = D
  BY <1>1, Suffixes
<1> HIDE DEF v
<1>3. Meaning!Subtree(v, p) = [q \in D |-> v[p \o q]]
  BY <1>2 DEF Meaning!Subtree
<1>4. Means(k, d, it, g) = [q \in D |-> LabelIn(k, d, it, f[p \o q])]
  BY DEF Means
<1>5. \A q \in D : v[p \o q] = LabelIn(k, d, it, f[p \o q])
  BY <1>1
<1> HIDE DEF D, g
<1> QED
  BY <1>3, <1>4, <1>5 DEF v, g, D

(* value_clone: the copy is a tree of its own, like the part that is       *)
(* cloned, but with a NULL for each void value.                            *)
LEMMA CloneTree ==
  ASSUME IInv, IInv', NEW c \in owned, NEW src \in Below(c), ~MeetsNull(src), Clone(src)
  PROVE  \E h \in owned' :
           /\ h \notin owned /\ owned' = owned \cup {h}
           /\ \A x \in owned : Tree(x)' = Tree(x)
           /\ \E p \in DOMAIN Tree(c) :
                LET v == Meaning!Subtree(Tree(c), p)
                IN ~Meaning!HasNull(v) /\ Tree(c)[p] # Meaning!Void /\ Tree(h)' = Meaning!CloneOf(v)
<1> DEFINE D == Cloned(src)
<1>1. PICK e \in Injection(D, {y \in Cells : kind[y] = "free"}) :
        Copies(e) /\ owned' = owned \cup {e[src]}
  BY DEF Clone
<1>2. /\ src \in D /\ src \in Cells /\ c \in Cells /\ D \in SUBSET Cells
      /\ Below(src) \subseteq Below(c) /\ HeapTyped
      /\ \A x \in D : kind[x] # "void"
      /\ \A x \in Below(src) : x \notin D => kind[x] = "void"
  <2>1. c \in Cells /\ src \in Cells /\ src \in D
    BY BelowIsReach, Reaching DEF IInv, HeapTyped, Clone, Below
  <2> QED
    BY <2>1, Transitive, Reaching, BelowIsReach DEF Cloned, IInv
<1> HIDE DEF D
<1>3. /\ DOMAIN e = D
      /\ \A x \in D : /\ e[x] \in Cells /\ kind[e[x]] = "free"
                      /\ kind'[e[x]] = kind[x] /\ content'[e[x]] = content[x]
                      /\ items'[e[x]] = Copied(e, items[x])
      /\ \A y \in Cells : (\A x \in D : e[x] # y) =>
           kind'[y] = kind[y] /\ content'[y] = content[y] /\ items'[y] = items[y]
  BY <1>1, <1>2, Copying
<1>4. ASSUME NEW x \in D
      PROVE  /\ items'[e[x]] \in Seq(Things) /\ items[x] \in Seq(Things)
             /\ DOMAIN items'[e[x]] = DOMAIN items[x] /\ Len(items'[e[x]]) = Len(items[x])
             /\ \A i \in DOMAIN items[x] : items'[e[x]][i] = Target(e, items[x][i])
  <2>1. /\ Copied(e, items[x]) \in Seq(Cells \cup {Nothing})
        /\ DOMAIN Copied(e, items[x]) = DOMAIN items[x]
        /\ \A i \in DOMAIN items[x] : Copied(e, items[x])[i] = Target(e, items[x][i])
    BY <1>2, <1>3, CopiedVector DEF Target
  <2>2. items[x] \in Seq(Things)
    BY <1>2 DEF HeapTyped, Things
  <2> QED
    BY <1>3, <2>1, <2>2, LenProperties DEF Things
<1> DEFINE h == e[src]
<1>5. h \in owned' /\ h \notin owned /\ owned' = owned \cup {h} /\ h \in Cells
  BY <1>1, <1>2, <1>3 DEF IInv, OwnedOnce, Live
<1>6. ASSUME NEW x \in owned PROVE Tree(x)' = Tree(x)
  <2>1. ASSUME NEW y \in Below(x) PROVE y \in Cells /\ \A z \in D : e[z] # y
    BY <1>3, LiveBelow DEF Live
  <2>2. \A y \in Below(x) : kind'[y] = kind[y] /\ content'[y] = content[y] /\ items'[y] = items[y]
    BY <1>3, <2>1
  <2> QED
    BY <1>1, <2>2, TreeStays
<1> DEFINE f == Chart(items, c)
<1>7. Vectors(items) /\ MapOf(items, f, c) /\ Tree(c) = Means(kind, content, items, f)
  BY TreeNow
<1> HIDE DEF f, h
<1>8. PICK p \in DOMAIN f : f[p] = src
  BY <1>2, <1>7, MapShows, BelowIsReach
<1> DEFINE g == [q \in {q \in Path : p \o q \in DOMAIN f} |-> f[p \o q]]
           G == [q \in DOMAIN g |-> Target(e, g[q])]
           v == Meaning!Subtree(Tree(c), p)
<1>9. MapOf(items, g, src)
  BY <1>7, <1>8, SubMap
<1>10. v = Means(kind, content, items, g)
  <2>1. DOMAIN f \subseteq Path
    BY <1>7 DEF MapOf
  <2>2. Meaning!Subtree(Means(kind, content, items, f), p) = Means(kind, content, items, g)
    BY <2>1, Subtrees
  <2> QED
    BY <1>7, <2>2
<1>11. DOMAIN G = DOMAIN g /\ G = [q \in DOMAIN G |-> G[q]] /\ \A q \in DOMAIN g : G[q] = Target(e, g[q])
  OBVIOUS
<1> HIDE DEF g, G, v
<1>12. ASSUME NEW q \in DOMAIN g
       PROVE  /\ g[q] \in Below(src) /\ g[q] \in Cells /\ g[q] # Nothing /\ kind[g[q]] \in Kinds
              /\ g[q] \in D => G[q] = e[g[q]] /\ G[q] \in Cells /\ G[q] # Nothing
              /\ g[q] \notin D => G[q] = Nothing /\ kind[g[q]] = "void"
  <2>1. g[q] # Nothing
    BY <1>2, <1>7, <1>9, NullShows
  <2>2. g[q] \in Below(src)
    BY <1>2, <1>7, <1>9, <2>1, MapShows, BelowIsReach
  <2>3. g[q] \in Cells /\ kind[g[q]] \in Kinds
    BY <1>2, <2>2, LiveBelow
  <2> QED
    BY <1>2, <1>3, <1>11, <2>1, <2>2, <2>3, ValuesAssumption DEF Target
<1>13. MapOf(items', G, h)
  <2>1. DOMAIN G \subseteq Path /\ <<>> \in DOMAIN G /\ G[<<>>] = h
    BY <1>2, <1>3, <1>9, <1>11 DEF MapOf, Target, h
  <2>2. \A q \in DOMAIN G : G[q] \in Things
    BY <1>11, <1>12 DEF Things
  <2>3. ASSUME NEW q \in DOMAIN G, G[q] # Nothing, NEW i \in DOMAIN items'[G[q]]
        PROVE  Append(q, i) \in DOMAIN G /\ G[Append(q, i)] = items'[G[q]][i]
    <3>1. q \in DOMAIN g /\ g[q] \in D /\ G[q] = e[g[q]]
      BY <1>11, <1>12, <2>3
    <3>2. i \in DOMAIN items[g[q]] /\ items'[G[q]][i] = Target(e, items[g[q]][i])
      BY <1>4, <2>3, <3>1
    <3>3. Append(q, i) \in DOMAIN g /\ g[Append(q, i)] = items[g[q]][i]
      BY <1>9, <1>12, <3>1, <3>2 DEF MapOf
    <3> QED
      BY <1>11, <3>2, <3>3
  <2>4. ASSUME NEW r \in DOMAIN G, r # <<>>
        PROVE  \E q \in DOMAIN G : G[q] # Nothing /\ \E i \in DOMAIN items'[G[q]] : r = Append(q, i)
    <3>1. PICK q \in DOMAIN g : g[q] # Nothing /\ \E i \in DOMAIN items[g[q]] : r = Append(q, i)
      BY <1>9, <1>11, <2>4 DEF MapOf
    <3>2. PICK i \in DOMAIN items[g[q]] : r = Append(q, i)
      BY <3>1
    <3>3. kind[g[q]] = "array"
      BY <1>12, <3>2 DEF IInv, Clean
    <3>4. g[q] \in D
      BY <1>12, <3>3
    <3> QED
      BY <1>4, <1>11, <1>12, <3>2, <3>4
  <2> QED
    BY <1>11, <2>1, <2>2, <2>3, <2>4 DEF MapOf
<1>14. Tree(h)' = Means(kind', content', items', G)
  BY <1>5, <1>13, TreeThen
<1>15. DOMAIN v = DOMAIN g /\ \A q \in DOMAIN g : v[q] = LabelIn(kind, content, items, g[q])
  BY <1>10 DEF Means
<1>16. ASSUME NEW q \in DOMAIN g
       PROVE  LabelIn(kind', content', items', G[q]) = IF v[q] = [type |-> "void"] THEN [type |-> "null"] ELSE v[q]
  <2>1. CASE g[q] \notin D
    <3>1. v[q] = [type |-> "void"] /\ G[q] = Nothing
      BY <1>12, <1>15, <2>1, Labels
    <3> QED
      BY <3>1, Labels
  <2>2. CASE g[q] \in D
    <3>1. G[q] = e[g[q]] /\ G[q] # Nothing /\ g[q] # Nothing /\ kind[g[q]] \in Kinds /\ kind[g[q]] # "void"
      BY <1>2, <1>12, <2>2
    <3>2. kind'[G[q]] = kind[g[q]] /\ content'[G[q]] = content[g[q]] /\ Len(items'[G[q]]) = Len(items[g[q]])
      BY <1>3, <1>4, <2>2, <3>1
    <3>3. CASE kind[g[q]] = "simple"
      <4>1. v[q] = [type |-> "simple", data |-> content[g[q]]]
        BY <1>15, <3>1, <3>3, Labels
      <4>2. LabelIn(kind', content', items', G[q]) = [type |-> "simple", data |-> content[g[q]]]
        BY <3>1, <3>2, <3>3, Labels
      <4>3. v[q].type = "simple"
        BY <4>1
      <4> QED
        BY <4>1, <4>2, <4>3
    <3>4. CASE kind[g[q]] = "array"
      <4>1. v[q] = [type |-> "array", length |-> Len(items[g[q]])]
        BY <1>15, <3>1, <3>4, Labels
      <4>2. LabelIn(kind', content', items', G[q]) = [type |-> "array", length |-> Len(items[g[q]])]
        BY <3>1, <3>2, <3>4, Labels
      <4>3. v[q].type = "array"
        BY <4>1
      <4> QED
        BY <4>1, <4>2, <4>3
    <3> QED
      BY <3>1, <3>3, <3>4 DEF Kinds
  <2> QED
    BY <2>1, <2>2
<1>17. Tree(h)' = Meaning!CloneOf(v)
  <2>1. Means(kind', content', items', G) = [q \in DOMAIN g |-> LabelIn(kind', content', items', G[q])]
    BY <1>11 DEF Means
  <2>2. Meaning!CloneOf(v) = [q \in DOMAIN g |-> IF v[q] = [type |-> "void"] THEN [type |-> "null"] ELSE v[q]]
    BY <1>15 DEF Meaning!CloneOf, Meaning!Void, Meaning!Null
  <2> QED
    BY <1>14, <1>16, <2>1, <2>2
<1>18. ~Meaning!HasNull(v)
  <2>1. HeapTyped /\ \A q \in DOMAIN g : g[q] \in Things
    BY <1>2, <1>9 DEF MapOf
  <2> QED
    BY <1>10, <1>12, <2>1, NullMeans
<1>19. p \in DOMAIN Tree(c) /\ Tree(c)[p] # Meaning!Void
  <2>1. p \in DOMAIN Tree(c) /\ Tree(c)[p] = LabelIn(kind, content, items, src)
    BY <1>7, <1>8 DEF Means
  <2>2. src # Nothing /\ kind[src] # "void"
    BY <1>2, ValuesAssumption
  <2>3. LabelIn(kind, content, items, src).type = kind[src]
    BY <2>2 DEF LabelIn
  <2> QED
    BY <2>1, <2>2, <2>3 DEF Meaning!Void
<1> QED
  BY <1>5, <1>6, <1>17, <1>18, <1>19 DEF v

-----------------------------------------------------------------------------
(* The refinement                                                          *)

(* All that is in use, as those see it who see trees. *)
Held == [c \in owned |-> Tree(c)]

(* What is held after a step, if a value comes into use; *)
LEMMA HoldsIs ==
  ASSUME NEW h \in owned', h \notin owned, owned' = owned \cup {h}, NEW v, Tree(h)' = v,
         \A x \in owned : Tree(x)' = Tree(x)
  PROVE  Held' = [x \in owned \cup {h} |-> IF x = h THEN v ELSE Held[x]]
BY DEF Held

(* if an array is extended; *)
LEMMA ExtendIs ==
  ASSUME NEW a \in owned, a \in owned', owned' \subseteq owned, NEW t, Tree(a)' = t,
         \A x \in owned' : x # a => Tree(x)' = Tree(x)
  PROVE  Held' = [x \in owned' |-> IF x = a THEN t ELSE Held[x]]
BY DEF Held

(* if a value goes out of use; *)
LEMMA DestroyIs ==
  ASSUME owned' \subseteq owned, \A x \in owned' : Tree(x)' = Tree(x)
  PROVE  Held' = [x \in owned' |-> Held[x]]
BY DEF Held

(* and if nothing changes. *)
LEMMA StaysIs ==
  ASSUME UNCHANGED <<heap, owned>>
  PROVE  Held' = Held
<1>1. kind' = kind /\ content' = content /\ items' = items /\ owned' = owned
  BY DEF heap
<1>2. \A c : Tree(c)' = Tree(c)
  BY <1>1, TreesAre
<1> QED
  BY <1>1, <1>2 DEF Held

(* Each owned value is held as its tree. *)
LEMMA HeldIs ==
  /\ DOMAIN Held = owned /\ DOMAIN Held' = owned'
  /\ \A c \in owned : Held[c] = Tree(c)
  /\ \A c \in owned' : Held'[c] = Tree(c)'
BY DEF Held

(* The operations on trees, in terms of what is held. *)
LEMMA OperationsAre ==
  /\ Meaning!Init <=> Held = [h \in {} |-> Meaning!Leaf(Meaning!Null)] /\ crashed = FALSE
  /\ \A h, v : Meaning!Holds(h, v) <=> Held' = [x \in DOMAIN Held \cup {h} |-> IF x = h THEN v ELSE Held[x]]
  /\ \A a, v, H : Meaning!Extend(a, v, H) <=>
       /\ Held[a][<<>>].type = "array"
       /\ Held' = [x \in H |-> IF x = a THEN Meaning!Extended(Held[a], v) ELSE Held[x]]
  /\ \A a, h : Meaning!Give(a, h) <=> a # h /\ Meaning!Extend(a, Held[h], DOMAIN Held \ {h})
  /\ \A h, src : Meaning!Clone(h, src) <=>
       \E p \in DOMAIN Held[src] :
         LET v == Meaning!Subtree(Held[src], p)
         IN ~Meaning!HasNull(v) /\ Held[src][p] # Meaning!Void /\ Meaning!Holds(h, Meaning!CloneOf(v))
  /\ \A h : Meaning!Destroy(h) <=>
       ~Meaning!HasNull(Held[h]) /\ Held' = [x \in DOMAIN Held \ {h} |-> Held[x]]
  /\ Meaning!Crash <=>
       (\E h \in DOMAIN Held : Meaning!HasNull(Held[h])) /\ crashed' = TRUE /\ Held' = Held
  /\ Meaning!Work <=>
       \/ \E h \in DOMAIN Held' \ DOMAIN Held : Meaning!New(h) \/ (\E src \in DOMAIN Held : Meaning!Clone(h, src))
       \/ \E h \in DOMAIN Held \ DOMAIN Held' : Meaning!Destroy(h) \/ (\E a \in DOMAIN Held : Meaning!Give(a, h))
       \/ \E a \in DOMAIN Held : Meaning!Extend(a, Meaning!Leaf(Meaning!Null), DOMAIN Held)
<1>1. Meaning!Init <=> Held = [h \in {} |-> Meaning!Leaf(Meaning!Null)] /\ crashed = FALSE
  BY DEF Held, Meaning!Init
<1>2. \A h, v : Meaning!Holds(h, v) <=> Held' = [x \in DOMAIN Held \cup {h} |-> IF x = h THEN v ELSE Held[x]]
  BY DEF Held, Meaning!Holds
<1>3. \A a, v, H : Meaning!Extend(a, v, H) <=>
        /\ Held[a][<<>>].type = "array"
        /\ Held' = [x \in H |-> IF x = a THEN Meaning!Extended(Held[a], v) ELSE Held[x]]
  BY DEF Held, Meaning!Extend
<1>4. \A a, h : Meaning!Give(a, h) <=> a # h /\ Meaning!Extend(a, Held[h], DOMAIN Held \ {h})
  BY DEF Held, Meaning!Give
<1>5. \A h, src : Meaning!Clone(h, src) <=>
        \E p \in DOMAIN Held[src] :
          LET v == Meaning!Subtree(Held[src], p)
          IN ~Meaning!HasNull(v) /\ Held[src][p] # Meaning!Void /\ Meaning!Holds(h, Meaning!CloneOf(v))
  BY DEF Held, Meaning!Clone
<1>6. \A h : Meaning!Destroy(h) <=>
        ~Meaning!HasNull(Held[h]) /\ Held' = [x \in DOMAIN Held \ {h} |-> Held[x]]
  BY DEF Held, Meaning!Destroy
<1>7. Meaning!Crash <=>
        (\E h \in DOMAIN Held : Meaning!HasNull(Held[h])) /\ crashed' = TRUE /\ Held' = Held
  BY DEF Held, Meaning!Crash
<1>8. Meaning!Work <=>
        \/ \E h \in DOMAIN Held' \ DOMAIN Held : Meaning!New(h) \/ (\E src \in DOMAIN Held : Meaning!Clone(h, src))
        \/ \E h \in DOMAIN Held \ DOMAIN Held' : Meaning!Destroy(h) \/ (\E a \in DOMAIN Held : Meaning!Give(a, h))
        \/ \E a \in DOMAIN Held : Meaning!Extend(a, Meaning!Leaf(Meaning!Null), DOMAIN Held)
  BY DEF Held, Meaning!Work
<1> QED
  BY <1>1, <1>2, <1>3, <1>4, <1>5, <1>6, <1>7, <1>8

(* Every step of a caller is a step on trees: the value_new_... functions, *)
LEMMA NewWorks ==
  ASSUME IInv, IInv', NEW k \in Kinds, NEW d, k = "simple" => d \in Data, New(k, d)
  PROVE  Meaning!Work
<1>1. PICK h \in owned' :
        /\ h \notin owned /\ owned' = owned \cup {h}
        /\ \A x \in owned : Tree(x)' = Tree(x)
        /\ k = "simple" => Tree(h)' = Meaning!Leaf(Meaning!Simple(d))
        /\ k = "array" => Tree(h)' = Meaning!Leaf(Meaning!Array(0))
        /\ k = "void" => Tree(h)' = Meaning!Leaf(Meaning!Void)
  BY NewTree
<1>2. \E x \in {Meaning!Void, Meaning!Array(0)} \cup {Meaning!Simple(e) : e \in Data} : Tree(h)' = Meaning!Leaf(x)
  <2>1. CASE k = "simple"
    <3>1. Tree(h)' = Meaning!Leaf(Meaning!Simple(d)) /\ d \in Data
      BY <1>1, <2>1
    <3>2. Meaning!Simple(d) \in {Meaning!Simple(e) : e \in Data}
      BY <3>1
    <3> QED
      BY <3>1, <3>2
  <2>2. CASE k = "array"
    BY <1>1, <2>2
  <2>3. CASE k = "void"
    BY <1>1, <2>3
  <2> QED
    BY <2>1, <2>2, <2>3 DEF Kinds
<1>3. PICK x \in {Meaning!Void, Meaning!Array(0)} \cup {Meaning!Simple(e) : e \in Data} : Tree(h)' = Meaning!Leaf(x)
  BY <1>2
<1> DEFINE t == Meaning!Leaf(x)
<1>4. Held' = [y \in owned \cup {h} |-> IF y = h THEN t ELSE Held[y]]
  <2>1. Tree(h)' = t
    BY <1>3
  <2> HIDE DEF t
  <2> QED
    BY <1>1, <2>1, HoldsIs
<1>5. Meaning!Holds(h, t)
  <2> HIDE DEF t
  <2> QED
    BY <1>4, HeldIs, OperationsAre
<1>6. Meaning!New(h)
  BY <1>3, <1>5 DEF Meaning!New
<1> QED
  BY <1>1, <1>6, HeldIs, OperationsAre

(* array_append of an owned value, *)
LEMMA AppendWorks ==
  ASSUME IInv, IInv', NEW a \in owned, NEW v \in owned, AppendOwned(a, v)
  PROVE  Meaning!Work
<1>1. /\ a # v /\ owned' = owned \ {v} /\ Tree(a)[<<>>].type = "array"
      /\ Tree(a)' = Meaning!Extended(Tree(a), Tree(v))
      /\ \A c \in owned' : c # a => Tree(c)' = Tree(c)
  BY AppendTree
<1>2. Held' = [x \in owned' |-> IF x = a THEN Meaning!Extended(Tree(a), Tree(v)) ELSE Held[x]]
  BY <1>1, ExtendIs
<1>3. Held[a] = Tree(a) /\ Held[v] = Tree(v) /\ owned' = DOMAIN Held \ {v}
  BY <1>1, HeldIs
<1>4. Meaning!Extend(a, Held[v], DOMAIN Held \ {v})
  BY <1>1, <1>2, <1>3, OperationsAre
<1>5. Meaning!Give(a, v)
  BY <1>1, <1>4, OperationsAre
<1> QED
  BY <1>1, <1>5, HeldIs, OperationsAre

(* array_append of NULL, *)
LEMMA NullWorks ==
  ASSUME IInv, IInv', NEW a \in owned, AppendNull(a)
  PROVE  Meaning!Work
<1>1. /\ owned' = owned /\ Tree(a)[<<>>].type = "array"
      /\ Tree(a)' = Meaning!Extended(Tree(a), Meaning!Leaf(Meaning!Null))
      /\ \A c \in owned' : c # a => Tree(c)' = Tree(c)
  BY NullTree
<1>2. Held' = [x \in owned' |-> IF x = a THEN Meaning!Extended(Tree(a), Meaning!Leaf(Meaning!Null)) ELSE Held[x]]
  BY <1>1, ExtendIs
<1>3. Held[a] = Tree(a) /\ owned' = DOMAIN Held
  BY <1>1, HeldIs
<1>4. Meaning!Extend(a, Meaning!Leaf(Meaning!Null), DOMAIN Held)
  BY <1>1, <1>2, <1>3, OperationsAre
<1> QED
  BY <1>4, HeldIs, OperationsAre

(* value_destroy, *)
LEMMA DestroyWorks ==
  ASSUME IInv, IInv', NEW c \in owned, ~MeetsNull(c), Destroy(c)
  PROVE  Meaning!Work
<1>1. owned' = owned \ {c} /\ ~Meaning!HasNull(Tree(c)) /\ \A x \in owned' : Tree(x)' = Tree(x)
  BY DestroyTree
<1>2. Held' = [x \in owned' |-> Held[x]]
  BY <1>1, DestroyIs
<1>3. Held[c] = Tree(c) /\ owned' = DOMAIN Held \ {c}
  BY <1>1, HeldIs
<1>4. Meaning!Destroy(c)
  BY <1>1, <1>2, <1>3, OperationsAre
<1> QED
  BY <1>1, <1>4, HeldIs, OperationsAre

(* value_clone, *)
LEMMA CloneWorks ==
  ASSUME IInv, IInv', NEW c \in owned, NEW src \in Below(c), ~MeetsNull(src), Clone(src)
  PROVE  Meaning!Work
<1>1. PICK h \in owned' :
        /\ h \notin owned /\ owned' = owned \cup {h}
        /\ \A x \in owned : Tree(x)' = Tree(x)
        /\ \E p \in DOMAIN Tree(c) :
             LET v == Meaning!Subtree(Tree(c), p)
             IN ~Meaning!HasNull(v) /\ Tree(c)[p] # Meaning!Void /\ Tree(h)' = Meaning!CloneOf(v)
  BY CloneTree
<1>2. PICK p \in DOMAIN Tree(c) :
        LET v == Meaning!Subtree(Tree(c), p)
        IN ~Meaning!HasNull(v) /\ Tree(c)[p] # Meaning!Void /\ Tree(h)' = Meaning!CloneOf(v)
  BY <1>1
<1> DEFINE t == Meaning!CloneOf(Meaning!Subtree(Tree(c), p))
<1>3. Held' = [y \in owned \cup {h} |-> IF y = h THEN t ELSE Held[y]]
  <2>1. Tree(h)' = t
    BY <1>2
  <2> HIDE DEF t
  <2> QED
    BY <1>1, <2>1, HoldsIs
<1>4. Meaning!Holds(h, t)
  <2> HIDE DEF t
  <2> QED
    BY <1>3, HeldIs, OperationsAre
<1>5. Held[c] = Tree(c)
  BY HeldIs
<1>6. Meaning!Clone(h, c)
  BY <1>2, <1>4, <1>5, OperationsAre
<1> QED
  BY <1>1, <1>6, HeldIs, OperationsAre

(* and the recursion of either into a NULL. *)
LEMMA CrashWorks ==
  ASSUME IInv, NEW c \in owned, NEW x \in Below(c), MeetsNull(x), Crash
  PROVE  Meaning!Crash
<1>1. Meaning!HasNull(Tree(c)) /\ Tree(c) = Held[c] /\ c \in DOMAIN Held
  BY CrashTree, HeldIs
<1>2. Held' = Held /\ crashed' = TRUE
  BY StaysIs DEF Crash
<1> QED
  BY <1>1, <1>2, OperationsAre

(* Values on the heap behave like trees, whatever their number and         *)
(* nesting: value_clone gives the content of its original, array_append    *)
(* and value_destroy change no value but their own, and a caller that      *)
(* meets no NULL element does not crash.                                   *)
THEOREM ValuesAreTrees == Spec => AreTrees
<1>1. Init => Meaning!Init
  <2> SUFFICES ASSUME Init PROVE Meaning!Init
    OBVIOUS
  <2>1. owned = {} /\ crashed = FALSE
    BY DEF Init
  <2>2. Held = [h \in {} |-> Meaning!Leaf(Meaning!Null)]
    BY <2>1 DEF Held
  <2> QED
    BY <2>1, <2>2, OperationsAre
<1>2. IInv /\ IInv' /\ Next => Meaning!Next
  <2> SUFFICES ASSUME IInv, IInv', Next PROVE Meaning!Next
    OBVIOUS
  <2>1. ASSUME Meaning!Work, UNCHANGED crashed PROVE Meaning!Next
    BY <2>1 DEF Meaning!Next, Next
  <2>2. ASSUME Meaning!Crash PROVE Meaning!Next
    BY <2>2 DEF Meaning!Next, Next
  <2>3. CASE NewSimple
    <3>1. PICK d \in Data : New("simple", d)
      BY <2>3 DEF NewSimple
    <3>2. Meaning!Work
      BY <3>1, NewWorks DEF Kinds
    <3> QED
      BY <2>1, <3>1, <3>2 DEF New
  <2>4. CASE NewOther
    <3>1. PICK k \in {"void", "array"} : New(k, Nothing)
      BY <2>4 DEF NewOther
    <3>2. k \in Kinds /\ k # "simple"
      BY <3>1 DEF Kinds
    <3>3. Meaning!Work
      BY <3>1, <3>2, NewWorks
    <3> QED
      BY <2>1, <3>1, <3>3 DEF New
  <2>5. ASSUME NEW a \in owned, AppendNull(a) PROVE Meaning!Next
    <3>1. Meaning!Work
      BY <2>5, NullWorks
    <3> QED
      BY <2>1, <2>5, <3>1 DEF AppendNull, Push
  <2>6. ASSUME NEW a \in owned, NEW v \in owned, AppendOwned(a, v) PROVE Meaning!Next
    <3>1. Meaning!Work
      BY <2>6, AppendWorks
    <3> QED
      BY <2>1, <2>6, <3>1 DEF AppendOwned, Push
  <2>7. ASSUME NEW c \in owned, Destroy(c) PROVE Meaning!Next
    <3>1. CASE MeetsNull(c)
      <4>1. c \in Below(c)
        BY BelowIsReach, Reaching DEF IInv, HeapTyped
      <4>2. Crash
        BY <2>7, <3>1 DEF Destroy
      <4> QED
        BY <2>2, <3>1, <4>1, <4>2, CrashWorks
    <3>2. CASE ~MeetsNull(c)
      <4>1. Meaning!Work
        BY <2>7, <3>2, DestroyWorks
      <4> QED
        BY <2>1, <2>7, <3>2, <4>1 DEF Destroy
    <3> QED
      BY <3>1, <3>2
  <2>8. ASSUME NEW c \in owned, NEW src \in Below(c), Clone(src) PROVE Meaning!Next
    <3>1. CASE MeetsNull(src)
      <4>1. Crash
        BY <2>8, <3>1 DEF Clone
      <4> QED
        BY <2>2, <3>1, <4>1, CrashWorks
    <3>2. CASE ~MeetsNull(src)
      <4>1. Meaning!Work
        BY <2>8, <3>2, CloneWorks
      <4> QED
        BY <2>1, <2>8, <3>2, <4>1 DEF Clone
    <3> QED
      BY <3>1, <3>2
  <2> QED
    BY <2>3, <2>4, <2>5, <2>6, <2>7, <2>8 DEF Next
<1>3. UNCHANGED vars => Held' = Held /\ crashed' = crashed
  BY StaysIs DEF vars
<1>4. IInv /\ IInv' /\ [Next]_vars => [Meaning!Next]_<<Held, crashed>>
  BY <1>2, <1>3
<1>5. IInv /\ IInv' /\ [Next]_vars => [Meaning!Next]_<<[c \in owned |-> Tree(c)], crashed>>
  BY <1>4 DEF Held
<1> QED
  BY <1>1, <1>5, Invariance, PTL DEF Spec, AreTrees, Meaning!Spec

=============================================================================
