----------------------------- MODULE DictProofs -----------------------------
(***************************************************************************)
(* A hash table is a bag of pairs.  Each operation rearranges places, puts *)
(* an entry somewhere or takes one away; what a table holds is counted     *)
(* place by place, so a rearrangement is a bijection between places that   *)
(* keeps the entries, and need not say in which order they come.           *)
(***************************************************************************)
EXTENDS Dict, FiniteSetTheorems, FunctionTheorems, SequenceTheorems, WellFoundedInduction, TLAPS

(* A set of natural numbers has a least element. *)
LEMMA NatMin ==
  ASSUME NEW T, T \subseteq Nat, T # {}
  PROVE  \E n \in T : \A m \in T : n <= m
<1>1. IsWellFoundedOn(OpToRel(<, Nat), Nat)
  BY NatLessThanWellFounded
<1>2. PICK n \in T : \A m \in T : ~ (<<m, n>> \in OpToRel(<, Nat))
  BY <1>1, WFMin
<1>3. \A m \in T : ~(m < n)
  BY <1>2 DEF OpToRel
<1> QED
  BY <1>3

(* What holds of 0 and of whatever follows holds of all natural numbers. *)
LEMMA NatInduct ==
  ASSUME NEW T, 0 \in T, \A n \in Nat : n \in T => n + 1 \in T
  PROVE  Nat \subseteq T
<1> DEFINE U == Nat \ T
<1> SUFFICES ASSUME U # {} PROVE FALSE
  OBVIOUS
<1>1. PICK n \in U : \A m \in U : n <= m
  <2> U \subseteq Nat
    OBVIOUS
  <2> HIDE DEF U
  <2> QED BY NatMin
<1>2. n # 0 /\ n - 1 \in Nat /\ n - 1 \notin U
  BY <1>1
<1> QED
  BY <1>1, <1>2

(* Counting to n. *)
LEMMA UpTo == ASSUME NEW n \in Nat PROVE IsFiniteSet(1..n) /\ Cardinality(1..n) = n
<1>1. 1 \in Int /\ n \in Int
  OBVIOUS
<1>2. IsFiniteSet(1..n) /\ Cardinality(1..n) = IF 1 > n THEN 0 ELSE n - 1 + 1
  BY <1>1, FS_Interval
<1> QED
  BY <1>2

-----------------------------------------------------------------------------
(* Places                                                                  *)

Tables == Seq(Seq(Entry))

(* A place is a slot and a position in its list. *)
LEMMA PlaceIs ==
  ASSUME NEW t \in Tables
  PROVE  /\ Len(t) \in Nat /\ DOMAIN t = 1..Len(t)
         /\ \A i \in 1..Len(t) : t[i] \in Seq(Entry) /\ Len(t[i]) \in Nat /\ DOMAIN t[i] = 1..Len(t[i])
         /\ \A i, j : <<i, j>> \in Places(t) <=> i \in 1..Len(t) /\ j \in 1..Len(t[i])
         /\ \A x \in Places(t) : /\ x = <<x[1], x[2]>>
                                 /\ x[1] \in 1..Len(t) /\ x[2] \in 1..Len(t[x[1]])
                                 /\ At(t, x) \in Entry
<1>1. Len(t) \in Nat /\ DOMAIN t = 1..Len(t) /\ \A i \in 1..Len(t) : t[i] \in Seq(Entry)
  BY DEF Tables
<1>2. ASSUME NEW i \in 1..Len(t)
      PROVE  Len(t[i]) \in Nat /\ DOMAIN t[i] = 1..Len(t[i]) /\ \A j \in 1..Len(t[i]) : t[i][j] \in Entry
  BY <1>1
<1>3. \A i, j : <<i, j>> \in Places(t) <=> i \in 1..Len(t) /\ j \in 1..Len(t[i])
  BY <1>1, <1>2 DEF Places
<1>4. ASSUME NEW x \in Places(t) PROVE x = <<x[1], x[2]>>
  BY <1>1, <1>2 DEF Places
<1>5. ASSUME NEW x \in Places(t)
      PROVE  x[1] \in 1..Len(t) /\ x[2] \in 1..Len(t[x[1]]) /\ At(t, x) \in Entry
  BY <1>2, <1>3, <1>4 DEF At
<1> QED
  BY <1>1, <1>2, <1>3, <1>4, <1>5

(* A table has finitely many places. *)
LEMMA PlacesFinite == ASSUME NEW t \in Tables PROVE IsFiniteSet(Places(t))
<1> DEFINE row == [i \in 1..Len(t) |-> {<<i, j>> : j \in 1..Len(t[i])}]
           S == {row[i] : i \in 1..Len(t)}
<1>1. Len(t) \in Nat /\ DOMAIN t = 1..Len(t) /\ \A i \in 1..Len(t) : Len(t[i]) \in Nat /\ DOMAIN t[i] = 1..Len(t[i])
  BY PlaceIs
<1>2. IsFiniteSet(S)
  <2>1. row \in Surjection(1..Len(t), S)
    BY Fun_IsSurj
  <2>2. IsFiniteSet(1..Len(t))
    BY <1>1, UpTo
  <2> QED
    BY <2>1, <2>2, FS_Surjection
<1>3. ASSUME NEW i \in 1..Len(t) PROVE IsFiniteSet(row[i])
  <2> DEFINE R == {<<i, j>> : j \in 1..Len(t[i])}
             g == [j \in 1..Len(t[i]) |-> <<i, j>>]
  <2>1. g \in Surjection(1..Len(t[i]), R)
    BY Fun_IsSurj
  <2>2. IsFiniteSet(1..Len(t[i]))
    BY <1>1, UpTo
  <2>3. IsFiniteSet(R)
    BY <2>1, <2>2, FS_Surjection
  <2> QED
    BY <2>3
<1>4. Places(t) = UNION S
  BY <1>1 DEF Places
<1> HIDE DEF row
<1> QED
  BY <1>2, <1>3, <1>4, FS_UNION

-----------------------------------------------------------------------------
(* Counting                                                                *)

(* What is at a place. *)
Pair(t, x) == <<At(t, x).key, At(t, x).data>>

(* The places of P and those of Q have the same entries, and as many.      *)
Matches(b, t, P, u, Q) == b \in Bijection(P, Q) /\ \A x \in P : At(u, b[x]) = At(t, x)

Among(t, P, p) == {x \in P : Pair(t, x) = p}

(* Matching places are as many, for each pair and together. *)
LEMMA Matching ==
  ASSUME NEW t, NEW u, NEW P, NEW Q, IsFiniteSet(P), NEW b, Matches(b, t, P, u, Q)
  PROVE  /\ IsFiniteSet(Q) /\ Cardinality(Q) = Cardinality(P)
         /\ \A p : Cardinality(Among(u, Q, p)) = Cardinality(Among(t, P, p))
<1>1. /\ b \in [P -> Q] /\ \A x \in P : At(u, b[x]) = At(t, x)
      /\ \A x, y \in P : b[x] = b[y] => x = y
      /\ \A y \in Q : \E x \in P : b[x] = y
  BY Fun_BijectionProperties DEF Matches
<1>2. IsFiniteSet(Q) /\ Cardinality(Q) = Cardinality(P)
  BY FS_Bijection, Fun_ExistsBij DEF Matches
<1>3. ASSUME NEW p PROVE Cardinality(Among(u, Q, p)) = Cardinality(Among(t, P, p))
  <2> DEFINE R == Among(t, P, p)
             T == Among(u, Q, p)
             c == [x \in R |-> b[x]]
  <2>1. R \in SUBSET P /\ IsFiniteSet(R)
    BY FS_Subset DEF Among
  <2>2. c \in [R -> T]
    BY <1>1 DEF Among, Pair
  <2>3. \A x, y \in R : c[x] = c[y] => x = y
    BY <1>1, <2>1
  <2>4. ASSUME NEW y \in T PROVE \E x \in R : c[x] = y
    <3>1. PICK x \in P : b[x] = y
      BY <1>1 DEF Among
    <3>2. x \in R
      BY <1>1, <3>1 DEF Among, Pair
    <3> QED
      BY <3>1, <3>2
  <2> HIDE DEF R, T, c
  <2>5. c \in Bijection(R, T)
    BY <2>2, <2>3, <2>4, Fun_IsBij
  <2>6. Cardinality(T) = Cardinality(R)
    BY <2>1, <2>5, FS_Bijection, Fun_ExistsBij
  <2> QED
    BY <2>6 DEF R, T
<1> QED
  BY <1>2, <1>3

(* As many entries, pair by pair, in the places P of t as in the places Q of u. *)
Even(t, P, u, Q) ==
  /\ IsFiniteSet(P) /\ IsFiniteSet(Q) /\ Cardinality(P) = Cardinality(Q)
  /\ \A p : Cardinality(Among(t, P, p)) = Cardinality(Among(u, Q, p))

(* The table u has what t has, and e. *)
Adds(t, u, e) ==
  /\ Cardinality(Places(u)) = Cardinality(Places(t)) + 1
  /\ \A p : Cardinality(Holding(u, p)) =
              Cardinality(Holding(t, p)) + (IF p = <<e.key, e.data>> THEN 1 ELSE 0)

LEMMA HoldingIs == \A t, p : Holding(t, p) = Among(t, Places(t), p)
BY DEF Holding, Among, Pair

(* One place more makes one pair more. *)
LEMMA Adding ==
  ASSUME NEW t \in Tables, NEW u \in Tables, NEW x \in Places(u),
         Even(t, Places(t), u, Places(u) \ {x})
  PROVE  Adds(t, u, At(u, x))
<1> DEFINE P == Places(u)
           Q == Places(u) \ {x}
<1>1. IsFiniteSet(P) /\ IsFiniteSet(Q) /\ Cardinality(P) \in Nat /\ Cardinality(Q) \in Nat
  BY PlacesFinite, FS_CardinalityType DEF Even
<1>2. Cardinality(Q) = Cardinality(P) - 1
  BY <1>1, FS_RemoveElement
<1>3. ASSUME NEW p
      PROVE  Cardinality(Among(u, P, p)) =
               Cardinality(Among(u, Q, p)) + (IF p = Pair(u, x) THEN 1 ELSE 0)
  <2>1. IsFiniteSet(Among(u, Q, p)) /\ Cardinality(Among(u, Q, p)) \in Nat
    <3>1. Among(u, Q, p) \in SUBSET Q
      BY DEF Among
    <3> QED
      BY <1>1, <3>1, FS_Subset, FS_CardinalityType
  <2>2. CASE p = Pair(u, x)
    <3>1. Among(u, P, p) = Among(u, Q, p) \cup {x} /\ x \notin Among(u, Q, p)
      BY <2>2 DEF Among
    <3> QED
      BY <2>1, <2>2, <3>1, FS_AddElement
  <2>3. CASE p # Pair(u, x)
    <3>1. Among(u, P, p) = Among(u, Q, p)
      BY <2>3 DEF Among
    <3> QED
      BY <2>1, <2>3, <3>1
  <2> QED
    BY <2>2, <2>3
<1>4. Cardinality(Places(t)) = Cardinality(Q)
      /\ \A p : Cardinality(Among(t, Places(t), p)) = Cardinality(Among(u, Q, p))
  BY DEF Even
<1>5. Pair(u, x) = <<At(u, x).key, At(u, x).data>>
  BY DEF Pair
<1> HIDE DEF P, Q
<1> QED
  BY <1>1, <1>2, <1>3, <1>4, <1>5, HoldingIs DEF Adds, P

-----------------------------------------------------------------------------
(* Lists                                                                   *)

(* An entry in front of a list. *)
LEMMA InFront ==
  ASSUME NEW T, NEW s \in Seq(T), NEW e \in T
  PROVE  /\ Cons(e, s) \in Seq(T) /\ Len(Cons(e, s)) = Len(s) + 1
         /\ Cons(e, s)[1] = e /\ \A j \in 2..Len(s) + 1 : Cons(e, s)[j] = s[j - 1]
BY DEF Cons

(* A list without its entry i. *)
LEMMA Without ==
  ASSUME NEW T, NEW s \in Seq(T), NEW i \in 1..Len(s)
  PROVE  /\ RemoveAt(s, i) \in Seq(T) /\ Len(RemoveAt(s, i)) = Len(s) - 1
         /\ \A j \in 1..Len(s) - 1 : RemoveAt(s, i)[j] = IF j < i THEN s[j] ELSE s[j + 1]
<1> DEFINE a == SubSeq(s, 1, i - 1)
           b == SubSeq(s, i + 1, Len(s))
<1>1. a \in Seq(T) /\ Len(a) = i - 1 /\ \A j \in 1..i - 1 : a[j] = s[j]
  OBVIOUS
<1>2. b \in Seq(T) /\ Len(b) = Len(s) - i /\ \A j \in 1..Len(s) - i : b[j] = s[i + j]
  OBVIOUS
<1> HIDE DEF a, b
<1>0. Len(s) \in Nat /\ i \in Nat /\ Len(a) + Len(b) = Len(s) - 1
  BY <1>1, <1>2
<1>3. a \o b \in Seq(T) /\ Len(a \o b) = Len(s) - 1
  BY <1>0, <1>1, <1>2, ConcatProperties
<1>4. ASSUME NEW j \in 1..Len(s) - 1 PROVE (a \o b)[j] = IF j < i THEN s[j] ELSE s[j + 1]
  <2>1. CASE j < i
    BY <1>1, <1>2, <2>1, ConcatProperties
  <2>2. CASE j >= i
    <3>1. (a \o b)[j] = b[j - (i - 1)] /\ j - (i - 1) \in 1..Len(s) - i
      BY <1>1, <1>2, <2>2
    <3> QED
      BY <1>2, <2>2, <3>1
  <2> QED
    BY <1>0, <2>1, <2>2
<1> QED
  BY <1>3, <1>4 DEF RemoveAt, a, b

(* The table u is t but for list h, which is s. *)
Changed(t, u, h, s) ==
  /\ u \in Tables /\ Len(u) = Len(t) /\ u[h] = s
  /\ \A i \in 1..Len(t) : i # h => u[i] = t[i]

LEMMA Replaced ==
  ASSUME NEW t \in Tables, NEW h \in 1..Len(t), NEW s \in Seq(Entry)
  PROVE  Changed(t, [t EXCEPT ![h] = s], h, s)
BY DEF Tables, Changed

-----------------------------------------------------------------------------
(* Putting and deleting                                                    *)

(* Every entry is in the list where it is looked for. *)
InHome(t) == \A x \in Places(t) : Home(At(t, x).key, Len(t)) = x[1]

(* The list w is the list s with e at place i. *)
Inserted(s, w, i, e) ==
  /\ i \in 1..Len(w) /\ Len(w) = Len(s) + 1 /\ w[i] = e
  /\ \A j \in 1..Len(w) : (j < i => w[j] = s[j]) /\ (j > i => w[j] = s[j - 1])

(* The tables t and u differ in their lists h. *)
Differ(t, u, h) ==
  /\ t \in Tables /\ u \in Tables /\ Len(u) = Len(t) /\ h \in 1..Len(t)
  /\ \A i \in 1..Len(t) : i # h => u[i] = t[i]

(* One entry more: those behind it move by one place. *)
LEMMA Inserting ==
  ASSUME NEW t, NEW u, NEW h, NEW i, NEW e, Differ(t, u, h), Inserted(t[h], u[h], i, e)
  PROVE  /\ Adds(t, u, e)
         /\ InHome(t) /\ Home(e.key, Len(t)) = h => InHome(u)
         /\ InHome(u) => InHome(t)
<1> DEFINE P == Places(t)
           Q == Places(u) \ {<<h, i>>}
           b == [x \in P |-> IF x[1] = h /\ x[2] >= i THEN <<h, x[2] + 1>> ELSE x]
<1>1. /\ t \in Tables /\ u \in Tables /\ Len(u) = Len(t) /\ h \in 1..Len(t)
      /\ \A k \in 1..Len(t) : k # h => u[k] = t[k]
      /\ i \in 1..Len(u[h]) /\ Len(u[h]) = Len(t[h]) + 1 /\ u[h][i] = e
      /\ \A j \in 1..Len(u[h]) : (j < i => u[h][j] = t[h][j]) /\ (j > i => u[h][j] = t[h][j - 1])
  BY DEF Differ, Inserted
<1>2. Len(t[h]) \in Nat /\ Len(u[h]) \in Nat /\ i \in Nat
  BY <1>1, PlaceIs
<1>3. <<h, i>> \in Places(u) /\ At(u, <<h, i>>) = e
  BY <1>1, PlaceIs DEF At
<1>4. ASSUME NEW x \in P PROVE b[x] \in Q /\ At(u, b[x]) = At(t, x) /\ b[x][1] = x[1]
  <2>1. x = <<x[1], x[2]>> /\ x[1] \in 1..Len(t) /\ x[2] \in 1..Len(t[x[1]])
    BY <1>1, PlaceIs
  <2>2. CASE x[1] = h /\ x[2] >= i
    <3>1. b[x] = <<h, x[2] + 1>> /\ x[2] + 1 \in 1..Len(u[h]) /\ x[2] + 1 > i
      BY <1>1, <1>2, <2>1, <2>2
    <3>2. u[h][x[2] + 1] = t[h][x[2]]
      BY <1>1, <1>2, <3>1, <2>1, <2>2
    <3> QED
      BY <1>1, <1>2, <2>1, <2>2, <3>1, <3>2, PlaceIs DEF At
  <2>3. CASE x[1] = h /\ x[2] < i
    BY <1>1, <1>2, <2>1, <2>3, PlaceIs DEF At
  <2>4. CASE x[1] # h
    BY <1>1, <2>1, <2>4, PlaceIs DEF At
  <2> QED
    BY <1>2, <2>1, <2>2, <2>3, <2>4
<1>5. ASSUME NEW x \in P, NEW y \in P, b[x] = b[y] PROVE x = y
  <2>1. /\ x = <<x[1], x[2]>> /\ y = <<y[1], y[2]>> /\ x[1] = y[1]
        /\ x[2] \in Nat /\ y[2] \in Nat
    BY <1>1, <1>4, <1>5, PlaceIs
  <2> QED
    BY <1>2, <1>5, <2>1
<1>6. ASSUME NEW y \in Q PROVE \E x \in P : b[x] = y
  <2>1. y = <<y[1], y[2]>> /\ y[1] \in 1..Len(t) /\ y[2] \in 1..Len(u[y[1]])
    BY <1>1, PlaceIs
  <2>2. CASE y[1] = h /\ y[2] > i
    <3> DEFINE x == <<h, y[2] - 1>>
    <3>1. x \in P
      BY <1>1, <1>2, <2>1, <2>2, PlaceIs
    <3>2. b[x] = y
      BY <1>2, <2>1, <2>2, <3>1
    <3> QED
      BY <3>1, <3>2
  <2>3. CASE y[1] = h /\ y[2] < i
    <3>1. y \in P /\ b[y] = y
      BY <1>1, <1>2, <2>1, <2>3, PlaceIs
    <3> QED
      BY <3>1
  <2>4. CASE y[1] # h
    <3>1. y \in P /\ b[y] = y
      BY <1>1, <2>1, <2>4, PlaceIs
    <3> QED
      BY <3>1
  <2>5. y # <<h, i>>
    OBVIOUS
  <2> QED
    BY <1>2, <2>1, <2>2, <2>3, <2>4, <2>5
<1>7. Even(t, P, u, Q)
  <2>1. b \in [P -> Q]
    BY <1>4
  <2> HIDE DEF b, P, Q
  <2>2. Matches(b, t, P, u, Q)
    BY <1>4, <1>5, <1>6, <2>1, Fun_IsBij DEF Matches
  <2>3. IsFiniteSet(P)
    BY <1>1, PlacesFinite DEF P
  <2> QED
    BY <2>2, <2>3, Matching DEF Even
<1>8. Adds(t, u, e)
  BY <1>1, <1>3, <1>7, Adding
<1>9. ASSUME InHome(t), Home(e.key, Len(t)) = h, NEW y \in Places(u)
      PROVE  Home(At(u, y).key, Len(u)) = y[1]
  <2>1. CASE y = <<h, i>>
    BY <1>1, <1>3, <1>9, <2>1
  <2>2. CASE y \in Q
    <3>1. PICK x \in P : b[x] = y
      BY <1>6, <2>2
    <3>2. At(u, y) = At(t, x) /\ y[1] = x[1]
      BY <1>4, <3>1
    <3>3. Home(At(t, x).key, Len(t)) = x[1]
      BY <1>9 DEF InHome
    <3> QED
      BY <1>1, <3>2, <3>3
  <2> QED
    BY <2>1, <2>2
<1>10. ASSUME InHome(u), NEW x \in Places(t) PROVE Home(At(t, x).key, Len(t)) = x[1]
  <2>1. b[x] \in Places(u) /\ At(u, b[x]) = At(t, x) /\ b[x][1] = x[1]
    BY <1>4
  <2>2. Home(At(u, b[x]).key, Len(u)) = b[x][1]
    BY <1>10, <2>1 DEF InHome
  <2> QED
    BY <1>1, <2>1, <2>2
<1> QED
  BY <1>8, <1>9, <1>10 DEF InHome

(* dict_put puts the entry in front of its list. *)
LEMMA PuttingFront ==
  ASSUME NEW t \in Tables, NEW h \in 1..Len(t), NEW e \in Entry,
         NEW u, Changed(t, u, h, Cons(e, t[h]))
  PROVE  /\ Adds(t, u, e)
         /\ InHome(t) /\ Home(e.key, Len(t)) = h => InHome(u)
<1> DEFINE s == t[h]
<1>1. s \in Seq(Entry) /\ Len(s) \in Nat
  BY PlaceIs
<1>2. /\ u \in Tables /\ Len(u) = Len(t) /\ \A i \in 1..Len(t) : i # h => u[i] = t[i]
      /\ u[h] = Cons(e, s)
  BY DEF Changed
<1> HIDE DEF s
<1>3. /\ Len(Cons(e, s)) = Len(s) + 1 /\ Cons(e, s)[1] = e
      /\ \A j \in 2..Len(s) + 1 : Cons(e, s)[j] = s[j - 1]
  <2>1. Len(Cons(e, s)) = Len(s) + 1 /\ Cons(e, s)[1] = e
    BY <1>1, InFront
  <2>2. \A j \in 2..Len(s) + 1 : Cons(e, s)[j] = s[j - 1]
    BY <1>1, InFront
  <2> QED
    BY <2>1, <2>2
<1>4. Differ(t, u, h)
  BY <1>2 DEF Differ
<1>5. Inserted(s, Cons(e, s), 1, e)
  BY <1>1, <1>3 DEF Inserted
<1>6. Inserted(t[h], u[h], 1, e)
  BY <1>2, <1>5 DEF s
<1> QED
  BY <1>4, <1>6, Inserting

(* dict_del takes an entry out of its list. *)
LEMMA TakingOut ==
  ASSUME NEW t \in Tables, NEW h \in 1..Len(t), NEW i \in 1..Len(t[h]),
         NEW u, Changed(t, u, h, RemoveAt(t[h], i))
  PROVE  Adds(u, t, t[h][i]) /\ (InHome(t) => InHome(u))
<1> DEFINE s == t[h]
<1>1. s \in Seq(Entry) /\ Len(s) \in Nat /\ i \in 1..Len(s)
  BY PlaceIs
<1>2. /\ u \in Tables /\ Len(u) = Len(t) /\ \A k \in 1..Len(t) : k # h => u[k] = t[k]
      /\ u[h] = RemoveAt(s, i)
  BY DEF Changed
<1> HIDE DEF s
<1>3. /\ Len(RemoveAt(s, i)) = Len(s) - 1
      /\ \A j \in 1..Len(s) - 1 : RemoveAt(s, i)[j] = IF j < i THEN s[j] ELSE s[j + 1]
  BY <1>1, Without
<1>4. Differ(u, t, h)
  BY <1>2 DEF Differ
<1>5. ASSUME NEW j \in 1..Len(s), j > i PROVE s[j] = RemoveAt(s, i)[j - 1]
  BY <1>1, <1>3, <1>5
<1>6. Inserted(RemoveAt(s, i), s, i, s[i])
  BY <1>1, <1>3, <1>5 DEF Inserted
<1>7. Inserted(u[h], t[h], i, t[h][i])
  BY <1>2, <1>6 DEF s
<1> QED
  BY <1>4, <1>7, Inserting

-----------------------------------------------------------------------------
(* Copying and expanding                                                   *)

Same(t, u) == Even(t, Places(t), u, Places(u))

(* A function on 1..n is a sequence. *)
LEMMA Sequence ==
  ASSUME NEW T, NEW n \in Nat, NEW f \in [1..n -> T]
  PROVE  f \in Seq(T) /\ Len(f) = n /\ DOMAIN f = 1..n
<1>1. f \in Seq(T)
  BY SeqDef
<1>2. DOMAIN f = 1..n
  OBVIOUS
<1> QED
  BY <1>1, <1>2

(* The same entries in the opposite order. *)
LEMMA Reversed ==
  ASSUME NEW T, NEW s \in Seq(T)
  PROVE  /\ Reverse(s) \in Seq(T) /\ Len(Reverse(s)) = Len(s)
         /\ \A j \in 1..Len(s) : Reverse(s)[j] = s[Len(s) - j + 1]
<1>1. Len(s) \in Nat /\ \A j \in 1..Len(s) : Len(s) - j + 1 \in 1..Len(s) /\ s[Len(s) - j + 1] \in T
  OBVIOUS
<1> QED
  BY <1>1, Sequence DEF Reverse

(* dict_clone: every list is turned around. *)
LEMMA Copying ==
  ASSUME NEW t \in Tables, NEW u, u = [i \in DOMAIN t |-> Reverse(t[i])]
  PROVE  u \in Tables /\ Len(u) = Len(t) /\ Same(t, u) /\ (InHome(t) => InHome(u))
<1> DEFINE P == Places(t)
           Q == Places(u)
           b == [x \in P |-> <<x[1], Len(t[x[1]]) - x[2] + 1>>]
<1>1. Len(t) \in Nat /\ DOMAIN t = 1..Len(t) /\ \A i \in 1..Len(t) : t[i] \in Seq(Entry) /\ Len(t[i]) \in Nat
  BY PlaceIs
<1>2. \A i \in 1..Len(t) : u[i] = Reverse(t[i])
  BY <1>1
<1>3. ASSUME NEW i \in 1..Len(t)
      PROVE  /\ u[i] \in Seq(Entry) /\ Len(u[i]) = Len(t[i])
             /\ \A j \in 1..Len(t[i]) : u[i][j] = t[i][Len(t[i]) - j + 1]
  <2> DEFINE s == t[i]
  <2>1. s \in Seq(Entry) /\ u[i] = Reverse(s)
    BY <1>1, <1>2
  <2> HIDE DEF s
  <2>2. Reverse(s) \in Seq(Entry) /\ Len(Reverse(s)) = Len(s)
    BY <2>1, Reversed
  <2>3. \A j \in 1..Len(s) : Reverse(s)[j] = s[Len(s) - j + 1]
    BY <2>1, Reversed
  <2> QED
    BY <2>1, <2>2, <2>3 DEF s
<1>4. u \in Tables /\ Len(u) = Len(t)
  <2>1. u \in [1..Len(t) -> Seq(Entry)]
    BY <1>1, <1>3
  <2> QED
    BY <1>1, <2>1, Sequence DEF Tables
<1>5. ASSUME NEW x \in P
      PROVE  b[x] \in Q /\ At(u, b[x]) = At(t, x) /\ b[x][1] = x[1] /\ b[b[x]] = x
  <2>1. x = <<x[1], x[2]>> /\ x[1] \in 1..Len(t) /\ x[2] \in 1..Len(t[x[1]])
    BY PlaceIs
  <2> DEFINE n == Len(t[x[1]])
             k == n - x[2] + 1
  <2>2. n \in Nat /\ k \in 1..n /\ n - k + 1 = x[2] /\ Len(u[x[1]]) = n
    BY <1>1, <1>3, <2>1
  <2>3. b[x] = <<x[1], k>> /\ u[x[1]][k] = t[x[1]][x[2]]
    BY <1>3, <2>1, <2>2
  <2>4. b[x] \in Q /\ b[x] \in P
    BY <1>4, <2>1, <2>2, <2>3, PlaceIs
  <2>5. b[b[x]] = x
    BY <2>1, <2>2, <2>3, <2>4
  <2> QED
    BY <2>3, <2>4, <2>5 DEF At
<1>6. Q = P
  <2>1. \A i, j : <<i, j>> \in Q <=> <<i, j>> \in P
    <3>1. \A i, j : <<i, j>> \in Q <=> i \in 1..Len(u) /\ j \in 1..Len(u[i])
      BY <1>4, PlaceIs
    <3>2. \A i, j : <<i, j>> \in P <=> i \in 1..Len(t) /\ j \in 1..Len(t[i])
      BY PlaceIs
    <3>3. Len(u) = Len(t) /\ \A i \in 1..Len(t) : Len(u[i]) = Len(t[i])
      BY <1>3, <1>4
    <3> HIDE DEF P, Q
    <3> QED
      BY <3>1, <3>2, <3>3
  <2>2. \A x \in Q : x = <<x[1], x[2]>>
    BY <1>4, PlaceIs
  <2>3. \A x \in P : x = <<x[1], x[2]>>
    BY PlaceIs
  <2> HIDE DEF P, Q
  <2> QED
    BY <2>1, <2>2, <2>3
<1>7. Same(t, u)
  <2>1. b \in [P -> Q]
    BY <1>5
  <2>2. \A x, y \in P : b[x] = b[y] => x = y
    BY <1>5
  <2>3. \A y \in Q : b[y] \in P /\ b[b[y]] = y
    BY <1>5, <1>6
  <2> HIDE DEF b, P, Q
  <2>4. b \in Bijection(P, Q)
    BY <2>1, <2>2, <2>3, Fun_IsBij
  <2>5. Matches(b, t, P, u, Q)
    BY <1>5, <2>4 DEF Matches
  <2>6. IsFiniteSet(P)
    BY PlacesFinite DEF P
  <2> QED
    BY <2>5, <2>6, Matching DEF Even, Same, P, Q
<1>8. ASSUME InHome(t), NEW y \in Places(u) PROVE Home(At(u, y).key, Len(u)) = y[1]
  <2>1. b[y] \in P /\ b[b[y]] = y
    BY <1>5, <1>6
  <2>2. At(u, y) = At(t, b[y]) /\ b[y][1] = y[1]
    BY <1>5, <1>6, <2>1
  <2>3. Home(At(t, b[y]).key, Len(t)) = b[y][1]
    BY <1>8, <2>1 DEF InHome
  <2> QED
    BY <1>4, <2>2, <2>3
<1> QED
  BY <1>4, <1>7, <1>8 DEF InHome

(* Places are met one after the other: counting those that are met later   *)
(* numbers any set of them.                                                *)
LEMMA Ranking ==
  ASSUME NEW t \in Tables, NEW M \in SUBSET Places(t)
  PROVE  /\ IsFiniteSet(M) /\ Cardinality(M) \in Nat
         /\ \A x \in M : Cardinality({y \in M : Later(y, x)}) \in 0..Cardinality(M) - 1
         /\ \A x, y \in M : Cardinality({z \in M : Later(z, x)}) = Cardinality({z \in M : Later(z, y)})
                              => x = y
         /\ \A j \in 1..Cardinality(M) : \E x \in M : Cardinality({y \in M : Later(y, x)}) = j - 1
<1> DEFINE L(x) == {y \in M : Later(y, x)}
           r == [x \in M |-> Cardinality(L(x)) + 1]
           n == Cardinality(M)
<1>1. IsFiniteSet(M) /\ n \in Nat
  BY PlacesFinite, FS_Subset, FS_CardinalityType
<1>2. \A x \in M : x = <<x[1], x[2]>> /\ x[1] \in Nat /\ x[2] \in Nat
  BY PlaceIs
<1>3. ASSUME NEW x \in M PROVE IsFiniteSet(L(x)) /\ Cardinality(L(x)) \in 0..n - 1
  <2>1. L(x) \in SUBSET (M \ {x})
    BY <1>2 DEF Later
  <2>2. IsFiniteSet(M \ {x}) /\ Cardinality(M \ {x}) = n - 1
    BY <1>1, FS_RemoveElement
  <2>3. IsFiniteSet(L(x)) /\ Cardinality(L(x)) <= n - 1
    BY <2>1, <2>2, FS_Subset
  <2>4. Cardinality(L(x)) \in Nat
    BY <2>3, FS_CardinalityType
  <2> QED
    BY <1>1, <2>3, <2>4
<1>4. ASSUME NEW x \in M, NEW y \in M, Later(y, x) PROVE Cardinality(L(y)) < Cardinality(L(x))
  <2>1. L(y) \in SUBSET L(x)
    BY <1>2, <1>4 DEF Later
  <2>2. y \in L(x) /\ y \notin L(y)
    BY <1>2, <1>4 DEF Later
  <2>3. Cardinality(L(y)) <= Cardinality(L(x)) /\ Cardinality(L(x)) # Cardinality(L(y))
    <3>1. IsFiniteSet(L(x))
      BY <1>3
    <3> HIDE DEF L
    <3> QED
      BY <2>1, <2>2, <3>1, FS_Subset
  <2>4. Cardinality(L(x)) \in Int /\ Cardinality(L(y)) \in Int
    BY <1>3
  <2> HIDE DEF L
  <2> QED
    BY <2>3, <2>4
<1>5. ASSUME NEW x \in M, NEW y \in M, Cardinality(L(x)) = Cardinality(L(y)) PROVE x = y
  <2>1. x # y => Later(x, y) \/ Later(y, x)
    BY <1>2 DEF Later
  <2>2. Cardinality(L(x)) \in Int /\ Cardinality(L(y)) \in Int
    BY <1>3
  <2> QED
    BY <1>4, <1>5, <2>1, <2>2
<1>6. ASSUME NEW j \in 1..n PROVE \E x \in M : Cardinality(L(x)) = j - 1
  <2>0. n \in Nat /\ \A x \in M : Cardinality(L(x)) \in 0..n - 1
    BY <1>1, <1>3
  <2>0a. \A x, y \in M : Cardinality(L(x)) = Cardinality(L(y)) => x = y
    BY <1>5
  <2> HIDE DEF L, n
  <2>0b. \A x \in M : r[x] = Cardinality(L(x)) + 1 /\ Cardinality(L(x)) \in Int
    BY <2>0
  <2>1. r \in [M -> 1..n]
    BY <2>0
  <2> HIDE DEF r
  <2>2. \A x, y \in M : r[x] = r[y] => x = y
    BY <2>0a, <2>0b
  <2>3. r \in Injection(M, 1..n)
    BY <2>1, <2>2, Fun_IsInj
  <2>4. IsFiniteSet(1..n) /\ Cardinality(1..n) = n /\ Cardinality(M) = n
    BY <2>0, UpTo DEF n
  <2>5. r \in Surjection(M, 1..n)
    BY <1>1, <2>3, <2>4, FS_Injection
  <2>6. PICK x \in M : r[x] = j
    BY <2>5 DEF Surjection
  <2>7. Cardinality(L(x)) = j - 1
    BY <2>0b, <2>6
  <2> QED
    BY <2>7
<1> QED
  BY <1>1, <1>3, <1>5, <1>6

(* A key has a home in every table that has slots. *)
LEMMA HomeIs == ASSUME NEW k \in Keys, NEW n \in Nat \ {0} PROVE Home(k, n) \in 1..n
<1>1. Hash[k] \in Nat
  BY DictAssumption
<1>2. Hash[k] % n \in 0..n - 1
  BY <1>1
<1> QED
  BY <1>2 DEF Home

(* dict_expand: every entry goes to its home in the new table, and to a    *)
(* place of its own there.                                                 *)
LEMMA Expanding ==
  ASSUME slots \in Tables, NEW n \in Nat \ {0}, NEW u, u = Expand(n)
  PROVE  u \in Tables /\ Len(u) = n /\ Same(slots, u) /\ InHome(u)
<1> DEFINE P == Places(slots)
           Q == Places(u)
           home(x) == Home(At(slots, x).key, n)
           M(i) == Moving(i, n)
           C(i) == Cardinality(M(i))
           R(x, i) == Cardinality({y \in M(i) : Later(y, x)})
           pick(i, j) == CHOOSE x \in M(i) : R(x, i) = j - 1
           b == [x \in P |-> <<home(x), R(x, home(x)) + 1>>]
<1>1. \A i, x : x \in M(i) <=> x \in P /\ home(x) = i
  BY DEF Moving
<1>2. ASSUME NEW i
      PROVE  /\ C(i) \in Nat
             /\ \A x \in M(i) : R(x, i) \in 0..C(i) - 1
             /\ \A x, y \in M(i) : R(x, i) = R(y, i) => x = y
             /\ \A j \in 1..C(i) : \E x \in M(i) : R(x, i) = j - 1
  <2>1. M(i) \in SUBSET P
    BY <1>1
  <2> HIDE DEF M
  <2> QED
    BY <2>1, Ranking
<1>3. ASSUME NEW x \in P PROVE home(x) \in 1..n /\ At(slots, x) \in Entry
  <2>1. At(slots, x) \in Entry
    BY PlaceIs
  <2>2. At(slots, x).key \in Keys
    BY <2>1 DEF Entry
  <2> QED
    BY <2>1, <2>2, HomeIs
<1>4. ASSUME NEW i \in 1..n, NEW j \in 1..C(i)
      PROVE  pick(i, j) \in M(i) /\ R(pick(i, j), i) = j - 1
  <2> HIDE DEF M, R
  <2>1. \E x \in M(i) : R(x, i) = j - 1
    BY <1>2
  <2> QED
    BY <2>1
<1>5. u = [i \in 1..n |-> [j \in 1..C(i) |-> At(slots, pick(i, j))]]
  BY DEF Expand
<1>6. ASSUME NEW i \in 1..n
      PROVE  /\ u[i] \in Seq(Entry) /\ Len(u[i]) = C(i)
             /\ \A j \in 1..C(i) : u[i][j] = At(slots, pick(i, j))
  <2> HIDE DEF C, pick
  <2> DEFINE s == [j \in 1..C(i) |-> At(slots, pick(i, j))]
  <2>1. u[i] = s
    BY <1>5
  <2>2. \A j \in 1..C(i) : At(slots, pick(i, j)) \in Entry
    BY <1>1, <1>3, <1>4
  <2>3. s \in [1..C(i) -> Entry]
    BY <2>2
  <2>4. s \in Seq(Entry) /\ Len(s) = C(i)
    <3>1. C(i) \in Nat
      BY <1>2
    <3> HIDE DEF s
    <3> QED
      BY <2>3, <3>1, Sequence
  <2>5. \A j \in 1..C(i) : s[j] = At(slots, pick(i, j))
    OBVIOUS
  <2> HIDE DEF s
  <2> QED
    BY <2>1, <2>4, <2>5
<1>7. u \in Tables /\ Len(u) = n
  <2> HIDE DEF C, pick
  <2>1. u \in [1..n -> Seq(Entry)]
    BY <1>5, <1>6
  <2> QED
    BY <2>1, Sequence DEF Tables
<1>8. \A i, j : <<i, j>> \in Q <=> i \in 1..n /\ j \in 1..C(i)
  <2>1. \A i, j : <<i, j>> \in Q <=> i \in 1..Len(u) /\ j \in 1..Len(u[i])
    BY <1>7, PlaceIs
  <2> HIDE DEF C, Q
  <2> QED
    BY <1>6, <1>7, <2>1
<1>9. ASSUME NEW x \in P
      PROVE  b[x] \in Q /\ At(u, b[x]) = At(slots, x) /\ b[x][1] = home(x)
  <2> DEFINE i == home(x)
             j == R(x, i) + 1
  <2>1. i \in 1..n /\ x \in M(i)
    BY <1>1, <1>3
  <2> HIDE DEF M
  <2>2. R(x, i) \in 0..C(i) - 1 /\ C(i) \in Nat
    BY <1>2, <2>1
  <2>3. b[x] = <<i, j>>
    OBVIOUS
  <2> HIDE DEF R, C, i
  <2>4. j \in 1..C(i) /\ j - 1 = R(x, i)
    BY <2>2
  <2> HIDE DEF j
  <2>5. pick(i, j) \in M(i) /\ R(pick(i, j), i) = R(x, i)
    BY <1>4, <2>1, <2>4
  <2> HIDE DEF pick
  <2>6. pick(i, j) = x
    BY <1>2, <2>1, <2>5
  <2> HIDE DEF b, Q
  <2>7. b[x] \in Q /\ u[i][j] = At(slots, x)
    BY <1>6, <1>8, <2>1, <2>3, <2>4, <2>6
  <2> QED
    BY <2>3, <2>7 DEF At, i
<1>10. ASSUME NEW x \in P, NEW y \in P, b[x] = b[y] PROVE x = y
  <2> DEFINE i == home(x)
  <2>1. home(y) = i /\ R(x, i) + 1 = R(y, i) + 1
    BY <1>10
  <2>2. x \in M(i) /\ y \in M(i)
    BY <1>1, <2>1
  <2> HIDE DEF R, M, i
  <2>3. R(x, i) \in Int /\ R(y, i) \in Int
    BY <1>2, <2>2
  <2> QED
    BY <1>2, <2>1, <2>2, <2>3
<1>11. ASSUME NEW y \in Q PROVE \E x \in P : b[x] = y
  <2>1. y = <<y[1], y[2]>>
    BY <1>7, PlaceIs
  <2> DEFINE i == y[1]
             j == y[2]
  <2> HIDE DEF Q, C
  <2>2. i \in 1..n /\ j \in 1..C(i)
    BY <1>8, <2>1
  <2> HIDE DEF i, j, R
  <2>3. PICK x \in M(i) : R(x, i) = j - 1
    BY <1>2, <2>2
  <2>4. x \in P /\ home(x) = i
    BY <1>1, <2>3
  <2>5. b[x] = <<i, R(x, i) + 1>>
    BY <2>4
  <2>6. R(x, i) + 1 = j
    BY <2>2, <2>3
  <2> QED
    BY <2>1, <2>4, <2>5, <2>6 DEF i, j
<1>12. Same(slots, u)
  <2>1. b \in [P -> Q]
    BY <1>9
  <2> HIDE DEF b, P, Q
  <2>2. Matches(b, slots, P, u, Q)
    BY <1>9, <1>10, <1>11, <2>1, Fun_IsBij DEF Matches
  <2>3. IsFiniteSet(P)
    BY PlacesFinite DEF P
  <2> QED
    BY <2>2, <2>3, Matching DEF Even, Same, P, Q
<1>13. ASSUME NEW y \in Q PROVE Home(At(u, y).key, Len(u)) = y[1]
  <2> HIDE DEF b, Q
  <2>1. PICK x \in P : b[x] = y
    BY <1>11
  <2>2. At(u, y) = At(slots, x) /\ y[1] = home(x)
    BY <1>9, <2>1
  <2> QED
    BY <1>7, <2>2
<1> QED
  BY <1>7, <1>12, <1>13 DEF InHome

-----------------------------------------------------------------------------
(* The new size                                                            *)

Larger(s) == IF s < Floor THEN Floor ELSE (s + 1) * 2 - 1

GoesUp(f) == \A s \in Nat : f[s] = IF Full(s) THEN f[Larger(s)] ELSE s

LEMMA LargerIs == \A s \in Nat : Larger(s) \in Nat /\ Larger(s) > s
BY DictAssumption DEF Larger

(* Sizes beyond the entries are not full. *)
LEMMA Roomy ==
  ASSUME num \in Nat, NEW s \in Nat, s >= num * 3 + 1 PROVE ~Full(s)
BY DEF Full

(* The loop of dict_do_lookup has an outcome, whatever size it starts      *)
(* with: the sizes it has passed are ever closer to one that is not full.  *)
LEMMA GoingUp == ASSUME num \in Nat PROVE \E f \in [Nat -> Nat] : GoesUp(f)
<1> DEFINE B == num * 3 + 1
           Right(f, s) == f[s] = IF Full(s) THEN f[Larger(s)] ELSE s
           T == {m \in Nat : \E f \in [Nat -> Nat] : \A s \in Nat : s + m >= B => Right(f, s)}
<1>0. B \in Nat
  OBVIOUS
<1>1. 0 \in T
  <2> DEFINE f == [s \in Nat |-> s]
  <2>1. \A s \in Nat : s + 0 >= B => Right(f, s)
    BY Roomy
  <2> QED
    BY <2>1
<1>2. ASSUME NEW m \in Nat, m \in T PROVE m + 1 \in T
  <2> HIDE DEF B
  <2>1. PICK f \in [Nat -> Nat] : \A s \in Nat : s + m >= B => Right(f, s)
    BY <1>2
  <2> DEFINE g == [s \in Nat |-> IF s + m >= B THEN f[s] ELSE IF Full(s) THEN f[Larger(s)] ELSE s]
  <2>2. g \in [Nat -> Nat]
    BY <2>1, LargerIs
  <2>3. ASSUME NEW s \in Nat, s + m + 1 >= B PROVE Right(g, s)
    <3>1. Larger(s) \in Nat /\ Larger(s) + m >= B
      BY <1>0, <2>3, LargerIs
    <3>2. g[Larger(s)] = f[Larger(s)]
      BY <3>1
    <3>3. g[s] = IF Full(s) THEN f[Larger(s)] ELSE s
      BY <2>1
    <3> QED
      BY <3>2, <3>3
  <2>4. \A s \in Nat : s + (m + 1) >= B => Right(g, s)
    BY <1>0, <2>3
  <2> HIDE DEF g, Right
  <2> QED
    BY <2>2, <2>4
<1>3. B \in T
  <2> HIDE DEF T
  <2>1. \A m \in Nat : m \in T => m + 1 \in T
    BY <1>2
  <2>2. Nat \subseteq T
    BY <1>1, <2>1, NatInduct
  <2> QED
    BY <1>0, <2>2
<1>4. PICK f \in [Nat -> Nat] : \A s \in Nat : s + B >= B => Right(f, s)
  BY <1>3
<1>5. ASSUME NEW s \in Nat PROVE Right(f, s)
  BY <1>0, <1>4
<1> QED
  BY <1>5 DEF GoesUp

(* The loop ends with a size that is not full, and with a larger one than  *)
(* it started with if that was full.                                       *)
LEMMA NewSizes ==
  ASSUME num \in Nat, NEW size \in Nat
  PROVE  /\ NewSize(size) \in Nat /\ ~Full(NewSize(size)) /\ NewSize(size) >= size
         /\ Full(size) => NewSize(size) > size
<1> DEFINE Up(f) == [s \in Nat |-> IF Full(s) THEN f[Larger(s)] ELSE s]
           up == CHOOSE f : f = Up(f)
           B == num * 3 + 1
           Good(s) == up[s] \in Nat /\ ~Full(up[s]) /\ up[s] >= s
           T == {m \in Nat : \A s \in Nat : s + m >= B => Good(s)}
<1>1. NewSize(size) = up[size]
  BY DEF NewSize, Larger
<1>2. \E f : f = Up(f)
  <2>1. PICK f \in [Nat -> Nat] : GoesUp(f)
    BY GoingUp
  <2>2. f = Up(f)
    BY <2>1 DEF GoesUp
  <2> HIDE DEF Up
  <2> QED
    BY <2>2
<1>3. up = Up(up)
  <2> HIDE DEF Up
  <2> QED
    BY <1>2
<1> HIDE DEF up
<1>4. \A s \in Nat : up[s] = IF Full(s) THEN up[Larger(s)] ELSE s
  BY <1>3
<1>5. B \in Nat /\ \A s \in Nat : s >= B => ~Full(s)
  BY Roomy
<1>6. 0 \in T
  BY <1>4, <1>5
<1>7. ASSUME NEW m \in Nat, m \in T PROVE m + 1 \in T
  <2> HIDE DEF B
  <2>1. ASSUME NEW s \in Nat, s + (m + 1) >= B PROVE Good(s)
    <3>1. Larger(s) \in Nat /\ Larger(s) > s /\ Larger(s) + m >= B
      BY <1>5, <2>1, LargerIs
    <3>2. Good(Larger(s))
      BY <1>7, <3>1
    <3> QED
      BY <1>4, <3>1, <3>2
  <2> QED
    BY <2>1
<1>8. B \in T
  <2> HIDE DEF T
  <2>1. \A m \in Nat : m \in T => m + 1 \in T
    BY <1>7
  <2>2. Nat \subseteq T
    BY <1>6, <2>1, NatInduct
  <2> QED
    BY <1>5, <2>2
<1>9. Good(size)
  <2> HIDE DEF Good
  <2>1. size + B >= B
    BY <1>5
  <2> QED
    BY <1>8, <2>1
<1> QED
  BY <1>1, <1>9

-----------------------------------------------------------------------------
(* Operations                                                              *)

Present(t, p) == \E x \in Places(t) : Pair(t, x) = p

(* What is present is counted. *)
LEMMA Presence ==
  ASSUME NEW t \in Tables
  PROVE  \A p : /\ Cardinality(Holding(t, p)) \in Nat
                /\ Cardinality(Holding(t, p)) > 0 <=> Present(t, p)
<1> SUFFICES ASSUME NEW p
             PROVE  /\ Cardinality(Holding(t, p)) \in Nat
                    /\ Cardinality(Holding(t, p)) > 0 <=> Present(t, p)
  OBVIOUS
<1> DEFINE H == Holding(t, p)
<1>1. H \in SUBSET Places(t) /\ (H = {} <=> ~Present(t, p))
  BY DEF Holding, Present, Pair
<1> HIDE DEF H
<1>2. IsFiniteSet(H)
  BY <1>1, PlacesFinite, FS_Subset
<1>3. Cardinality(H) \in Nat /\ (Cardinality(H) = 0 <=> H = {})
  BY <1>2, FS_CardinalityType, FS_EmptySet
<1> QED
  BY <1>1, <1>3 DEF H

(* Tables with the same entries. *)
LEMMA SameIs ==
  ASSUME NEW t \in Tables, NEW u \in Tables
  PROVE  /\ Same(t, t)
         /\ Same(t, u) <=> /\ Cardinality(Places(t)) = Cardinality(Places(u))
                           /\ \A p : Cardinality(Holding(t, p)) = Cardinality(Holding(u, p))
         /\ Same(t, u) => \A p : Present(t, p) <=> Present(u, p)
<1>1. IsFiniteSet(Places(t)) /\ IsFiniteSet(Places(u))
  BY PlacesFinite
<1>2. Same(t, u) <=> /\ Cardinality(Places(t)) = Cardinality(Places(u))
                     /\ \A p : Cardinality(Holding(t, p)) = Cardinality(Holding(u, p))
  BY <1>1, HoldingIs DEF Same, Even
<1>3. Same(t, t)
  BY <1>1 DEF Same, Even
<1>4. ASSUME Same(t, u), NEW p PROVE Present(t, p) <=> Present(u, p)
  <2>1. Cardinality(Holding(t, p)) = Cardinality(Holding(u, p))
    BY <1>2, <1>4
  <2> QED
    BY <2>1, Presence
<1> QED
  BY <1>2, <1>3, <1>4

(* dict_do_lookup moves what it found to the front. *)
LEMMA MovingToFront ==
  ASSUME NEW t \in Tables, NEW h \in 1..Len(t), NEW i \in 1..Len(t[h]),
         NEW u, Changed(t, u, h, MoveToFront(t[h], i)), InHome(t)
  PROVE  Same(t, u) /\ InHome(u)
<1> DEFINE s == t[h]
           e == s[i]
           w == RemoveAt(s, i)
           v == [t EXCEPT ![h] = w]
<1>1. s \in Seq(Entry) /\ i \in 1..Len(s) /\ e \in Entry /\ Home(e.key, Len(t)) = h
  <2>1. s \in Seq(Entry) /\ i \in 1..Len(s) /\ <<h, i>> \in Places(t)
    BY PlaceIs
  <2>2. At(t, <<h, i>>) = e
    BY DEF At
  <2> QED
    BY <2>1, <2>2 DEF InHome
<1>2. w \in Seq(Entry)
  <2> HIDE DEF s
  <2> QED
    BY <1>1, Without
<1>3. Changed(t, v, h, w)
  <2> HIDE DEF w
  <2> QED
    BY <1>2, Replaced
<1> HIDE DEF v
<1>5. Adds(v, t, e) /\ InHome(v)
  BY <1>3, TakingOut
<1>6. v \in Tables /\ Len(v) = Len(t) /\ v[h] = w /\ u \in Tables /\ Len(u) = Len(t)
  BY <1>3 DEF Changed
<1>7. Changed(v, u, h, Cons(e, v[h]))
  <2>1. u[h] = Cons(e, w)
    BY DEF Changed, MoveToFront, Cons
  <2>2. \A j \in 1..Len(v) : j # h => u[j] = v[j]
    BY <1>3, <1>6 DEF Changed
  <2> HIDE DEF w
  <2> QED
    BY <1>6, <2>1, <2>2 DEF Changed
<1> HIDE DEF w, e
<1>9. Adds(v, u, e) /\ InHome(u)
  <2>1. h \in 1..Len(v) /\ InHome(v) /\ Home(e.key, Len(v)) = h
    BY <1>1, <1>5, <1>6
  <2> QED
    BY <1>1, <1>6, <1>7, <2>1, PuttingFront
<1>10. Same(t, u)
  BY <1>5, <1>6, <1>9, SameIs DEF Adds
<1> QED
  BY <1>9, <1>10

(* SelectInSeq gives the first of some positions, 0 if there are none. *)
LEMMA First ==
  ASSUME NEW n \in Nat, NEW J \in SUBSET (1..n), NEW i, i = IF J # {} THEN Min(J) ELSE 0
  PROVE  IF i = 0 THEN J = {} ELSE i \in J
<1>1. CASE J = {}
  BY <1>1
<1>2. CASE J # {}
  <2>1. J \subseteq Nat /\ 0 \notin J
    OBVIOUS
  <2>2. \E x \in J : \A y \in J : x <= y
    BY <1>2, <2>1, NatMin
  <2>3. Min(J) \in J
    BY <2>2 DEF Min
  <2> QED
    BY <1>2, <2>1, <2>3
<1> QED
  BY <1>1, <1>2

-----------------------------------------------------------------------------
(* Steps                                                                   *)

(* What every step keeps: the count is right and no entry is astray.       *)
IInv == TypeOK /\ CountRight /\ InHome(slots)

(* A key is present when its list has it. *)
LEMMA InItsList ==
  ASSUME NEW t \in Tables, InHome(t), NEW k, Len(t) > 0
  PROVE  \A d : Present(t, <<k, d>>) <=>
                  \E j \in 1..Len(t[Home(k, Len(t))]) :
                    Home(k, Len(t)) \in 1..Len(t) /\ t[Home(k, Len(t))][j].key = k
                      /\ t[Home(k, Len(t))][j].data = d
<1> DEFINE h == Home(k, Len(t))
<1> SUFFICES ASSUME NEW d
             PROVE  Present(t, <<k, d>>) <=>
                      \E j \in 1..Len(t[h]) : h \in 1..Len(t) /\ t[h][j].key = k /\ t[h][j].data = d
  OBVIOUS
<1>1. ASSUME Present(t, <<k, d>>)
      PROVE  \E j \in 1..Len(t[h]) : h \in 1..Len(t) /\ t[h][j].key = k /\ t[h][j].data = d
  <2>1. PICK x \in Places(t) : At(t, x).key = k /\ At(t, x).data = d
    BY <1>1 DEF Present, Pair
  <2>2. x[1] = h /\ x[1] \in 1..Len(t) /\ x[2] \in 1..Len(t[x[1]])
    BY <2>1, PlaceIs DEF InHome
  <2> QED
    BY <2>1, <2>2 DEF At
<1>2. ASSUME NEW j \in 1..Len(t[h]), h \in 1..Len(t), t[h][j].key = k, t[h][j].data = d
      PROVE  Present(t, <<k, d>>)
  <2>1. <<h, j>> \in Places(t)
    BY <1>2, PlaceIs
  <2>2. Pair(t, <<h, j>>) = <<k, d>>
    BY <1>2 DEF Pair, At
  <2> QED
    BY <2>1, <2>2 DEF Present
<1> QED
  BY <1>1, <1>2

(* An empty table has room for places but none is taken. *)
LEMMA NoPlaces ==
  ASSUME NEW n \in Nat
  PROVE  /\ Empty(n) \in Tables /\ Len(Empty(n)) = n
         /\ Places(Empty(n)) = {} /\ Places(<<>>) = {} /\ <<>> \in Tables
<1>1. Empty(n) \in Tables /\ Len(Empty(n)) = n
  <2>1. Empty(n) \in [1..n -> Seq(Entry)]
    BY DEF Empty
  <2> QED
    BY <2>1, Sequence DEF Tables
<1>2. \A i \in 1..n : Empty(n)[i] = <<>>
  BY DEF Empty
<1>3. Places(Empty(n)) = {}
  <2> SUFFICES ASSUME NEW x \in Places(Empty(n)) PROVE FALSE
    OBVIOUS
  <2>1. x[1] \in 1..n /\ x[2] \in 1..Len(Empty(n)[x[1]])
    BY <1>1, PlaceIs
  <2>2. Len(Empty(n)[x[1]]) = 0
    BY <1>2, <2>1
  <2> QED
    BY <2>1, <2>2
<1>4. <<>> \in Tables /\ Len(<<>>) = 0
  BY DEF Tables
<1>5. Places(<<>>) = {}
  <2> SUFFICES ASSUME NEW x \in Places(<<>>) PROVE FALSE
    OBVIOUS
  <2>1. x[1] \in 1..Len(<<>>)
    BY <1>4, PlaceIs
  <2> QED
    BY <1>4, <2>1
<1> QED
  BY <1>1, <1>3, <1>4, <1>5

(* Nothing is held where there are no places. *)
LEMMA HoldsNothing ==
  ASSUME NEW t, Places(t) = {}
  PROVE  InHome(t) /\ Cardinality(Places(t)) = 0 /\ \A p : Cardinality(Holding(t, p)) = 0
<1>1. \A p : Holding(t, p) = {}
  BY DEF Holding
<1> QED
  BY <1>1, FS_EmptySet DEF InHome

(* There are slots where there are entries. *)
LEMMA HasSlots ==
  ASSUME IInv
  PROVE  /\ slots \in Tables /\ num \in Nat /\ Len(slots) \in Nat /\ num = Cardinality(Places(slots))
         /\ num # 0 => Len(slots) \in Nat \ {0}
         /\ num = 0 => \A p : ~Present(slots, p)
<1>1. slots \in Tables /\ num \in Nat /\ num = Cardinality(Places(slots))
  BY DictAssumption DEF IInv, TypeOK, CountRight, Tables
<1>2. Len(slots) \in Nat
  BY <1>1 DEF Tables
<1>3. IsFiniteSet(Places(slots)) /\ (num = 0 <=> Places(slots) = {})
  BY <1>1, PlacesFinite, FS_EmptySet
<1>4. ASSUME num # 0 PROVE Len(slots) # 0
  <2>1. PICK x : x \in Places(slots)
    BY <1>3, <1>4
  <2>2. x[1] \in 1..Len(slots)
    BY <1>1, <2>1, PlaceIs
  <2> QED
    BY <2>2
<1> QED
  BY <1>1, <1>2, <1>3, <1>4 DEF Present

(* A put adds the pair. *)
LEMMA PutStep ==
  ASSUME IInv, NEW k \in Keys, NEW d \in Data, Put(k, d)
  PROVE  slots' \in Tables /\ InHome(slots') /\ Adds(slots, slots', [key |-> k, data |-> d])
<1> DEFINE t == IF slots = <<>> THEN Expand(1) ELSE slots
           e == [key |-> k, data |-> d]
           h == Home(k, Len(t))
<1>1. t \in Tables /\ Len(t) \in Nat \ {0} /\ Same(slots, t) /\ InHome(t)
  <2>1. slots \in Tables /\ Len(slots) \in Nat /\ InHome(slots)
    BY HasSlots DEF IInv
  <2>2. CASE slots = <<>>
    <3>1. 1 \in Nat \ {0}
      OBVIOUS
    <3>2. t = Expand(1)
      BY <2>2
    <3> HIDE DEF t
    <3> QED
      BY <2>1, <3>1, <3>2, Expanding
  <2>3. CASE slots # <<>>
    <3>1. Len(slots) # 0
      BY <2>1, <2>3 DEF Tables
    <3>2. t = slots
      BY <2>3
    <3> HIDE DEF t
    <3> QED
      BY <2>1, <3>1, <3>2, SameIs
  <2> HIDE DEF t
  <2> QED
    BY <2>2, <2>3
<1>2. slots' = [t EXCEPT ![h] = Cons(e, t[h])]
  <2>1. slots' = [t EXCEPT ![h] = <<e>> \o t[h]]
    BY DEF Put
  <2> HIDE DEF t, e, h
  <2> QED
    BY <2>1 DEF Cons
<1>3. e \in Entry /\ e.key = k
  BY DEF Entry
<1> HIDE DEF t, e
<1>4. h \in 1..Len(t)
  BY <1>1, HomeIs
<1> HIDE DEF h
<1>5. Cons(e, t[h]) \in Seq(Entry)
  <2>1. t[h] \in Seq(Entry)
    BY <1>1, <1>4, PlaceIs
  <2> QED
    BY <1>3, <2>1, InFront
<1>6. Changed(t, slots', h, Cons(e, t[h]))
  <2> DEFINE s == Cons(e, t[h])
             u == [t EXCEPT ![h] = s]
  <2> HIDE DEF s
  <2>1. Changed(t, u, h, s)
    BY <1>1, <1>4, <1>5, Replaced DEF s
  <2>2. slots' = u
    BY <1>2 DEF s
  <2> HIDE DEF u
  <2> QED
    BY <2>1, <2>2 DEF s
<1>7. slots' \in Tables
  BY <1>6 DEF Changed
<1>8. Home(e.key, Len(t)) = h
  BY <1>3 DEF h
<1>9. Adds(t, slots', e) /\ InHome(slots')
  BY <1>1, <1>3, <1>4, <1>6, <1>8, PuttingFront
<1>10. Adds(slots, slots', e)
  <2>1. slots \in Tables
    BY HasSlots
  <2> QED
    BY <1>1, <1>9, <2>1, SameIs DEF Adds
<1> QED
  BY <1>7, <1>9, <1>10 DEF e

(* The end of a lookup, in a table with the same entries. *)
LEMMA WalkStep ==
  ASSUME NEW t \in Tables, InHome(t), Len(t) > 0, NEW k \in Keys, Walk(t, k)
  PROVE  /\ slots' \in Tables /\ InHome(slots') /\ Same(t, slots') /\ Len(slots') = Len(t)
         /\ \/ \E d \in Data : Present(t, <<k, d>>) /\ Answers("lookup", k, d)
            \/ (\A d : ~Present(t, <<k, d>>)) /\ Answers("lookup", k, NoData)
<1> DEFINE h == Home(k, Len(t))
           s == t[h]
           i == SelectInSeq(s, LAMBDA e : e.key = k)
<1>1. h \in 1..Len(t) /\ s \in Seq(Entry)
  <2>1. Len(t) \in Nat \ {0}
    BY PlaceIs
  <2>2. h \in 1..Len(t)
    BY <2>1, HomeIs
  <2> QED
    BY <2>2, PlaceIs
<1>2. /\ i # 0 => i \in 1..Len(s) /\ s[i].key = k
      /\ i = 0 => \A j \in 1..Len(s) : s[j].key # k
  <2> DEFINE J == {j \in 1..Len(s) : s[j].key = k}
  <2>1. i = IF J # {} THEN Min(J) ELSE 0
    BY DEF SelectInSeq
  <2> HIDE DEF i, s
  <2>2. Len(s) \in Nat /\ J \in SUBSET (1..Len(s))
    BY <1>1
  <2>3. IF i = 0 THEN J = {} ELSE i \in J
    <3> HIDE DEF J
    <3> QED
      BY <2>1, <2>2, First
  <2> QED
    BY <2>3
<1>3. \A d : Present(t, <<k, d>>) <=>
               \E j \in 1..Len(s) : h \in 1..Len(t) /\ s[j].key = k /\ s[j].data = d
  BY InItsList
<1>4. IF i = 0
      THEN slots' = t /\ Answers("lookup", k, NoData)
      ELSE slots' = [t EXCEPT ![h] = MoveToFront(s, i)] /\ Answers("lookup", k, DataAt(s, i))
  BY DEF Walk
<1> HIDE DEF i
<1>5. CASE i = 0
  BY <1>2, <1>3, <1>4, <1>5, SameIs
<1>6. CASE i # 0
  <2> DEFINE w == MoveToFront(s, i)
             u == [t EXCEPT ![h] = w]
             d == s[i].data
  <2>1. i \in 1..Len(s) /\ s[i].key = k /\ slots' = u /\ Answers("lookup", k, d)
    BY <1>2, <1>4, <1>6 DEF DataAt
  <2>2. w \in Seq(Entry) /\ s[i] \in Entry
    <3> HIDE DEF s
    <3>1. RemoveAt(s, i) \in Seq(Entry) /\ s[i] \in Entry
      BY <1>1, <2>1, Without
    <3>2. Cons(s[i], RemoveAt(s, i)) \in Seq(Entry)
      BY <3>1, InFront
    <3> QED
      BY <3>1, <3>2 DEF MoveToFront, Cons
  <2>3. Changed(t, u, h, w)
    <3> HIDE DEF w, h
    <3> QED
      BY <1>1, <2>2, Replaced
  <2> HIDE DEF u
  <2>4. Changed(t, slots', h, MoveToFront(t[h], i))
    BY <2>1, <2>3
  <2>5. Same(t, slots') /\ InHome(slots')
    <3> HIDE DEF h
    <3> QED
      BY <1>1, <2>1, <2>4, MovingToFront
  <2>6. slots' \in Tables /\ Len(slots') = Len(t)
    BY <2>4 DEF Changed
  <2>7. d \in Data /\ Present(t, <<k, d>>)
    <3>1. d \in Data
      BY <2>2 DEF Entry
    <3> QED
      BY <1>1, <1>3, <2>1, <3>1
  <2> QED
    BY <2>1, <2>5, <2>6, <2>7
<1> QED
  BY <1>5, <1>6

(* A lookup changes nothing that is held, and answers with what is. *)
LEMMA LookupStep ==
  ASSUME IInv, NEW k \in Keys, Lookup(k)
  PROVE  /\ slots' \in Tables /\ InHome(slots') /\ Same(slots, slots')
         /\ \/ \E d \in Data : Present(slots, <<k, d>>) /\ Answers("lookup", k, d)
            \/ (\A d : ~Present(slots, <<k, d>>)) /\ Answers("lookup", k, NoData)
         /\ Len(slots') # Len(slots) => Len(slots') > Len(slots) /\ num' * 3 < Len(slots') * 2
<1>1. /\ slots \in Tables /\ num \in Nat /\ Len(slots) \in Nat /\ InHome(slots)
      /\ num # 0 => Len(slots) > 0
      /\ num = 0 => \A p : ~Present(slots, p)
  BY HasSlots DEF IInv
<1>2. CASE num = 0
  <2>1. slots' = slots /\ Answers("lookup", k, NoData)
    BY <1>2 DEF Lookup
  <2> QED
    BY <1>1, <1>2, <2>1, SameIs
<1>3. CASE num # 0 /\ Walk(slots, k)
  BY <1>1, <1>3, WalkStep
<1>4. CASE num # 0 /\ Full(Len(slots)) /\ Walk(Expand(NewSize(Len(slots))), k)
  <2> DEFINE n == NewSize(Len(slots))
             t == Expand(n)
  <2>1. n \in Nat /\ ~Full(n) /\ n > Len(slots)
    BY <1>1, <1>4, NewSizes
  <2>2. n \in Nat \ {0} /\ num' = num
    BY <1>1, <2>1 DEF Lookup
  <2> HIDE DEF n
  <2>3. t \in Tables /\ Len(t) = n /\ Same(slots, t) /\ InHome(t) /\ Walk(t, k)
    <3>1. Walk(t, k)
      BY <1>4 DEF n
    <3> HIDE DEF t
    <3>2. t = Expand(n)
      BY DEF t
    <3> QED
      BY <1>1, <2>2, <3>1, <3>2, Expanding
  <2> HIDE DEF t
  <2>4. /\ slots' \in Tables /\ InHome(slots') /\ Same(t, slots') /\ Len(slots') = Len(t)
        /\ \/ \E d \in Data : Present(t, <<k, d>>) /\ Answers("lookup", k, d)
           \/ (\A d : ~Present(t, <<k, d>>)) /\ Answers("lookup", k, NoData)
    BY <2>2, <2>3, WalkStep
  <2>5. Same(slots, slots') /\ \A d : Present(slots, <<k, d>>) <=> Present(t, <<k, d>>)
    BY <1>1, <2>3, <2>4, SameIs
  <2>6. num' * 3 < Len(slots') * 2
    BY <1>1, <2>1, <2>2, <2>3, <2>4 DEF Full
  <2> QED
    BY <2>1, <2>3, <2>4, <2>5, <2>6
<1> QED
  BY <1>2, <1>3, <1>4 DEF Lookup

(* A delete takes a pair of the key away, if there is one. *)
LEMMA DeleteStep ==
  ASSUME IInv, NEW k \in Keys, NEW S \in SUBSET Data, Delete(k, S)
  PROVE  \/ /\ slots' \in Tables /\ InHome(slots') /\ num' = num - 1 /\ num # 0
            /\ \E d \in S : /\ Present(slots, <<k, d>>) /\ Answers("delete", k, d)
                            /\ Adds(slots', slots, [key |-> k, data |-> d])
         \/ /\ UNCHANGED <<slots, num>> /\ Answers("delete", k, NoData)
            /\ \A d \in S : ~Present(slots, <<k, d>>)
<1> DEFINE t == slots
           h == Home(k, Len(t))
           s == t[h]
           i == SelectInSeq(s, LAMBDA e : e.key = k /\ e.data \in S)
<1>1. /\ t \in Tables /\ num \in Nat /\ Len(t) \in Nat /\ InHome(t)
      /\ num # 0 => Len(t) \in Nat \ {0}
      /\ num = 0 => \A p : ~Present(t, p)
  BY HasSlots DEF IInv
<1>2. IF num = 0 \/ i = 0
      THEN UNCHANGED <<slots, num>> /\ Answers("delete", k, NoData)
      ELSE /\ slots' = [t EXCEPT ![h] = RemoveAt(s, i)] /\ num' = num - 1
           /\ Answers("delete", k, DataAt(s, i))
  BY DEF Delete
<1>3. CASE num = 0
  BY <1>1, <1>2, <1>3
<1>4. CASE num # 0
  <2>1. h \in 1..Len(t) /\ s \in Seq(Entry)
    <3>1. h \in 1..Len(t)
      BY <1>1, <1>4, HomeIs
    <3> QED
      BY <1>1, <3>1, PlaceIs
  <2>2. /\ i # 0 => i \in 1..Len(s) /\ s[i].key = k /\ s[i].data \in S
        /\ i = 0 => \A j \in 1..Len(s) : ~(s[j].key = k /\ s[j].data \in S)
    <3> DEFINE J == {j \in 1..Len(s) : s[j].key = k /\ s[j].data \in S}
    <3>1. i = IF J # {} THEN Min(J) ELSE 0
      BY DEF SelectInSeq
    <3> HIDE DEF i, s
    <3>2. Len(s) \in Nat /\ J \in SUBSET (1..Len(s))
      BY <2>1
    <3>3. IF i = 0 THEN J = {} ELSE i \in J
      <4> HIDE DEF J
      <4> QED
        BY <3>1, <3>2, First
    <3> QED
      BY <3>3
  <2>3. \A d : Present(t, <<k, d>>) <=>
                 \E j \in 1..Len(s) : h \in 1..Len(t) /\ s[j].key = k /\ s[j].data = d
    <3>1. Len(t) > 0
      BY <1>1, <1>4
    <3> HIDE DEF t
    <3> QED
      BY <1>1, <3>1, InItsList
  <2> HIDE DEF i, s
  <2>4. CASE i = 0
    BY <1>2, <2>2, <2>3, <2>4
  <2>5. CASE i # 0
    <3> DEFINE w == RemoveAt(s, i)
               u == [t EXCEPT ![h] = w]
               d == s[i].data
    <3>1. i \in 1..Len(s) /\ s[i].key = k /\ d \in S /\ slots' = u /\ num' = num - 1
          /\ Answers("delete", k, d)
      BY <1>2, <1>4, <2>2, <2>5 DEF DataAt
    <3>2. w \in Seq(Entry) /\ s[i] \in Entry
      BY <2>1, <3>1, Without
    <3>3. Changed(t, u, h, w)
      <4> HIDE DEF w, h, t
      <4> QED
        BY <1>1, <2>1, <3>2, Replaced
    <3> HIDE DEF u
    <3>4. Changed(t, slots', h, RemoveAt(t[h], i))
      BY <3>1, <3>3 DEF s
    <3>5. Adds(slots', t, t[h][i]) /\ InHome(slots')
      <4>1. i \in 1..Len(t[h])
        BY <3>1 DEF s
      <4> HIDE DEF h, t
      <4> QED
        BY <1>1, <2>1, <3>4, <4>1, TakingOut
    <3>6. slots' \in Tables
      BY <3>4 DEF Changed
    <3>7. t[h][i] = [key |-> k, data |-> d]
      BY <3>1, <3>2 DEF s, Entry
    <3>8. Present(t, <<k, d>>)
      BY <2>1, <2>3, <3>1
    <3> HIDE DEF d
    <3> QED
      BY <1>4, <3>1, <3>5, <3>6, <3>7, <3>8
  <2> QED
    BY <2>4, <2>5
<1> QED
  BY <1>3, <1>4

(* The invariant holds at first and every step keeps it. *)
LEMMA Started == Init => IInv
<1> SUFFICES ASSUME Init PROVE IInv
  OBVIOUS
<1>1. PICK size \in Sizes : slots = Empty(size)
  BY DEF Init
<1>2. size \in Nat
  BY DictAssumption
<1>3. slots \in Tables /\ Places(slots) = {}
  BY <1>1, <1>2, NoPlaces
<1>4. InHome(slots) /\ Cardinality(Places(slots)) = 0
  BY <1>3, HoldsNothing
<1>5. TypeOK
  BY <1>3, DictAssumption DEF Init, TypeOK, Tables
<1> QED
  BY <1>4, <1>5 DEF Init, IInv, CountRight

LEMMA Inductive == IInv /\ [Next]_vars => IInv'
<1> SUFFICES ASSUME IInv, [Next]_vars PROVE IInv'
  OBVIOUS
<1>1. /\ slots \in Tables /\ num \in Nat /\ num = Cardinality(Places(slots)) /\ InHome(slots)
      /\ num <= MaxEntries /\ MaxEntries \in Nat
  BY HasSlots, DictAssumption DEF IInv, TypeOK
<1>2. typed \in BOOLEAN /\ last \in [op : {"put", "lookup", "delete"}, key : Keys, data : Data \cup {NoData}]
  BY DEF IInv, TypeOK
<1>3. ASSUME slots' \in Tables, InHome(slots'), num' = Cardinality(Places(slots')),
             num' \in 0..MaxEntries, typed' \in BOOLEAN,
             last' \in [op : {"put", "lookup", "delete"}, key : Keys, data : Data \cup {NoData}]
      PROVE  IInv'
  BY <1>3 DEF IInv, TypeOK, CountRight, Tables
<1>4. CASE Clone
  <2> DEFINE u == [i \in DOMAIN slots |-> Reverse(slots[i])]
  <2>1. slots' = u
    BY <1>4 DEF Clone
  <2>2. slots' \in Tables /\ Same(slots, slots') /\ InHome(slots')
    BY <1>1, <2>1, Copying
  <2>3. Cardinality(Places(slots')) = num
    BY <1>1, <2>2, SameIs
  <2>4. num' = num /\ typed' = typed /\ last' = last
    BY <1>4 DEF Clone
  <2> QED
    BY <1>1, <1>2, <1>3, <2>2, <2>3, <2>4
<1>5. CASE Clear
  <2>1. slots' = <<>> /\ num' = 0 /\ typed' \in BOOLEAN /\ last' = last
    BY <1>5 DEF Clear
  <2>2. slots' \in Tables /\ Places(slots') = {}
    <3>1. 0 \in Nat
      OBVIOUS
    <3> QED
      BY <2>1, <3>1, NoPlaces
  <2>3. InHome(slots') /\ Cardinality(Places(slots')) = 0
    BY <2>2, HoldsNothing
  <2> QED
    BY <1>1, <1>2, <1>3, <2>1, <2>2, <2>3
<1>6. CASE InitAgain
  <2>1. PICK size \in Sizes : slots' = Empty(size)
    BY <1>6 DEF InitAgain
  <2>2. slots' \in Tables /\ Places(slots') = {}
    BY <2>1, DictAssumption, NoPlaces
  <2>3. InHome(slots') /\ Cardinality(Places(slots')) = 0
    BY <2>2, HoldsNothing
  <2>4. num' = 0 /\ typed' \in BOOLEAN /\ last' = last
    BY <1>6 DEF InitAgain
  <2> QED
    BY <1>1, <1>2, <1>3, <2>2, <2>3, <2>4
<1>7. ASSUME NEW k \in Keys, Lookup(k) PROVE IInv'
  <2>1. slots' \in Tables /\ InHome(slots') /\ Same(slots, slots')
    BY <1>7, LookupStep
  <2>2. Cardinality(Places(slots')) = num
    BY <1>1, <2>1, SameIs
  <2>3. num' = num /\ typed' = typed
    BY <1>7 DEF Lookup
  <2>4. \E d \in Data \cup {NoData} : Answers("lookup", k, d)
    BY <1>7, LookupStep
  <2>5. last' \in [op : {"put", "lookup", "delete"}, key : Keys, data : Data \cup {NoData}]
    BY <2>4 DEF Answers
  <2> QED
    BY <1>1, <1>2, <1>3, <2>1, <2>2, <2>3, <2>5
<1>8. ASSUME NEW k \in Keys, NEW S \in SUBSET Data, Delete(k, S) PROVE IInv'
  <2>1. typed' = typed
    BY <1>8 DEF Delete
  <2>2. CASE UNCHANGED <<slots, num>> /\ Answers("delete", k, NoData)
    BY <1>1, <1>2, <1>3, <2>1, <2>2 DEF Answers
  <2>3. CASE /\ slots' \in Tables /\ InHome(slots') /\ num' = num - 1 /\ num # 0
             /\ \E d \in S : /\ Present(slots, <<k, d>>) /\ Answers("delete", k, d)
                             /\ Adds(slots', slots, [key |-> k, data |-> d])
    <3>1. Cardinality(Places(slots)) = Cardinality(Places(slots')) + 1
      BY <2>3 DEF Adds
    <3>2. Cardinality(Places(slots')) \in Nat
      BY <2>3, PlacesFinite, FS_CardinalityType
    <3>3. last' \in [op : {"put", "lookup", "delete"}, key : Keys, data : Data \cup {NoData}]
      BY <2>3 DEF Answers
    <3>4. num' = Cardinality(Places(slots')) /\ num' \in 0..MaxEntries
      BY <1>1, <2>3, <3>1, <3>2
    <3> QED
      BY <1>2, <1>3, <2>1, <2>3, <3>3, <3>4
  <2> QED
    BY <1>8, <2>2, <2>3, DeleteStep
<1>9. ASSUME NEW k \in Keys, NEW d \in Data, Put(k, d) PROVE IInv'
  <2>1. slots' \in Tables /\ InHome(slots') /\ Adds(slots, slots', [key |-> k, data |-> d])
    BY <1>9, PutStep
  <2>2. num < MaxEntries /\ num' = num + 1 /\ typed' = typed /\ Answers("put", k, d)
    BY <1>9 DEF Put
  <2>3. num' = Cardinality(Places(slots'))
    BY <1>1, <2>1, <2>2 DEF Adds
  <2>4. last' \in [op : {"put", "lookup", "delete"}, key : Keys, data : Data \cup {NoData}]
    BY <2>2 DEF Answers
  <2>5. num' \in 0..MaxEntries
    BY <1>1, <2>2
  <2> QED
    BY <1>2, <1>3, <2>1, <2>2, <2>3, <2>4, <2>5
<1>10. CASE UNCHANGED vars
  BY <1>1, <1>2, <1>3, <1>10 DEF vars
<1>11. ASSUME NEW d \in Data PROVE {d} \in SUBSET Data /\ Data \in SUBSET Data
  OBVIOUS
<1> QED
  BY <1>4, <1>5, <1>6, <1>7, <1>8, <1>9, <1>10, <1>11 DEF Next

LEMMA Invariant == Spec => []IInv
BY Started, Inductive, PTL DEF Spec

-----------------------------------------------------------------------------
(* Every state of the table is typed: its lists hold entries only, and its *)
(* count is within its bound.                                              *)
THEOREM TypeCorrect == Spec => []TypeOK
<1>1. IInv => TypeOK
  BY DEF IInv
<1> QED
  BY <1>1, Invariant, PTL

(* dict_count is the number of the entries in the lists, whatever dict_put, *)
(* dict_del, dict_expand and dict_clone have made of them.                 *)
THEOREM CountKept == Spec => []CountRight
<1>1. IInv => CountRight
  BY DEF IInv
<1> QED
  BY <1>1, Invariant, PTL

(* dict_do_lookup only makes a table larger, and large enough that it is   *)
(* not full: the assertion of dict_expand never fails.                     *)
THEOREM Grows == Spec => GrowsEnough
<1> DEFINE Growth == Len(slots') # Len(slots) /\ last'.op = "lookup" /\ typed /\ typed' =>
                       Len(slots') > Len(slots) /\ num' * 3 < Len(slots') * 2
<1>1. IInv /\ [Next]_vars => [Growth]_vars
  <2> SUFFICES ASSUME IInv, Next PROVE Growth
    OBVIOUS
  <2>1. CASE Clone
    <3> DEFINE u == [i \in DOMAIN slots |-> Reverse(slots[i])]
    <3>1. slots \in Tables /\ slots' = u
      BY <2>1, HasSlots DEF Clone
    <3>2. Len(slots') = Len(slots)
      BY <3>1, Copying
    <3> QED
      BY <3>2
  <2>2. CASE Clear \/ InitAgain
    BY <2>2 DEF Clear, InitAgain
  <2>3. ASSUME NEW k \in Keys, Lookup(k) PROVE Growth
    BY <2>3, LookupStep
  <2>4. ASSUME NEW k \in Keys, NEW S, Delete(k, S) PROVE Growth
    BY <2>4 DEF Delete, Answers
  <2>5. ASSUME NEW k \in Keys, NEW d, Put(k, d) PROVE Growth
    BY <2>5 DEF Put, Answers
  <2> QED
    BY <2>1, <2>2, <2>3, <2>4, <2>5 DEF Next
<1> QED
  BY <1>1, Invariant, PTL DEF Spec, GrowsEnough

(* Two counts that agree but for one pair. *)
LEMMA OneElse ==
  ASSUME NEW D, NEW f \in [D -> Int], NEW g \in [D -> Int], NEW q \in D,
         \A p \in D : p # q => g[p] = f[p]
  PROVE  g = [f EXCEPT ![q] = g[q]]
OBVIOUS

(* The table is a bag of pairs: lookups, copies and growth change nothing  *)
(* of it, an answer is one of the key's pairs, and is NULL only for a key  *)
(* that has none.                                                          *)
THEOREM KeepsPairs == Spec => IsMultimap
<1> DEFINE Count(t) == [p \in Keys \X Data |-> Cardinality(Holding(t, p))]
           Zero == [p \in Keys \X Data |-> 0]
<1>1. Init => Bag!Init
  <2> SUFFICES ASSUME Init PROVE Bag!Init
    OBVIOUS
  <2>1. PICK size \in Sizes : slots = Empty(size)
    BY DEF Init
  <2>2. Places(slots) = {}
    BY <2>1, DictAssumption, NoPlaces
  <2>3. \A p : Cardinality(Holding(slots, p)) = 0
    BY <2>2, HoldsNothing
  <2>4. last.data = NoData
    BY DEF Init
  <2> QED
    BY <2>3, <2>4 DEF Bag!Init
<1>2. ASSUME slots \in Tables, NEW k \in Keys
      PROVE  \A d \in Data : d \in Bag!DataOf(k) <=> Present(slots, <<k, d>>)
  <2>1. \A d \in Data : Cardinality(Holding(slots, <<k, d>>)) > 0 <=> Present(slots, <<k, d>>)
    BY <1>2, Presence
  <2> QED
    BY <2>1 DEF Bag!DataOf
<1>3. ASSUME slots \in Tables, slots' \in Tables, Same(slots, slots') PROVE Count(slots') = Count(slots)
  <2>1. \A p : Cardinality(Holding(slots, p)) = Cardinality(Holding(slots', p))
    BY <1>3, SameIs
  <2> QED
    BY <2>1
<1>4. IInv /\ Next => [Bag!Next]_(Bag!mapVars)
  <2> SUFFICES ASSUME IInv, Next PROVE [Bag!Next]_(Bag!mapVars)
    OBVIOUS
  <2>0. slots \in Tables /\ \A d \in Data : {d} \in SUBSET Data /\ Data \in SUBSET Data
    BY HasSlots
  <2>1. CASE Clone
    <3> DEFINE u == [i \in DOMAIN slots |-> Reverse(slots[i])]
    <3>1. slots' = u /\ last' = last
      BY <2>1 DEF Clone
    <3>2. slots' \in Tables /\ Same(slots, slots')
      BY <2>0, <3>1, Copying
    <3>3. Count(slots') = Count(slots)
      BY <1>3, <2>0, <3>2
    <3> QED
      BY <3>1, <3>3 DEF Bag!mapVars
  <2>2. CASE Clear \/ InitAgain
    <3>1. Places(slots') = {}
      <4>1. CASE Clear
        <5>1. 0 \in Nat
          OBVIOUS
        <5> QED
          BY <4>1, <5>1, NoPlaces DEF Clear
      <4>2. CASE InitAgain
        <5>1. PICK size \in Sizes : slots' = Empty(size)
          BY <4>2 DEF InitAgain
        <5> QED
          BY <5>1, DictAssumption, NoPlaces
      <4> QED
        BY <2>2, <4>1, <4>2
    <3>2. Count(slots') = Zero
      BY <3>1, HoldsNothing
    <3>3. last' = last
      BY <2>2 DEF Clear, InitAgain
    <3>4. Bag!Clear
      BY <3>2, <3>3 DEF Bag!Clear
    <3> QED
      BY <3>4 DEF Bag!Next
  <2>3. ASSUME NEW k \in Keys, Lookup(k) PROVE Bag!Lookup(k)
    <3>1. /\ slots' \in Tables /\ Same(slots, slots')
          /\ \/ \E d \in Data : Present(slots, <<k, d>>) /\ Answers("lookup", k, d)
             \/ (\A d : ~Present(slots, <<k, d>>)) /\ Answers("lookup", k, NoData)
      BY <2>3, LookupStep
    <3>2. Count(slots') = Count(slots)
      BY <1>3, <2>0, <3>1
    <3>3. \A d \in Data : d \in Bag!DataOf(k) <=> Present(slots, <<k, d>>)
      BY <1>2, <2>0
    <3>4. Bag!DataOf(k) \subseteq Data
      BY DEF Bag!DataOf
    <3>5. \/ \E d \in Bag!DataOf(k) : Bag!Answers("lookup", k, d)
          \/ Bag!DataOf(k) = {} /\ Bag!Answers("lookup", k, NoData)
      BY <3>1, <3>3, <3>4 DEF Answers, Bag!Answers
    <3> QED
      BY <3>2, <3>5 DEF Bag!Lookup
  <2>4. ASSUME NEW k \in Keys, NEW S \in SUBSET Data, Delete(k, S) PROVE Bag!Delete(k, S)
    <3>1. \A d \in Data : d \in Bag!DataOf(k) <=> Present(slots, <<k, d>>)
      BY <1>2, <2>0
    <3>2. CASE /\ UNCHANGED <<slots, num>> /\ Answers("delete", k, NoData)
               /\ \A d \in S : ~Present(slots, <<k, d>>)
      <4>1. Bag!DataOf(k) \cap S = {}
        BY <3>1, <3>2
      <4>2. Bag!Answers("delete", k, NoData)
        BY <3>2 DEF Answers, Bag!Answers
      <4>3. Count(slots') = Count(slots)
        BY <3>2
      <4> QED
        BY <4>1, <4>2, <4>3 DEF Bag!Delete
    <3>3. ASSUME NEW d \in S, Present(slots, <<k, d>>), Answers("delete", k, d), slots' \in Tables,
                 Adds(slots', slots, [key |-> k, data |-> d])
          PROVE  Bag!Delete(k, S)
      <4>1. d \in Bag!DataOf(k) \cap S
        BY <3>1, <3>3
      <4>2. ASSUME NEW p \in Keys \X Data
            PROVE  Cardinality(Holding(slots', p)) =
                     IF p = <<k, d>> THEN Cardinality(Holding(slots, p)) - 1 ELSE Cardinality(Holding(slots, p))
        <5>1. Cardinality(Holding(slots, p)) =
                Cardinality(Holding(slots', p)) + (IF p = <<k, d>> THEN 1 ELSE 0)
          BY <3>3 DEF Adds
        <5>2. Cardinality(Holding(slots', p)) \in Nat
          BY <3>3, Presence
        <5> QED
          BY <5>1, <5>2
      <4>3. Count(slots') = [Count(slots) EXCEPT ![<<k, d>>] = @ - 1]
        <5> DEFINE q == <<k, d>>
                   D == Keys \X Data
                   F == Count(slots)
                   G == Count(slots')
        <5>1. q \in D /\ G[q] = F[q] - 1
          BY <4>2
        <5>2. \A p \in D : p # q => G[p] = F[p]
          BY <4>2
        <5>3. F \in [D -> Int] /\ G \in [D -> Int]
          <6>1. \A p \in D : Cardinality(Holding(slots, p)) \in Int /\ Cardinality(Holding(slots', p)) \in Int
            BY <2>0, <3>3, Presence
          <6> QED
            BY <6>1
        <5> HIDE DEF q, D, F, G
        <5>4. G = [F EXCEPT ![q] = G[q]]
          BY <5>1, <5>2, <5>3, OneElse
        <5>5. G = [F EXCEPT ![q] = F[q] - 1]
          BY <5>1, <5>4
        <5> QED
          BY <5>5 DEF F, G, q
      <4>4. Bag!Answers("delete", k, d)
        BY <3>3 DEF Answers, Bag!Answers
      <4> QED
        BY <4>1, <4>3, <4>4 DEF Bag!Delete
    <3> QED
      BY <2>4, <3>2, <3>3, DeleteStep
  <2>5. ASSUME NEW k \in Keys, NEW d \in Data, Put(k, d) PROVE Bag!Put(k, d)
    <3>0. slots' \in Tables
      BY <2>5, PutStep
    <3>1. Adds(slots, slots', [key |-> k, data |-> d]) /\ Answers("put", k, d)
      BY <2>5, PutStep DEF Put
    <3>2. \A p \in Keys \X Data : Cardinality(Holding(slots', p)) =
            IF p = <<k, d>> THEN Cardinality(Holding(slots, p)) + 1 ELSE Cardinality(Holding(slots, p))
      <4>1. \A p \in Keys \X Data : Cardinality(Holding(slots, p)) \in Nat
        BY <2>0, Presence
      <4> QED
        BY <3>1, <4>1 DEF Adds
    <3>3. Count(slots') = [Count(slots) EXCEPT ![<<k, d>>] = @ + 1]
      <4> DEFINE q == <<k, d>>
                 D == Keys \X Data
                 F == Count(slots)
                 G == Count(slots')
      <4>1. q \in D /\ G[q] = F[q] + 1
        BY <3>2
      <4>2. \A p \in D : p # q => G[p] = F[p]
        BY <3>2
      <4>3. F \in [D -> Int] /\ G \in [D -> Int]
        <5>1. \A p \in D : Cardinality(Holding(slots, p)) \in Int /\ Cardinality(Holding(slots', p)) \in Int
          BY <2>0, <3>0, Presence
        <5> QED
          BY <5>1
      <4> HIDE DEF q, D, F, G
      <4>4. G = [F EXCEPT ![q] = G[q]]
        BY <4>1, <4>2, <4>3, OneElse
      <4>5. G = [F EXCEPT ![q] = F[q] + 1]
        BY <4>1, <4>4
      <4> QED
        BY <4>5 DEF F, G, q
    <3>4. Bag!Answers("put", k, d)
      BY <3>1 DEF Answers, Bag!Answers
    <3> QED
      BY <3>3, <3>4 DEF Bag!Put
  <2> QED
    BY <2>0, <2>1, <2>2, <2>3, <2>4, <2>5 DEF Next, Bag!Next
<1>5. UNCHANGED vars => UNCHANGED Bag!mapVars
  BY DEF vars, Bag!mapVars
<1> QED
  BY <1>1, <1>4, <1>5, Invariant, PTL DEF Spec, IsMultimap, Bag!Spec

=============================================================================
