----------------------------- MODULE WireProofs -----------------------------
(***************************************************************************)
(* The reader builds the tree that the writer walks through.  Both go      *)
(* through it in the same order, each with loops of its own, so that what  *)
(* is in the pipe are the tokens between the place of the one and that of  *)
(* the other; and what is built is what lies before the reader's place.    *)
(***************************************************************************)
EXTENDS Wire, FiniteSetTheorems, FunctionTheorems, SequenceTheorems, WellFoundedInduction, TLAPS

(* A set of natural numbers has a least element. *)
LEMMA NatMin ==
  ASSUME NEW T, T \subseteq Nat, T # {}
  PROVE  \E n \in T : \A m \in T : n <= m
<1>1. IsWellFoundedOn(OpToRel(<, Nat), Nat)
  BY NatLessThanWellFounded
<1>2. PICK n \in T : \A m \in T : ~ (<<m, n>> \in OpToRel(<, Nat))
  BY <1>1, WFMin
<1>3. \A m \in T : ~(m < n)
  BY <1>2 DEF OpToRel
<1> QED
  BY <1>3

(* What holds of 0 and of whatever follows holds of all natural numbers. *)
LEMMA NatInduct ==
  ASSUME NEW T, 0 \in T, \A n \in Nat : n \in T => n + 1 \in T
  PROVE  Nat \subseteq T
<1> DEFINE U == Nat \ T
<1> SUFFICES ASSUME U # {} PROVE FALSE
  OBVIOUS
<1>1. PICK n \in U : \A m \in U : n <= m
  <2> U \subseteq Nat
    OBVIOUS
  <2> HIDE DEF U
  <2> QED BY NatMin
<1>2. n # 0 /\ n - 1 \in Nat /\ n - 1 \notin U
  BY <1>1
<1> QED
  BY <1>1, <1>2

(* Counting to n. *)
LEMMA UpTo == ASSUME NEW n \in Nat PROVE IsFiniteSet(1..n) /\ Cardinality(1..n) = n
<1>1. 1 \in Int /\ n \in Int
  OBVIOUS
<1>2. IsFiniteSet(1..n) /\ Cardinality(1..n) = IF 1 > n THEN 0 ELSE n - 1 + 1
  BY <1>1, FS_Interval
<1> QED
  BY <1>2

(* The greatest of some numbers up to n is one of them. *)
LEMMA MaxIs ==
  ASSUME NEW n \in Nat, NEW S, S \subseteq 0..n, S # {}
  PROVE  Max(S) \in S /\ \A x \in S : Max(S) >= x
<1> DEFINE T == {n - x : x \in S}
<1>1. T \subseteq Nat /\ T # {}
  <2>1. \A x \in S : n - x \in Nat
    OBVIOUS
  <2>2. PICK x : x \in S
    OBVIOUS
  <2>3. n - x \in T
    BY <2>2
  <2> QED
    BY <2>1, <2>3
<1>2. PICK t \in T : \A u \in T : t <= u
  <2> HIDE DEF T
  <2> QED
    BY <1>1, NatMin
<1>3. PICK x \in S : t = n - x
  BY <1>2
<1>4. \A y \in S : x >= y
  BY <1>2, <1>3
<1> QED
  BY <1>4 DEF Max

-----------------------------------------------------------------------------
(* Paths                                                                   *)

Path == Seq(Nat \ {0})

(* The path of element m of the value at s. *)
LEMMA Child ==
  ASSUME NEW s \in Path, NEW m \in Nat \ {0}
  PROVE  /\ Append(s, m) \in Path /\ Len(Append(s, m)) = Len(s) + 1 /\ Len(s) \in Nat
         /\ Append(s, m)[Len(s) + 1] = m /\ \A i \in 1..Len(s) : Append(s, m)[i] = s[i]
         /\ Front(Append(s, m)) = s /\ Last(Append(s, m)) = m /\ Append(s, m) # <<>>
<1>1. /\ Append(s, m) \in Path /\ Len(Append(s, m)) = Len(s) + 1 /\ Len(s) \in Nat
      /\ Append(s, m)[Len(s) + 1] = m /\ \A i \in 1..Len(s) : Append(s, m)[i] = s[i]
  BY DEF Path
<1>2. Front(Append(s, m)) = s
  <2> DEFINE h == Append(s, m)
  <2>1. Front(h) = SubSeq(h, 1, Len(s))
    BY <1>1 DEF Front
  <2>2. \A i \in 1..Len(s) : h[i] \in Nat \ {0} /\ h[i] = s[i]
    BY <1>1 DEF Path
  <2> HIDE DEF h
  <2>3. SubSeq(h, 1, Len(s)) \in Path /\ Len(SubSeq(h, 1, Len(s))) = Len(s)
    BY <1>1, <2>2, SubSeqProperties DEF Path
  <2>4. \A i \in 1..Len(s) : SubSeq(h, 1, Len(s))[i] = s[i]
    BY <1>1, <2>2
  <2>5. SubSeq(h, 1, Len(s)) = s
    BY <2>3, <2>4, SeqEqual DEF Path
  <2> QED
    BY <2>1, <2>5 DEF h
<1>3. Append(s, m) # <<>>
  BY <1>1, EmptySeq
<1> QED
  BY <1>1, <1>2, <1>3 DEF Last

(* The first n steps of a path. *)
LEMMA Steps ==
  ASSUME NEW p \in Path, NEW n \in 0..Len(p)
  PROVE  /\ Len(p) \in Nat /\ SubSeq(p, 1, n) \in Path /\ Len(SubSeq(p, 1, n)) = n
         /\ \A i \in 1..n : SubSeq(p, 1, n)[i] = p[i]
<1>1. Len(p) \in Nat /\ \A i \in 1..n : p[i] \in Nat \ {0}
  BY DEF Path
<1>2. SubSeq(p, 1, n) \in Path /\ Len(SubSeq(p, 1, n)) = n
  BY <1>1, SubSeqProperties DEF Path
<1>3. \A i \in 1..n : SubSeq(p, 1, n)[i] = p[i]
  BY <1>1
<1> QED
  BY <1>1, <1>2, <1>3

(* Equal step by step. *)
LEMMA SamePath ==
  ASSUME NEW p \in Path, NEW q \in Path, Len(p) = Len(q), \A i \in 1..Len(p) : p[i] = q[i]
  PROVE  p = q
BY SeqEqual DEF Path

(* A path that leads somewhere leads to an element of something. *)
LEMMA Parent ==
  ASSUME NEW p \in Path, p # <<>>
  PROVE  /\ Front(p) \in Path /\ Len(Front(p)) = Len(p) - 1 /\ Len(p) \in Nat \ {0}
         /\ Last(p) \in Nat \ {0} /\ Last(p) = p[Len(p)]
         /\ \A i \in 1..Len(p) - 1 : Front(p)[i] = p[i]
         /\ p = Append(Front(p), Last(p))
<1>1. Len(p) \in Nat \ {0} /\ \A i \in 1..Len(p) : p[i] \in Nat \ {0}
  BY EmptySeq DEF Path
<1>2. /\ Front(p) \in Path /\ Len(Front(p)) = Len(p) - 1
      /\ \A i \in 1..Len(p) - 1 : Front(p)[i] = p[i]
  <2> DEFINE n == Len(p) - 1
  <2>1. n \in 0..Len(p)
    BY <1>1
  <2>2. Front(p) = SubSeq(p, 1, n)
    BY DEF Front
  <2> HIDE DEF n
  <2>3. SubSeq(p, 1, n) \in Path /\ Len(SubSeq(p, 1, n)) = n
    BY <2>1, Steps
  <2>4. \A i \in 1..n : SubSeq(p, 1, n)[i] = p[i]
    BY <2>1, Steps
  <2> QED
    BY <2>2, <2>3, <2>4 DEF n
<1>3. Last(p) \in Nat \ {0} /\ Last(p) = p[Len(p)]
  BY <1>1 DEF Last
<1>4. p = Append(Front(p), Last(p))
  <2> DEFINE f == Front(p)
             l == Last(p)
  <2>0. f \in Path /\ l \in Nat \ {0} /\ Len(f) = Len(p) - 1 /\ l = p[Len(p)]
        /\ \A i \in 1..Len(p) - 1 : f[i] = p[i]
    BY <1>2, <1>3
  <2> HIDE DEF f, l
  <2>1. Append(f, l) \in Path /\ Len(Append(f, l)) = Len(p)
    <3>1. Append(f, l) \in Path /\ Len(Append(f, l)) = Len(f) + 1
      BY <2>0, Child
    <3> QED
      BY <1>1, <2>0, <3>1
  <2>2. ASSUME NEW i \in 1..Len(p) PROVE p[i] = Append(f, l)[i]
    <3>1. Append(f, l)[Len(f) + 1] = l /\ \A j \in 1..Len(f) : Append(f, l)[j] = f[j]
      BY <2>0, Child
    <3>2. i = Len(f) + 1 \/ i \in 1..Len(f)
      BY <1>1, <2>0
    <3> QED
      BY <1>1, <2>0, <3>1, <3>2
  <2>3. p = Append(f, l)
    BY <2>1, <2>2, SamePath
  <2> QED
    BY <2>3 DEF f, l
<1> QED
  BY <1>1, <1>2, <1>3, <1>4

(* q lies at s or below it; on the way to h; to the left of h, so that it  *)
(* and all below it come before h.                                         *)
Under(q, s) == Len(q) >= Len(s) /\ \A i \in 1..Len(s) : q[i] = s[i]
Above(q, h) == Len(q) < Len(h) /\ \A i \in 1..Len(q) : q[i] = h[i]
Left(q, h)  == \E j \in 1..Len(h) : j <= Len(q) /\ q[j] < h[j] /\ \A i \in 1..j - 1 : q[i] = h[i]

Before(q, h) == Left(q, h) \/ Above(q, h)

(* What is below s, and what comes before an element of s. *)
LEMMA Order ==
  ASSUME NEW q \in Path, NEW s \in Path, NEW m \in Nat \ {0}
  PROVE  /\ Under(q, Append(s, m)) <=> Under(q, s) /\ Len(q) > Len(s) /\ q[Len(s) + 1] = m
         /\ Above(q, Append(s, m)) <=> Above(q, s) \/ q = s
         /\ Left(q, Append(s, m)) <=>
              Left(q, s) \/ (Under(q, s) /\ Len(q) > Len(s) /\ q[Len(s) + 1] < m)
         /\ Under(q, s) => q = s \/ Len(q) > Len(s)
         /\ ~Left(s, s) /\ ~Above(s, s) /\ Under(s, s)
<1> DEFINE h == Append(s, m)
           n == Len(s)
<1>0. n \in Nat /\ Len(q) \in Nat
  BY DEF Path
<1>1. h \in Path /\ Len(h) = n + 1 /\ h[n + 1] = m /\ \A i \in 1..n : h[i] = s[i]
  BY Child
<1>2. \A i \in 1..n : s[i] \in Int
  BY DEF Path
<1>3. \A i \in 1..Len(q) : q[i] \in Int
  BY DEF Path
<1> HIDE DEF h
<1>4. Under(q, h) <=> Under(q, s) /\ Len(q) > n /\ q[n + 1] = m
  <2>1. ASSUME Under(q, h) PROVE Under(q, s) /\ Len(q) > n /\ q[n + 1] = m
    BY <1>0, <1>1, <2>1 DEF Under
  <2>2. ASSUME Under(q, s), Len(q) > n, q[n + 1] = m PROVE Under(q, h)
    <3>1. ASSUME NEW i \in 1..n + 1 PROVE q[i] = h[i]
      <4>1. i = n + 1 \/ i \in 1..n
        BY <1>0
      <4> QED
        BY <1>1, <2>2, <4>1 DEF Under
    <3> QED
      BY <1>0, <1>1, <2>2, <3>1 DEF Under
  <2> QED
    BY <2>1, <2>2
<1>5. Above(q, h) <=> Above(q, s) \/ q = s
  <2>1. ASSUME Above(q, h) PROVE Above(q, s) \/ q = s
    <3>1. CASE Len(q) = n
      <4>1. \A i \in 1..Len(q) : q[i] = s[i]
        BY <1>0, <1>1, <2>1, <3>1 DEF Above
      <4> QED
        BY <3>1, <4>1, SamePath
    <3>2. CASE Len(q) < n
      BY <1>0, <1>1, <2>1, <3>2 DEF Above
    <3> QED
      BY <1>0, <1>1, <2>1, <3>1, <3>2 DEF Above
  <2>2. ASSUME Above(q, s) \/ q = s PROVE Above(q, h)
    BY <1>0, <1>1, <2>2 DEF Above
  <2> QED
    BY <2>1, <2>2
<1>6. Left(q, h) <=> Left(q, s) \/ (Under(q, s) /\ Len(q) > n /\ q[n + 1] < m)
  <2>1. ASSUME Left(q, h) PROVE Left(q, s) \/ (Under(q, s) /\ Len(q) > n /\ q[n + 1] < m)
    <3>1. PICK j \in 1..n + 1 : j <= Len(q) /\ q[j] < h[j] /\ \A i \in 1..j - 1 : q[i] = h[i]
      BY <1>1, <2>1 DEF Left
    <3>2. CASE j = n + 1
      BY <1>0, <1>1, <3>1, <3>2 DEF Under
    <3>3. CASE j \in 1..n
      <4>1. q[j] < s[j] /\ \A i \in 1..j - 1 : q[i] = s[i]
        BY <1>0, <1>1, <3>1, <3>3
      <4> QED
        BY <3>1, <3>3, <4>1 DEF Left
    <3> QED
      BY <1>0, <3>2, <3>3
  <2>2. ASSUME Left(q, s) PROVE Left(q, h)
    <3>1. PICK j \in 1..n : j <= Len(q) /\ q[j] < s[j] /\ \A i \in 1..j - 1 : q[i] = s[i]
      BY <2>2 DEF Left
    <3>2. j \in 1..Len(h) /\ q[j] < h[j] /\ \A i \in 1..j - 1 : q[i] = h[i]
      BY <1>0, <1>1, <3>1
    <3> QED
      BY <3>1, <3>2 DEF Left
  <2>3. ASSUME Under(q, s), Len(q) > n, q[n + 1] < m PROVE Left(q, h)
    <3>1. n + 1 \in 1..Len(h) /\ n + 1 <= Len(q) /\ q[n + 1] < h[n + 1]
      BY <1>0, <1>1, <2>3
    <3>2. \A i \in 1..n + 1 - 1 : q[i] = h[i]
      BY <1>0, <1>1, <2>3 DEF Under
    <3> QED
      BY <3>1, <3>2 DEF Left
  <2> QED
    BY <2>1, <2>2, <2>3
<1>7. Under(q, s) => q = s \/ Len(q) > n
  BY <1>0, SamePath DEF Under
<1>8. ~Left(s, s) /\ ~Above(s, s) /\ Under(s, s)
  BY <1>0, <1>2 DEF Left, Above, Under
<1> QED
  BY <1>4, <1>5, <1>6, <1>7, <1>8 DEF h

(* Nothing is before the path of the value itself; all is below it. *)
LEMMA AtRoot ==
  ASSUME NEW q \in Path
  PROVE  <<>> \in Path /\ ~Left(q, <<>>) /\ ~Above(q, <<>>) /\ Under(q, <<>>)
<1>1. Len(<<>>) = 0 /\ <<>> \in Path /\ Len(q) \in Nat
  BY EmptySeq DEF Path
<1> QED
  BY <1>1 DEF Left, Above, Under

-----------------------------------------------------------------------------
(* Trees                                                                   *)

(* Whatever is on the way to a place is in the tree. *)
LEMMA OnTheWay ==
  ASSUME NEW v, Tree(v), NEW q \in DOMAIN v, NEW n \in 0..Len(q)
  PROVE  /\ q \in Path /\ SubSeq(q, 1, n) \in DOMAIN v
         /\ n < Len(q) => q[n + 1] \in 1..Size(v[SubSeq(q, 1, n)])
<1> DEFINE l == Len(q)
           w(k) == SubSeq(q, 1, k)
           T == {m \in Nat : m <= l => w(l - m) \in DOMAIN v}
<1>1. q \in Path /\ l \in Nat
  BY DEF Tree, Path
<1>2. \A k \in 0..l : w(k) \in Path /\ Len(w(k)) = k /\ \A i \in 1..k : w(k)[i] = q[i]
  <2> SUFFICES ASSUME NEW k \in 0..l
               PROVE  w(k) \in Path /\ Len(w(k)) = k /\ \A i \in 1..k : w(k)[i] = q[i]
    OBVIOUS
  <2>1. w(k) \in Path /\ Len(w(k)) = k
    BY <1>1, Steps
  <2>2. \A i \in 1..k : w(k)[i] = q[i]
    BY <1>1, Steps
  <2> QED
    BY <2>1, <2>2
<1> HIDE DEF w
<1>3. w(l) = q
  BY <1>1, <1>2, SamePath
<1>4. ASSUME NEW k \in 1..l, w(k) \in DOMAIN v
      PROVE  w(k - 1) \in DOMAIN v /\ q[k] \in 1..Size(v[w(k - 1)])
  <2> DEFINE p == w(k)
  <2>1. p \in Path /\ Len(p) = k /\ \A i \in 1..k : p[i] = q[i]
    BY <1>2
  <2>2. p # <<>>
    BY <2>1, EmptySeq
  <2>3. Front(p) \in DOMAIN v /\ Last(p) \in 1..Size(v[Front(p)])
    BY <1>4, <2>2 DEF Tree
  <2> HIDE DEF p
  <2>4. /\ Front(p) \in Path /\ Len(Front(p)) = k - 1 /\ Last(p) = q[k]
        /\ \A i \in 1..k - 1 : Front(p)[i] = q[i]
    <3>1. k \in 1..k /\ \A i \in 1..k - 1 : i \in 1..k
      OBVIOUS
    <3>2. /\ Front(p) \in Path /\ Len(Front(p)) = Len(p) - 1 /\ Last(p) = p[Len(p)]
          /\ \A i \in 1..Len(p) - 1 : Front(p)[i] = p[i]
      BY <2>1, <2>2, Parent
    <3>3. Last(p) = q[k]
      BY <2>1, <3>1, <3>2
    <3>4. ASSUME NEW i \in 1..k - 1 PROVE Front(p)[i] = q[i]
      <4>1. Front(p)[i] = p[i]
        BY <2>1, <3>2
      <4> QED
        BY <2>1, <3>1, <4>1
    <3> QED
      BY <2>1, <3>2, <3>3, <3>4
  <2>5. Front(p) = w(k - 1)
    <3>1. k - 1 \in 0..l
      BY <1>1
    <3>2. w(k - 1) \in Path /\ Len(w(k - 1)) = k - 1 /\ \A i \in 1..k - 1 : w(k - 1)[i] = q[i]
      BY <1>2, <3>1
    <3> QED
      BY <2>4, <3>2, SamePath
  <2> QED
    BY <2>3, <2>4, <2>5
<1>5. Nat \subseteq T
  <2>1. 0 \in T
    BY <1>1, <1>3
  <2>2. ASSUME NEW m \in Nat, m \in T PROVE m + 1 \in T
    <3>1. CASE m + 1 <= l
      <4>1. l - m \in 1..l /\ w(l - m) \in DOMAIN v /\ (l - m) - 1 = l - (m + 1)
        BY <1>1, <2>2, <3>1
      <4> QED
        BY <1>4, <4>1
    <3> QED
      BY <1>1, <3>1
  <2> HIDE DEF T
  <2> QED
    BY <2>1, <2>2, NatInduct
<1>6. \A k \in 0..l : w(k) \in DOMAIN v
  <2> SUFFICES ASSUME NEW k \in 0..l PROVE w(k) \in DOMAIN v
    OBVIOUS
  <2>1. l - k \in Nat /\ l - k <= l /\ l - (l - k) = k
    BY <1>1
  <2> QED
    BY <1>5, <2>1
<1>7. ASSUME n < l PROVE q[n + 1] \in 1..Size(v[w(n)])
  <2>1. n + 1 \in 1..l /\ (n + 1) - 1 = n
    BY <1>1, <1>7
  <2>2. w(n + 1) \in DOMAIN v
    BY <1>1, <1>6, <2>1
  <2> QED
    BY <1>4, <2>1, <2>2
<1> QED
  BY <1>1, <1>6, <1>7 DEF w

(* Below s there are only its elements and what is below them. *)
LEMMA Below ==
  ASSUME NEW v, Tree(v), NEW s \in DOMAIN v, NEW q \in DOMAIN v, Under(q, s)
  PROVE  /\ q \in Path /\ s \in Path
         /\ q = s \/ (Len(q) > Len(s) /\ q[Len(s) + 1] \in 1..Size(v[s]))
<1>1. q \in Path /\ s \in Path /\ Len(q) \in Nat /\ Len(s) \in Nat
  BY DEF Tree, Path
<1>2. ASSUME Len(q) > Len(s) PROVE q[Len(s) + 1] \in 1..Size(v[s])
  <2> DEFINE n == Len(s)
             w == SubSeq(q, 1, n)
  <2>1. n \in 0..Len(q)
    BY <1>1, <1>2
  <2>2. w \in Path /\ Len(w) = n
    BY <1>1, <2>1, Steps
  <2>3. \A i \in 1..n : w[i] = q[i]
    BY <1>1, <2>1, Steps
  <2>4. w = s
    <3> HIDE DEF w
    <3> QED
      BY <1>1, <2>2, <2>3, SamePath DEF Under
  <2>5. q[n + 1] \in 1..Size(v[w])
    <3> HIDE DEF n
    <3> QED
      BY <1>2, <2>1, OnTheWay DEF n
  <2> QED
    BY <2>4, <2>5
<1>3. Len(q) = Len(s) => q = s
  BY <1>1, SamePath DEF Under
<1> QED
  BY <1>1, <1>2, <1>3 DEF Under

(* What there is at a path, and how much of it. *)
LEMMA InTree ==
  ASSUME NEW v, Tree(v), NEW p \in DOMAIN v
  PROVE  /\ p \in Path /\ v[p] \in Label /\ Size(v[p]) \in Nat
         /\ \A i \in 1..Size(v[p]) : Append(p, i) \in DOMAIN v
BY DEF Tree, Path, Label, Size, Void, Function, Scalar

Children(v, S) == {q \in DOMAIN v \ {<<>>} : Front(q) \in S}

(* Each element is a child, and there are no others. *)
LEMMA ChildrenOf ==
  ASSUME NEW v, Tree(v), NEW s \in DOMAIN v
  PROVE  /\ IsFiniteSet(Children(v, {s})) /\ Cardinality(Children(v, {s})) = Size(v[s])
         /\ \A q \in Children(v, {s}) : q \in Path /\ Len(q) = Len(s) + 1
<1> DEFINE n == Size(v[s])
           C == Children(v, {s})
           b == [i \in 1..n |-> Append(s, i)]
<1>1. s \in Path /\ n \in Nat /\ \A i \in 1..n : Append(s, i) \in DOMAIN v
  BY InTree
<1>2. \A i \in 1..n : /\ Append(s, i) # <<>> /\ Front(Append(s, i)) = s
                      /\ Last(Append(s, i)) = i
  <2>1. \A i \in 1..n : i \in Nat \ {0}
    BY <1>1
  <2> QED
    BY <1>1, <2>1, Child
<1>3. b \in [1..n -> C]
  BY <1>1, <1>2 DEF Children
<1>4. \A i, j \in 1..n : b[i] = b[j] => i = j
  <2> SUFFICES ASSUME NEW i \in 1..n, NEW j \in 1..n, Append(s, i) = Append(s, j) PROVE i = j
    OBVIOUS
  <2> QED
    BY <1>2
<1>5. ASSUME NEW q \in C PROVE \E i \in 1..n : b[i] = q
  <2>1. q \in Path /\ q # <<>> /\ Front(q) = s
    BY InTree DEF Children
  <2>2. Last(q) \in 1..n
    BY <2>1 DEF Children, Tree
  <2>3. q = Append(s, Last(q))
    BY <2>1, Parent
  <2> QED
    BY <2>2, <2>3
<1>6. \A q \in C : q \in Path /\ Len(q) = Len(s) + 1
  <2> SUFFICES ASSUME NEW q \in C PROVE q \in Path /\ Len(q) = Len(s) + 1
    OBVIOUS
  <2>1. q \in Path /\ q # <<>> /\ Front(q) = s
    BY InTree DEF Children
  <2>2. Len(s) = Len(q) - 1 /\ Len(q) \in Nat
    BY <2>1, Parent
  <2> QED
    BY <2>1, <2>2
<1> HIDE DEF b, C
<1>7. b \in Bijection(1..n, C)
  BY <1>3, <1>4, <1>5, Fun_IsBij
<1>8. IsFiniteSet(C) /\ Cardinality(C) = n
  <2>1. IsFiniteSet(1..n) /\ Cardinality(1..n) = n
    BY <1>1, UpTo
  <2> HIDE DEF n
  <2> QED
    BY <1>7, <2>1, FS_Bijection, Fun_ExistsBij
<1> QED
  BY <1>6, <1>8 DEF C

-----------------------------------------------------------------------------
(* The writer's loops                                                      *)

(* The steps to s are the steps to its elements. *)
LEMMA SameSteps ==
  ASSUME NEW s \in Path, NEW m \in Nat \ {0}, NEW k \in 0..Len(s)
  PROVE  SubSeq(Append(s, m), 1, k) = SubSeq(s, 1, k) /\ SubSeq(s, 1, Len(s)) = s
<1> DEFINE h == Append(s, m)
<1>1. h \in Path /\ Len(h) = Len(s) + 1 /\ Len(s) \in Nat
  BY Child
<1>2. \A i \in 1..Len(s) : h[i] = s[i]
  BY Child
<1> HIDE DEF h
<1>3. k \in 0..Len(h)
  BY <1>1
<1>4. /\ SubSeq(h, 1, k) \in Path /\ Len(SubSeq(h, 1, k)) = k
      /\ \A i \in 1..k : SubSeq(h, 1, k)[i] = h[i]
  BY <1>1, <1>3, Steps
<1>5. /\ SubSeq(s, 1, k) \in Path /\ Len(SubSeq(s, 1, k)) = k
      /\ \A i \in 1..k : SubSeq(s, 1, k)[i] = s[i]
  BY Steps
<1>6. SubSeq(h, 1, k) = SubSeq(s, 1, k)
  <2>1. \A i \in 1..k : SubSeq(h, 1, k)[i] = SubSeq(s, 1, k)[i]
    BY <1>1, <1>2, <1>4, <1>5
  <2> QED
    BY <1>4, <1>5, <2>1, SamePath
<1>7. SubSeq(s, 1, Len(s)) = s
  BY SubSeqFull DEF Path
<1> QED
  BY <1>6, <1>7 DEF h

(* After an element comes the next one, or what comes after its array. *)
LEMMA AfterElement ==
  ASSUME NEW v, Tree(v), NEW s \in DOMAIN v, NEW m \in 1..Size(v[s])
  PROVE  After(v, Append(s, m)) = IF m < Size(v[s]) THEN Append(s, m + 1) ELSE After(v, s)
<1> DEFINE h == Append(s, m)
           n == Len(s)
           U == Unfinished(v, s)
           V == Unfinished(v, h)
<1>1. s \in Path /\ Size(v[s]) \in Nat /\ m \in Nat \ {0}
  BY InTree
<1>2. h \in Path /\ Len(h) = n + 1 /\ h[n + 1] = m /\ n \in Nat
  BY <1>1, Child
<1>2a. \A i \in 1..n : h[i] = s[i]
  BY <1>1, Child
<1>3. \A k \in 0..n : SubSeq(h, 1, k) = SubSeq(s, 1, k)
  BY <1>1, SameSteps
<1>4. SubSeq(h, 1, n) = s
  <2>1. n \in 0..n
    BY <1>2
  <2> QED
    BY <1>1, <2>1, SameSteps
<1> HIDE DEF h
<1>5. \A j \in 1..n : j \in U <=> j \in V
  <2>1. \A j \in 1..n : SubSeq(h, 1, j - 1) = SubSeq(s, 1, j - 1) /\ h[j] = s[j] /\ j \in 1..Len(h)
    BY <1>2, <1>2a, <1>3
  <2> QED
    BY <2>1 DEF Unfinished
<1>6. n + 1 \in V <=> m < Size(v[s])
  <2>1. n + 1 \in 1..Len(h) /\ (n + 1) - 1 = n
    BY <1>2
  <2> QED
    BY <1>2, <1>4, <2>1 DEF Unfinished
<1>7. U \subseteq 1..n /\ V \subseteq 1..n + 1 /\ n + 1 \notin U
  BY <1>2 DEF Unfinished
<1> HIDE DEF U, V
<1>8. CASE m < Size(v[s])
  <2>1. V \subseteq 0..n + 1 /\ V # {} /\ n + 1 \in V
    BY <1>6, <1>7, <1>8
  <2>2. Max(V) = n + 1
    <3>0. n + 1 \in Nat
      BY <1>2
    <3>1. Max(V) \in V /\ \A x \in V : Max(V) >= x
      BY <2>1, <3>0, MaxIs
    <3>2. Max(V) >= n + 1 /\ Max(V) \in 1..n + 1
      BY <1>7, <2>1, <3>1
    <3> QED
      BY <1>2, <3>2
  <2>3. SubSeq(h, 1, (n + 1) - 1) = s /\ h[n + 1] + 1 = m + 1
    BY <1>2, <1>4
  <2> QED
    BY <1>8, <2>1, <2>2, <2>3 DEF After, V, h
<1>9. CASE ~(m < Size(v[s]))
  <2>1. U = V
    <3>1. n + 1 \notin V
      BY <1>6, <1>9
    <3>2. \A j \in V : j \in 1..n
      BY <1>2, <1>7, <3>1
    <3> QED
      BY <1>5, <1>7, <3>2
  <2>2. CASE U = {}
    BY <1>9, <2>1, <2>2 DEF After, U, V, h
  <2>3. CASE U # {}
    <3>1. Max(U) \in U
      <4>1. U \subseteq 0..n
        BY <1>7
      <4> QED
        BY <1>2, <2>3, <4>1, MaxIs
    <3> DEFINE j == Max(U)
    <3>2. j \in 1..n /\ j = Max(V)
      BY <1>7, <2>1, <3>1
    <3> HIDE DEF j
    <3>3. SubSeq(h, 1, j - 1) = SubSeq(s, 1, j - 1) /\ h[j] = s[j]
      BY <1>2a, <1>3, <3>2
    <3>4. After(v, s) = Append(SubSeq(s, 1, j - 1), s[j] + 1)
      BY <2>3 DEF After, U, j
    <3>5. After(v, h) = Append(SubSeq(h, 1, j - 1), h[j] + 1)
      BY <2>1, <2>3, <3>2 DEF After, V
    <3> QED
      BY <1>9, <3>3, <3>4, <3>5 DEF h
  <2> QED
    BY <2>2, <2>3
<1> QED
  BY <1>8, <1>9

(* After the whole value comes nothing. *)
LEMMA AfterAll == ASSUME NEW v PROVE After(v, <<>>) = NoPath
BY DEF After, Unfinished

-----------------------------------------------------------------------------
(* The pipe                                                                *)

(* A token is known by the value it is of and by its number there. *)
NextSpot(v, x) ==
  IF x[2] < Len(Tokens(v[x[1]])) THEN <<x[1], x[2] + 1>> ELSE <<Following(v, x[1]), 1>>

(* The tokens in the pipe p are those from x on, up to y. *)
Line(v, x, p, y) ==
  \E S, F : /\ p \in Seq(S) /\ F[1] = x /\ F[Len(p) + 1] = y
            /\ \A j \in 1..Len(p) : /\ F[j][1] # NoPath
                                    /\ p[j] = Tokens(v[F[j][1]])[F[j][2]]
                                    /\ F[j + 1] = NextSpot(v, F[j])

LEMMA LineStarts == ASSUME NEW v, NEW x PROVE Line(v, x, <<>>, x)
<1> DEFINE F == [j \in 1..1 |-> x]
<1>1. <<>> \in Seq({x}) /\ Len(<<>>) = 0
  BY EmptySeq
<1>2. F[1] = x
  OBVIOUS
<1> HIDE DEF F
<1> QED
  BY <1>1, <1>2 DEF Line

LEMMA LineWritten ==
  ASSUME NEW v, NEW x, NEW p, NEW y, Line(v, x, p, y), y[1] # NoPath
  PROVE  Line(v, x, Append(p, Tokens(v[y[1]])[y[2]]), NextSpot(v, y))
<1> DEFINE c == Tokens(v[y[1]])[y[2]]
           z == NextSpot(v, y)
<1>1. PICK S, F : /\ p \in Seq(S) /\ F[1] = x /\ F[Len(p) + 1] = y
                  /\ \A j \in 1..Len(p) : /\ F[j][1] # NoPath
                                          /\ p[j] = Tokens(v[F[j][1]])[F[j][2]]
                                          /\ F[j + 1] = NextSpot(v, F[j])
  BY DEF Line
<1> DEFINE n == Len(p)
           R == S \cup {c}
           q == Append(p, c)
           G == [j \in 1..n + 2 |-> IF j = n + 2 THEN z ELSE F[j]]
<1>2. n \in Nat /\ p \in Seq(R)
  BY <1>1, SeqMonotonic
<1>3. q \in Seq(R) /\ Len(q) = n + 1 /\ q[n + 1] = c /\ \A j \in 1..n : q[j] = p[j]
  BY <1>2
<1>4. G[1] = x /\ G[n + 1] = y /\ G[n + 2] = z /\ \A j \in 1..n + 1 : G[j] = F[j]
  BY <1>1, <1>2
<1> HIDE DEF G, q, n, R
<1>5. ASSUME NEW j \in 1..n + 1
      PROVE  G[j][1] # NoPath /\ q[j] = Tokens(v[G[j][1]])[G[j][2]] /\ G[j + 1] = NextSpot(v, G[j])
  <2>1. CASE j = n + 1
    <3>1. j + 1 = n + 2
      BY <1>2, <2>1
    <3> QED
      BY <1>3, <1>4, <2>1, <3>1
  <2>2. CASE j \in 1..n
    <3>1. G[j] = F[j] /\ G[j + 1] = F[j + 1] /\ q[j] = p[j]
      BY <1>2, <1>3, <1>4, <2>2
    <3> QED
      BY <1>1, <2>2, <3>1 DEF n
  <2> QED
    BY <1>2, <2>1, <2>2
<1>6. Len(q) + 1 = n + 2
  BY <1>2, <1>3
<1> HIDE DEF c, z
<1>7. Line(v, x, q, z)
  BY <1>3, <1>4, <1>5, <1>6 DEF Line
<1> QED
  BY <1>7 DEF q, c, z

LEMMA LineRead ==
  ASSUME NEW v, NEW x, NEW p, NEW y, Line(v, x, p, y), p # <<>>
  PROVE  /\ x[1] # NoPath /\ Head(p) = Tokens(v[x[1]])[x[2]]
         /\ Line(v, NextSpot(v, x), Tail(p), y)
<1>1. PICK S, F : /\ p \in Seq(S) /\ F[1] = x /\ F[Len(p) + 1] = y
                  /\ \A j \in 1..Len(p) : /\ F[j][1] # NoPath
                                          /\ p[j] = Tokens(v[F[j][1]])[F[j][2]]
                                          /\ F[j + 1] = NextSpot(v, F[j])
  BY DEF Line
<1> DEFINE n == Len(p)
           q == Tail(p)
           G == [j \in 1..n |-> F[j + 1]]
<1>2. n \in Nat \ {0}
  BY <1>1, EmptySeq
<1>3. q \in Seq(S) /\ Len(q) = n - 1
  BY <1>1, HeadTailProperties
<1>4. \A j \in 1..n - 1 : q[j] = p[j + 1]
  BY <1>1, <1>2
<1>5. G[1] = F[2] /\ G[n] = y /\ \A j \in 1..n - 1 : G[j] = F[j + 1] /\ G[j + 1] = F[(j + 1) + 1]
  BY <1>1, <1>2
<1>6. /\ F[1][1] # NoPath /\ p[1] = Tokens(v[F[1][1]])[F[1][2]] /\ F[2] = NextSpot(v, F[1])
  BY <1>1, <1>2
<1>7. Head(p) = p[1]
  BY <1>1, <1>2
<1> HIDE DEF q, G, n
<1>8. ASSUME NEW j \in 1..n - 1
      PROVE  G[j][1] # NoPath /\ q[j] = Tokens(v[G[j][1]])[G[j][2]] /\ G[j + 1] = NextSpot(v, G[j])
  <2>1. j + 1 \in 1..n
    BY <1>2
  <2>2. /\ F[j + 1][1] # NoPath /\ p[j + 1] = Tokens(v[F[j + 1][1]])[F[j + 1][2]]
        /\ F[(j + 1) + 1] = NextSpot(v, F[j + 1])
    BY <1>1, <2>1 DEF n
  <2> QED
    BY <1>4, <1>5, <2>2
<1>9. Len(q) + 1 = n
  BY <1>2, <1>3
<1>10. Line(v, NextSpot(v, x), q, y)
  BY <1>1, <1>3, <1>5, <1>6, <1>8, <1>9 DEF Line
<1> QED
  BY <1>1, <1>6, <1>7, <1>10 DEF q

(* From nothing on there is nothing. *)
LEMMA LineEnds ==
  ASSUME NEW v, NEW x, NEW p, NEW y, Line(v, x, p, y), x[1] = NoPath
  PROVE  p = <<>> /\ x = y
<1>1. PICK S, F : /\ p \in Seq(S) /\ F[1] = x /\ F[Len(p) + 1] = y
                  /\ \A j \in 1..Len(p) : /\ F[j][1] # NoPath
                                          /\ p[j] = Tokens(v[F[j][1]])[F[j][2]]
                                          /\ F[j + 1] = NextSpot(v, F[j])
  BY DEF Line
<1>2. Len(p) \in Nat /\ 1 \notin 1..Len(p)
  BY <1>1
<1>3. Len(p) = 0
  BY <1>2
<1>4. p = <<>>
  BY <1>1, <1>3, EmptySeq
<1> QED
  BY <1>1, <1>3, <1>4

-----------------------------------------------------------------------------
(* The reader's stack                                                      *)

Frame  == [length : Nat, i : Nat \ {0}]
Frames == Seq(Frame)

(* The path of what is read in the arrays s. *)
Route(s) == [j \in DOMAIN s |-> s[j].i]

(* The frames are those of the arrays on the way there. *)
Around(v, s) ==
  /\ s \in Frames
  /\ \A j \in 1..Len(s) : LET p == SubSeq(Route(s), 1, j - 1)
                          IN p \in DOMAIN v /\ s[j].length = Size(v[p])

LEMMA RouteIs ==
  ASSUME NEW s \in Frames
  PROVE  /\ Route(s) \in Path /\ Len(Route(s)) = Len(s) /\ Len(s) \in Nat
         /\ \A j \in 1..Len(s) : Route(s)[j] = s[j].i /\ s[j] \in Frame
<1>1. Len(s) \in Nat /\ DOMAIN s = 1..Len(s) /\ \A j \in 1..Len(s) : s[j] \in Frame
  BY DEF Frames
<1>2. \A j \in 1..Len(s) : s[j].i \in Nat \ {0}
  BY <1>1 DEF Frame
<1> DEFINE r == [j \in 1..Len(s) |-> s[j].i]
<1>3. r \in Path /\ Len(r) = Len(s)
  <2>1. r \in [1..Len(s) -> Nat \ {0}]
    BY <1>2
  <2>2. r \in Seq(Nat \ {0})
    BY <1>1, <2>1, SeqDef
  <2> QED
    BY <1>1, <2>2 DEF Path
<1>4. Route(s) = r
  BY <1>1 DEF Route
<1>5. \A j \in 1..Len(s) : r[j] = s[j].i
  OBVIOUS
<1> HIDE DEF r
<1> QED
  BY <1>1, <1>3, <1>4, <1>5

(* An array inside of the others. *)
LEMMA Deeper ==
  ASSUME NEW t \in Frames, NEW a \in Frame
  PROVE  /\ Append(t, a) \in Frames /\ Len(Append(t, a)) = Len(t) + 1 /\ Append(t, a) # <<>>
         /\ Front(Append(t, a)) = t /\ Last(Append(t, a)) = a
         /\ Route(Append(t, a)) = Append(Route(t), a.i)
<1> DEFINE s == Append(t, a)
<1>1. s \in Frames /\ Len(s) = Len(t) + 1 /\ Len(t) \in Nat /\ s[Len(t) + 1] = a
  BY DEF Frames
<1>1a. \A j \in 1..Len(t) : s[j] = t[j]
  BY DEF Frames
<1> HIDE DEF s
<1>2. s # <<>> /\ Last(s) = a
  BY <1>1, EmptySeq DEF Last
<1>3. Front(s) = t
  <2>1. Front(s) = SubSeq(s, 1, Len(t))
    BY <1>1 DEF Front
  <2>2. \A j \in 1..Len(t) : s[j] \in Frame
    BY <1>1, <1>1a DEF Frames
  <2>3. SubSeq(s, 1, Len(t)) \in Frames /\ Len(SubSeq(s, 1, Len(t))) = Len(t)
    BY <1>1, <2>2, SubSeqProperties DEF Frames
  <2>4. \A j \in 1..Len(t) : SubSeq(s, 1, Len(t))[j] = t[j]
    BY <1>1, <1>1a, <2>2
  <2>5. SubSeq(s, 1, Len(t)) = t
    BY <2>3, <2>4, SeqEqual DEF Frames
  <2> QED
    BY <2>1, <2>5
<1>4. Route(s) = Append(Route(t), a.i)
  <2> DEFINE r == Route(t)
  <2>1. r \in Path /\ Len(r) = Len(t) /\ \A j \in 1..Len(t) : r[j] = t[j].i
    BY RouteIs
  <2>2. Route(s) \in Path /\ Len(Route(s)) = Len(t) + 1 /\ \A j \in 1..Len(t) + 1 : Route(s)[j] = s[j].i
    BY <1>1, RouteIs
  <2>3. a.i \in Nat \ {0}
    BY DEF Frame
  <2> HIDE DEF r
  <2>4. Append(r, a.i) \in Path /\ Len(Append(r, a.i)) = Len(t) + 1
        /\ Append(r, a.i)[Len(t) + 1] = a.i
    BY <2>1, <2>3, Child
  <2>5. \A j \in 1..Len(t) : Append(r, a.i)[j] = t[j].i
    BY <2>1, <2>3, Child
  <2>6. ASSUME NEW j \in 1..Len(t) + 1 PROVE Route(s)[j] = Append(r, a.i)[j]
    <3>1. j = Len(t) + 1 \/ j \in 1..Len(t)
      BY <1>1
    <3> QED
      BY <1>1, <1>1a, <2>2, <2>4, <2>5, <3>1
  <2>7. Route(s) = Append(r, a.i)
    BY <2>2, <2>4, <2>6, SamePath
  <2> QED
    BY <2>7 DEF r
<1> QED
  BY <1>1, <1>2, <1>3, <1>4 DEF s

(* The innermost array, and going on in it. *)
LEMMA Innermost ==
  ASSUME NEW s \in Frames, s # <<>>
  PROVE  /\ Front(s) \in Frames /\ Last(s) \in Frame /\ s = Append(Front(s), Last(s))
         /\ [s EXCEPT ![Len(s)].i = @ + 1]
              = Append(Front(s), [length |-> Last(s).length, i |-> Last(s).i + 1])
<1> DEFINE n == Len(s)
           t == Front(s)
           a == Last(s)
<1>1. n \in Nat \ {0} /\ DOMAIN s = 1..n /\ \A j \in 1..n : s[j] \in Frame
  BY EmptySeq DEF Frames
<1>2. t \in Frames /\ Len(t) = n - 1
  BY <1>1, SubSeqProperties DEF Frames, Front
<1>2a. \A j \in 1..n - 1 : t[j] = s[j]
  BY <1>1 DEF Front
<1>3. a = s[n] /\ a \in Frame
  BY <1>1 DEF Last
<1> DEFINE b == [length |-> a.length, i |-> a.i + 1]
           u == [s EXCEPT ![n].i = @ + 1]
<1>4. b \in Frame /\ b = [a EXCEPT !.i = @ + 1]
  BY <1>3 DEF Frame
<1>5. DOMAIN u = 1..n /\ u[n] = [a EXCEPT !.i = @ + 1] /\ \A j \in 1..n - 1 : u[j] = s[j]
  BY <1>1, <1>3
<1>6. u = [j \in 1..n |-> u[j]] /\ s = [j \in 1..n |-> s[j]]
  <2>1. s \in [1..n -> Frame]
    BY LenProperties DEF Frames
  <2> HIDE DEF n
  <2>2. u = [j \in 1..n |-> u[j]]
    BY <1>1
  <2> QED
    BY <2>1, <2>2
<1> HIDE DEF t, a, b, u, n
<1>7. ASSUME NEW c \in Frame
      PROVE  /\ Append(t, c) = [j \in 1..n |-> Append(t, c)[j]] /\ Append(t, c)[n] = c
             /\ \A j \in 1..n - 1 : Append(t, c)[j] = t[j]
  <2> DEFINE w == Append(t, c)
  <2>0. Len(t) + 1 = n
    BY <1>1, <1>2
  <2>1. w \in Seq(Frame) /\ Len(w) = n /\ w[n] = c
    BY <1>1, <1>2, <2>0 DEF Frames
  <2>1a. \A j \in 1..n - 1 : w[j] = t[j]
    BY <1>1, <1>2 DEF Frames
  <2> HIDE DEF w
  <2>2. w = [j \in 1..n |-> w[j]]
    BY <1>1, <2>1
  <2> QED
    BY <2>1, <2>1a, <2>2 DEF w
<1>8. ASSUME NEW w, w = [j \in 1..n |-> w[j]], NEW c \in Frame, w[n] = c, \A j \in 1..n - 1 : w[j] = s[j]
      PROVE  w = Append(t, c)
  <2>1. \A j \in 1..n : w[j] = Append(t, c)[j]
    <3> SUFFICES ASSUME NEW j \in 1..n PROVE w[j] = Append(t, c)[j]
      OBVIOUS
    <3>1. j = n \/ j \in 1..n - 1
      BY <1>1
    <3> QED
      BY <1>2a, <1>7, <1>8, <3>1
  <2> QED
    BY <1>7, <1>8, <2>1
<1>9. s = Append(t, a)
  BY <1>3, <1>6, <1>8
<1>10. u = Append(t, b)
  BY <1>4, <1>5, <1>6, <1>8
<1> QED
  BY <1>2, <1>3, <1>9, <1>10 DEF t, a, b, u, n

(* Being in an array of some arrays. *)
LEMMA AroundDeeper ==
  ASSUME NEW v, NEW t \in Frames, NEW a \in Frame
  PROVE  Around(v, Append(t, a)) <=>
           Around(v, t) /\ Route(t) \in DOMAIN v /\ a.length = Size(v[Route(t)])
<1> DEFINE s == Append(t, a)
           n == Len(t)
           r == Route(t)
           h == Route(s)
           Good(f, p) == p \in DOMAIN v /\ f.length = Size(v[p])
<1>1. s \in Frames /\ Len(s) = n + 1 /\ h = Append(r, a.i)
  BY Deeper
<1>2. s[n + 1] = a /\ \A j \in 1..n : s[j] = t[j]
  BY DEF Frames
<1>3. r \in Path /\ Len(r) = n /\ n \in Nat /\ a.i \in Nat \ {0}
  BY RouteIs DEF Frame
<1>4. \A k \in 0..n : SubSeq(h, 1, k) = SubSeq(r, 1, k)
  <2> HIDE DEF r, h
  <2> QED
    BY <1>1, <1>3, SameSteps
<1>5. SubSeq(h, 1, n) = r
  <2>1. n \in 0..n
    BY <1>3
  <2> HIDE DEF r, h
  <2>2. SubSeq(r, 1, n) = r
    BY <1>3, <2>1, SameSteps
  <2> QED
    BY <1>4, <2>1, <2>2
<1>6. Around(v, s) <=> \A j \in 1..n + 1 : Good(s[j], SubSeq(h, 1, j - 1))
  BY <1>1 DEF Around
<1>7. Around(v, t) <=> \A j \in 1..n : Good(t[j], SubSeq(r, 1, j - 1))
  BY DEF Around
<1> HIDE DEF s, r, h, n, Good
<1>8. \A j \in 1..n : Good(s[j], SubSeq(h, 1, j - 1)) <=> Good(t[j], SubSeq(r, 1, j - 1))
  <2> SUFFICES ASSUME NEW j \in 1..n
               PROVE  Good(s[j], SubSeq(h, 1, j - 1)) <=> Good(t[j], SubSeq(r, 1, j - 1))
    OBVIOUS
  <2>1. j - 1 \in 0..n
    BY <1>3
  <2>2. SubSeq(h, 1, j - 1) = SubSeq(r, 1, j - 1) /\ s[j] = t[j]
    BY <1>2, <1>4, <2>1
  <2> QED
    BY <2>2
<1>9. Good(s[n + 1], SubSeq(h, 1, (n + 1) - 1)) <=> Good(a, r)
  <2>1. (n + 1) - 1 = n
    BY <1>3
  <2> QED
    BY <1>2, <1>5, <2>1
<1>10. Around(v, s) <=> Around(v, t) /\ Good(a, r)
  <2>1. \A j \in 1..n + 1 : j \in 1..n \/ j = n + 1
    BY <1>3
  <2>2. \A j \in 1..n : j \in 1..n + 1
    BY <1>3
  <2>3. n + 1 \in 1..n + 1
    BY <1>3
  <2> QED
    BY <1>6, <1>7, <1>8, <1>9, <2>1, <2>2, <2>3
<1> QED
  BY <1>10 DEF Good, s, r

(* What is known of the frames of a place in the tree. *)
LEMMA AroundIs ==
  ASSUME NEW v, NEW s, Around(v, s), s # <<>>
  PROVE  /\ Front(s) \in Frames /\ Last(s) \in Frame /\ Around(v, Front(s))
         /\ Route(Front(s)) \in DOMAIN v /\ Last(s).length = Size(v[Route(Front(s))])
         /\ Route(s) = Append(Route(Front(s)), Last(s).i)
<1>1. s \in Frames
  BY DEF Around
<1>2. Front(s) \in Frames /\ Last(s) \in Frame /\ s = Append(Front(s), Last(s))
  BY <1>1, Innermost
<1> DEFINE t == Front(s)
           a == Last(s)
<1> HIDE DEF t, a
<1>3. t \in Frames /\ a \in Frame /\ Around(v, Append(t, a)) /\ s = Append(t, a)
  BY <1>2 DEF t, a
<1>4. Around(v, t) /\ Route(t) \in DOMAIN v /\ a.length = Size(v[Route(t)])
  BY <1>3, AroundDeeper
<1>5. Route(s) = Append(Route(t), a.i)
  BY <1>3, Deeper
<1> QED
  BY <1>2, <1>4, <1>5 DEF t, a

-----------------------------------------------------------------------------
(* Levels                                                                  *)

(* A finite set of numbers is bounded. *)
LEMMA Bounded ==
  ASSUME NEW S, S \subseteq Nat, IsFiniteSet(S)
  PROVE  \E n \in Nat : S \subseteq 0..n
<1> DEFINE T == {c \in Nat : \A R \in SUBSET Nat : IsFiniteSet(R) /\ Cardinality(R) = c =>
                               \E n \in Nat : R \subseteq 0..n}
<1>1. 0 \in T
  <2> SUFFICES ASSUME NEW R \in SUBSET Nat, IsFiniteSet(R), Cardinality(R) = 0
               PROVE  \E n \in Nat : R \subseteq 0..n
    OBVIOUS
  <2>1. R = {}
    BY FS_EmptySet
  <2> QED
    BY <2>1
<1>2. ASSUME NEW c \in Nat, c \in T PROVE c + 1 \in T
  <2> SUFFICES ASSUME NEW R \in SUBSET Nat, IsFiniteSet(R), Cardinality(R) = c + 1
               PROVE  \E n \in Nat : R \subseteq 0..n
    OBVIOUS
  <2>1. PICK x : x \in R
    <3>1. Cardinality({}) = 0
      BY FS_EmptySet
    <3>2. R # {}
      BY <3>1
    <3> QED
      BY <3>2
  <2> DEFINE Q == R \ {x}
  <2>2. Q \in SUBSET Nat /\ IsFiniteSet(Q) /\ Cardinality(Q) = c
    <3>1. IsFiniteSet(Q) /\ Cardinality(Q) = Cardinality(R) - 1
      BY <2>1, FS_RemoveElement
    <3>2. Q \in SUBSET Nat
      OBVIOUS
    <3>3. (c + 1) - 1 = c
      OBVIOUS
    <3>4. Cardinality(Q) = (c + 1) - 1
      BY <3>1
    <3> QED
      BY <3>1, <3>2, <3>3, <3>4
  <2>3. PICK n \in Nat : Q \subseteq 0..n
    <3> HIDE DEF Q
    <3> QED
      BY <1>2, <2>2
  <2>4. x \in Nat /\ R \subseteq 0..(n + x)
    BY <2>1, <2>3
  <2>5. n + x \in Nat
    BY <2>4
  <2> QED
    BY <2>4, <2>5
<1>3. Cardinality(S) \in T
  <2> HIDE DEF T
  <2>1. Nat \subseteq T
    BY <1>1, <1>2, NatInduct
  <2> QED
    BY <2>1, FS_CardinalityType
<1> QED
  BY <1>3

Level(v, R, d) == {q \in Children(v, R) : Len(q) = d}

(* Few values at each level are few for each of the levels. *)
LEMMA LevelSum ==
  ASSUME NEW v, Tree(v), NEW K \in Nat,
         \A d \in Nat : Cardinality(Level(v, DOMAIN v, d)) <= K
  PROVE  Total(v) <= Height(v) * K
<1> DEFINE E == Children(v, DOMAIN v)
           Lens == {Len(p) : p \in DOMAIN v}
           H == Max(Lens)
           C(h) == {q \in E : Len(q) <= h}
           T == {h \in Nat : Cardinality(C(h)) <= h * K}
<1>1. IsFiniteSet(DOMAIN v) /\ <<>> \in DOMAIN v /\ E = DOMAIN v \ {<<>>}
  BY DEF Tree, Children
<1>2. IsFiniteSet(E) /\ Cardinality(E) = Total(v)
  BY <1>1, FS_RemoveElement DEF Total
<1>3. \A p \in DOMAIN v : p \in Path /\ Len(p) \in Nat /\ (Len(p) = 0 => p = <<>>)
  <2>1. \A p \in DOMAIN v : p \in Path
    BY InTree
  <2>2. \A p \in Path : Len(p) \in Nat /\ (p # <<>> => Len(p) \in Nat \ {0})
    BY EmptySeq DEF Path
  <2> QED
    BY <2>1, <2>2
<1>4. H \in Nat /\ \A p \in DOMAIN v : Len(p) <= H
  <2> DEFINE f == [p \in DOMAIN v |-> Len(p)]
  <2>1. f \in Surjection(DOMAIN v, Lens)
    BY Fun_IsSurj
  <2>2. IsFiniteSet(Lens)
    <3> HIDE DEF f, Lens
    <3> QED
      BY <1>1, <2>1, FS_Surjection
  <2>3. Lens \subseteq Nat /\ Lens # {}
    BY <1>1, <1>3
  <2>4. PICK n \in Nat : Lens \subseteq 0..n
    <3> HIDE DEF Lens
    <3> QED
      BY <2>2, <2>3, Bounded
  <2>5. H \in Lens /\ \A x \in Lens : H >= x
    <3> HIDE DEF Lens
    <3> QED
      BY <2>3, <2>4, MaxIs
  <2> QED
    BY <2>3, <2>5
<1> HIDE DEF H
<1>5. 0 \in T
  <2>1. C(0) = {}
    BY <1>1, <1>3
  <2>2. Cardinality(C(0)) = 0
    BY <2>1, FS_EmptySet
  <2> QED
    BY <2>2
<1>6. ASSUME NEW h \in Nat, h \in T PROVE h + 1 \in T
  <2> DEFINE A == C(h)
             B == Level(v, DOMAIN v, h + 1)
             D == C(h + 1)
  <2>1. A \subseteq E /\ B \subseteq E /\ D = A \cup B /\ A \cap B = {}
    BY <1>1, <1>3 DEF Level
  <2>2. Cardinality(A) <= h * K /\ Cardinality(B) <= K
    BY <1>6
  <2>2a. Cardinality(D) <= (h + 1) * K => h + 1 \in T
    OBVIOUS
  <2> HIDE DEF A, B, D, T, C, E
  <2>3. IsFiniteSet(A) /\ IsFiniteSet(B)
    BY <1>2, <2>1, FS_Subset
  <2>4. Cardinality(A) \in Nat /\ Cardinality(B) \in Nat
    BY <2>3, FS_CardinalityType
  <2>5. Cardinality(A \cup B) = Cardinality(A) + Cardinality(B)
    <3>1. Cardinality(A \cup B) = Cardinality(A) + Cardinality(B) - Cardinality(A \cap B)
      BY <2>3, FS_Union
    <3>2. Cardinality(A \cap B) = 0
      BY <2>1, FS_EmptySet
    <3> QED
      BY <2>4, <3>1, <3>2
  <2>6. h * K + K = (h + 1) * K /\ h * K \in Nat
    OBVIOUS
  <2>7. Cardinality(A \cup B) <= (h + 1) * K
    BY <2>2, <2>4, <2>5, <2>6
  <2> QED
    BY <2>1, <2>2a, <2>7
<1>7. H \in T
  <2> HIDE DEF T
  <2>1. Nat \subseteq T
    BY <1>5, <1>6, NatInduct
  <2> QED
    BY <1>4, <2>1
<1>8. C(H) = E
  BY <1>1, <1>4
<1>9. Total(v) <= H * K
  <2> HIDE DEF E, C
  <2> QED
    BY <1>2, <1>7, <1>8
<1> QED
  BY <1>9 DEF H, Height

-----------------------------------------------------------------------------
(* What has been read                                                      *)

(* Not a function, nor a long string. *)
Allowed(x, lim) ==
  x.type # "function" /\ (lim /\ x.type = "string" => x.length < MAX_STRING_SIZE)

(* Nothing forbidden at the paths R, and few values at each level there. *)
Fit(v, lim, R) ==
  /\ \A p \in R : Allowed(v[p], lim)
  /\ lim => \A d \in Nat : Cardinality(Level(v, R, d)) <= MAX_ARRAY_SIZE - 1

(* The token to be read next; at the end of an array, that which follows it. *)
Spot(v, s, w) ==
  CASE w = "type"   -> <<Route(s), 1>>
    [] w = "bytes"  -> <<Route(s), Len(Tokens(v[Route(s)]))>>
    [] w = "end"    -> <<After(v, Route(Front(s))), 1>>
    [] OTHER        -> <<Route(s), 2>>

(* What has to be there for w to be read. *)
Expected(v, lim, s, w) ==
  LET h == Route(s)
  IN \/ w = "type" /\ h \in DOMAIN v
     \/ w = "string length" /\ h \in DOMAIN v /\ v[h].type = "string"
     \/ w = "array length" /\ h \in DOMAIN v /\ v[h].type = "array"
     \/ /\ w = "bytes" /\ h \in DOMAIN v /\ Allowed(v[h], lim)
        /\ v[h].type = "scalar" \/ (v[h].type = "string" /\ v[h].length # 0)
     \/ w = "end" /\ s # <<>> /\ Last(s).i = Last(s).length + 1

(* A part of a tree, and a tree with one more value in it. *)
Built(v, R, r) == r = [q \in R |-> v[q]]
With(r, h, x)  == [q \in DOMAIN r \cup {h} |-> IF q = h THEN x ELSE r[q]]

PathsBefore(v, h) == {q \in DOMAIN v : Before(q, h)}
PathsLeft(v, h)   == {q \in DOMAIN v : Left(q, h)}

(* The reader is at s: it has built what comes before that, and counted    *)
(* the elements of the arrays that are complete.                           *)
Reading(v, lim, s, w, p, y, c, r) ==
  /\ Around(v, s)
  /\ Expected(v, lim, s, w)
  /\ Line(v, Spot(v, s, w), p, y)
  /\ Built(v, PathsBefore(v, Route(s)), r)
  /\ c = Cardinality(Children(v, PathsLeft(v, Route(s))))
  /\ Fit(v, lim, PathsBefore(v, Route(s)))

Finished(v, lim, p, y, r) == r = v /\ p = <<>> /\ y[1] = NoPath /\ Fit(v, lim, DOMAIN v)

(* What is built is what comes before the place where the reader is, the   *)
(* pipe has what lies between that and the writer, and the levels of what  *)
(* is built are limited, each by itself.                                   *)
IInv ==
  /\ value \in Values /\ limited \in BOOLEAN
  /\ status = "reading" =>
       Reading(value, limited, stack, want, pipe, <<at, piece>>, count, result)
  /\ status = "done" => Finished(value, limited, pipe, <<at, piece>>, result)
  /\ RefusedForCause

(* The tokens of a value: at least its type, and at most two more. *)
LEMMA TokensAre ==
  ASSUME NEW x \in Label
  PROVE  /\ Tokens(x)[1] = x.type
         /\ x.type \in {"void", "function", "scalar", "string", "array"}
         /\ x.type = "void" => x = Void /\ Len(Tokens(x)) = 1
         /\ x.type = "function" => Len(Tokens(x)) = 1
         /\ x.type = "scalar" => x = Scalar /\ Len(Tokens(x)) = 2 /\ Tokens(x)[2] = x
         /\ x.type = "string" => /\ x = String(x.length) /\ x.length \in Nat
                                 /\ Tokens(x)[2] = x.length
                                 /\ x.length = 0 => Len(Tokens(x)) = 2
                                 /\ x.length # 0 => Len(Tokens(x)) = 3 /\ Tokens(x)[3] = x
         /\ x.type = "array" => /\ x = Array(x.length) /\ x.length \in Nat /\ Size(x) = x.length
                                /\ Len(Tokens(x)) = 2 /\ Tokens(x)[2] = x.length
         /\ x.type # "array" => Size(x) = 0
<1>1. \/ x = Void \/ x = Function \/ x = Scalar
      \/ \E l \in Nat : x = String(l) \/ x = Array(l)
  BY DEF Label, String, Array
<1>2. CASE x = Void
  BY <1>2 DEF Tokens, Void, Size
<1>3. CASE x = Function
  BY <1>3 DEF Tokens, Function, Size
<1>4. CASE x = Scalar
  BY <1>4 DEF Tokens, Scalar, Size
<1>5. ASSUME NEW l \in Nat, x = String(l) PROVE x.type = "string" /\ x.length = l
  BY <1>5 DEF String
<1>6. ASSUME NEW l \in Nat, x = Array(l) PROVE x.type = "array" /\ x.length = l
  BY <1>6 DEF Array
<1>7. CASE \E l \in Nat : x = String(l)
  BY <1>5, <1>7 DEF Tokens, Size
<1>8. CASE \E l \in Nat : x = Array(l)
  BY <1>6, <1>8 DEF Tokens, Size
<1> QED
  BY <1>1, <1>2, <1>3, <1>4, <1>7, <1>8

(* Sets of paths have finitely many children, and no more than there are   *)
(* paths besides the first.                                                *)
LEMMA ChildrenOfSets ==
  ASSUME NEW v, Tree(v), NEW R
  PROVE  /\ IsFiniteSet(Children(v, R)) /\ Cardinality(Children(v, R)) \in Nat
         /\ Cardinality(Children(v, R)) <= Total(v)
<1> DEFINE E == DOMAIN v \ {<<>>}
           C == Children(v, R)
<1>1. IsFiniteSet(E) /\ Cardinality(E) = Total(v)
  <2>1. IsFiniteSet(DOMAIN v) /\ <<>> \in DOMAIN v
    BY DEF Tree
  <2> QED
    BY <2>1, FS_RemoveElement DEF Total
<1>2. C \subseteq E
  BY DEF Children
<1> HIDE DEF E, C
<1>3. IsFiniteSet(C)
  BY <1>1, <1>2, FS_Subset
<1>4. Cardinality(C) \in Nat
  BY <1>3, FS_CardinalityType
<1>5. Cardinality(C) <= Cardinality(E)
  BY <1>1, <1>2, FS_Subset
<1> QED
  BY <1>1, <1>3, <1>4, <1>5 DEF C

(* The children of sets that have nothing in common are others. *)
LEMMA OtherChildren ==
  ASSUME NEW v, Tree(v), NEW R, NEW S, R \cap S = {}
  PROVE  Cardinality(Children(v, R \cup S)) = Cardinality(Children(v, R)) + Cardinality(Children(v, S))
<1> DEFINE C == Children(v, R)
           D == Children(v, S)
<1>1. IsFiniteSet(C) /\ IsFiniteSet(D) /\ Cardinality(C) \in Nat /\ Cardinality(D) \in Nat
  BY ChildrenOfSets
<1>2. Children(v, R \cup S) = C \cup D /\ C \cap D = {}
  BY DEF Children
<1> HIDE DEF C, D
<1>3. Cardinality(C \cup D) = Cardinality(C) + Cardinality(D) - Cardinality(C \cap D)
  BY <1>1, FS_Union
<1>4. Cardinality(C \cap D) = 0
  BY <1>2, FS_EmptySet
<1>5. Cardinality(C \cup D) = Cardinality(C) + Cardinality(D)
  BY <1>1, <1>3, <1>4
<1> QED
  BY <1>2, <1>5 DEF C, D

(* What comes before h, or is at or below it. *)
PathsThrough(v, h) == {q \in DOMAIN v : Before(q, h) \/ Under(q, h)}
LeftThrough(v, h)  == {q \in DOMAIN v : Left(q, h) \/ Under(q, h)}

(* How what is read grows, from the first element of s to the end of it.   *)
LEMMA Growth ==
  ASSUME NEW v, Tree(v), NEW s \in DOMAIN v
  PROVE  /\ PathsBefore(v, Append(s, 1)) = PathsBefore(v, s) \cup {s}
         /\ PathsLeft(v, Append(s, 1)) = PathsLeft(v, s)
         /\ \A m \in 1..Size(v[s]) :
              /\ PathsBefore(v, Append(s, m + 1)) = PathsThrough(v, Append(s, m))
              /\ PathsLeft(v, Append(s, m + 1)) = LeftThrough(v, Append(s, m))
         /\ PathsBefore(v, Append(s, Size(v[s]) + 1)) = PathsThrough(v, s)
         /\ PathsLeft(v, Append(s, Size(v[s]) + 1)) \cup {s} = LeftThrough(v, s)
         /\ \A m \in Nat \ {0} : s \notin PathsLeft(v, Append(s, m))
         /\ s \notin PathsLeft(v, s)
<1> DEFINE n == Len(s)
           z == Size(v[s])
           Inside(q) == Under(q, s) /\ Len(q) > n
<1>1. s \in Path /\ z \in Nat /\ n \in Nat
  BY InTree DEF Path
<1>2. \A q \in DOMAIN v : q \in Path /\ Len(q) \in Nat
  <2>1. \A q \in DOMAIN v : q \in Path
    BY InTree
  <2> QED
    BY <2>1 DEF Path
<1>3. ASSUME NEW q \in DOMAIN v, NEW m \in Nat \ {0}
      PROVE  /\ Under(q, Append(s, m)) <=> Inside(q) /\ q[n + 1] = m
             /\ Above(q, Append(s, m)) <=> Above(q, s) \/ q = s
             /\ Left(q, Append(s, m)) <=> Left(q, s) \/ (Inside(q) /\ q[n + 1] < m)
  BY <1>1, <1>2, Order
<1>4. ASSUME NEW q \in DOMAIN v
      PROVE  /\ Under(q, s) <=> q = s \/ Inside(q)
             /\ Inside(q) => q[n + 1] \in 1..z
  <2>1. Under(q, s) => q = s \/ (Len(q) > n /\ q[n + 1] \in 1..z)
    BY Below
  <2>2. Under(s, s) /\ n \in Nat /\ ~(n > n)
    BY <1>1 DEF Under
  <2> QED
    BY <2>1, <2>2
<1>5. ~Left(s, s) /\ ~Above(s, s) /\ ~Inside(s)
  BY <1>1, Order
<1> HIDE DEF Inside, n, z
<1>6. PathsBefore(v, Append(s, 1)) = PathsBefore(v, s) \cup {s}
  <2>1. 1 \in Nat \ {0}
    OBVIOUS
  <2>2. \A q \in DOMAIN v : Inside(q) => ~(q[n + 1] < 1)
    BY <1>1, <1>4
  <2>3. \A q \in DOMAIN v : Before(q, Append(s, 1)) <=> Before(q, s) \/ q = s
    BY <1>3, <2>1, <2>2 DEF Before
  <2> QED
    BY <2>3 DEF PathsBefore
<1>7. PathsLeft(v, Append(s, 1)) = PathsLeft(v, s)
  <2>1. 1 \in Nat \ {0}
    OBVIOUS
  <2>2. \A q \in DOMAIN v : Inside(q) => ~(q[n + 1] < 1)
    BY <1>1, <1>4
  <2>3. \A q \in DOMAIN v : Left(q, Append(s, 1)) <=> Left(q, s)
    BY <1>3, <2>1, <2>2
  <2> QED
    BY <2>3 DEF PathsLeft
<1>8. ASSUME NEW m \in 1..z
      PROVE  /\ PathsBefore(v, Append(s, m + 1)) = PathsThrough(v, Append(s, m))
             /\ PathsLeft(v, Append(s, m + 1)) = LeftThrough(v, Append(s, m))
  <2>1. m \in Nat \ {0} /\ m + 1 \in Nat \ {0}
    BY <1>1
  <2>2. \A q \in DOMAIN v : Inside(q) => (q[n + 1] < m + 1 <=> q[n + 1] < m \/ q[n + 1] = m)
    BY <1>1, <1>4, <2>1
  <2>3. \A q \in DOMAIN v : Left(q, Append(s, m + 1))
                              <=> Left(q, Append(s, m)) \/ Under(q, Append(s, m))
    BY <1>3, <2>1, <2>2
  <2>4. \A q \in DOMAIN v : Above(q, Append(s, m + 1)) <=> Above(q, Append(s, m))
    BY <1>3, <2>1
  <2>5. PathsBefore(v, Append(s, m + 1)) = PathsThrough(v, Append(s, m))
    BY <2>3, <2>4 DEF PathsBefore, PathsThrough, Before
  <2>6. PathsLeft(v, Append(s, m + 1)) = LeftThrough(v, Append(s, m))
    BY <2>3 DEF PathsLeft, LeftThrough
  <2> QED
    BY <2>5, <2>6
<1>9. /\ PathsBefore(v, Append(s, z + 1)) = PathsThrough(v, s)
      /\ PathsLeft(v, Append(s, z + 1)) \cup {s} = LeftThrough(v, s)
  <2>1. z + 1 \in Nat \ {0}
    BY <1>1
  <2>2. \A q \in DOMAIN v : Inside(q) => q[n + 1] < z + 1
    BY <1>1, <1>4
  <2>3. \A q \in DOMAIN v : Left(q, Append(s, z + 1)) <=> Left(q, s) \/ Inside(q)
    BY <1>3, <2>1, <2>2
  <2>4. \A q \in DOMAIN v : Above(q, Append(s, z + 1)) <=> Above(q, s) \/ q = s
    BY <1>3, <2>1
  <2>5. PathsBefore(v, Append(s, z + 1)) = PathsThrough(v, s)
    BY <1>4, <2>3, <2>4 DEF PathsBefore, PathsThrough, Before
  <2>6. PathsLeft(v, Append(s, z + 1)) \cup {s} = LeftThrough(v, s)
    BY <1>4, <2>3 DEF PathsLeft, LeftThrough
  <2> QED
    BY <2>5, <2>6
<1>10. /\ \A m \in Nat \ {0} : s \notin PathsLeft(v, Append(s, m))
       /\ s \notin PathsLeft(v, s)
  BY <1>3, <1>5 DEF PathsLeft
<1> QED
  BY <1>6, <1>7, <1>8, <1>9, <1>10 DEF z

(* Nothing comes before the value itself, and all is at or below it. *)
LEMMA Ends ==
  ASSUME NEW v, Tree(v)
  PROVE  /\ PathsBefore(v, <<>>) = {} /\ PathsLeft(v, <<>>) = {}
         /\ PathsThrough(v, <<>>) = DOMAIN v
<1>1. \A q \in DOMAIN v : ~Left(q, <<>>) /\ ~Above(q, <<>>) /\ Under(q, <<>>)
  BY InTree, AtRoot
<1> QED
  BY <1>1 DEF PathsBefore, PathsLeft, PathsThrough, Before

(* What has no elements is all there is at its path. *)
LEMMA Through ==
  ASSUME NEW v, Tree(v), NEW s \in DOMAIN v, Size(v[s]) = 0
  PROVE  /\ PathsThrough(v, s) = PathsBefore(v, s) \cup {s}
         /\ LeftThrough(v, s) = PathsLeft(v, s) \cup {s}
<1>1. \A q \in DOMAIN v : Under(q, s) => q = s
  BY Below
<1>2. Under(s, s)
  BY InTree, Order
<1> QED
  BY <1>1, <1>2 DEF PathsThrough, PathsBefore, LeftThrough, PathsLeft

-----------------------------------------------------------------------------
(* The reader's steps                                                      *)

(* The value at s has been read, and goes into the array around it. *)
Passed(v, lim, s, p, y, c, r) ==
  /\ Around(v, s) /\ Route(s) \in DOMAIN v
  /\ Line(v, <<After(v, Route(s)), 1>>, p, y)
  /\ Built(v, PathsThrough(v, Route(s)), r)
  /\ c = Cardinality(Children(v, LeftThrough(v, Route(s))))
  /\ Fit(v, lim, PathsThrough(v, Route(s)))

(* A value that is not an array, or an array with nothing in it, adds      *)
(* itself only.                                                            *)
LEMMA LeafRead ==
  ASSUME NEW v, Tree(v), NEW lim \in BOOLEAN, NEW s, NEW w, NEW x, NEW p, NEW y, NEW c, NEW r,
         Around(v, s), Route(s) \in DOMAIN v, Size(v[Route(s)]) = 0, Allowed(v[Route(s)], lim),
         Line(v, <<After(v, Route(s)), 1>>, p, y),
         Built(v, PathsBefore(v, Route(s)), r),
         c = Cardinality(Children(v, PathsLeft(v, Route(s)))),
         Fit(v, lim, PathsBefore(v, Route(s)))
  PROVE  Passed(v, lim, s, p, y, c, With(r, Route(s), v[Route(s)]))
<1> DEFINE h == Route(s)
           R == PathsBefore(v, h)
           L == PathsLeft(v, h)
           u == With(r, h, v[h])
<1>1. PathsThrough(v, h) = R \cup {h} /\ LeftThrough(v, h) = L \cup {h}
  BY Through
<1>2. Built(v, R \cup {h}, u)
  <2>1. DOMAIN r = R /\ \A q \in R : r[q] = v[q]
    <3> HIDE DEF R
    <3> QED
      BY DEF R, Built
  <2> HIDE DEF R
  <2> QED
    BY <2>1 DEF Built, With
<1>3. Children(v, {h}) = {}
  <2>1. Cardinality(Children(v, {h})) = 0 /\ IsFiniteSet(Children(v, {h}))
    BY ChildrenOf
  <2> QED
    BY <2>1, FS_EmptySet
<1>4. \A S : Children(v, S \cup {h}) = Children(v, S)
  BY <1>3 DEF Children
<1>5. \A d \in Nat : Level(v, R \cup {h}, d) = Level(v, R, d)
  BY <1>4 DEF Level
<1>6. Fit(v, lim, R \cup {h})
  <2> HIDE DEF R, h
  <2> QED
    BY <1>5 DEF Fit, R, h
<1>7. Around(v, s) /\ h \in DOMAIN v /\ Line(v, <<After(v, h), 1>>, p, y)
  OBVIOUS
<1>8. c = Cardinality(Children(v, L \cup {h}))
  BY <1>4
<1> HIDE DEF R, L, u, h
<1> QED
  BY <1>1, <1>2, <1>6, <1>7, <1>8 DEF Passed, u, h

(* The outermost value has been read: all is read. *)
LEMMA AllRead ==
  ASSUME NEW v, Tree(v), NEW lim \in BOOLEAN, NEW p, NEW y, NEW c, NEW r,
         Passed(v, lim, <<>>, p, y, c, r)
  PROVE  Finished(v, lim, p, y, r)
<1>1. Route(<<>>) = <<>>
  BY DEF Route
<1>2. PathsThrough(v, <<>>) = DOMAIN v /\ After(v, <<>>) = NoPath
  BY Ends, AfterAll
<1>3. /\ Line(v, <<NoPath, 1>>, p, y) /\ Built(v, DOMAIN v, r)
      /\ Fit(v, lim, DOMAIN v)
  BY <1>1, <1>2 DEF Passed
<1>4. p = <<>> /\ y = <<NoPath, 1>>
  <2> DEFINE x == <<NoPath, 1>>
  <2>1. Line(v, x, p, y) /\ x[1] = NoPath
    BY <1>3
  <2> HIDE DEF x
  <2>2. p = <<>> /\ x = y
    BY <2>1, LineEnds
  <2> QED
    BY <2>2 DEF x
<1>5. v = [q \in DOMAIN v |-> v[q]]
  BY DEF Tree
<1> QED
  BY <1>3, <1>4, <1>5 DEF Finished, Built

(* An element has been read: the array goes on, or is complete. *)
LEMMA ElementRead ==
  ASSUME NEW v, Tree(v), NEW lim \in BOOLEAN, NEW s, NEW p, NEW y, NEW c, NEW r,
         Passed(v, lim, s, p, y, c, r), s # <<>>
  PROVE  Reading(v, lim, [s EXCEPT ![Len(s)].i = @ + 1],
                 IF Complete(Last(s)) THEN "end" ELSE "type", p, y, c, r)
<1> DEFINE t == Front(s)
           a == Last(s)
           g == Route(t)
           m == a.i
           b == [length |-> a.length, i |-> a.i + 1]
           u == [s EXCEPT ![Len(s)].i = @ + 1]
           w == IF Complete(a) THEN "end" ELSE "type"
<1>1. /\ t \in Frames /\ a \in Frame /\ Around(v, t) /\ g \in DOMAIN v /\ a.length = Size(v[g])
      /\ Route(s) = Append(g, m)
  BY AroundIs DEF Passed
<1>2. u = Append(t, b)
  BY Innermost DEF Passed, Around
<1>3. b \in Frame /\ m \in Nat \ {0} /\ b.i = m + 1 /\ b.length = a.length
  BY <1>1 DEF Frame
<1> HIDE DEF t, a, b, u, g
<1>4. g \in Path /\ Size(v[g]) \in Nat
  BY <1>1, InTree
<1>5. m \in 1..Size(v[g])
  <2>1. Append(g, m) \in DOMAIN v /\ Append(g, m) # <<>> /\ Front(Append(g, m)) = g
        /\ Last(Append(g, m)) = m
    BY <1>1, <1>3, <1>4, Child DEF Passed
  <2> QED
    BY <2>1 DEF Tree
<1> HIDE DEF m
<1>6. /\ Around(v, u) /\ u # <<>> /\ Front(u) = t /\ Last(u) = b /\ Route(u) = Append(g, m + 1)
  <2>1. Around(v, Append(t, b))
    BY <1>1, <1>3, AroundDeeper DEF g
  <2>2. /\ Append(t, b) # <<>> /\ Front(Append(t, b)) = t /\ Last(Append(t, b)) = b
        /\ Route(Append(t, b)) = Append(g, b.i)
    BY <1>1, <1>3, Deeper DEF g
  <2> QED
    BY <1>2, <1>3, <2>1, <2>2
<1>7. /\ PathsBefore(v, Append(g, m + 1)) = PathsThrough(v, Append(g, m))
      /\ PathsLeft(v, Append(g, m + 1)) = LeftThrough(v, Append(g, m))
  BY <1>1, <1>5, Growth
<1>8. After(v, Append(g, m)) = IF m < Size(v[g]) THEN Append(g, m + 1) ELSE After(v, g)
  BY <1>1, <1>5, AfterElement
<1>9. /\ Line(v, <<After(v, Append(g, m)), 1>>, p, y)
      /\ Built(v, PathsThrough(v, Append(g, m)), r)
      /\ c = Cardinality(Children(v, LeftThrough(v, Append(g, m))))
      /\ Fit(v, lim, PathsThrough(v, Append(g, m)))
  BY <1>1 DEF Passed
<1>10. Complete(a) <=> m = Size(v[g])
  BY <1>1 DEF Complete, m
<1>11. Expected(v, lim, u, w) /\ Spot(v, u, w) = <<After(v, Append(g, m)), 1>>
  <2>1. CASE Complete(a)
    <3>1. w = "end" /\ b.i = b.length + 1 /\ After(v, Append(g, m)) = After(v, g)
      BY <1>1, <1>3, <1>4, <1>5, <1>8, <1>10, <2>1
    <3> HIDE DEF w
    <3> QED
      BY <1>6, <3>1 DEF Expected, Spot, g
  <2>2. CASE ~Complete(a)
    <3>1. w = "type" /\ m < Size(v[g])
      BY <1>4, <1>5, <1>10, <2>2
    <3>2. m + 1 \in 1..Size(v[g])
      BY <1>4, <1>5, <3>1
    <3>3. Append(g, m + 1) \in DOMAIN v
      BY <1>1, <3>2, InTree
    <3> HIDE DEF w
    <3> QED
      BY <1>6, <1>8, <3>1, <3>3 DEF Expected, Spot
  <2> QED
    BY <2>1, <2>2
<1> HIDE DEF w
<1>12. Reading(v, lim, u, w, p, y, c, r)
  BY <1>6, <1>7, <1>9, <1>11 DEF Reading
<1> QED
  BY <1>12 DEF u, w, a

(* The array has been read: its elements count, and none of them did so    *)
(* before.                                                                 *)
LEMMA ArrayRead ==
  ASSUME NEW v, Tree(v), NEW lim \in BOOLEAN, NEW s, NEW p, NEW y, NEW c, NEW r,
         Reading(v, lim, s, "end", p, y, c, r)
  PROVE  s # <<>> /\ Passed(v, lim, Front(s), p, y, c + Last(s).length, r)
<1> DEFINE t == Front(s)
           a == Last(s)
           g == Route(t)
<1>1. s # <<>> /\ a.i = a.length + 1 /\ Around(v, s)
  BY DEF Reading, Expected
<1>2. /\ t \in Frames /\ a \in Frame /\ Around(v, t) /\ g \in DOMAIN v /\ a.length = Size(v[g])
      /\ Route(s) = Append(g, a.i)
  BY <1>1, AroundIs
<1> HIDE DEF a, g
<1>3. /\ PathsBefore(v, Route(s)) = PathsThrough(v, g)
      /\ PathsLeft(v, Route(s)) \cup {g} = LeftThrough(v, g)
      /\ g \notin PathsLeft(v, Route(s))
  <2>1. a.i \in Nat \ {0}
    BY <1>2 DEF Frame
  <2> QED
    BY <1>1, <1>2, <2>1, Growth
<1>4. /\ Line(v, Spot(v, s, "end"), p, y)
      /\ Built(v, PathsBefore(v, Route(s)), r)
      /\ c = Cardinality(Children(v, PathsLeft(v, Route(s))))
      /\ Fit(v, lim, PathsBefore(v, Route(s)))
  BY DEF Reading
<1>5. Spot(v, s, "end") = <<After(v, g), 1>>
  BY DEF Spot, g
<1>6. c + a.length = Cardinality(Children(v, LeftThrough(v, g)))
  <2> DEFINE L == PathsLeft(v, Route(s))
  <2>1. L \cap {g} = {} /\ L \cup {g} = LeftThrough(v, g)
    BY <1>3
  <2>2. Cardinality(Children(v, {g})) = Size(v[g])
    BY <1>2, ChildrenOf
  <2> DEFINE G == {g}
  <2> HIDE DEF L, G
  <2>3. Cardinality(Children(v, L \cup G)) = Cardinality(Children(v, L)) + Cardinality(Children(v, G))
    <3>1. L \cap G = {}
      BY <2>1 DEF G
    <3> QED
      BY <3>1, OtherChildren
  <2> QED
    BY <1>2, <1>4, <2>1, <2>2, <2>3 DEF L, G
<1>7. Passed(v, lim, t, p, y, c + a.length, r)
  <2> HIDE DEF t
  <2> QED
    BY <1>2, <1>3, <1>4, <1>5, <1>6 DEF Passed, g
<1> QED
  BY <1>1, <1>7 DEF t, a

(* What is read next is a token of the value at the reader's place. *)
LEMMA TokenRead ==
  ASSUME NEW v, Tree(v), NEW lim \in BOOLEAN, NEW s, NEW w, NEW p, NEW y, NEW c, NEW r,
         Reading(v, lim, s, w, p, y, c, r), w # "end", p # <<>>
  PROVE  /\ Route(s) \in DOMAIN v /\ v[Route(s)] \in Label /\ Spot(v, s, w)[1] = Route(s)
         /\ Head(p) = Tokens(v[Route(s)])[Spot(v, s, w)[2]]
         /\ Line(v, NextSpot(v, Spot(v, s, w)), Tail(p), y)
<1> DEFINE x == Spot(v, s, w)
<1>1. Route(s) \in DOMAIN v /\ x[1] = Route(s) /\ Line(v, x, p, y)
  BY DEF Reading, Expected, Spot
<1>2. v[Route(s)] \in Label
  BY <1>1, InTree
<1> HIDE DEF x
<1>3. Head(p) = Tokens(v[x[1]])[x[2]] /\ Line(v, NextSpot(v, x), Tail(p), y)
  BY <1>1, LineRead
<1> QED
  BY <1>1, <1>2, <1>3 DEF x

(* Its last token completes a value that has no elements. *)
LEMMA ValueRead ==
  ASSUME NEW v, Tree(v), NEW lim \in BOOLEAN, NEW s, NEW w, NEW p, NEW y, NEW c, NEW r,
         Reading(v, lim, s, w, p, y, c, r), w # "end", p # <<>>,
         Size(v[Route(s)]) = 0, Allowed(v[Route(s)], lim),
         Spot(v, s, w) = <<Route(s), Len(Tokens(v[Route(s)]))>>
  PROVE  Passed(v, lim, s, Tail(p), y, c, With(r, Route(s), v[Route(s)]))
<1> DEFINE h == Route(s)
           n == Len(Tokens(v[h]))
           x == Spot(v, s, w)
<1>1. h \in DOMAIN v /\ Line(v, NextSpot(v, x), Tail(p), y)
  BY TokenRead
<1>2. NextSpot(v, x) = <<After(v, h), 1>>
  <2>1. x[1] = h /\ x[2] = n /\ ~(n < n) /\ ~(Size(v[h]) > 0)
    <3>1. v[h] \in Label
      BY TokenRead
    <3>2. n \in Nat
      BY <3>1, TokensAre DEF Tokens
    <3> QED
      BY <3>2
  <2> HIDE DEF x, n, h
  <2> QED
    BY <2>1 DEF NextSpot, Following, n
<1>3. /\ Around(v, s) /\ Built(v, PathsBefore(v, h), r)
      /\ c = Cardinality(Children(v, PathsLeft(v, h))) /\ Fit(v, lim, PathsBefore(v, h))
  BY DEF Reading
<1>4. Line(v, <<After(v, h), 1>>, Tail(p), y) /\ Size(v[h]) = 0 /\ Allowed(v[h], lim)
  <2> HIDE DEF x, h
  <2> QED
    BY <1>1, <1>2 DEF h
<1> QED
  BY <1>1, <1>3, <1>4, LeafRead

(* The length of an array: its level has room for its elements.  Only      *)
(* those counted are at this level as well, the arrays it is in are above. *)
LEMMA Room ==
  ASSUME NEW v, Tree(v), NEW lim \in BOOLEAN, NEW h \in DOMAIN v, NEW l \in Nat, NEW c,
         v[h] = Array(l), c = Cardinality(Children(v, PathsLeft(v, h))),
         Fit(v, lim, PathsBefore(v, h)), ~(lim /\ l + c >= MAX_ARRAY_SIZE)
  PROVE  Fit(v, lim, PathsBefore(v, h) \cup {h})
<1> DEFINE R == PathsBefore(v, h)
           L == PathsLeft(v, h)
           H == {h}
<1>1. h \in Path /\ Len(h) \in Nat /\ v[h].type = "array" /\ Size(v[h]) = l
  <2>1. h \in Path
    BY InTree
  <2> QED
    BY <2>1 DEF Path, Array, Size
<1>2. c \in Nat /\ MAX_ARRAY_SIZE \in Nat
  BY ChildrenOfSets, WireAssumption
<1>3. ASSUME NEW q \in Children(v, R), Len(q) = Len(h) + 1 PROVE q \in Children(v, L)
  <2>1. q \in DOMAIN v \ {<<>>} /\ Front(q) \in R
    BY DEF Children
  <2>2. q \in Path /\ q # <<>>
    BY <2>1, InTree
  <2>3. Len(Front(q)) = Len(q) - 1
    BY <2>2, Parent
  <2>4. ~(Len(Front(q)) < Len(h))
    BY <1>1, <1>3, <2>3
  <2>5. Front(q) \in L
    BY <2>1, <2>4 DEF PathsBefore, PathsLeft, Before, Above
  <2> QED
    BY <2>1, <2>5 DEF Children
<1>4. h \notin L /\ L \cap H = {}
  BY Growth
<1>5. IsFiniteSet(Children(v, H)) /\ Cardinality(Children(v, H)) = l
  BY <1>1, ChildrenOf
<1>6. \A q \in Children(v, H) : Len(q) = Len(h) + 1
  BY ChildrenOf
<1>7. \A q \in R \cup H : Allowed(v[q], lim)
  BY <1>1 DEF Fit, Allowed
<1>8. \A S : Children(v, S \cup H) = Children(v, S) \cup Children(v, H)
  BY DEF Children
<1>9. lim => \A d \in Nat : Cardinality(Level(v, R, d)) <= MAX_ARRAY_SIZE - 1
  BY DEF Fit
<1>10. c = Cardinality(Children(v, L))
  OBVIOUS
<1> HIDE DEF R, L, H
<1>11. ASSUME lim, NEW d \in Nat PROVE Cardinality(Level(v, R \cup H, d)) <= MAX_ARRAY_SIZE - 1
  <2>1. CASE d = Len(h) + 1
    <3> DEFINE B == Level(v, R \cup H, d)
               C == Children(v, L \cup H)
    <3>1. B \subseteq C
      <4>1. ASSUME NEW q \in B PROVE q \in C
        <5>1. Len(q) = Len(h) + 1 /\ q \in Children(v, R) \cup Children(v, H)
          BY <1>8, <2>1 DEF Level
        <5> QED
          BY <1>3, <1>8, <5>1
      <4> QED
        BY <4>1
    <3>2. IsFiniteSet(C)
      BY ChildrenOfSets
    <3>3. Cardinality(C) = c + l
      BY <1>4, <1>5, <1>10, OtherChildren
    <3> HIDE DEF B, C
    <3>4. IsFiniteSet(B) /\ Cardinality(B) <= Cardinality(C)
      BY <3>1, <3>2, FS_Subset
    <3>5. Cardinality(B) \in Nat
      BY <3>4, FS_CardinalityType
    <3>6. Cardinality(B) <= MAX_ARRAY_SIZE - 1
      <4>1. ~(l + c >= MAX_ARRAY_SIZE)
        BY <1>11
      <4> QED
        BY <1>2, <3>3, <3>4, <3>5, <4>1
    <3> QED
      BY <3>6 DEF B
  <2>2. CASE d # Len(h) + 1
    <3>1. Level(v, R \cup H, d) = Level(v, R, d)
      BY <1>6, <1>8, <2>2 DEF Level
    <3> QED
      BY <1>9, <1>11, <3>1
  <2> QED
    BY <2>1, <2>2
<1>12. Fit(v, lim, R \cup H)
  BY <1>7, <1>11 DEF Fit
<1> QED
  BY <1>12 DEF R, H

(* After the length of an array comes its first element, or its end. *)
LEMMA ArrayBegun ==
  ASSUME NEW v, Tree(v), NEW lim \in BOOLEAN, NEW s, NEW p, NEW y, NEW c, NEW r,
         NEW h \in DOMAIN v, NEW l \in Nat, h = Route(s), v[h] = Array(l),
         Around(v, s), Line(v, <<Following(v, h), 1>>, p, y), Built(v, PathsBefore(v, h), r),
         c = Cardinality(Children(v, PathsLeft(v, h))),
         Fit(v, lim, PathsBefore(v, h)), ~(lim /\ l + c >= MAX_ARRAY_SIZE)
  PROVE  Reading(v, lim, Append(s, [length |-> l, i |-> 1]), IF l = 0 THEN "end" ELSE "type",
                 p, y, c, With(r, h, Array(l)))
<1> DEFINE a == [length |-> l, i |-> 1]
           u == Append(s, a)
           k == Append(h, 1)
           w == IF l = 0 THEN "end" ELSE "type"
           R == PathsBefore(v, h)
<1>1. s \in Frames /\ h \in Path /\ Size(v[h]) = l
  <2>1. h \in Path
    BY InTree
  <2> QED
    BY <2>1 DEF Around, Array, Size
<1>2. a \in Frame /\ a.length = l /\ a.i = 1
  BY DEF Frame
<1> HIDE DEF a
<1>3. Around(v, u)
  BY <1>1, <1>2, AroundDeeper
<1>4. u # <<>> /\ Front(u) = s /\ Last(u) = a /\ Route(u) = k
  BY <1>1, <1>2, Deeper
<1> HIDE DEF u
<1>5. PathsBefore(v, k) = R \cup {h} /\ PathsLeft(v, k) = PathsLeft(v, h)
  BY Growth
<1>6. Expected(v, lim, u, w) /\ Spot(v, u, w) = <<Following(v, h), 1>>
  <2>1. CASE l = 0
    <3>1. w = "end" /\ Following(v, h) = After(v, h) /\ a.i = a.length + 1
      BY <1>1, <1>2, <2>1 DEF Following
    <3> HIDE DEF w
    <3> QED
      BY <1>4, <3>1 DEF Expected, Spot
  <2>2. CASE l # 0
    <3>1. w = "type" /\ Following(v, h) = k /\ 1 \in 1..Size(v[h])
      BY <1>1, <2>2 DEF Following
    <3>2. k \in DOMAIN v
      BY <3>1, InTree
    <3> HIDE DEF w, k
    <3> QED
      BY <1>4, <3>1, <3>2 DEF Expected, Spot
  <2> QED
    BY <2>1, <2>2
<1>7. Built(v, R \cup {h}, With(r, h, Array(l)))
  <2> HIDE DEF R
  <2>1. DOMAIN r = R /\ \A q \in R : r[q] = v[q]
    BY DEF Built, R
  <2> QED
    BY <2>1 DEF Built, With
<1>8. Fit(v, lim, R \cup {h})
  BY Room
<1> HIDE DEF w, R, k
<1>9. Reading(v, lim, u, w, p, y, c, With(r, h, Array(l)))
  BY <1>3, <1>4, <1>5, <1>6, <1>7, <1>8 DEF Reading
<1> QED
  BY <1>9 DEF u, w, a

-----------------------------------------------------------------------------
(* The invariant                                                           *)

LEMMA Starts == Init => IInv
<1> SUFFICES ASSUME Init PROVE IInv
  OBVIOUS
<1>1. /\ value \in Values /\ limited \in BOOLEAN /\ status = "reading" /\ want = "type"
      /\ stack = <<>> /\ pipe = <<>> /\ at = <<>> /\ piece = 1 /\ count = 0 /\ result = <<>>
  BY DEF Init
<1>2. Tree(value)
  BY <1>1, WireAssumption
<1>3. stack \in Frames /\ Route(stack) = <<>> /\ <<>> \in DOMAIN value
  BY <1>1, <1>2 DEF Frames, Route, Tree
<1>4. PathsBefore(value, <<>>) = {} /\ PathsLeft(value, <<>>) = {}
  BY <1>2, Ends
<1>5. Around(value, stack)
  BY <1>1, <1>3 DEF Around
<1>6. Expected(value, limited, stack, want) /\ Spot(value, stack, want) = <<at, piece>>
  BY <1>1, <1>3 DEF Expected, Spot
<1>7. Line(value, Spot(value, stack, want), pipe, <<at, piece>>)
  BY <1>1, <1>6, LineStarts
<1>8. Built(value, {}, result)
  BY <1>1 DEF Built
<1>9. Children(value, {}) = {} /\ \A d \in Nat : Level(value, {}, d) = {}
  BY DEF Children, Level
<1>10. Cardinality({}) = 0 /\ 0 <= MAX_ARRAY_SIZE - 1
  BY FS_EmptySet, WireAssumption
<1>11. count = Cardinality(Children(value, {})) /\ Fit(value, limited, {})
  BY <1>1, <1>9, <1>10 DEF Fit
<1>12. Reading(value, limited, stack, want, pipe, <<at, piece>>, count, result)
  BY <1>3, <1>4, <1>5, <1>6, <1>7, <1>8, <1>11 DEF Reading
<1> QED
  BY <1>1, <1>12 DEF IInv, RefusedForCause

(* The writer's token follows those in the pipe. *)
LEMMA Writes == ASSUME IInv, Write PROVE IInv'
<1> DEFINE y == <<at, piece>>
           z == <<at', piece'>>
<1>1. /\ at # NoPath /\ pipe' = Append(pipe, Tokens(value[at])[piece])
      /\ UNCHANGED <<value, alive, limited, status, want, stack, count, result>>
      /\ IF piece < Len(Tokens(value[at]))
         THEN piece' = piece + 1 /\ at' = at
         ELSE piece' = 1 /\ at' = Following(value, at)
  BY DEF Write
<1>2. z = NextSpot(value, y) /\ y[1] = at /\ y[2] = piece
  BY <1>1 DEF NextSpot
<1> HIDE DEF y, z
<1>3. ASSUME NEW x, Line(value, x, pipe, y) PROVE Line(value, x, pipe', z)
  <2>1. Line(value, x, Append(pipe, Tokens(value[y[1]])[y[2]]), NextSpot(value, y))
    BY <1>1, <1>2, <1>3, LineWritten
  <2> QED
    BY <1>1, <1>2, <2>1
<1>4. status = "reading" => Reading(value, limited, stack, want, pipe, y, count, result)
  BY DEF IInv, y
<1>5. status = "reading" => Reading(value, limited, stack, want, pipe', z, count, result)
  BY <1>3, <1>4 DEF Reading
<1>6. status = "reading" =>
        Reading(value', limited', stack', want', pipe', <<at', piece'>>, count', result')
  BY <1>1, <1>5 DEF z
<1>7. status # "done"
  BY <1>1, <1>2 DEF IInv, Finished, y
<1>8. RefusedForCause'
  BY <1>1 DEF IInv, RefusedForCause, Harmless
<1> QED
  BY <1>1, <1>6, <1>7, <1>8 DEF IInv

(* A value is returned to the loop that reads the elements, or to the      *)
(* caller.                                                                 *)
LEMMA Returns ==
  ASSUME IInv, status = "reading", UNCHANGED writer, NEW s, Return(s),
         Passed(value, limited, s, pipe', <<at, piece>>, count', result')
  PROVE  IInv'
<1> DEFINE y == <<at, piece>>
           u == [s EXCEPT ![Len(s)].i = @ + 1]
           w == IF Complete(Last(s)) THEN "end" ELSE "type"
<1>1. /\ value' = value /\ limited' = limited /\ at' = at /\ piece' = piece
      /\ value \in Values /\ limited \in BOOLEAN /\ Tree(value)
  BY WireAssumption DEF writer, IInv
<1>2. Passed(value, limited, s, pipe', y, count', result')
  OBVIOUS
<1>3. CASE s = <<>>
  <2>1. status' = "done"
    BY <1>3 DEF Return
  <2> HIDE DEF y
  <2>2. Finished(value, limited, pipe', y, result')
    BY <1>1, <1>2, <1>3, AllRead
  <2> QED
    BY <1>1, <2>1, <2>2 DEF IInv, RefusedForCause, y
<1>4. CASE s # <<>>
  <2>1. status' = "reading" /\ stack' = u /\ want' = w
    BY <1>4 DEF Return
  <2> HIDE DEF y
  <2>2. Reading(value, limited, u, w, pipe', y, count', result')
    BY <1>1, <1>2, <1>4, ElementRead
  <2> HIDE DEF u, w
  <2> QED
    BY <1>1, <2>1, <2>2 DEF IInv, RefusedForCause, y
<1> QED
  BY <1>3, <1>4

(* What is refused is not harmless, or has too many values. *)
LEMMA Refuses ==
  ASSUME IInv, UNCHANGED writer, Refuse, ~Harmless(value) \/ (limited /\ Total(value) >= MAX_ARRAY_SIZE)
  PROVE  IInv'
BY DEF IInv, Refuse, writer, RefusedForCause, Harmless

-----------------------------------------------------------------------------
(* What is read                                                            *)

(* The value in whose place the reader is. *)
LEMMA Taken ==
  ASSUME IInv, NEW w, Takes(w), w # "end"
  PROVE  /\ Tree(value) /\ limited \in BOOLEAN /\ status = "reading" /\ UNCHANGED writer
         /\ pipe' = Tail(pipe) /\ pipe # <<>>
         /\ Reading(value, limited, stack, w, pipe, <<at, piece>>, count, result)
         /\ Here \in DOMAIN value /\ value[Here] \in Label /\ Here = Route(stack)
         /\ Head(pipe) = Tokens(value[Here])[Spot(value, stack, w)[2]]
         /\ Line(value, NextSpot(value, Spot(value, stack, w)), pipe', <<at, piece>>)
<1>1. /\ status = "reading" /\ want = w /\ pipe # <<>> /\ pipe' = Tail(pipe) /\ UNCHANGED writer
  BY DEF Takes
<1>2. value \in Values /\ limited \in BOOLEAN /\ Tree(value)
  BY WireAssumption DEF IInv
<1>3. Reading(value, limited, stack, w, pipe, <<at, piece>>, count, result)
  BY <1>1 DEF IInv
<1>4. Here = Route(stack)
  BY DEF Here, Route
<1> DEFINE y == <<at, piece>>
<1> HIDE DEF y
<1>5. Reading(value, limited, stack, w, pipe, y, count, result)
  BY <1>3 DEF y
<1>6. /\ Route(stack) \in DOMAIN value /\ value[Route(stack)] \in Label
      /\ Head(pipe) = Tokens(value[Route(stack)])[Spot(value, stack, w)[2]]
      /\ Line(value, NextSpot(value, Spot(value, stack, w)), Tail(pipe), y)
  BY <1>1, <1>2, <1>5, TokenRead
<1> QED
  BY <1>1, <1>2, <1>3, <1>4, <1>6 DEF y

(* A token that completes a value. *)
LEMMA Completes ==
  ASSUME IInv, NEW w, Takes(w), w # "end", UNCHANGED count, Make(value[Here]), Return(stack),
         Size(value[Here]) = 0, Allowed(value[Here], limited),
         Spot(value, stack, w) = <<Here, Len(Tokens(value[Here]))>>
  PROVE  IInv'
<1> DEFINE y == <<at, piece>>
<1>1. /\ Tree(value) /\ limited \in BOOLEAN /\ status = "reading" /\ UNCHANGED writer
      /\ pipe' = Tail(pipe) /\ pipe # <<>>
      /\ Reading(value, limited, stack, w, pipe, y, count, result)
      /\ Here = Route(stack)
  BY Taken
<1>2. result' = With(result, Here, value[Here])
  BY DEF Make, With
<1> HIDE DEF y
<1>3. Passed(value, limited, stack, Tail(pipe), y, count,
             With(result, Route(stack), value[Route(stack)]))
  BY <1>1, ValueRead
<1>4. Passed(value, limited, stack, pipe', y, count', result')
  BY <1>1, <1>2, <1>3
<1> QED
  BY <1>1, <1>4, Returns DEF y

(* The reader goes on with the same value. *)
LEMMA GoesOn ==
  ASSUME IInv, NEW w, Takes(w), w # "end", UNCHANGED count, NEW n, Go(n),
         Expected(value, limited, stack, n),
         Spot(value, stack, n) = NextSpot(value, Spot(value, stack, w))
  PROVE  IInv'
<1>1. /\ status = "reading" /\ UNCHANGED writer
      /\ Reading(value, limited, stack, w, pipe, <<at, piece>>, count, result)
      /\ Line(value, NextSpot(value, Spot(value, stack, w)), pipe', <<at, piece>>)
  BY Taken
<1>2. /\ want' = n /\ status' = status /\ stack' = stack /\ result' = result /\ count' = count
      /\ value' = value /\ limited' = limited /\ at' = at /\ piece' = piece
  BY <1>1 DEF Go, writer
<1>3. Reading(value, limited, stack, n, pipe', <<at, piece>>, count, result)
  BY <1>1 DEF Reading
<1>4. Reading(value', limited', stack', want', pipe', <<at', piece'>>, count', result')
  BY <1>2, <1>3
<1> QED
  BY <1>1, <1>2, <1>4 DEF IInv, RefusedForCause

LEMMA ReadsType == ASSUME IInv, ReadType PROVE IInv'
<1> DEFINE x == value[Here]
           e == Spot(value, stack, "type")
<1>1. Takes("type") /\ UNCHANGED count
  BY DEF ReadType
<1>2. /\ UNCHANGED writer /\ Here \in DOMAIN value /\ x \in Label /\ Here = Route(stack)
      /\ Head(pipe) = Tokens(x)[e[2]]
  BY <1>1, Taken
<1>3. e = <<Here, 1>>
  BY <1>2 DEF Spot
<1>4. Head(pipe) = x.type
  BY <1>2, <1>3, TokensAre
<1>5. \A t : Spot(value, stack, t) = <<Here, 2>> /\ 1 < Len(Tokens(x)) =>
        Spot(value, stack, t) = NextSpot(value, e)
  <2> HIDE DEF e
  <2>1. e[1] = Here /\ e[2] = 1
    BY <1>3
  <2> QED
    BY <2>1 DEF NextSpot
<1> HIDE DEF e
<1>6. CASE Head(pipe) = "void" /\ Make(Void) /\ Return(stack)
  <2>1. x = Void /\ Len(Tokens(x)) = 1 /\ Size(x) = 0 /\ Allowed(x, limited)
    BY <1>2, <1>4, <1>6, TokensAre DEF Allowed
  <2> QED
    BY <1>1, <1>3, <1>6, <2>1, Completes DEF e
<1>7. CASE Head(pipe) = "scalar" /\ Go("bytes")
  <2>1. x.type = "scalar" /\ Len(Tokens(x)) = 2
    BY <1>2, <1>4, <1>7, TokensAre
  <2>2. Spot(value, stack, "bytes") = <<Here, 2>>
    BY <1>2, <2>1 DEF Spot
  <2>3. Expected(value, limited, stack, "bytes")
    BY <1>2, <2>1 DEF Expected, Allowed
  <2> QED
    BY <1>1, <1>5, <1>7, <2>1, <2>2, <2>3, GoesOn DEF e
<1>8. CASE Head(pipe) = "string" /\ Go("string length")
  <2>0. x.type = "string"
    BY <1>4, <1>8
  <2>1. x.type = "string" /\ 1 < Len(Tokens(x))
    <3> HIDE DEF x
    <3>1. Len(Tokens(x)) = 2 \/ Len(Tokens(x)) = 3
      BY <1>2, <2>0, TokensAre
    <3> QED
      BY <2>0, <3>1
  <2>2. Spot(value, stack, "string length") = <<Here, 2>>
    BY <1>2, <2>1 DEF Spot
  <2>3. Expected(value, limited, stack, "string length")
    BY <1>2, <2>1 DEF Expected
  <2> QED
    BY <1>1, <1>5, <1>8, <2>1, <2>2, <2>3, GoesOn DEF e
<1>9. CASE Head(pipe) = "array" /\ Go("array length")
  <2>0. x.type = "array"
    BY <1>4, <1>9
  <2>1. x.type = "array" /\ 1 < Len(Tokens(x))
    <3> HIDE DEF x
    <3>1. Len(Tokens(x)) = 2 \/ Len(Tokens(x)) = 3
      BY <1>2, <2>0, TokensAre
    <3> QED
      BY <2>0, <3>1
  <2>2. Spot(value, stack, "array length") = <<Here, 2>>
    BY <1>2, <2>1 DEF Spot
  <2>3. Expected(value, limited, stack, "array length")
    BY <1>2, <2>1 DEF Expected
  <2> QED
    BY <1>1, <1>5, <1>9, <2>1, <2>2, <2>3, GoesOn DEF e
<1>10. CASE Head(pipe) = "function" /\ Refuse
  <2>1. ~Harmless(value)
    BY <1>2, <1>4, <1>10 DEF Harmless
  <2> QED
    BY <1>2, <1>10, <2>1, Refuses
<1> QED
  BY <1>6, <1>7, <1>8, <1>9, <1>10 DEF ReadType

LEMMA ReadsBytes == ASSUME IInv, ReadBytes PROVE IInv'
<1> DEFINE x == value[Here]
           e == Spot(value, stack, "bytes")
<1>1. Takes("bytes") /\ UNCHANGED count /\ Make(Head(pipe)) /\ Return(stack)
  BY DEF ReadBytes
<1>2. /\ x \in Label /\ Here = Route(stack) /\ Head(pipe) = Tokens(x)[e[2]]
      /\ Reading(value, limited, stack, "bytes", pipe, <<at, piece>>, count, result)
  BY <1>1, Taken
<1>3. e = <<Here, Len(Tokens(x))>>
  BY <1>2 DEF Spot
<1>4. Allowed(x, limited) /\ (x.type = "scalar" \/ (x.type = "string" /\ x.length # 0))
  BY <1>2 DEF Reading, Expected
<1>5. Tokens(x)[Len(Tokens(x))] = x /\ Size(x) = 0
  BY <1>2, <1>4, TokensAre
<1>6. Head(pipe) = x
  <2> HIDE DEF x, e
  <2>1. e[2] = Len(Tokens(x))
    BY <1>3
  <2> QED
    BY <1>2, <1>5, <2>1 DEF x, e
<1> QED
  BY <1>1, <1>3, <1>4, <1>5, <1>6, Completes

LEMMA ReadsStringLength == ASSUME IInv, ReadStringLength PROVE IInv'
<1> DEFINE x == value[Here]
           e == Spot(value, stack, "string length")
<1>1. Takes("string length") /\ UNCHANGED count
  BY DEF ReadStringLength
<1>2. /\ UNCHANGED writer /\ Here \in DOMAIN value /\ x \in Label /\ Here = Route(stack)
      /\ Head(pipe) = Tokens(x)[e[2]]
      /\ Reading(value, limited, stack, "string length", pipe, <<at, piece>>, count, result)
  BY <1>1, Taken
<1>3. e = <<Here, 2>>
  BY <1>2 DEF Spot
<1>4. x.type = "string"
  BY <1>2 DEF Reading, Expected
<1>5. Head(pipe) = x.length /\ x.length \in Nat /\ x = String(x.length) /\ Size(x) = 0
  <2> HIDE DEF x, e
  <2>1. e[2] = 2
    BY <1>3
  <2>2. /\ Tokens(x)[2] = x.length /\ x.length \in Nat /\ x = String(x.length) /\ Size(x) = 0
    BY <1>2, <1>4, TokensAre
  <2> QED
    BY <1>2, <2>1, <2>2 DEF x, e
<1> HIDE DEF e
<1>6. CASE TooLongString(Head(pipe)) /\ Refuse
  <2>1. ~Harmless(value)
    <3>1. limited /\ ~(x.length < MAX_STRING_SIZE)
      BY <1>5, <1>6, WireAssumption DEF TooLongString
    <3> QED
      BY <1>2, <1>4, <3>1 DEF Harmless
  <2> QED
    BY <1>2, <1>6, <2>1, Refuses
<1>7. ASSUME ~TooLongString(Head(pipe)) PROVE Allowed(x, limited)
  <2>1. MAX_STRING_SIZE \in Nat
    BY WireAssumption
  <2> QED
    BY <1>4, <1>5, <1>7, <2>1 DEF Allowed, TooLongString
<1>8. CASE ~TooLongString(Head(pipe)) /\ Head(pipe) = 0 /\ Make(String(0)) /\ Return(stack)
  <2>1. x = String(0) /\ Len(Tokens(x)) = 2
    BY <1>2, <1>4, <1>5, <1>8, TokensAre
  <2> QED
    BY <1>1, <1>3, <1>5, <1>7, <1>8, <2>1, Completes DEF e
<1>9. CASE ~TooLongString(Head(pipe)) /\ Head(pipe) # 0 /\ Go("bytes")
  <2>1. Len(Tokens(x)) = 3
    BY <1>2, <1>4, <1>5, <1>9, TokensAre
  <2>2. Spot(value, stack, "bytes") = <<Here, 3>>
    BY <1>2, <2>1 DEF Spot
  <2>3. NextSpot(value, e) = <<Here, 3>>
    <3>1. e[1] = Here /\ e[2] = 2
      BY <1>3
    <3> QED
      BY <2>1, <3>1 DEF NextSpot
  <2>4. Expected(value, limited, stack, "bytes")
    BY <1>2, <1>4, <1>5, <1>7, <1>9 DEF Expected
  <2> QED
    BY <1>1, <1>9, <2>2, <2>3, <2>4, GoesOn DEF e
<1> QED
  BY <1>6, <1>8, <1>9 DEF ReadStringLength

LEMMA ReadsArrayLength == ASSUME IInv, ReadArrayLength PROVE IInv'
<1> DEFINE x == value[Here]
           l == Head(pipe)
           e == Spot(value, stack, "array length")
           y == <<at, piece>>
<1>1. Takes("array length") /\ UNCHANGED count
  BY DEF ReadArrayLength
<1>2. /\ Tree(value) /\ limited \in BOOLEAN /\ status = "reading" /\ UNCHANGED writer
      /\ Here \in DOMAIN value /\ x \in Label /\ Here = Route(stack) /\ l = Tokens(x)[e[2]]
      /\ Reading(value, limited, stack, "array length", pipe, y, count, result)
      /\ Line(value, NextSpot(value, e), pipe', y)
  BY <1>1, Taken
<1>3. e = <<Here, 2>>
  BY <1>2 DEF Spot
<1>4. x.type = "array"
  BY <1>2 DEF Reading, Expected
<1>5. l = x.length /\ l \in Nat /\ x = Array(l) /\ Size(x) = l /\ Len(Tokens(x)) = 2
  <2> HIDE DEF x, e, l
  <2>1. e[2] = 2
    BY <1>3
  <2>2. /\ Tokens(x)[2] = x.length /\ x.length \in Nat /\ x = Array(x.length) /\ Size(x) = x.length
        /\ Len(Tokens(x)) = 2
    BY <1>2, <1>4, TokensAre
  <2> QED
    BY <1>2, <2>1, <2>2
<1>6. NextSpot(value, e) = <<Following(value, Here), 1>>
  <2> HIDE DEF e
  <2>1. e[1] = Here /\ e[2] = 2
    BY <1>3
  <2> QED
    BY <1>5, <2>1 DEF NextSpot
<1>7. /\ Around(value, stack) /\ Built(value, PathsBefore(value, Here), result)
      /\ count = Cardinality(Children(value, PathsLeft(value, Here)))
      /\ Fit(value, limited, PathsBefore(value, Here))
  BY <1>2 DEF Reading
<1> HIDE DEF e, y, l
<1>8. CASE TooLong(l) /\ Refuse
  <2> DEFINE L == PathsLeft(value, Here)
             H == {Here}
  <2>1. L \cap H = {} /\ Cardinality(Children(value, H)) = l
    BY <1>2, <1>5, Growth, ChildrenOf
  <2> HIDE DEF L, H
  <2>2. Cardinality(Children(value, L \cup H)) = count + l
    <3>1. Cardinality(Children(value, L \cup H))
            = Cardinality(Children(value, L)) + Cardinality(Children(value, H))
      BY <1>2, <2>1, OtherChildren
    <3> QED
      BY <1>7, <2>1, <3>1 DEF L
  <2>3. count + l <= Total(value)
    BY <1>2, <2>2, ChildrenOfSets
  <2>4. limited /\ l + count >= MAX_ARRAY_SIZE
    BY <1>8 DEF TooLong
  <2>5. count \in Nat /\ l \in Nat /\ MAX_ARRAY_SIZE \in Nat /\ Total(value) \in Int
    <3>1. Cardinality(DOMAIN value) \in Nat
      BY <1>2, FS_CardinalityType DEF Tree
    <3>2. count \in Nat
      BY <1>2, <1>7, ChildrenOfSets
    <3>3. Total(value) \in Int
      BY <3>1 DEF Total
    <3> QED
      BY <1>5, <3>2, <3>3, WireAssumption
  <2>6. Total(value) >= MAX_ARRAY_SIZE
    BY <2>3, <2>4, <2>5
  <2> QED
    BY <1>2, <1>8, <2>4, <2>6, Refuses
<1>9. CASE /\ ~TooLong(l) /\ Make(Array(l)) /\ stack' = Append(stack, [length |-> l, i |-> 1])
           /\ want' = (IF l = 0 THEN "end" ELSE "type") /\ UNCHANGED status
  <2> DEFINE w == IF l = 0 THEN "end" ELSE "type"
             u == Append(stack, [length |-> l, i |-> 1])
  <2>1. result' = With(result, Here, Array(l))
    BY <1>9 DEF Make, With
  <2>2. ~(limited /\ l + count >= MAX_ARRAY_SIZE)
    BY <1>9 DEF TooLong
  <2>3. Line(value, <<Following(value, Here), 1>>, pipe', y)
    BY <1>2, <1>6
  <2>4. Reading(value, limited, u, w, pipe', y, count, With(result, Here, Array(l)))
    BY <1>2, <1>5, <1>7, <2>2, <2>3, ArrayBegun
  <2>5. /\ value' = value /\ limited' = limited /\ at' = at /\ piece' = piece /\ count' = count
        /\ stack' = u /\ want' = w /\ status' = "reading"
    BY <1>1, <1>2, <1>9 DEF writer
  <2> HIDE DEF u, w
  <2>6. Reading(value', limited', stack', want', pipe', <<at', piece'>>, count', result')
    BY <2>1, <2>4, <2>5 DEF y
  <2> QED
    BY <2>5, <2>6 DEF IInv, RefusedForCause
<1> QED
  BY <1>8, <1>9 DEF ReadArrayLength, l

LEMMA EndsArray == ASSUME IInv, EndArray PROVE IInv'
<1> DEFINE y == <<at, piece>>
<1>1. /\ status = "reading" /\ want = "end" /\ count' = count + Last(stack).length
      /\ Return(Front(stack)) /\ UNCHANGED <<writer, pipe, result>>
  BY DEF EndArray
<1>2. /\ Reading(value, limited, stack, "end", pipe, y, count, result)
      /\ Tree(value) /\ limited \in BOOLEAN
  BY <1>1, WireAssumption DEF IInv
<1> HIDE DEF y
<1>3. Passed(value, limited, Front(stack), pipe, y, count + Last(stack).length, result)
  BY <1>2, ArrayRead
<1>4. Passed(value, limited, Front(stack), pipe', y, count', result')
  BY <1>1, <1>3
<1> QED
  BY <1>1, <1>4, Returns DEF y

(* Every step preserves the invariant. *)
LEMMA Inductive == IInv /\ [Next]_vars => IInv'
<1> SUFFICES ASSUME IInv, [Next]_vars PROVE IInv'
  OBVIOUS
<1>1. CASE Write
  BY <1>1, Writes
<1>2. CASE Dies
  BY <1>2 DEF Dies, IInv, RefusedForCause, Harmless
<1>3. CASE ReadType
  BY <1>3, ReadsType
<1>4. CASE ReadBytes
  BY <1>4, ReadsBytes
<1>5. CASE ReadStringLength
  BY <1>5, ReadsStringLength
<1>6. CASE ReadArrayLength
  BY <1>6, ReadsArrayLength
<1>7. CASE EndArray
  BY <1>7, EndsArray
<1>8. CASE GivesUp
  BY <1>8 DEF GivesUp, writer, IInv, RefusedForCause
<1>9. CASE UNCHANGED vars
  BY <1>9 DEF vars, writer, IInv, RefusedForCause, Harmless
<1> QED
  BY <1>1, <1>2, <1>3, <1>4, <1>5, <1>6, <1>7, <1>8, <1>9 DEF Next, Reader

(* What it says of a value that has been read. *)
LEMMA Result == IInv => RoundTrip /\ RefusedForCause /\ Limited
<1> SUFFICES ASSUME IInv PROVE RoundTrip /\ Limited
  BY DEF IInv
<1> DEFINE y == <<at, piece>>
<1>1. status = "done" => Finished(value, limited, pipe, y, result)
  BY DEF IInv
<1>2. RoundTrip
  BY <1>1 DEF Finished, RoundTrip
<1>3. ASSUME status = "done", limited
      PROVE  Harmless(value) /\ Total(value) <= Height(value) * (MAX_ARRAY_SIZE - 1)
  <2>1. Fit(value, limited, DOMAIN value)
    BY <1>1, <1>3 DEF Finished
  <2>2. Harmless(value)
    BY <2>1 DEF Fit, Allowed, Harmless
  <2>3. Tree(value) /\ MAX_ARRAY_SIZE - 1 \in Nat
    BY WireAssumption DEF IInv
  <2>4. \A d \in Nat : Cardinality(Level(value, DOMAIN value, d)) <= MAX_ARRAY_SIZE - 1
    BY <1>3, <2>1 DEF Fit
  <2> QED
    BY <2>2, <2>3, <2>4, LevelSum
<1> QED
  BY <1>2, <1>3 DEF Limited

LEMMA Invariant == Spec => []IInv
<1> QED
  BY Starts, Inductive, PTL DEF Spec

(* write_value and read_value agree, whatever the value and however the    *)
(* two take turns: what is received is what was sent, and nothing is left  *)
(* in the pipe.                                                            *)
THEOREM Roundtrip == Spec => []RoundTrip
BY Invariant, Result, PTL

(* _read_value refuses only functions, strings that are too long and       *)
(* values with MAX_ARRAY_SIZE values or more in them.                      *)
THEOREM RefusalHasCause == Spec => []RefusedForCause
BY Invariant, Result, PTL

(* What the host lets in has at most MAX_ARRAY_SIZE - 1 values at each     *)
(* level, although *count does not include the arrays that are being read. *)
THEOREM LimitsHold == Spec => []Limited
BY Invariant, Result, PTL

=============================================================================
