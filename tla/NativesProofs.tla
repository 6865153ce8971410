---------------------------- MODULE NativesProofs ---------------------------
(***************************************************************************)
(* Proofs about cfunction_call, for signatures of any length, and about    *)
(* the values on their way to it and back, for values of any depth.        *)
(***************************************************************************)
EXTENDS Natives, SequenceTheorems, WellFoundedInduction, TLAPS

-----------------------------------------------------------------------------
(* cfunction_call                                                          *)

(* A parameter that is converted directly needs no text. *)
LEMMA FitsOrNeedsText ==
  ASSUME NEW kind, NEW type
  PROVE  ~(Fits(kind, type) /\ NeedsText(kind, type))
  BY DEF Fits, NeedsText, Scalars

LEMMA InvariantInit == CInit => CInv
  <1> SUFFICES ASSUME CInit PROVE CInv
    OBVIOUS
  <1>1. params \in Seq(Types) /\ kinds \in Seq(Kinds) /\ Len(params) = 0
    BY DEF CInit
  <1>2. slots \in [0..Len(params) -> Slot]
    <2>1. 0..Len(params) = {0}
      BY <1>1
    <2>2. QED
      BY <2>1 DEF CInit, Empty, Slot
  <1>3. QED
    BY <1>1, <1>2 DEF CInit, CInv, CTypeOK, Places, Converting

(* A call starts with all slots empty. *)
LEMMA InvariantEnter ==
  ASSUME CInv, NEW p \in Seq(Types), NEW k \in Seq(Kinds), Enter(p, k)
  PROVE  CInv'
  <1>1. CTypeOK'
    <2>1. slots' \in [0..Len(params') -> Slot]
      BY DEF Enter, Empty, Slot
    <2>2. Len(params') \in Nat
      BY DEF Enter
    <2>3. QED
      BY <2>1, <2>2 DEF Enter, CTypeOK, Places
  <1>2. ~Converting'
    BY DEF Enter, Converting
  <1>3. QED
    BY <1>1, <1>2 DEF CInv

(* One more parameter, converted in its own slot. *)
LEMMA InvariantFill ==
  ASSUME CInv, Fill
  PROVE  CInv'
  <1> USE DEF CInv, CTypeOK
  <1> DEFINE n == Len(params)
  <1>1. n \in Nat /\ filled \in 0..n /\ filled < n /\ at = "filling" /\ Converting
    BY DEF Fill, More, Converting
  <1>2. /\ at' = at /\ params' = params /\ kinds' = kinds /\ beyond' = beyond
        /\ filled' = filled + 1 /\ Texts' = Texts
    BY DEF Fill, Texts
  <1>3. filled + 1 \notin Texts
    BY FitsOrNeedsText DEF Fill, Kind, Type, Texts
  <1>4. /\ slots' \in [0..n -> Slot] /\ slots'[filled + 1] = Direct(filled)
        /\ \A s \in 0..n : s # filled + 1 => slots'[s] = slots[s]
    BY <1>1 DEF Fill, Direct, Slot
  <1>5. CTypeOK'
    BY <1>1, <1>2, <1>4
  <1>6. ASSUME NEW k \in 1..filled'
        PROVE  Converted(k)'
    <2>1. CASE k = filled + 1
      BY <2>1, <1>1, <1>2, <1>3, <1>4 DEF Converted
    <2>2. CASE k # filled + 1
      <3>1. k \in 1..filled /\ slots'[k] = slots[k]
        BY <2>2, <1>1, <1>2, <1>4
      <3>2. QED
        BY <3>1, <1>1, <1>2 DEF Converted
    <2>3. QED
      BY <2>1, <2>2
  <1>7. 1 \in Texts' => slots'[0] = Text(0)
    <2>1. 1 \in Texts => filled > 0
      BY <1>1, <1>3
    <2>2. QED
      BY <2>1, <1>1, <1>2, <1>4
  <1>8. beyond' <=> \E k \in Texts' : k <= filled' /\ 2 * (k - 1) > Len(params')
    <2>1. Texts \subseteq 1..n
      BY DEF Texts
    <2>2. \A k \in Texts : k <= filled + 1 <=> k <= filled
      BY <2>1, <1>1, <1>3
    <2>3. QED
      BY <2>2, <1>1, <1>2
  <1>9. QED
    BY <1>1, <1>2, <1>5, <1>6, <1>7, <1>8

(* A text goes to slot 2i, which is no slot that has been filled: slot 0   *)
(* for the first parameter, a later one or the pointer's own for others.   *)
LEMMA InvariantFillText ==
  ASSUME CInv, FillText
  PROVE  CInv'
  <1> USE DEF CInv, CTypeOK
  <1> DEFINE n == Len(params)
             j == filled + filled
  <1>1. /\ n \in Nat /\ filled \in 0..n /\ filled < n /\ at = "filling" /\ Converting
        /\ j \in Nat /\ j = 2 * filled /\ filled + 1 \in 1..n
    BY DEF FillText, More, Converting
  <1>2. /\ at' = at /\ params' = params /\ kinds' = kinds
        /\ filled' = filled + 1 /\ Texts' = Texts
    BY DEF FillText, Texts
  <1>3. filled + 1 \in Texts
    BY <1>1 DEF FillText, Kind, Type, Texts
  <1>4. beyond' = (beyond \/ ~(j <= n))
    BY DEF FillText, TextSlot
  <1>5. /\ slots' \in [0..n -> Slot] /\ slots'[filled + 1] = Pointer(j)
        /\ \A s \in 0..n : s # filled + 1 /\ s # j => slots'[s] = slots[s]
        /\ j <= n /\ j # filled + 1 => slots'[j] = Text(filled)
    <2>1. Text(filled) \in Slot /\ Pointer(j) \in Slot
      BY <1>1 DEF Text, Pointer, Slot
    <2>2. CASE j <= n
      <3>1. slots' = [[slots EXCEPT ![j] = Text(filled)] EXCEPT ![filled + 1] = Pointer(j)]
        BY <2>2 DEF FillText, TextSlot
      <3>2. DEFINE mid == [slots EXCEPT ![j] = Text(filled)]
      <3>3. /\ mid \in [0..n -> Slot] /\ mid[j] = Text(filled)
            /\ \A s \in 0..n : s # j => mid[s] = slots[s]
        BY <2>1, <2>2, <1>1
      <3>4. slots' = [mid EXCEPT ![filled + 1] = Pointer(j)]
        BY <3>1
      <3>5. HIDE DEF mid
      <3>6. /\ slots' \in [0..n -> Slot] /\ slots'[filled + 1] = Pointer(j)
            /\ \A s \in 0..n : s # filled + 1 => slots'[s] = mid[s]
        BY <3>3, <3>4, <2>1, <1>1
      <3>7. j \in 0..n
        BY <2>2, <1>1
      <3>8. QED
        BY <3>3, <3>6, <3>7, <2>2
    <2>3. CASE ~(j <= n)
      <3>1. slots' = [slots EXCEPT ![filled + 1] = Pointer(j)]
        BY <2>3 DEF FillText, TextSlot
      <3>2. QED
        BY <3>1, <2>1, <2>3, <1>1
    <2>4. QED
      BY <2>2, <2>3
  <1>6. CTypeOK'
    BY <1>1, <1>2, <1>4, <1>5
  <1>7. ASSUME NEW k \in 1..filled'
        PROVE  Converted(k)'
    <2>1. CASE k = filled + 1
      BY <2>1, <1>1, <1>2, <1>3, <1>5 DEF Converted
    <2>2. CASE k # filled + 1
      <3>1. k \in 1..filled /\ k # j
        BY <2>2, <1>1, <1>2
      <3>2. slots'[k] = slots[k]
        BY <3>1, <2>2, <1>1, <1>5
      <3>3. QED
        BY <3>1, <3>2, <1>1, <1>2 DEF Converted
    <2>3. QED
      BY <2>1, <2>2
  <1>8. 1 \in Texts' => slots'[0] = Text(0)
    <2>1. CASE filled = 0
      BY <2>1, <1>1, <1>5
    <2>2. CASE filled # 0
      BY <2>2, <1>1, <1>2, <1>5
    <2>3. QED
      BY <2>1, <2>2
  <1>9. beyond' <=> \E k \in Texts' : k <= filled' /\ 2 * (k - 1) > Len(params')
    <2>1. Texts \subseteq 1..n
      BY DEF Texts
    <2>2. \A k \in Texts : k <= filled + 1 <=> k <= filled \/ k = filled + 1
      BY <2>1, <1>1
    <2>3. 2 * ((filled + 1) - 1) > n <=> ~(j <= n)
      BY <1>1
    <2>4. QED
      BY <2>2, <2>3, <1>1, <1>2, <1>3, <1>4
  <1>10. QED
    BY <1>1, <1>2, <1>6, <1>7, <1>8, <1>9

(* The other steps touch no slot. *)
LEMMA InvariantRest ==
  ASSUME CInv, RefuseCall \/ Accept \/ RefuseArgument \/ MeetNull \/ CallC \/ ReturnC \/ UNCHANGED cvars
  PROVE  CInv'
  <1> USE DEF CInv, CTypeOK, Places, Converting
  <1>1. /\ UNCHANGED <<params, kinds, slots, filled, beyond>>
        /\ at' \in Places /\ Texts' = Texts
    BY DEF RefuseCall, Accept, RefuseArgument, MeetNull, CallC, ReturnC, cvars, Texts
  <1>2. \A k : Converted(k)' <=> Converted(k)
    BY <1>1 DEF Converted
  <1>3. CASE Accept
    BY <1>1, <1>2, <1>3 DEF Accept
  <1>4. CASE CallC
    BY <1>1, <1>2, <1>4 DEF CallC
  <1>5. CASE UNCHANGED cvars
    BY <1>1, <1>2, <1>5 DEF cvars
  <1>6. CASE RefuseCall \/ RefuseArgument \/ MeetNull \/ ReturnC
    BY <1>1, <1>2, <1>6 DEF RefuseCall, RefuseArgument, MeetNull, ReturnC
  <1>7. QED
    BY <1>3, <1>4, <1>5, <1>6

(* The invariant holds of every reachable state. *)
THEOREM CInvariant == CSpec => []CInv
  <1>1. CInv /\ [CNext]_cvars => CInv'
    <2> SUFFICES ASSUME CInv, [CNext]_cvars PROVE CInv'
      OBVIOUS
    <2>1. ASSUME NEW p \in Signatures, NEW k \in Arguments, Enter(p, k)
          PROVE  CInv'
      <3>1. p \in Seq(Types) /\ k \in Seq(Kinds)
        BY CFunctionAssumption
      <3>2. QED
        BY <3>1, <2>1, InvariantEnter
    <2>2. CASE Fill
      BY <2>2, InvariantFill
    <2>3. CASE FillText
      BY <2>3, InvariantFillText
    <2>4. CASE RefuseCall \/ Accept \/ RefuseArgument \/ MeetNull \/ CallC \/ ReturnC \/ UNCHANGED cvars
      BY <2>4, InvariantRest
    <2>5. QED
      BY <2>1, <2>2, <2>3, <2>4 DEF CNext, Begin, CStep
  <1>2. QED
    BY <1>1, InvariantInit, PTL DEF CSpec

(* No slot of a parameter holds a text when the function is called, so     *)
(* that only the text in slot 0 is still there.                            *)
LEMMA InvariantDelivers == CInv => Delivered
  <1> SUFFICES ASSUME CInv, at = "called", NEW k \in 1..Len(params), ~(k \in Texts /\ Behind(k))
               PROVE  Arrives(k) <=> k \notin Texts \ {1}
    BY DEF Delivered
  <1> USE DEF CInv, CTypeOK
  <1>1. Converting /\ filled = Len(params) /\ Len(params) \in Nat
    BY DEF Converting
  <1>2. \A i \in 1..Len(params) : Converted(i)
    BY <1>1
  <1>3. ASSUME NEW i \in 1..Len(params), NEW t
        PROVE  slots[i] # Text(t)
    <2>1. slots[i] = Pointer(2 * (i - 1)) \/ slots[i] = Direct(i - 1)
      BY <1>2 DEF Converted
    <2>2. \A m : Pointer(m) # Text(t) /\ Direct(m) # Text(t)
      BY DEF Text, Direct, Pointer
    <2>3. QED
      BY <2>1, <2>2
  <1>4. CASE k \notin Texts
    BY <1>4, <1>2 DEF Converted, Arrives
  <1>5. CASE k \in Texts
    <2>1. slots[k] = Pointer(2 * (k - 1)) /\ 2 * (k - 1) \in Nat
      BY <1>2, <1>5 DEF Converted
    <2>2. slots[k] # Direct(k - 1)
      BY <2>1 DEF Pointer, Direct
    <2>3. CASE k = 1
      <3>1. slots[0] = Text(0) /\ slots[1] = Pointer(0)
        BY <2>3, <2>1, <1>1, <1>5
      <3>2. 0 \in 0..Len(params) /\ k - 1 = 0
        BY <2>3, <1>1
      <3>3. QED
        BY <3>1, <3>2, <2>3 DEF Arrives
    <2>4. CASE k # 1
      <3>1. ASSUME NEW j \in 0..Len(params), slots[k] = Pointer(j)
            PROVE  slots[j] # Text(k - 1)
        <4>1. j = 2 * (k - 1)
          BY <3>1, <2>1 DEF Pointer
        <4>2. j \in 1..Len(params)
          BY <4>1, <2>4
        <4>3. QED
          BY <4>2, <1>3
      <3>2. QED
        BY <3>1, <2>2, <2>4, <1>5 DEF Arrives
    <2>5. QED
      BY <2>3, <2>4
  <1>6. QED
    BY <1>4, <1>5

(* For signatures of any length: every parameter of the function is the    *)
(* argument in its place, except texts after the first parameter: those in *)
(* a slot never arrive, and those behind the slots are left open.          *)
THEOREM TextsGetLost == CSpec => []Delivered
  BY CInvariant, InvariantDelivers, PTL

LEMMA InvariantInBounds == CInv => InBounds
<1> SUFFICES ASSUME CInv, at = "called"
             PROVE  beyond <=> \E k \in Texts : 2 * (k - 1) > Len(params)
  BY DEF InBounds, Behind
<1>1. Converting /\ filled = Len(params) /\ \A k \in Texts : k <= Len(params)
  BY DEF CInv, Converting, Texts
<1> QED
  BY <1>1 DEF CInv

(* For signatures of any length: the stack behind args_data is written to  *)
(* exactly when there is a text in the second half of the parameters.      *)
THEOREM WritesBehind == CSpec => []InBounds
  BY CInvariant, InvariantInBounds, PTL

-----------------------------------------------------------------------------
(* Conversions of what is not an array                                     *)

(* What a label is, is known from the name of its field. *)
LEMMA IsOnly ==
  ASSUME NEW b, NEW h, NEW t
  PROVE  /\ (Is(Nil, t) <=> t = "nil") /\ (Is(Arr, t) <=> t = "arr")
         /\ (Is(Null, t) <=> t = "null") /\ (Is(Other, t) <=> t = "other")
         /\ (Is(Trap, t) <=> t = "trap") /\ (Is(Wide, t) <=> t = "wide")
         /\ (Is(Bool(b), t) <=> t = "bool") /\ (Is(Integer(b), t) <=> t = "int")
         /\ (Is(Float(b, h), t) <=> t = "float")
         /\ (Is(Str(b), t) <=> t = "str") /\ (Is(Plain(b), t) <=> t = "plain")
BY DEF Is, Nil, Arr, Null, Other, Trap, Wide, Bool, Integer, Float, Str, Plain

LEMMA Apart ==
  ASSUME NEW x, NEW b, NEW h,
         x = Bool(b) \/ x = Integer(b) \/ x = Float(b, h) \/ x = Str(b) \/ x = Plain(b)
  PROVE  x # Nil /\ x # Arr /\ x # Null /\ x \notin {Other, Trap, Wide}
<1>1. Is(x, "nil") \/ Is(x, "arr") \/ Is(x, "null") \/ Is(x, "other") \/ Is(x, "trap") \/ Is(x, "wide") => FALSE
  BY IsOnly
<1> QED
  BY <1>1, IsOnly

(* What there is in a value of the application. *)
LEMMA NativeIs ==
  ASSUME NEW x \in Native
  PROVE  \/ x = Nil \/ x = Arr \/ x = Null
         \/ \E b \in BOOLEAN : x = Bool(b)
         \/ \E n \in Int : x = Integer(n)
         \/ \E n \in Int, h \in BOOLEAN : x = Float(n, h) /\ Single(<<n, h>>) = <<n, h>>
         \/ \E s \in Seq(STRING) : x = Str(s)
BY DEF Native, Common, Singles, Bool, Integer, Float, Str

(* What there is in a value of a guest. *)
LEMMA ForeignIs ==
  ASSUME NEW x \in Foreign
  PROVE  \/ x = Nil \/ x = Arr \/ x \in {Other, Trap, Wide}
         \/ \E b \in BOOLEAN : x = Bool(b)
         \/ \E n \in Int : x = Integer(n)
         \/ \E n \in Int, h \in BOOLEAN : x = Float(n, h)
         \/ \E s \in Seq(STRING) : x = Str(s)
         \/ \E s \in Seq(STRING) : x = Plain(s)
BY DEF Foreign, Common, Bool, Integer, Float, Str, Plain

(* A set of natural numbers has a least element. *)
LEMMA NatMin ==
  ASSUME NEW T, T \subseteq Nat, T # {}
  PROVE  \E n \in T : \A m \in T : n <= m
<1>1. IsWellFoundedOn(OpToRel(<, Nat), Nat)
  BY NatLessThanWellFounded
<1>2. PICK n \in T : \A m \in T : ~ (<<m, n>> \in OpToRel(<, Nat))
  BY <1>1, WFMin
<1>3. \A m \in T : ~(m < n)
  BY <1>2 DEF OpToRel
<1> QED
  BY <1>3

LEMMA BitsAre ==
  /\ Bits(23) \in Nat /\ Bits(23) >= 2
  /\ Bits(24) \in Nat /\ Bits(24) >= 2 /\ Bits(24) % 2 = 0
  /\ Bits(30) \in Nat /\ Bits(30) >= 2
BY SMT DEF Bits

Powers == {1, 2, 4, 8, 16, 32, 64, 128}

LEMMA SpacingIs ==
  ASSUME NEW n \in Int
  PROVE  /\ Spacing(n) \in Powers
         /\ Spacing(n) # 128 => n \in -(Bits(24) * Spacing(n))..(Bits(24) * Spacing(n))
         /\ \A s \in Powers \ {128} : n \in -(Bits(24) * s)..(Bits(24) * s) => Spacing(n) <= s
<1> DEFINE T == {128} \cup {s \in {1, 2, 4, 8, 16, 32, 64} : n \in -(Bits(24) * s)..(Bits(24) * s)}
<1>1. T \subseteq Powers /\ 128 \in T
  BY DEF Powers
<1>2. Powers \subseteq Nat
  BY DEF Powers
<1>3. \E x \in T : \A y \in T : x <= y
  <2> HIDE DEF T
  <2>1. T \subseteq Nat /\ T # {}
    BY <1>1, <1>2
  <2> QED
    BY <2>1, NatMin
<1>4. Spacing(n) \in T /\ \A y \in T : Spacing(n) <= y
  <2>1. Spacing(n) = CHOOSE x \in T : \A y \in T : x <= y
    BY DEF Spacing, Min
  <2> HIDE DEF T
  <2> QED
    BY <1>3, <2>1
<1>5. ASSUME Spacing(n) # 128
      PROVE  n \in -(Bits(24) * Spacing(n))..(Bits(24) * Spacing(n))
  BY <1>4, <1>5
<1>6. ASSUME NEW s \in Powers \ {128}, n \in -(Bits(24) * s)..(Bits(24) * s)
      PROVE  s \in T
  BY <1>6 DEF Powers
<1> HIDE DEF T
<1> QED
  BY <1>1, <1>4, <1>5, <1>6

(* The smaller ones divide the greater ones. *)
LEMMA PowersDivide ==
  ASSUME NEW s \in Powers, NEW t \in Powers, t <= s
  PROVE  \E k \in Nat : s = t * k
<1>1. \A k \in {1, 2, 4, 8, 16, 32, 64, 128} : k \in Nat
  OBVIOUS
<1>2. \/ s = t * 1 \/ s = t * 2 \/ s = t * 4 \/ s = t * 8 \/ s = t * 16 \/ s = t * 32
      \/ s = t * 64 \/ s = t * 128
  BY DEF Powers
<1> QED
  BY <1>1, <1>2

LEMMA Division ==
  ASSUME NEW n \in Int, NEW s \in Powers
  PROVE  n \div s \in Int /\ n % s \in 0..(s - 1) /\ n = s * (n \div s) + (n % s)
<1>1. CASE s = 1
  BY <1>1
<1>2. CASE s = 2
  BY <1>2
<1>3. CASE s = 4
  BY <1>3
<1>4. CASE s = 8
  BY <1>4
<1>5. CASE s = 16
  BY <1>5
<1>6. CASE s = 32
  BY <1>6
<1>7. CASE s = 64
  BY <1>7
<1>8. CASE s = 128
  BY <1>8
<1> QED
  BY <1>1, <1>2, <1>3, <1>4, <1>5, <1>6, <1>7, <1>8 DEF Powers

LEMMA MultipleIs ==
  ASSUME NEW k \in Int, NEW s \in Powers
  PROVE  s * k \in Int /\ (s * k) % s = 0 /\ (s * k) \div s = k
<1>1. CASE s = 1
  BY <1>1
<1>2. CASE s = 2
  BY <1>2
<1>3. CASE s = 4
  BY <1>3
<1>4. CASE s = 8
  BY <1>4
<1>5. CASE s = 16
  BY <1>5
<1>6. CASE s = 32
  BY <1>6
<1>7. CASE s = 64
  BY <1>7
<1>8. CASE s = 128
  BY <1>8
<1> QED
  BY <1>1, <1>2, <1>3, <1>4, <1>5, <1>6, <1>7, <1>8 DEF Powers

(* Rounding does not lead to where there are fewer numbers. *)
LEMMA StaysAmong ==
  ASSUME NEW s \in Powers, NEW B \in Nat, B % 2 = 0, NEW q \in Int, NEW r \in 0..(s - 1),
         NEW h \in {0, 1}, NEW u \in {0, 1}, -(B * s) <= s * q + r, s * q + r <= B * s,
         u = 1 => 2 * r + h > s \/ (2 * r + h = s /\ q % 2 = 1)
  PROVE  s * (q + u) \in -(B * s)..(B * s)
<1>1. CASE s = 1
  BY <1>1
<1>2. CASE s = 2
  BY <1>2
<1>3. CASE s = 4
  BY <1>3
<1>4. CASE s = 8
  BY <1>4
<1>5. CASE s = 16
  BY <1>5
<1>6. CASE s = 32
  BY <1>6
<1>7. CASE s = 64
  BY <1>7
<1>8. CASE s = 128
  BY <1>8
<1> QED
  BY <1>1, <1>2, <1>3, <1>4, <1>5, <1>6, <1>7, <1>8 DEF Powers

LEMMA MultipleStays ==
  ASSUME NEW m \in Int, NEW k \in Int, m = Spacing(m) * k
  PROVE  Single(<<m, FALSE>>) = <<m, FALSE>>
<1> DEFINE s == Spacing(m)
<1>1. s \in Powers
  BY SpacingIs
<1>2. Single(<<m, FALSE>>) =
        <<s * (m \div s + IF 2 * (m % s) + 0 > s \/ (2 * (m % s) + 0 = s /\ (m \div s) % 2 = 1) THEN 1 ELSE 0), FALSE>>
  BY DEF Single
<1> HIDE DEF s
<1>3. m = s * k
  BY DEF s
<1>4. m % s = 0 /\ m \div s = k
  BY <1>1, <1>3, MultipleIs
<1>5. s \in Nat /\ s > 0
  BY <1>1 DEF Powers
<1>6. ~(2 * (m % s) + 0 > s \/ (2 * (m % s) + 0 = s /\ (m \div s) % 2 = 1))
  BY <1>4, <1>5
<1>7. Single(<<m, FALSE>>) = <<s * (k + 0), FALSE>>
  BY <1>2, <1>4, <1>6
<1>8. s * (k + 0) = m
  BY <1>3
<1> QED
  BY <1>7, <1>8

(* Rounding twice is rounding once. *)
LEMMA SingleIs ==
  ASSUME NEW n \in Int, NEW h \in BOOLEAN
  PROVE  /\ \E m \in Int, k \in BOOLEAN : Single(<<n, h>>) = <<m, k>>
         /\ Single(Single(<<n, h>>)) = Single(<<n, h>>)
<1>1. CASE h /\ n \in -Bits(23)..(Bits(23) - 1)
  <2>1. Single(<<n, h>>) = <<n, h>>
    BY <1>1 DEF Single
  <2> QED
    BY <2>1
<1>2. CASE ~(h /\ n \in -Bits(23)..(Bits(23) - 1))
  <2> DEFINE s == Spacing(n)
             q == n \div s
             r == n % s
             g == IF h THEN 1 ELSE 0
             up == 2 * r + g > s \/ (2 * r + g = s /\ q % 2 = 1)
             u == IF up THEN 1 ELSE 0
             m == s * (q + u)
  <2>1. Single(<<n, h>>) = <<m, FALSE>>
    BY <1>2 DEF Single
  <2>2. s \in Powers /\ (s # 128 => n \in -(Bits(24) * s)..(Bits(24) * s))
    BY SpacingIs
  <2>3. g \in {0, 1} /\ u \in {0, 1} /\ (u = 1 => 2 * r + g > s \/ (2 * r + g = s /\ q % 2 = 1))
    OBVIOUS
  <2> HIDE DEF s
  <2>4. q \in Int /\ r \in 0..(s - 1) /\ n = s * q + r
    BY <2>2, Division
  <2> HIDE DEF q, r, g, u
  <2>5. s \in Nat /\ q + u \in Int
    BY <2>2, <2>3, <2>4 DEF Powers
  <2>6. m \in Int
    BY <2>5
  <2>7. ASSUME s # 128 PROVE m \in -(Bits(24) * s)..(Bits(24) * s)
    <3>1. -(Bits(24) * s) <= s * q + r /\ s * q + r <= Bits(24) * s
      BY <2>2, <2>4, <2>7
    <3> QED
      BY <2>2, <2>3, <2>4, <3>1, BitsAre, StaysAmong
  <2> HIDE DEF m
  <2>8. Spacing(m) \in Powers /\ Spacing(m) <= s
    <3>1. CASE s = 128
      BY <2>6, <3>1, SpacingIs DEF Powers
    <3>2. CASE s # 128
      <4>1. s \in Powers \ {128}
        BY <2>2, <3>2
      <4> QED
        BY <2>6, <2>7, <3>2, <4>1, SpacingIs
    <3> QED
      BY <3>1, <3>2
  <2>9. PICK k \in Nat : s = Spacing(m) * k
    BY <2>2, <2>8, PowersDivide
  <2>10. m = Spacing(m) * (k * (q + u))
    <3>1. Spacing(m) \in Nat
      BY <2>8 DEF Powers
    <3> DEFINE t == Spacing(m)
               w == q + u
    <3>2. t \in Nat /\ k \in Nat /\ w \in Int /\ m = (t * k) * w
      BY <2>5, <2>9, <3>1 DEF m
    <3> HIDE DEF t, w
    <3>3. (t * k) * w = t * (k * w)
      BY <3>2
    <3> QED
      BY <3>2, <3>3 DEF t, w
  <2>11. k * (q + u) \in Int
    BY <2>5
  <2>12. Single(<<m, FALSE>>) = <<m, FALSE>>
    BY <2>6, <2>10, <2>11, MultipleStays
  <2> QED
    BY <2>1, <2>6, <2>12
<1> QED
  BY <1>1, <1>2

(* Conversion to a guest's value. *)
LEMMA SentIs ==
  ASSUME NEW e \in Engines, NEW x \in Native \ {Null}
  PROVE  /\ Sent(e, x) \in Foreign
         /\ (Sent(e, x) = Arr <=> x = Arr) /\ (Sent(e, x) = Nil <=> x = Nil)
<1>1. CASE \E n \in Int : x = Integer(n)
  <2>1. PICK n \in Int : x = Integer(n)
    BY <1>1
  <2>2. x.int = n /\ Is(x, "int") /\ ~Is(x, "arr") /\ ~Is(x, "nil")
    BY <2>1, IsOnly DEF Integer
  <2>3. CASE e = "lua"
    <3>1. Sent(e, x) = Float(n, FALSE)
      BY <2>2, <2>3 DEF Sent
    <3>2. Float(n, FALSE) \in Foreign
      BY DEF Foreign, Float
    <3> QED
      BY <2>2, <3>1, <3>2, IsOnly
  <2>4. CASE e = "rb"
    <3>1. Sent(e, x) = Integer(Fixnum(n))
      BY <2>2, <2>4 DEF Sent
    <3>2. Fixnum(n) \in Int
      BY BitsAre DEF Fixnum
    <3>3. Integer(Fixnum(n)) \in Foreign
      BY <3>2 DEF Foreign, Common, Integer
    <3> QED
      BY <2>2, <3>1, <3>3, IsOnly
  <2>5. CASE e \notin {"lua", "rb"}
    <3>1. Sent(e, x) = x
      BY <2>5 DEF Sent
    <3>2. x \in Foreign
      BY <2>1 DEF Foreign, Common, Integer
    <3> QED
      BY <2>2, <3>1, <3>2, IsOnly
  <2> QED
    BY <2>3, <2>4, <2>5
<1>2. CASE ~ \E n \in Int : x = Integer(n)
  <2>1. ~Is(x, "int") /\ ~Is(x, "other")
    <3>1. Is(x, "int") \/ Is(x, "other") => \E n \in Int : x = Integer(n)
      <4> USE IsOnly
      <4>1. CASE x = Nil \/ x = Arr \/ x = Null
        BY <4>1
      <4>2. CASE \E b \in BOOLEAN : x = Bool(b)
        BY <4>2
      <4>3. CASE \E n \in Int, h \in BOOLEAN : x = Float(n, h)
        BY <4>3
      <4>4. CASE \E s \in Seq(STRING) : x = Str(s)
        BY <4>4
      <4> QED
        BY <4>1, <4>2, <4>3, <4>4, NativeIs
    <3> QED
      BY <1>2, <3>1
  <2>2. Sent(e, x) = x
    BY <2>1 DEF Sent
  <2>3. x \in Foreign
    BY DEF Native, Foreign, Common, Singles
  <2> QED
    BY <2>1, <2>2, <2>3, IsOnly
<1> QED
  BY <1>1, <1>2

(* Conversion from a guest's value. *)
LEMMA GotIs ==
  ASSUME NEW e \in Engines, NEW x \in Foreign
  PROVE  /\ Got(e, x) \in Native
         /\ (Got(e, x) = Null <=> x \in {Other, Trap} \/ (x = Wide /\ e # "py")) /\ (Got(e, x) = Arr <=> x = Arr)
<1>1. CASE x = Nil \/ x = Arr
  <2>1. Got(e, x) = x
    BY <1>1, IsOnly DEF Got
  <2> QED
    BY <1>1, <2>1, IsOnly DEF Native, Common
<1>2. CASE x \in {Other, Trap, Wide} /\ ~(x = Wide /\ e = "py")
  <2>1. ~Is(x, "float") /\ ~Is(x, "str") /\ ~Is(x, "plain") /\ ~Is(x, "bool") /\ (Is(x, "wide") => x = Wide)
    BY <1>2, IsOnly
  <2>2. Got(e, x) = Null
    BY <1>2, <2>1 DEF Got
  <2>3. x # Arr /\ Null # Arr
    BY <1>2, IsOnly
  <2>4. Null \in Native
    BY DEF Native
  <2> QED
    BY <1>2, <2>2, <2>3, <2>4
<1>17. CASE x = Wide /\ e = "py"
  <2>1. Is(x, "wide") /\ ~Is(x, "float") /\ ~Is(x, "str") /\ ~Is(x, "plain") /\ ~Is(x, "bool")
    BY <1>17, IsOnly
  <2>5. x # Other /\ x # Trap
    BY <1>17, IsOnly
  <2>4. Got(e, x) = Integer(0)
    BY <1>17, <2>1, <2>5 DEF Got
  <2>2. Integer(0) # Null /\ Integer(0) # Arr /\ x # Arr /\ x # Other /\ x # Trap
    BY <1>17, IsOnly
  <2>3. Integer(0) \in Native
    BY DEF Native, Common, Integer
  <2> QED
    BY <1>17, <2>4, <2>2, <2>3
<1>3. ASSUME NEW b \in BOOLEAN, x = Bool(b)
      PROVE  Got(e, x) = Bool(b) \/ Got(e, x) = Integer(1) \/ Got(e, x) = Integer(0)
  <2>1. /\ x.bool = b /\ Is(x, "bool") /\ ~Is(x, "float") /\ ~Is(x, "str") /\ ~Is(x, "plain") /\ ~Is(x, "wide")
        /\ ~Is(x, "other") /\ ~Is(x, "trap")
    BY <1>3, IsOnly DEF Bool
  <2>2. x \notin {Other, Trap, Wide}
    BY <2>1, IsOnly
  <2> QED
    BY <1>3, <2>1, <2>2 DEF Got
<1>4. ASSUME NEW n \in Int, x = Integer(n) PROVE Got(e, x) = Integer(n)
  BY <1>4, IsOnly DEF Got
<1>5. ASSUME NEW n \in Int, NEW h \in BOOLEAN, x = Float(n, h) PROVE Got(e, x) = [float |-> Single(<<n, h>>)]
  BY <1>5, IsOnly DEF Got, Float
<1>6. ASSUME NEW s \in Seq(STRING), x = Str(s)
      PROVE  \/ Got(e, x) = Str(s) \/ Got(e, x) = Str(FirstOnly(s))
             \/ Numeric(s) /\ Got(e, x) = [float |-> Single(Numerals[s])]
  <2>1. /\ x.str = s /\ Is(x, "str") /\ ~Is(x, "float") /\ ~Is(x, "plain") /\ ~Is(x, "bool") /\ ~Is(x, "wide")
        /\ ~Is(x, "other") /\ ~Is(x, "trap")
    BY <1>6, IsOnly DEF Str
  <2>2. x \notin {Other, Trap, Wide}
    BY <2>1, IsOnly
  <2> QED
    BY <1>6, <2>1, <2>2 DEF Got
<1>7. ASSUME NEW s \in Seq(STRING), x = Plain(s) PROVE Got(e, x) = Str(s)
  <2>1. /\ x.plain = s /\ Is(x, "plain") /\ ~Is(x, "float") /\ ~Is(x, "str") /\ ~Is(x, "bool") /\ ~Is(x, "wide")
        /\ ~Is(x, "other") /\ ~Is(x, "trap")
    BY <1>7, IsOnly DEF Plain
  <2>2. x \notin {Other, Trap, Wide}
    BY <2>1, IsOnly
  <2> QED
    BY <1>7, <2>1, <2>2 DEF Got
<1>8. \A n \in Int, h \in BOOLEAN : Single(<<n, h>>) = <<n, h>> => Float(n, h) \in Native
  BY DEF Native, Float, Singles
<1>9. \A s \in Seq(STRING) : Str(s) \in Native
  BY DEF Native, Common, Str
<1>10. (\A n \in Int : Integer(n) \in Native) /\ (\A b \in BOOLEAN : Bool(b) \in Native)
  BY DEF Native, Common, Integer, Bool
<1>11. \A s \in Seq(STRING) : FirstOnly(s) \in Seq(STRING)
  <2> SUFFICES ASSUME NEW s \in Seq(STRING), s # <<>> PROVE <<Head(s)>> \in Seq(STRING)
    BY DEF FirstOnly
  <2> QED
    BY HeadTailProperties
<1>12. CASE \E b \in BOOLEAN : x = Bool(b)
  <2>1. PICK b \in BOOLEAN : x = Bool(b)
    BY <1>12
  <2>2. x \notin {Other, Trap, Wide} /\ x # Arr
    BY <2>1, Apart
  <2>3. PICK c : Got(e, x) = Bool(c) \/ Got(e, x) = Integer(c)
    BY <2>1, <1>3
  <2>4. Got(e, x) # Null /\ Got(e, x) # Arr
    BY <2>3, Apart
  <2>5. Got(e, x) \in Native
    BY <2>1, <1>3, <1>10
  <2> QED
    BY <2>2, <2>4, <2>5
<1>13. CASE \E n \in Int : x = Integer(n)
  BY <1>4, <1>10, <1>13, IsOnly
<1>14. CASE \E n \in Int, h \in BOOLEAN : x = Float(n, h)
  <2>1. PICK n \in Int, h \in BOOLEAN : x = Float(n, h)
    BY <1>14
  <2>2. PICK m \in Int, k \in BOOLEAN : Single(<<n, h>>) = <<m, k>>
    BY SingleIs
  <2>3. Got(e, x) = Float(m, k) /\ Single(<<m, k>>) = <<m, k>>
    BY <1>5, <2>1, <2>2, SingleIs DEF Float
  <2> QED
    BY <1>8, <2>1, <2>3, Apart
<1>15. CASE \E s \in Seq(STRING) : x = Str(s)
  <2>1. PICK s \in Seq(STRING) : x = Str(s)
    BY <1>15
  <2>2. CASE Got(e, x) = Str(s) \/ Got(e, x) = Str(FirstOnly(s))
    BY <1>9, <1>11, <2>1, <2>2, IsOnly
  <2>3. CASE Numeric(s) /\ Got(e, x) = [float |-> Single(Numerals[s])]
    <3>1. Numerals[s] \in Int \X BOOLEAN
      BY <2>3, ConversionsAssumption DEF Numeric
    <3>2. PICK n \in Int, h \in BOOLEAN : Numerals[s] = <<n, h>>
      BY <3>1
    <3>3. PICK m \in Int, k \in BOOLEAN : Single(<<n, h>>) = <<m, k>>
      BY SingleIs
    <3>4. Got(e, x) = Float(m, k) /\ Single(<<m, k>>) = <<m, k>>
      BY <2>3, <3>2, <3>3, SingleIs DEF Float
    <3> QED
      BY <1>8, <2>1, <3>4, Apart
  <2> QED
    BY <1>6, <2>1, <2>2, <2>3
<1>16. CASE \E s \in Seq(STRING) : x = Plain(s)
  BY <1>7, <1>9, <1>16, IsOnly
<1> QED
  BY <1>1, <1>2, <1>12, <1>13, <1>14, <1>15, <1>16, <1>17, ForeignIs

LEMMA FixnumIs ==
  ASSUME NEW n \in Int
  PROVE  Fixnum(n) \in Int /\ (Fixnum(n) = n <=> n \in Small)
<1>1. CASE n \in Small
  BY <1>1 DEF Fixnum
<1>2. CASE n \notin Small
  BY <1>2, BitsAre DEF Fixnum, Small
<1> QED
  BY <1>1, <1>2

LEMMA FirstOnlyIs ==
  ASSUME NEW s \in Seq(STRING)
  PROVE  FirstOnly(s) = s <=> ~(Len(s) > 1)
<1>1. CASE s = <<>>
  BY <1>1 DEF FirstOnly
<1>2. CASE s # <<>>
  <2>1. FirstOnly(s) = <<s[1]>> /\ Len(<<s[1]>>) = 1 /\ Len(s) \in Nat \ {0} /\ <<s[1]>>[1] = s[1]
    BY <1>2, HeadTailProperties, EmptySeq DEF FirstOnly
  <2>2. \A n \in Nat \ {0} : ~(n > 1) <=> n = 1
    OBVIOUS
  <2>3. ~(Len(s) > 1) <=> Len(s) = 1
    BY <2>1, <2>2
  <2>4. FirstOnly(s) = s => Len(s) = 1
    BY <2>1
  <2>5. Len(s) = 1 => FirstOnly(s) = s
    BY <2>1
  <2> QED
    BY <2>3, <2>4, <2>5
<1> QED
  BY <1>1, <1>2

(* What a label is as it comes back from the guest it was sent to. *)
LEMMA LabelRoundTrip ==
  ASSUME NEW e \in Engines, NEW x \in Native \ {Null}
  PROVE  Got(e, Sent(e, x)) = x <=> ~Lossy(e, x)
<1>1. CASE x = Nil \/ x = Arr
  <2>1. Sent(e, x) = x /\ ~Lossy(e, x)
    BY <1>1, IsOnly DEF Sent, Lossy
  <2>2. Got(e, x) = x
    BY <1>1, IsOnly DEF Got
  <2> QED
    BY <2>1, <2>2
<1>2. ASSUME NEW b \in BOOLEAN, x = Bool(b)
      PROVE  Got(e, Sent(e, x)) = x <=> ~Lossy(e, x)
  <2>1. Sent(e, x) = x /\ (Lossy(e, x) <=> e = "py")
    BY <1>2, IsOnly DEF Sent, Lossy
  <2>2. CASE e = "py"
    <3>1. Got(e, x) = Integer(IF b THEN 1 ELSE 0)
      BY <1>2, <2>2, IsOnly DEF Got, Bool
    <3> QED
      BY <1>2, <2>1, <2>2, <3>1, IsOnly
  <2>3. CASE e # "py"
    <3>1. Got(e, x) = x
      BY <1>2, <2>3, IsOnly DEF Got
    <3> QED
      BY <2>1, <2>3, <3>1
  <2> QED
    BY <2>2, <2>3
<1>3. ASSUME NEW n \in Int, x = Integer(n)
      PROVE  Got(e, Sent(e, x)) = x <=> ~Lossy(e, x)
  <2>1. x.int = n /\ Is(x, "int") /\ ~Is(x, "str") /\ ~Is(x, "bool")
    BY <1>3, IsOnly DEF Integer
  <2>2. \A m : Got(e, Integer(m)) = Integer(m)
    BY IsOnly DEF Got
  <2>3. CASE e = "lua"
    <3>1. Sent(e, x) = Float(n, FALSE) /\ Lossy(e, x)
      BY <2>1, <2>3 DEF Sent, Lossy
    <3>2. Got(e, Float(n, FALSE)) = [float |-> Single(<<n, FALSE>>)]
      BY IsOnly DEF Got, Float
    <3>3. Is(Got(e, Float(n, FALSE)), "float") /\ ~Is(x, "float")
      BY <1>3, <3>2, IsOnly DEF Is
    <3> QED
      BY <3>1, <3>3
  <2>4. CASE e = "rb"
    <3>1. Sent(e, x) = Integer(Fixnum(n)) /\ (Lossy(e, x) <=> n \notin Small)
      BY <2>1, <2>4 DEF Sent, Lossy
    <3>2. Integer(Fixnum(n)) = Integer(n) <=> Fixnum(n) = n
      BY DEF Integer
    <3> QED
      BY <1>3, <3>1, <3>2, <2>2, FixnumIs
  <2>5. CASE e \notin {"lua", "rb"}
    <3>1. Sent(e, x) = x /\ ~Lossy(e, x)
      BY <2>1, <2>5 DEF Sent, Lossy
    <3> QED
      BY <1>3, <3>1, <2>2
  <2> QED
    BY <2>3, <2>4, <2>5
<1>4. ASSUME NEW n \in Int, NEW h \in BOOLEAN, x = Float(n, h), Single(<<n, h>>) = <<n, h>>
      PROVE  Got(e, Sent(e, x)) = x <=> ~Lossy(e, x)
  <2>1. Sent(e, x) = x /\ ~Lossy(e, x)
    BY <1>4, IsOnly DEF Sent, Lossy
  <2>2. Got(e, x) = [float |-> Single(<<n, h>>)]
    BY <1>4, IsOnly DEF Got, Float
  <2> QED
    BY <1>4, <2>1, <2>2 DEF Float
<1>5. ASSUME NEW s \in Seq(STRING), x = Str(s)
      PROVE  Got(e, Sent(e, x)) = x <=> ~Lossy(e, x)
  <2>1. x.str = s /\ Is(x, "str") /\ ~Is(x, "int") /\ ~Is(x, "bool") /\ Sent(e, x) = x
    BY <1>5, IsOnly DEF Str, Sent
  <2>2. \A t : Str(t) = Str(s) <=> t = s
    BY DEF Str
  <2>3. CASE e = "py"
    <3>1. Got(e, x) = Str(FirstOnly(s)) /\ (Lossy(e, x) <=> Len(s) > 1)
      BY <1>5, <2>1, <2>3, IsOnly DEF Got, Lossy
    <3> QED
      BY <1>5, <2>1, <2>2, <3>1, FirstOnlyIs
  <2>4. CASE e = "lua" /\ Numeric(s)
    <3>1. Got(e, x) = [float |-> Single(Numerals[s])] /\ Lossy(e, x)
      BY <1>5, <2>1, <2>4, IsOnly DEF Got, Lossy
    <3>2. Is(Got(e, x), "float") /\ ~Is(x, "float")
      BY <1>5, <3>1, IsOnly DEF Is
    <3> QED
      BY <2>1, <3>1, <3>2
  <2>5. CASE e # "py" /\ ~(e = "lua" /\ Numeric(s))
    <3>1. ~Lossy(e, x)
      BY <2>1, <2>5 DEF Lossy
    <3>2. Got(e, x) = x
      BY <1>5, <2>1, <2>5, IsOnly DEF Got
    <3> QED
      BY <2>1, <3>1, <3>2
  <2> QED
    BY <2>3, <2>4, <2>5
<1>6. x # Null
  OBVIOUS
<1> QED
  BY <1>1, <1>2, <1>3, <1>4, <1>5, <1>6, NativeIs

-----------------------------------------------------------------------------
(* Values of any depth                                                     *)

Path == Seq(Nat \ {0})

(* The way to an element. *)
LEMMA StepsOf ==
  ASSUME NEW p \in Path, NEW j \in 0..Len(p)
  PROVE  /\ SubSeq(p, 1, j) \in Path /\ Len(SubSeq(p, 1, j)) = j
         /\ \A i \in 1..j : SubSeq(p, 1, j)[i] = p[i]
<1>1. \A i \in 1..j : p[i] \in Nat \ {0}
  BY DEF Path
<1>2. 1 \in Int /\ j \in Int
  BY DEF Path
<1>3. /\ SubSeq(p, 1, j) \in Seq(Nat \ {0})
      /\ Len(SubSeq(p, 1, j)) = (IF 1 <= j THEN j - 1 + 1 ELSE 0)
      /\ \A i \in 1..(j - 1 + 1) : SubSeq(p, 1, j)[i] = p[1 + i - 1]
  BY <1>1, <1>2, SubSeqProperties
<1> QED
  BY <1>2, <1>3 DEF Path

LEMMA SamePath ==
  ASSUME NEW p \in Path, NEW q \in Path, Len(p) = Len(q), \A i \in 1..Len(p) : p[i] = q[i]
  PROVE  p = q
BY DEF Path

LEMMA FrontIs ==
  ASSUME NEW p \in Path, NEW j \in 1..Len(p)
  PROVE  /\ Front(SubSeq(p, 1, j)) = SubSeq(p, 1, j - 1) /\ Last(SubSeq(p, 1, j)) = p[j]
         /\ SubSeq(p, 1, j) # <<>>
<1> DEFINE w == SubSeq(p, 1, j)
           u == SubSeq(p, 1, j - 1)
<1>1. Len(p) \in Nat /\ j \in 0..Len(p) /\ j - 1 \in 0..Len(p)
  BY DEF Path
<1>2. w \in Path /\ Len(w) = j /\ \A i \in 1..j : w[i] = p[i]
  BY <1>1, StepsOf
<1>3. u \in Path /\ Len(u) = j - 1 /\ \A i \in 1..(j - 1) : u[i] = p[i]
  BY <1>1, StepsOf
<1> HIDE DEF w, u
<1>4. j - 1 \in 0..Len(w)
  BY <1>1, <1>2
<1>5. /\ SubSeq(w, 1, j - 1) \in Path /\ Len(SubSeq(w, 1, j - 1)) = j - 1
      /\ \A i \in 1..(j - 1) : SubSeq(w, 1, j - 1)[i] = w[i]
  BY <1>2, <1>4, StepsOf
<1>6. SubSeq(w, 1, j - 1) = u
  <2> DEFINE x == SubSeq(w, 1, j - 1)
  <2>1. \A i \in 1..(j - 1) : i \in 1..j
    BY <1>1
  <2>2. x \in Path /\ Len(x) = j - 1 /\ \A i \in 1..(j - 1) : x[i] = w[i]
    BY <1>5
  <2> HIDE DEF x
  <2>3. \A i \in 1..(j - 1) : x[i] = u[i]
    BY <1>2, <1>3, <2>1, <2>2
  <2>4. x = u
    BY <1>3, <2>2, <2>3, SamePath
  <2> QED
    BY <2>4 DEF x
<1>7. w # <<>>
  BY <1>2
<1> QED
  BY <1>2, <1>6, <1>7 DEF Front, Last, w, u

LEMMA PathIs ==
  ASSUME NEW p \in Path, p # <<>>
  PROVE  /\ Len(p) \in Nat \ {0} /\ SubSeq(p, 1, Len(p)) = p
         /\ Front(p) = SubSeq(p, 1, Len(p) - 1) /\ Last(p) = p[Len(p)] /\ Last(p) \in Nat \ {0}
<1>1. Len(p) \in Nat \ {0}
  BY EmptySeq DEF Path
<1>2. SubSeq(p, 1, Len(p)) = p
  BY SubSeqFull DEF Path
<1> QED
  BY <1>1, <1>2 DEF Front, Last, Path

LEMMA AppendIs ==
  ASSUME NEW p \in Path, NEW i \in Nat \ {0}
  PROVE  /\ Append(p, i) \in Path /\ Len(Append(p, i)) = Len(p) + 1 /\ Append(p, i)[Len(p) + 1] = i
         /\ \A k \in 1..Len(p) : Append(p, i)[k] = p[k]
BY AppendProperties DEF Path

LEMMA AppendFront ==
  ASSUME NEW p \in Path, p # <<>>
  PROVE  Append(Front(p), Last(p)) = p
<1>1. Len(p) \in Nat \ {0} /\ Front(p) = SubSeq(p, 1, Len(p) - 1) /\ Last(p) = p[Len(p)] /\ Last(p) \in Nat \ {0}
  BY PathIs
<1>2. Len(p) - 1 \in 0..Len(p) /\ Len(p) - 1 + 1 = Len(p)
  BY <1>1
<1>3. Front(p) \in Path /\ Len(Front(p)) = Len(p) - 1 /\ \A i \in 1..(Len(p) - 1) : Front(p)[i] = p[i]
  BY <1>1, <1>2, StepsOf
<1> DEFINE q == Append(Front(p), Last(p))
<1>4. /\ q \in Path /\ Len(q) = Len(p) /\ q[Len(p)] = Last(p)
      /\ \A k \in 1..(Len(p) - 1) : q[k] = Front(p)[k]
  <2> DEFINE f == Front(p)
  <2>1. f \in Path /\ Len(f) = Len(p) - 1
    BY <1>3
  <2> HIDE DEF f
  <2>2. /\ Append(f, Last(p)) \in Path /\ Len(Append(f, Last(p))) = Len(f) + 1
        /\ Append(f, Last(p))[Len(f) + 1] = Last(p)
        /\ \A k \in 1..Len(f) : Append(f, Last(p))[k] = f[k]
    BY <1>1, <2>1, AppendIs
  <2>3. Len(f) + 1 = Len(p)
    BY <1>1, <2>1
  <2> QED
    BY <2>1, <2>2, <2>3 DEF f
<1> HIDE DEF q
<1>5. \A k \in 1..Len(p) : q[k] = p[k]
  BY <1>1, <1>3, <1>4
<1>6. q = p
  BY <1>4, <1>5, SamePath
<1> QED
  BY <1>6 DEF q

LEMMA TreeIs ==
  ASSUME NEW v, NEW S, Tree(v, S)
  PROVE  /\ DOMAIN v \subseteq Path /\ <<>> \in DOMAIN v
         /\ \A p \in DOMAIN v : v[p] \in S
BY DEF Tree, Path

LEMMA ParentIs ==
  ASSUME NEW v, NEW S, Tree(v, S), NEW p \in DOMAIN v, p # <<>>
  PROVE  /\ Front(p) \in DOMAIN v /\ v[Front(p)] = Arr
         /\ \A i \in 1..Last(p) : Append(Front(p), i) \in DOMAIN v
BY DEF Tree

(* All that is on the way to a value is in the tree, and so is what is     *)
(* next to that.                                                           *)
LEMMA OnTheWay ==
  ASSUME NEW v, NEW S, Tree(v, S), NEW p \in DOMAIN v, NEW j \in 1..Len(p), NEW i \in 1..p[j]
  PROVE  Append(SubSeq(p, 1, j - 1), i) \in DOMAIN v
<1> DEFINE l == Len(p)
           W(k) == SubSeq(p, 1, l - k) \in DOMAIN v
           T == {k \in 0..l : ~W(k)}
<1>1. p \in Path /\ l \in Nat
  BY TreeIs DEF Path
<1>2. W(0)
  <2>1. SubSeq(p, 1, l) = p /\ l - 0 = l
    BY <1>1, SubSeqFull DEF Path
  <2> QED
    BY <2>1
<1>3. ASSUME NEW k \in 0..(l - 1), W(k)
      PROVE  W(k + 1)
  <2>1. l - k \in 1..Len(p) /\ l - (k + 1) = (l - k) - 1
    BY <1>1
  <2>2. /\ Front(SubSeq(p, 1, l - k)) = SubSeq(p, 1, (l - k) - 1)
        /\ SubSeq(p, 1, l - k) # <<>>
    BY <1>1, <2>1, FrontIs
  <2>3. Front(SubSeq(p, 1, l - k)) \in DOMAIN v
    BY <1>3, <2>2, ParentIs
  <2> QED
    BY <2>1, <2>2, <2>3
<1>4. T = {}
  <2> HIDE DEF W
  <2> SUFFICES ASSUME T # {} PROVE FALSE
    OBVIOUS
  <2>1. T \subseteq Nat
    BY <1>1
  <2>2. PICK n \in T : \A m \in T : n <= m
    <3> HIDE DEF T
    <3> QED
      BY <2>1, NatMin
  <2>3. n # 0
    BY <1>2, <2>2
  <2>4. n - 1 \in 0..(l - 1) /\ (n - 1) + 1 = n /\ ~(n <= n - 1)
    BY <1>1, <2>2, <2>3
  <2>5. W(n - 1)
    BY <1>1, <2>2, <2>4
  <2> QED
    BY <1>3, <2>2, <2>4, <2>5
<1>5. l - j \in 0..l /\ l - (l - j) = j /\ j \in 1..Len(p)
  BY <1>1
<1>6. W(l - j)
  BY <1>4, <1>5
<1>7. SubSeq(p, 1, j) \in DOMAIN v
  BY <1>5, <1>6
<1>8. /\ Front(SubSeq(p, 1, j)) = SubSeq(p, 1, j - 1) /\ Last(SubSeq(p, 1, j)) = p[j]
      /\ SubSeq(p, 1, j) # <<>>
  BY <1>1, FrontIs
<1> QED
  BY <1>7, <1>8, ParentIs

(* What is read of a table is read together with all that comes before it. *)
LEMMA CutBefore ==
  ASSUME NEW e, NEW g, NEW p \in Path, NEW q \in Path, Len(q) <= Len(p),
         \A k \in 1..Len(q) : q[k] <= p[k] /\ (k < Len(q) => q[k] = p[k]),
         Cut(e, g, q)
  PROVE  Cut(e, g, p)
<1>1. PICK j \in 1..Len(q) : \E i \in 1..q[j] : g[Append(SubSeq(q, 1, j - 1), i)] = Nil
  BY DEF Cut
<1>2. PICK i \in 1..q[j] : g[Append(SubSeq(q, 1, j - 1), i)] = Nil
  BY <1>1
<1>3. Len(p) \in Nat /\ Len(q) \in Nat /\ j \in 1..Len(p) /\ p[j] \in Nat /\ q[j] \in Nat /\ q[j] <= p[j]
  BY <1>1 DEF Path
<1>4. j - 1 \in 0..Len(q) /\ j - 1 \in 0..Len(p) /\ \A k \in 1..(j - 1) : k \in 1..Len(q) /\ k < Len(q)
  BY <1>3
<1> DEFINE x == SubSeq(q, 1, j - 1)
           y == SubSeq(p, 1, j - 1)
<1>5. x \in Path /\ Len(x) = j - 1 /\ \A k \in 1..(j - 1) : x[k] = q[k]
  BY <1>4, StepsOf
<1>6. y \in Path /\ Len(y) = j - 1 /\ \A k \in 1..(j - 1) : y[k] = p[k]
  BY <1>4, StepsOf
<1> HIDE DEF x, y
<1>7. \A k \in 1..(j - 1) : x[k] = y[k]
  BY <1>4, <1>5, <1>6
<1>8. x = y
  BY <1>5, <1>6, <1>7, SamePath
<1>9. i \in 1..p[j]
  BY <1>3
<1>10. g[Append(y, i)] = Nil
  BY <1>2, <1>8 DEF x
<1>11. e = "lua"
  BY DEF Cut
<1> QED
  BY <1>3, <1>9, <1>10, <1>11 DEF Cut, y

LEMMA CutAround ==
  ASSUME NEW e, NEW g, NEW p \in Path, p # <<>>, ~Cut(e, g, p)
  PROVE  /\ ~Cut(e, g, Front(p))
         /\ \A i \in 1..Last(p) : ~Cut(e, g, Append(Front(p), i))
<1> DEFINE l == Len(p)
           f == Front(p)
<1>1. /\ l \in Nat \ {0} /\ f = SubSeq(p, 1, l - 1) /\ Last(p) = p[l] /\ Last(p) \in Nat \ {0}
  BY PathIs
<1>2. l - 1 \in 0..Len(p) /\ \A k \in 1..l : p[k] \in Nat
  BY <1>1 DEF Path
<1>3. f \in Path /\ Len(f) = l - 1 /\ \A k \in 1..(l - 1) : f[k] = p[k]
  <2> DEFINE j == l - 1
  <2>1. j \in 0..Len(p)
    BY <1>2
  <2> HIDE DEF j
  <2>2. /\ SubSeq(p, 1, j) \in Path /\ Len(SubSeq(p, 1, j)) = j
        /\ \A i \in 1..j : SubSeq(p, 1, j)[i] = p[i]
    BY <2>1, StepsOf
  <2> HIDE DEF f
  <2>3. f = SubSeq(p, 1, j)
    BY <1>1 DEF j
  <2> QED
    BY <2>2, <2>3 DEF j
<1> HIDE DEF f
<1>4. ~Cut(e, g, f)
  <2>1. Len(f) <= Len(p) /\ \A k \in 1..Len(f) : f[k] <= p[k] /\ (k < Len(f) => f[k] = p[k])
    BY <1>1, <1>2, <1>3
  <2> QED
    BY <1>3, <2>1, CutBefore
<1>5. ASSUME NEW i \in 1..Last(p)
      PROVE  ~Cut(e, g, Append(f, i))
  <2> DEFINE q == Append(f, i)
  <2>1. i \in Nat \ {0} /\ i <= Last(p)
    BY <1>1
  <2>2. q \in Path /\ Len(q) = Len(f) + 1 /\ q[Len(f) + 1] = i /\ \A k \in 1..Len(f) : q[k] = f[k]
    BY <1>3, <2>1, AppendIs
  <2> HIDE DEF q
  <2>3. Len(q) = l /\ q[l] = i /\ \A k \in 1..(l - 1) : q[k] = p[k]
    BY <1>1, <1>3, <2>2
  <2>4. Len(q) <= Len(p)
    BY <1>1, <2>3
  <2>5. \A k \in 1..Len(q) : q[k] <= p[k] /\ (k < Len(q) => q[k] = p[k])
    <3> SUFFICES ASSUME NEW k \in 1..l PROVE q[k] <= p[k] /\ (k < l => q[k] = p[k])
      BY <2>3
    <3>1. CASE k = l
      BY <1>1, <2>1, <2>3, <3>1
    <3>2. CASE k # l
      <4>1. k \in 1..(l - 1)
        BY <1>1, <3>2
      <4> QED
        BY <1>2, <2>3, <4>1
    <3> QED
      BY <3>1, <3>2
  <2>6. ~Cut(e, g, q)
    BY <2>2, <2>4, <2>5, CutBefore
  <2> QED
    BY <2>6 DEF q
<1> QED
  BY <1>4, <1>5 DEF f

LEMMA RaisesIsStrange ==
  ASSUME NEW e, NEW g, Raises(e, g)
  PROVE  Strange(e, g)
<1>1. PICK p \in DOMAIN g : (e = "rb" /\ g[p] \in {Other, Trap, Wide}) \/ (e = "lua" /\ g[p] = Trap)
  BY DEF Raises
<1>2. g[p] \in Range(g)
  BY DEF Range
<1>3. g[p] \in {Other, Trap} \/ (g[p] = Wide /\ e # "py")
  BY <1>1
<1> QED
  BY <1>2, <1>3 DEF Strange

(* What the application gets is a value of its own; a NULL in it was       *)
(* something that has no counterpart, and in Ruby that raises.             *)
LEMMA InIs ==
  ASSUME NEW e \in Engines, NEW g, Tree(g, Foreign)
  PROVE  /\ Tree(In(e, g), Native)
         /\ HasNull(In(e, g)) => Strange(e, g) /\ (e = "rb" => Raises(e, g))
<1> DEFINE v == In(e, g)
           D == {q \in DOMAIN g : ~Cut(e, g, q)}
<1>1. DOMAIN g \subseteq Path /\ <<>> \in DOMAIN g /\ \A p \in DOMAIN g : g[p] \in Foreign
  BY TreeIs
<1>2. v = [p \in D |-> Got(e, g[p])]
  BY DEF In
<1>3. \A p \in D : g[p] \in Foreign
  BY <1>1
<1> HIDE DEF D
<1>4. DOMAIN v = D /\ \A p \in D : v[p] = Got(e, g[p])
  BY <1>2
<1>5. \A p \in D : Got(e, g[p]) \in Native
  BY <1>3, GotIs
<1>6. v \in [DOMAIN v -> Native]
  <2>1. v \in [D -> Native]
    BY <1>2, <1>5
  <2> QED
    BY <1>4, <2>1
<1>7. DOMAIN v \subseteq Path
  BY <1>1, <1>4 DEF D
<1>8. <<>> \in DOMAIN v
  <2>1. ~Cut(e, g, <<>>)
    BY EmptySeq DEF Cut
  <2> QED
    BY <1>1, <1>4, <2>1 DEF D
<1>9. ASSUME NEW p \in DOMAIN v, p # <<>>
      PROVE  /\ Front(p) \in DOMAIN v /\ v[Front(p)] = Arr
             /\ \A i \in 1..Last(p) : Append(Front(p), i) \in DOMAIN v
  <2>1. p \in DOMAIN g /\ ~Cut(e, g, p) /\ p \in Path
    BY <1>1, <1>4 DEF D
  <2>2. Front(p) \in DOMAIN g /\ g[Front(p)] = Arr /\ \A i \in 1..Last(p) : Append(Front(p), i) \in DOMAIN g
    BY <1>9, <2>1, ParentIs
  <2>3. ~Cut(e, g, Front(p)) /\ \A i \in 1..Last(p) : ~Cut(e, g, Append(Front(p), i))
    BY <1>9, <2>1, CutAround
  <2>4. Front(p) \in D /\ \A i \in 1..Last(p) : Append(Front(p), i) \in D
    BY <2>2, <2>3 DEF D
  <2>5. Got(e, g[Front(p)]) = Arr
    BY <1>3, <2>2, <2>4, GotIs
  <2> QED
    BY <1>4, <2>4, <2>5
<1> HIDE DEF v
<1>10. Tree(v, Native)
  BY <1>6, <1>7, <1>8, <1>9 DEF Tree, Path
<1>11. HasNull(v) => Strange(e, g) /\ (e = "rb" => Raises(e, g))
  <2> SUFFICES ASSUME HasNull(v) PROVE Strange(e, g) /\ (e = "rb" => Raises(e, g))
    OBVIOUS
  <2>1. PICK p \in D : v[p] = Null
    BY <1>4 DEF HasNull, Range
  <2>2. g[p] \in {Other, Trap} \/ (g[p] = Wide /\ e # "py")
    BY <1>3, <1>4, <2>1, GotIs
  <2>3. p \in DOMAIN g /\ ~Cut(e, g, p) /\ g[p] \in Range(g)
    BY DEF D, Range
  <2>4. Strange(e, g)
    BY <2>2, <2>3 DEF Strange
  <2>5. e = "rb" => Raises(e, g)
    BY <2>2, <2>3 DEF Raises
  <2> QED
    BY <2>4, <2>5
<1> QED
  BY <1>10, <1>11 DEF v

(* What the guest gets has a counterpart in all its parts. *)
LEMMA OutIs ==
  ASSUME NEW e \in Engines, NEW v, Tree(v, Native), ~HasNull(v)
  PROVE  /\ Tree(Out(e, v), Foreign) /\ DOMAIN Out(e, v) = DOMAIN v
         /\ \A p \in DOMAIN v : v[p] \in Native \ {Null} /\ Out(e, v)[p] = Sent(e, v[p])
<1> DEFINE g == Out(e, v)
<1>1. DOMAIN v \subseteq Path /\ <<>> \in DOMAIN v /\ \A p \in DOMAIN v : v[p] \in Native \ {Null}
  BY TreeIs DEF HasNull, Range
<1>2. DOMAIN g = DOMAIN v /\ \A p \in DOMAIN v : g[p] = Sent(e, v[p])
  BY DEF Out
<1>3. \A p \in DOMAIN v : Sent(e, v[p]) \in Foreign
  BY <1>1, SentIs
<1>4. g \in [DOMAIN g -> Foreign]
  BY <1>3 DEF Out
<1>5. ASSUME NEW p \in DOMAIN g, p # <<>>
      PROVE  /\ Front(p) \in DOMAIN g /\ g[Front(p)] = Arr
             /\ \A i \in 1..Last(p) : Append(Front(p), i) \in DOMAIN g
  <2>1. Front(p) \in DOMAIN v /\ v[Front(p)] = Arr /\ \A i \in 1..Last(p) : Append(Front(p), i) \in DOMAIN v
    BY <1>2, <1>5, ParentIs
  <2>2. Sent(e, v[Front(p)]) = Arr
    BY <1>1, <2>1, SentIs
  <2> QED
    BY <1>2, <2>1, <2>2
<1> HIDE DEF g
<1>6. Tree(g, Foreign)
  BY <1>1, <1>2, <1>4, <1>5 DEF Tree, Path
<1> QED
  BY <1>1, <1>2, <1>6 DEF g

(* A value that a guest hands back as it got it is what it was, exactly if *)
(* the language loses no part of it.                                       *)
LEMMA ValueRoundTrip ==
  ASSUME NEW e \in Engines, NEW v, Tree(v, Native), ~HasNull(v)
  PROVE  In(e, Out(e, v)) = v <=> Lossless(e, v)
<1> DEFINE g == Out(e, v)
           w == In(e, g)
           D == {q \in DOMAIN g : ~Cut(e, g, q)}
<1>1. DOMAIN v \subseteq Path /\ <<>> \in DOMAIN v
  BY TreeIs
<1>2. DOMAIN g = DOMAIN v /\ \A p \in DOMAIN v : v[p] \in Native \ {Null} /\ g[p] = Sent(e, v[p])
  BY OutIs
<1> HIDE DEF g
<1>3. w = [p \in D |-> Got(e, g[p])]
  BY DEF In
<1>4. D \subseteq DOMAIN v
  BY <1>2
<1> HIDE DEF w
<1>5. \A p \in D : Got(e, g[p]) = v[p] <=> ~Lossy(e, v[p])
  BY <1>2, <1>4, LabelRoundTrip
<1>6. \A p \in DOMAIN v : g[p] = Nil <=> v[p] = Nil
  BY <1>2, SentIs
<1>7. ASSUME Lossless(e, v)
      PROVE  w = v
  <2>1. ASSUME NEW p \in DOMAIN v PROVE ~Cut(e, g, p)
    <3> SUFFICES ASSUME e = "lua", NEW j \in 1..Len(p), NEW i \in 1..p[j],
                        g[Append(SubSeq(p, 1, j - 1), i)] = Nil
                 PROVE  FALSE
      BY DEF Cut
    <3> DEFINE q == Append(SubSeq(p, 1, j - 1), i)
    <3>1. q \in DOMAIN v
      BY OnTheWay
    <3>2. q # <<>>
      <4>1. p \in Path /\ j - 1 \in 0..Len(p) /\ i \in Nat \ {0}
        BY <1>1 DEF Path
      <4>2. SubSeq(p, 1, j - 1) \in Path
        BY <4>1, StepsOf
      <4>3. Len(q) = Len(SubSeq(p, 1, j - 1)) + 1
        BY <4>1, <4>2, AppendIs
      <4>4. Len(SubSeq(p, 1, j - 1)) \in Nat
        BY <4>2 DEF Path
      <4> HIDE DEF q
      <4>5. Len(q) # 0
        BY <4>3, <4>4
      <4> QED
        BY <4>5
    <3> HIDE DEF q
    <3>3. g[q] = Nil
      BY DEF q
    <3>4. v[q] = Nil
      BY <1>6, <3>1, <3>3
    <3> QED
      BY <1>7, <3>1, <3>2, <3>4 DEF Lossless
  <2>2. D = DOMAIN v
    BY <1>2, <2>1
  <2> HIDE DEF D
  <2>3. \A p \in DOMAIN v : ~Lossy(e, v[p])
    BY <1>7 DEF Lossless
  <2>4. \A p \in D : Got(e, g[p]) = v[p]
    BY <1>5, <2>2, <2>3
  <2>5. w = [p \in DOMAIN v |-> v[p]]
    BY <1>3, <2>2, <2>4
  <2>6. v = [p \in DOMAIN v |-> v[p]]
    BY DEF Tree
  <2> QED
    BY <2>5, <2>6
<1>8. ASSUME w = v
      PROVE  Lossless(e, v)
  <2>1. D = DOMAIN v
    <3> HIDE DEF D
    <3>1. DOMAIN w = D
      BY <1>3
    <3> QED
      BY <1>8, <3>1
  <2>2. ASSUME NEW p \in DOMAIN v
        PROVE  ~Lossy(e, v[p])
    <3>1. p \in D
      BY <2>1
    <3> HIDE DEF D
    <3>2. w[p] = Got(e, g[p])
      BY <1>3, <3>1
    <3> QED
      BY <1>5, <1>8, <3>1, <3>2
  <2>3. ASSUME NEW p \in DOMAIN v, e = "lua", p # <<>>, v[p] = Nil
        PROVE  FALSE
    <3>1. p \in Path /\ Len(p) \in Nat \ {0} /\ Front(p) = SubSeq(p, 1, Len(p) - 1) /\ Last(p) = p[Len(p)]
          /\ Last(p) \in Nat \ {0}
      BY <1>1, <2>3, PathIs
    <3>2. Append(Front(p), Last(p)) = p
      BY <2>3, <3>1, AppendFront
    <3>3. g[p] = Nil
      BY <1>6, <2>3
    <3> DEFINE j == Len(p)
               i == Last(p)
    <3>4. j \in 1..Len(p) /\ i \in 1..p[j] /\ g[Append(SubSeq(p, 1, j - 1), i)] = Nil
      <4>1. j \in 1..Len(p)
        BY <3>1
      <4>2. i \in 1..p[j]
        BY <3>1
      <4>3. Append(SubSeq(p, 1, j - 1), i) = p
        BY <3>1, <3>2
      <4> QED
        BY <3>3, <4>1, <4>2, <4>3
    <3>5. Cut(e, g, p)
      <4> HIDE DEF j, i
      <4> QED
        BY <2>3, <3>4 DEF Cut
    <3>6. p \in D
      BY <2>1
    <3> QED
      BY <3>5, <3>6
  <2> QED
    BY <2>2, <2>3 DEF Lossless
<1> QED
  BY <1>7, <1>8 DEF w, g

LEMMA KindIs ==
  ASSUME NEW v, Tree(v, Native)
  PROVE  KindOf(v) \in Kinds /\ (KindOf(v) = "NULL" => HasNull(v))
<1> DEFINE x == v[<<>>]
<1>1. x \in Native /\ <<>> \in DOMAIN v
  BY TreeIs
<1>2. KindOf(v) \in Kinds
  <2> HIDE DEF x
  <2>1. \/ KindOf(v) = "void" \/ KindOf(v) = "boolean" \/ KindOf(v) = "int" \/ KindOf(v) = "float"
        \/ KindOf(v) = "string" \/ KindOf(v) = "array" \/ KindOf(v) = "NULL"
    <3> USE DEF KindOf, x
    <3>1. CASE Is(x, "nil") \/ Is(x, "bool") \/ Is(x, "int")
      BY <3>1
    <3>2. CASE Is(x, "float") \/ Is(x, "str") \/ Is(x, "arr")
      BY <3>2
    <3>3. CASE /\ ~Is(x, "nil") /\ ~Is(x, "bool") /\ ~Is(x, "int")
               /\ ~Is(x, "float") /\ ~Is(x, "str") /\ ~Is(x, "arr")
      BY <3>3
    <3> QED
      BY <3>1, <3>2, <3>3
  <2> QED
    BY <2>1 DEF Kinds, Types
<1>3. KindOf(v) = "NULL" =>
        ~Is(x, "nil") /\ ~Is(x, "bool") /\ ~Is(x, "int") /\ ~Is(x, "float") /\ ~Is(x, "str") /\ ~Is(x, "arr")
  BY DEF KindOf
<1> HIDE DEF x
<1>4. ASSUME KindOf(v) = "NULL"
      PROVE  x = Null
  <2>1. x # Nil /\ x # Arr
    BY <1>3, <1>4, IsOnly
  <2>2. (\A b : x # Bool(b)) /\ (\A b : x # Integer(b)) /\ (\A b : x # Str(b))
    BY <1>3, <1>4, IsOnly
  <2>3. \A n, h : x # Float(n, h)
    BY <1>3, <1>4, IsOnly
  <2> QED
    BY <1>1, <2>1, <2>2, <2>3, NativeIs
<1> QED
  BY <1>1, <1>2, <1>4 DEF HasNull, Range, x

LEMMA NoValueIs == Tree(NoValue, Native) /\ HasNull(NoValue)
<1>1. DOMAIN NoValue = {<<>>} /\ NoValue[<<>>] = Null
  BY DEF NoValue, Leaf
<1>2. Null \in Native
  BY DEF Native
<1>3. NoValue \in [{<<>>} -> Native]
  BY <1>2 DEF NoValue, Leaf
<1>4. <<>> \in Seq(Nat \ {0})
  BY EmptySeq
<1> QED
  BY <1>1, <1>3, <1>4 DEF Tree, HasNull, Range

(* void *)
LEMMA NilIs == Tree(Leaf(Nil), Native) /\ ~HasNull(Leaf(Nil)) /\ \A e : Leaf(Nil) = Out(e, Leaf(Nil))
<1>1. DOMAIN Leaf(Nil) = {<<>>} /\ Leaf(Nil)[<<>>] = Nil
  BY DEF Leaf
<1>2. Nil \in Native /\ Nil # Null
  BY IsOnly DEF Native, Common
<1>3. Leaf(Nil) \in [{<<>>} -> Native]
  BY <1>2 DEF Leaf
<1>4. <<>> \in Seq(Nat \ {0})
  BY EmptySeq
<1>5. ASSUME NEW e PROVE Leaf(Nil) = Out(e, Leaf(Nil))
  <2>1. Sent(e, Nil) = Nil
    BY IsOnly DEF Sent
  <2>2. Out(e, Leaf(Nil)) = [p \in {<<>>} |-> Sent(e, Leaf(Nil)[p])]
    BY <1>1 DEF Out
  <2> QED
    BY <1>1, <2>1, <2>2 DEF Leaf
<1> QED
  BY <1>1, <1>2, <1>3, <1>4, <1>5 DEF Tree, HasNull, Range

-----------------------------------------------------------------------------
(* What is known while a function of the application runs: how the         *)
(* arguments became what they are, and why it has not been entered.        *)
Running ==
  /\ \A i \in DOMAIN argv : Tree(argv[i], Native)
  /\ kinds = [i \in DOMAIN argv |-> KindOf(argv[i])]
  /\ Holed => ~sandboxed /\ engine # "rb" /\ "argument" \in odd
  /\ at = "crashed" => \E i \in DOMAIN kinds : kinds[i] = "NULL"

(* Guests are never given a NULL.  The application may have one inside of  *)
(* a value, if the guest is in the same process and not in Ruby.           *)
Holding ==
  /\ Tree(held, Native)
  /\ place = "guest" => ~HasNull(held) /\ own = Out(engine, held)
  /\ place = "application" /\ HasNull(held) =>
       held = NoValue \/ (engine # "rb" /\ ~sandboxed /\ "answer" \in odd)

(* Nothing goes on after an accident. *)
IInv ==
  /\ CInv /\ TypeOK
  /\ Holding
  /\ place = "native" => Running
  /\ place # "over" => accident = "none"
  /\ HostUnharmed /\ HarmHasCause

LEMMA TreeWithin ==
  ASSUME NEW v, Tree(v, Native \ {Null})
  PROVE  Tree(v, Native) /\ ~HasNull(v)
<1>1. v \in [DOMAIN v -> Native]
  BY DEF Tree
<1>2. \A p \in DOMAIN v : v[p] # Null
  BY TreeIs
<1> QED
  BY <1>1, <1>2 DEF Tree, HasNull, Range

(* What is fatal does not change. *)
LEMMA FatalIs ==
  ASSUME TypeOK, UNCHANGED <<engine, sandboxed>>
  PROVE  /\ Fatal' = Fatal
         /\ {"answer", "hole", "part", "beyond"} \subseteq Fatal
         /\ engine # "rb" => "argument" \in Fatal
         /\ engine \in {"py", "rb"} => "thrown" \in Fatal
         /\ engine = "lua" => {"trap", "deep"} \subseteq Fatal
         /\ ~sandboxed /\ engine # "js" => {"refused", "nothing"} \subseteq Fatal
BY DEF Fatal, When

(* How a property of harm is kept: by the cause that the step knows of. *)
LEMMA CauseIsNoted ==
  ASSUME TypeOK, UNCHANGED <<engine, sandboxed>>, NEW cause \in odd' \cap Fatal
  PROVE  HarmHasCause'
<1>1. Fatal' = Fatal
  BY FatalIs
<1> QED
  BY <1>1 DEF HarmHasCause

LEMMA InvariantStays == CInv /\ UNCHANGED cvars => CInv'
BY InvariantRest

LEMMA InvariantForget ==
  ASSUME CInv, Forget
  PROVE  CInv' /\ at' = "idle" /\ Len(argv') = Len(kinds')
<1>1. params' \in Seq(Types) /\ kinds' \in Seq(Kinds) /\ Len(params') = 0
  BY DEF Forget
<1>2. slots' \in [0..Len(params') -> Slot]
  <2>1. 0..Len(params') = {0}
    BY <1>1
  <2>2. QED
    BY <2>1 DEF Forget, Empty, Slot
<1>3. QED
  BY <1>1, <1>2 DEF Forget, CInv, CTypeOK, Places, Converting

LEMMA IInvInit == Init => IInv
<1> SUFFICES ASSUME Init PROVE IInv
  OBVIOUS
<1>1. CInv
  BY InvariantInit DEF Init
<1>2. TypeOK
  BY <1>1 DEF Init, CInit, CInv, TypeOK
<1>3. Holding
  BY NilIs DEF Init, Holding
<1> QED
  BY <1>1, <1>2, <1>3 DEF Init, IInv, HostUnharmed, HarmHasCause

(* Whatever harm is done, it is the last step. *)
LEMMA AfterHarm ==
  ASSUME IInv, NEW what \in {"null", "freed", "exception", "overwritten"},
         NEW value \in {"passed", "name", "arguments", "result", "returned", "thrown", "stack"},
         NEW whom \in {"application", "child"},
         Harm(what, value, whom), UNCHANGED cvars, part' \in BOOLEAN, odd' \subseteq Oddities,
         HostUnharmed', NEW cause \in odd' \cap Fatal
  PROVE  IInv'
<1>1. CInv' /\ CTypeOK'
  BY InvariantStays DEF IInv, CInv
<1>2. /\ place' = "over" /\ accident' = what /\ culprit' = value /\ victim' = whom
      /\ engine' = engine /\ sandboxed' = sandboxed /\ held' = held
  BY DEF Harm
<1>3. engine \in Engines /\ sandboxed \in BOOLEAN
  BY DEF IInv, TypeOK
<1>4. TypeOK'
  BY <1>1, <1>2, <1>3 DEF TypeOK
<1>5. Holding'
  BY <1>2 DEF IInv, Holding
<1>6. HarmHasCause'
  BY <1>2, CauseIsNoted DEF IInv
<1> QED
  BY <1>1, <1>2, <1>4, <1>5, <1>6 DEF IInv

(* A step without harm. *)
LEMMA AfterNoHarm ==
  ASSUME IInv, place # "over", NEW next \in {"application", "guest", "native", "stuck"},
         NoHarm(next), CInv', part' \in BOOLEAN, odd' \subseteq Oddities,
         Holding', next = "native" => at' # "idle" /\ Running', next # "native" => at' = "idle",
         Len(argv') = Len(kinds')
  PROVE  IInv'
<1>1. CTypeOK'
  BY DEF CInv
<1>2. /\ place' = next /\ accident' = accident /\ culprit' = culprit /\ victim' = victim
      /\ engine' = engine /\ sandboxed' = sandboxed
  BY DEF NoHarm
<1>3. accident = "none" /\ victim = "nobody" /\ engine \in Engines /\ sandboxed \in BOOLEAN
      /\ culprit \in {"nothing", "passed", "name", "arguments", "result", "returned", "thrown", "stack"}
  BY DEF IInv, TypeOK
<1>4. TypeOK'
  BY <1>1, <1>2, <1>3 DEF TypeOK
<1>5. HostUnharmed' /\ HarmHasCause'
  BY <1>2, <1>3 DEF HostUnharmed, HarmHasCause
<1> QED
  BY <1>2, <1>3, <1>4, <1>5 DEF IInv

(* The process of the guest is not the application's if it has its own. *)
LEMMA GuestProcessIs ==
  GuestProcess \in {"application", "child"} /\ (sandboxed => GuestProcess = "child")
BY DEF GuestProcess

LEMMA StepAppCalls ==
  ASSUME IInv, AppCalls
  PROVE  IInv'
<1>1. PICK v \in Values \cup {held} :
        /\ v # NoValue
        /\ odd' = (odd \cap Lasting) \cup When(Deep(v, 2), "deep")
        /\ IF HasNull(v) THEN Harm("null", "passed", "application")
           ELSE NoHarm("guest") /\ held' = v /\ own' = Out(engine, v)
  BY DEF AppCalls
<1>2. /\ place = "application" /\ UNCHANGED cvars /\ argv' = argv /\ result' = result
      /\ part' = part /\ part \in BOOLEAN /\ Tree(held, Native) /\ CInv' /\ TypeOK
      /\ at = "idle" /\ Len(argv) = Len(kinds) /\ odd \subseteq Oddities
  BY InvariantStays DEF AppCalls, NoNative, IInv, TypeOK, Holding
<1>3. Tree(v, Native) /\ (HasNull(v) => v = held)
  BY <1>2, NativesAssumption, TreeWithin
<1>4. odd' \subseteq Oddities /\ ("answer" \in odd => "answer" \in odd')
  BY <1>1, <1>2 DEF When, Lasting, Oddities
<1>5. CASE HasNull(v)
  <2>1. Harm("null", "passed", "application")
    BY <1>1, <1>5
  <2>2. ~sandboxed /\ "answer" \in odd
    BY <1>1, <1>2, <1>3, <1>5 DEF IInv, Holding
  <2>3. HostUnharmed'
    BY <2>1, <2>2 DEF Harm, HostUnharmed
  <2>4. "answer" \in odd' \cap Fatal
    BY <1>2, <1>4, <2>1, <2>2, FatalIs DEF Harm
  <2> QED
    BY <1>2, <1>4, <2>1, <2>3, <2>4, AfterHarm
<1>6. CASE ~HasNull(v)
  <2>1. NoHarm("guest") /\ held' = v /\ own' = Out(engine, v)
    BY <1>1, <1>6
  <2>2. Holding'
    BY <1>3, <1>6, <2>1 DEF NoHarm, Holding
  <2>3. at' = "idle" /\ Len(argv') = Len(kinds')
    BY <1>2 DEF cvars
  <2> QED
    BY <1>2, <1>4, <2>1, <2>2, <2>3, AfterNoHarm
<1> QED
  BY <1>5, <1>6

LEMMA StepLookupRaises ==
  ASSUME IInv, LookupRaises
  PROVE  IInv'
<1>1. /\ engine = "lua" /\ Harm("exception", "name", GuestProcess) /\ UNCHANGED cvars
      /\ part' = part /\ part \in BOOLEAN /\ TypeOK /\ odd' = odd \cup {"trap"} /\ odd \subseteq Oddities
  BY DEF LookupRaises, Notes, NoNative, IInv, TypeOK
<1>2. odd' \subseteq Oddities /\ "trap" \in odd'
  BY <1>1 DEF Oddities
<1>3. HostUnharmed'
  BY <1>1, GuestProcessIs DEF Harm, HostUnharmed
<1>4. "trap" \in odd' \cap Fatal
  BY <1>1, <1>2, FatalIs DEF Harm
<1> QED
  BY <1>1, <1>2, <1>3, <1>4, GuestProcessIs, AfterHarm

LEMMA StepReturns ==
  ASSUME IInv, NEW g, Tree(g, Foreign), Returns(g)
  PROVE  IInv'
<1> DEFINE ret == In(engine, g)
<1>1. /\ place = "guest" /\ UNCHANGED cvars /\ argv' = argv /\ result' = result
      /\ part' = part /\ part \in BOOLEAN /\ CInv' /\ engine \in Engines /\ TypeOK
      /\ at = "idle" /\ Len(argv) = Len(kinds) /\ odd \subseteq Oddities
      /\ sandboxed \in BOOLEAN
  BY InvariantStays DEF Returns, NoNative, IInv, TypeOK
<1>2. Tree(ret, Native) /\ (HasNull(ret) => Strange(engine, g) /\ (engine = "rb" => Raises(engine, g)))
  BY <1>1, InIs
<1>3. IF Raises(engine, g) THEN Harm("exception", "returned", GuestProcess)
      ELSE IF sandboxed /\ ret # NoValue /\ HasNull(ret) THEN Harm("null", "returned", "child")
      ELSE NoHarm("application") /\ held' = ret /\ own' = Leaf(Nil)
  BY DEF Returns
<1>4. odd' \subseteq Oddities /\ (Strange(engine, g) => "answer" \in odd')
  BY <1>1 DEF Returns, Notes, When, Oddities
<1> HIDE DEF ret
<1>5. CASE Raises(engine, g)
  <2>1. Harm("exception", "returned", GuestProcess)
    BY <1>3, <1>5
  <2>2. HostUnharmed'
    BY <2>1, GuestProcessIs DEF Harm, HostUnharmed
  <2>3. "answer" \in odd' \cap Fatal
    BY <1>1, <1>4, <1>5, <2>1, RaisesIsStrange, FatalIs DEF Harm
  <2> QED
    BY <1>1, <1>4, <2>1, <2>2, <2>3, GuestProcessIs, AfterHarm
<1>6. CASE ~Raises(engine, g) /\ sandboxed /\ ret # NoValue /\ HasNull(ret)
  <2>1. Harm("null", "returned", "child")
    BY <1>3, <1>6
  <2>2. HostUnharmed'
    BY <2>1 DEF Harm, HostUnharmed
  <2>3. "answer" \in odd' \cap Fatal
    BY <1>1, <1>2, <1>4, <1>6, <2>1, FatalIs DEF Harm
  <2> QED
    BY <1>1, <1>4, <2>1, <2>2, <2>3, AfterHarm
<1>7. CASE ~Raises(engine, g) /\ ~(sandboxed /\ ret # NoValue /\ HasNull(ret))
  <2>1. NoHarm("application") /\ held' = ret
    BY <1>3, <1>7
  <2>2. HasNull(ret) => engine # "rb" /\ "answer" \in odd'
    BY <1>2, <1>4, <1>7
  <2>3. Holding'
    BY <1>2, <1>7, <2>1, <2>2 DEF NoHarm, Holding
  <2>4. at' = "idle" /\ Len(argv') = Len(kinds')
    BY <1>1 DEF cvars
  <2> QED
    BY <1>1, <1>4, <2>1, <2>3, <2>4, AfterNoHarm
<1> QED
  BY <1>5, <1>6, <1>7

(* What the guest was given is a value of the guest. *)
LEMMA OwnIs ==
  ASSUME IInv, place = "guest"
  PROVE  own = Out(engine, held) /\ Tree(own, Foreign) /\ Tree(held, Native) /\ ~HasNull(held)
BY OutIs DEF IInv, Holding, TypeOK

LEMMA StepEchoes == ASSUME IInv, Echoes PROVE IInv'
BY OwnIs, StepReturns DEF Echoes, Returns

LEMMA StepGuestReturns == ASSUME IInv, GuestReturns PROVE IInv'
BY StepReturns, NativesAssumption DEF GuestReturns

LEMMA StepGuestFails ==
  ASSUME IInv, GuestFails
  PROVE  IInv'
<1>1. /\ place = "guest" /\ UNCHANGED cvars /\ argv' = argv
      /\ part' = part /\ part \in BOOLEAN /\ CInv' /\ TypeOK
      /\ at = "idle" /\ Len(argv) = Len(kinds)
      /\ odd' = odd \cup {"thrown"} /\ odd \subseteq Oddities
  BY InvariantStays DEF GuestFails, Notes, NoNative, IInv, TypeOK
<1>2. odd' \subseteq Oddities /\ "thrown" \in odd'
  BY <1>1 DEF Oddities
<1>3. CASE NoHarm("application") /\ held' = NoValue
  <2>1. Holding'
    BY <1>3, NoValueIs DEF NoHarm, Holding
  <2>2. at' = "idle" /\ Len(argv') = Len(kinds')
    BY <1>1 DEF cvars
  <2> QED
    BY <1>1, <1>2, <1>3, <2>1, <2>2, AfterNoHarm
<1>4. ASSUME NEW what \in {"exception", "null"}, engine \in {"py", "rb"}, Harm(what, "thrown", GuestProcess)
      PROVE  IInv'
  <2>1. HostUnharmed'
    BY <1>4, GuestProcessIs DEF Harm, HostUnharmed
  <2>2. "thrown" \in odd' \cap Fatal
    BY <1>1, <1>2, <1>4, FatalIs DEF Harm
  <2> QED
    BY <1>1, <1>2, <1>4, <2>1, <2>2, GuestProcessIs, AfterHarm
<1> QED
  BY <1>3, <1>4 DEF GuestFails

LEMMA UnusualIs == \A s : Unusual(s) \subseteq Oddities
BY DEF Unusual, When, Oddities

LEMMA StepGuestIsRefused ==
  ASSUME IInv, GuestIsRefused
  PROVE  IInv'
<1>1. /\ place = "guest" /\ UNCHANGED cvars /\ argv' = argv
      /\ part' = part /\ part \in BOOLEAN /\ CInv' /\ NoHarm("guest")
      /\ held' = Leaf(Nil) /\ own' = Leaf(Nil)
      /\ at = "idle" /\ Len(argv) = Len(kinds) /\ odd \subseteq Oddities
  BY InvariantStays DEF GuestIsRefused, Busy, NoNative, IInv, TypeOK
<1>2. Holding'
  BY <1>1, NilIs DEF NoHarm, Holding
<1>3. odd' \subseteq Oddities
  BY <1>1, UnusualIs DEF GuestIsRefused, Notes
<1>4. at' = "idle" /\ Len(argv') = Len(kinds')
  BY <1>1 DEF cvars
<1> QED
  BY <1>1, <1>2, <1>3, <1>4, AfterNoHarm

(* The arguments that a proxy takes. *)
LEMMA TakenIs ==
  ASSUME NEW p \in Seq(Types), NEW s \in Seq(Literals), ~Unconvertible(p, s, FALSE)
  PROVE  /\ Taken(p, s) \in Seq(Literals)
         /\ \A i \in DOMAIN Taken(p, s) : ~Raises(engine, Taken(p, s)[i]) /\ \E k \in DOMAIN s : s[k] = Taken(p, s)[i]
<1> DEFINE t == Taken(p, s)
<1>1. Len(p) \in Nat /\ Len(s) \in Nat /\ (engine = "lua" => Len(s) >= Len(p))
  BY DEF Unconvertible
<1>2. \A i \in DOMAIN t : ~Raises(engine, t[i])
  BY <1>1 DEF Unconvertible
<1>3. t \in Seq(Literals) /\ \A i \in DOMAIN t : \E k \in DOMAIN s : s[k] = t[i]
  <2>1. CASE engine # "lua"
    BY <2>1 DEF Taken
  <2>2. CASE engine = "lua"
    <3> DEFINE m == Len(s) - Len(p) + 1
               n == Len(s)
    <3>1. m \in Int /\ n \in Int /\ m \in 1..(n + 1) /\ DOMAIN s = 1..n
      BY <1>1, <2>2
    <3>2. \A i \in m..n : s[i] \in Literals /\ i \in DOMAIN s
      BY <3>1
    <3>3. t = SubSeq(s, m, n)
      BY <2>2 DEF Taken
    <3> HIDE DEF m, n
    <3>4. /\ SubSeq(s, m, n) \in Seq(Literals) /\ Len(SubSeq(s, m, n)) = IF m <= n THEN n - m + 1 ELSE 0
          /\ \A i \in 1..(n - m + 1) : SubSeq(s, m, n)[i] = s[m + i - 1]
      BY <3>1, <3>2, SubSeqProperties
    <3> HIDE DEF t
    <3>5. t \in Seq(Literals) /\ DOMAIN t = 1..Len(t)
      BY <3>3, <3>4
    <3>6. ASSUME NEW i \in 1..Len(t) PROVE m + i - 1 \in m..n /\ t[i] = s[m + i - 1]
      <4>1. i \in 1..(n - m + 1)
        BY <3>1, <3>3, <3>4, <3>6
      <4> QED
        BY <3>1, <3>3, <3>4, <4>1
    <3> QED
      BY <3>2, <3>5, <3>6
  <2> QED
    BY <2>1, <2>2
<1> QED
  BY <1>2, <1>3

LEMMA StepGuestCalls ==
  ASSUME IInv, GuestCalls
  PROVE  IInv'
<1>1. PICK p \in Signatures, s \in Calls :
        /\ ~Unconvertible(p, s, FALSE)
        /\ Notes(Unusual(s))
        /\ LET args == [i \in DOMAIN Taken(p, s) |-> In(engine, Taken(p, s)[i])]
           IN /\ argv' = args
              /\ IF sandboxed /\ \E i \in DOMAIN args : HasNull(args[i])
                 THEN Harm("null", "arguments", "child") /\ UNCHANGED cvars
                 ELSE /\ Enter(p, [i \in DOMAIN args |-> KindOf(args[i])])
                      /\ NoHarm("native") /\ Busy
  BY DEF GuestCalls
<1> DEFINE t == Taken(p, s)
           args == [i \in DOMAIN t |-> In(engine, t[i])]
           ks == [i \in DOMAIN args |-> KindOf(args[i])]
<1>2. /\ argv' = args
      /\ IF sandboxed /\ \E i \in DOMAIN args : HasNull(args[i])
         THEN Harm("null", "arguments", "child") /\ UNCHANGED cvars
         ELSE Enter(p, ks) /\ NoHarm("native") /\ Busy
  BY <1>1
<1>3. p \in Seq(Types) /\ s \in Seq(Literals)
  BY CFunctionAssumption, NativesAssumption
<1>4. /\ t \in Seq(Literals)
      /\ \A i \in DOMAIN t : ~Raises(engine, t[i]) /\ \E k \in DOMAIN s : s[k] = t[i]
  BY <1>1, <1>3, TakenIs
<1>5. /\ place = "guest" /\ part' = FALSE /\ result' = Leaf(Nil) /\ engine \in Engines
      /\ sandboxed \in BOOLEAN /\ TypeOK /\ odd \subseteq Oddities
  BY DEF GuestCalls, IInv, TypeOK
<1>6. odd' \subseteq Oddities /\ ((\E k \in DOMAIN s : Strange(engine, s[k])) => "argument" \in odd')
  <2>1. odd' = odd \cup Unusual(s)
    BY <1>1 DEF Notes
  <2>2. (\E k \in DOMAIN s : Strange(engine, s[k])) => "argument" \in Unusual(s)
    BY DEF Unusual, When
  <2> QED
    BY <1>5, <2>1, <2>2, UnusualIs
<1> HIDE DEF t
<1>7. DOMAIN t = 1..Len(t) /\ Len(t) \in Nat /\ \A i \in DOMAIN t : t[i] \in Literals
  BY <1>4
<1>8. DOMAIN args = 1..Len(t) /\ \A i \in 1..Len(t) : args[i] = In(engine, t[i])
  BY <1>7
<1> HIDE DEF args
<1>9. DOMAIN ks = 1..Len(t) /\ \A i \in 1..Len(t) : ks[i] = KindOf(args[i])
  BY <1>8
<1>10. \A i \in 1..Len(t) : /\ Tree(args[i], Native)
                            /\ HasNull(args[i]) => Strange(engine, t[i]) /\ (engine = "rb" => Raises(engine, t[i]))
  BY <1>5, <1>7, <1>8, InIs, NativesAssumption
<1>11. (\E i \in DOMAIN args : HasNull(args[i])) => engine # "rb" /\ "argument" \in odd'
  <2> SUFFICES ASSUME NEW i \in 1..Len(t), HasNull(args[i]) PROVE engine # "rb" /\ "argument" \in odd'
    BY <1>8
  <2>1. ~Raises(engine, t[i]) /\ Strange(engine, t[i]) /\ (engine = "rb" => Raises(engine, t[i]))
    BY <1>4, <1>7, <1>10
  <2>2. PICK k \in DOMAIN s : s[k] = t[i]
    BY <1>4, <1>7
  <2> QED
    BY <1>6, <2>1, <2>2
<1>12. CASE sandboxed /\ \E i \in DOMAIN args : HasNull(args[i])
  <2>1. Harm("null", "arguments", "child") /\ UNCHANGED cvars
    BY <1>2, <1>12
  <2>2. HostUnharmed'
    BY <2>1 DEF Harm, HostUnharmed
  <2>3. "argument" \in odd' \cap Fatal
    BY <1>5, <1>11, <1>12, <2>1, FatalIs DEF Harm
  <2> QED
    BY <1>5, <1>6, <2>1, <2>2, <2>3, AfterHarm
<1>13. CASE ~(sandboxed /\ \E i \in DOMAIN args : HasNull(args[i]))
  <2>1. Enter(p, ks) /\ NoHarm("native") /\ Busy
    BY <1>2, <1>13
  <2>2. \A i \in 1..Len(t) : ks[i] \in Kinds
    BY <1>9, <1>10, KindIs
  <2>3. ks \in Seq(Kinds) /\ Len(ks) = Len(t)
    <3> DEFINE n == Len(t)
    <3>1. n \in Nat /\ ks = [i \in 1..n |-> KindOf(args[i])] /\ \A i \in 1..n : KindOf(args[i]) \in Kinds
      BY <1>7, <1>8, <1>9, <2>2
    <3> HIDE DEF n
    <3> HIDE DEF ks
    <3> QED
      BY <3>1 DEF n
  <2>4. Len(args) = Len(t)
    <3> DEFINE n == Len(t)
    <3>1. n \in Nat /\ args = [i \in 1..n |-> In(engine, t[i])] /\ DOMAIN args = 1..n
      BY <1>7, <1>8 DEF args
    <3> HIDE DEF n
    <3>2. Len(args) = n
      BY <3>1
    <3> QED
      BY <3>2 DEF n
  <2> HIDE DEF ks
  <2>5. CInv'
    BY <1>3, <2>1, <2>3, InvariantEnter DEF IInv
  <2>6. /\ at' = "entered" /\ params' = p /\ kinds' = ks
    BY <2>1 DEF Enter
  <2>7. engine' = engine /\ sandboxed' = sandboxed /\ place' = "native" /\ held' = Leaf(Nil)
    BY <2>1 DEF NoHarm, Busy
  <2>8. Holding'
    BY <2>7, NilIs DEF Holding
  <2>9. Running'
    <3>1. \A i \in DOMAIN argv' : Tree(argv'[i], Native)
      BY <1>2, <1>8, <1>10
    <3>2. kinds' = [i \in DOMAIN argv' |-> KindOf(argv'[i])]
      BY <1>2, <2>6 DEF ks
    <3>3. Holed' => ~sandboxed' /\ engine' # "rb" /\ "argument" \in odd'
      BY <1>2, <1>11, <1>13, <2>7 DEF Holed
    <3> QED
      BY <3>1, <3>2, <3>3, <2>6 DEF Running
  <2>10. Len(argv') = Len(kinds')
    BY <1>2, <2>3, <2>4, <2>6
  <2> QED
    BY <1>5, <1>6, <2>1, <2>5, <2>6, <2>8, <2>9, <2>10, AfterNoHarm
<1> QED
  BY <1>12, <1>13

(* cfunction_call goes on. *)
LEMMA StepInFunction ==
  ASSUME IInv, InFunction
  PROVE  IInv'
<1>1. /\ place = "native" /\ CStep /\ CInv /\ CTypeOK /\ Running /\ TypeOK /\ accident = "none"
      /\ UNCHANGED <<engine, sandboxed, place, held, own, argv, result, part, accident, culprit, victim>>
      /\ odd \subseteq odd' /\ odd' \subseteq odd \cup {"beyond"} /\ odd \subseteq Oddities
  BY DEF InFunction, IInv, CInv, TypeOK, Notes, When
<1>2. CInv'
  BY <1>1, InvariantFill, InvariantFillText, InvariantRest DEF CStep
<1>3. kinds' = kinds /\ params' = params
  BY <1>1 DEF CStep, RefuseCall, Accept, Fill, FillText, RefuseArgument, MeetNull, CallC, ReturnC
<1>4. at' # "idle"
  BY <1>1 DEF TypeOK, CStep, RefuseCall, Accept, Fill, FillText, RefuseArgument, MeetNull, CallC, ReturnC
<1>5. at' = "crashed" => \E i \in DOMAIN kinds' : kinds'[i] = "NULL"
  <2> SUFFICES ASSUME at' = "crashed" PROVE \E i \in DOMAIN kinds : kinds[i] = "NULL"
    BY <1>3
  <2>1. MeetNull
    BY <1>1 DEF CStep, RefuseCall, Accept, Fill, FillText, RefuseArgument, CallC, ReturnC, More
  <2>2. filled + 1 \in 1..Len(params) /\ Len(kinds) = Len(params) /\ kinds[filled + 1] = "NULL"
    BY <1>1, <2>1 DEF MeetNull, More, Kind, CInv, CTypeOK, Converting
  <2>3. DOMAIN kinds = 1..Len(kinds)
    BY <1>1 DEF CTypeOK
  <2> QED
    BY <2>2, <2>3
<1>6. Running'
  BY <1>1, <1>3, <1>5 DEF Running, Holed
<1>7. odd' \subseteq Oddities
  BY <1>1 DEF Oddities
<1>8. TypeOK'
  BY <1>1, <1>2, <1>3, <1>4, <1>7 DEF TypeOK, CInv
<1>9. Holding'
  BY <1>1 DEF IInv, Holding
<1>10. HostUnharmed' /\ HarmHasCause'
  <2>1. accident' = "none" /\ victim' = "nobody"
    BY <1>1 DEF TypeOK
  <2> QED
    BY <2>1 DEF HostUnharmed, HarmHasCause
<1> QED
  BY <1>1, <1>2, <1>6, <1>8, <1>9, <1>10 DEF IInv

LEMMA StepNullArgument ==
  ASSUME IInv, NullArgument
  PROVE  IInv'
<1>1. /\ place = "native" /\ at = "crashed" /\ Harm("null", "arguments", "application")
      /\ odd' = odd /\ UNCHANGED cvars /\ part' = part
      /\ part \in BOOLEAN /\ Running /\ TypeOK /\ odd \subseteq Oddities
  BY DEF NullArgument, NoNative, IInv, TypeOK
<1>2. Holed
  <2>1. PICK i \in DOMAIN kinds : kinds[i] = "NULL"
    BY <1>1 DEF Running
  <2>2. i \in DOMAIN argv /\ KindOf(argv[i]) = "NULL" /\ Tree(argv[i], Native)
    BY <1>1, <2>1 DEF Running
  <2> QED
    BY <2>2, KindIs DEF Holed
<1>3. ~sandboxed /\ engine # "rb" /\ "argument" \in odd
  BY <1>1, <1>2 DEF Running
<1>4. HostUnharmed'
  BY <1>1, <1>3 DEF Harm, HostUnharmed
<1>5. "argument" \in odd' \cap Fatal
  BY <1>1, <1>3, FatalIs DEF Harm
<1> QED
  BY <1>1, <1>4, <1>5, AfterHarm

(* A stack that was written over shows. *)
LEMMA StepOverwritten ==
  ASSUME IInv, Overwritten
  PROVE  IInv'
<1>1. /\ odd' = odd /\ UNCHANGED cvars /\ part' = part /\ part \in BOOLEAN /\ TypeOK /\ odd \subseteq Oddities
  BY DEF Overwritten, NoNative, IInv, TypeOK
<1>2. CASE "beyond" \in odd /\ Harm("overwritten", "stack", "application")
  <2>1. HostUnharmed'
    BY <1>1, <1>2 DEF Harm, HostUnharmed
  <2>2. "beyond" \in odd' \cap Fatal
    BY <1>1, <1>2, FatalIs DEF Harm
  <2> QED
    BY <1>1, <1>2, <2>1, <2>2, AfterHarm
<1>3. CASE engine = "lua" /\ "deep" \in odd /\ Harm("overwritten", "stack", GuestProcess)
  <2>1. HostUnharmed'
    BY <1>1, <1>3, GuestProcessIs DEF Harm, HostUnharmed
  <2>2. "deep" \in odd' \cap Fatal
    BY <1>1, <1>3, FatalIs DEF Harm
  <2> QED
    BY <1>1, <1>3, <2>1, <2>2, GuestProcessIs, AfterHarm
<1> QED
  BY <1>2, <1>3 DEF Overwritten

LEMMA StepNativeFails ==
  ASSUME IInv, NativeFails
  PROVE  IInv'
<1>1. /\ place = "native" /\ (at = "refused" \/ at = "returned") /\ Running /\ part' = FALSE /\ CInv /\ TypeOK
      /\ odd' = odd \cup {IF at = "refused" THEN "refused" ELSE "nothing"} /\ odd \subseteq Oddities
  BY DEF NativeFails, Notes, IInv, TypeOK
<1>2. odd' \subseteq Oddities /\ odd \subseteq odd' /\ \E c \in {"refused", "nothing"} : c \in odd'
  BY <1>1 DEF Oddities
<1>3. CASE /\ ~sandboxed /\ Holed /\ Harm("null", "arguments", "application")
           /\ UNCHANGED <<cvars, argv>>
  <2>1. "argument" \in odd /\ engine # "rb"
    BY <1>1, <1>3 DEF Running
  <2>2. HostUnharmed'
    BY <1>3 DEF Harm, HostUnharmed
  <2>3. "argument" \in odd' \cap Fatal
    BY <1>1, <1>2, <1>3, <2>1, FatalIs DEF Harm
  <2> QED
    BY <1>1, <1>2, <1>3, <2>2, <2>3, AfterHarm
<1>4. CASE /\ ~ChecksResult /\ Harm("null", "result", "application")
           /\ UNCHANGED <<cvars, argv>>
  <2>1. engine # "js" /\ ~sandboxed
    BY <1>4 DEF ChecksResult
  <2>2. HostUnharmed'
    BY <1>4, <2>1 DEF Harm, HostUnharmed
  <2>3. {"refused", "nothing"} \subseteq Fatal
    BY <1>1, <1>4, <2>1, FatalIs DEF Harm
  <2>4. PICK c \in {"refused", "nothing"} : c \in odd' \cap Fatal
    BY <1>2, <2>3
  <2> QED
    BY <1>1, <1>2, <1>4, <2>2, <2>4, AfterHarm
<1>5. CASE NoHarm(IF sandboxed THEN "stuck" ELSE "guest") /\ Busy /\ Forget
  <2> DEFINE next == IF sandboxed THEN "stuck" ELSE "guest"
  <2>1. next \in {"application", "guest", "native", "stuck"} /\ next # "native" /\ NoHarm(next)
    BY <1>5
  <2> HIDE DEF next
  <2>2. CInv' /\ at' = "idle" /\ Len(argv') = Len(kinds')
    BY <1>1, <1>5, InvariantForget
  <2>3. place' # "application"
    BY <1>5 DEF NoHarm
  <2>4. Holding'
    BY <1>5, <2>3, NilIs DEF Holding, Busy
  <2> QED
    BY <1>1, <1>2, <2>1, <2>2, <2>4, AfterNoHarm
<1> QED
  BY <1>3, <1>4, <1>5 DEF NativeFails

LEMMA StepNativeReturns ==
  ASSUME IInv, NativeReturns
  PROVE  IInv'
<1>1. place = "native" /\ at = "returned" /\ Running /\ CInv /\ TypeOK /\ odd \subseteq Oddities
  BY DEF NativeReturns, IInv, TypeOK
<1>2. PICK r \in (Returned \ {NoValue}) \cup Given :
        /\ result' = r
        /\ part' \in BOOLEAN /\ (part' => r \in Given) /\ (~part' => r \in Returned \ {NoValue})
        /\ Notes(When(part', "part") \cup When(HasNull(r), "hole") \cup When(Deep(r, 2), "deep"))
        /\ IF Holed THEN Harm("null", "arguments", "application") /\ UNCHANGED <<cvars, argv>>
           ELSE IF HasNull(r) \/ part'
           THEN /\ Harm(IF part' THEN "freed" ELSE "null", "result", "application")
                /\ UNCHANGED <<cvars, argv>>
           ELSE NoHarm("guest") /\ held' = r /\ own' = Out(engine, r) /\ Forget
  BY DEF NativeReturns
<1>3. ~part' => Tree(r, Native) /\ r # NoValue
  BY <1>2, NativesAssumption
<1>4. /\ odd' \subseteq Oddities /\ odd \subseteq odd'
      /\ part' => "part" \in odd'
      /\ HasNull(r) => "hole" \in odd'
  BY <1>1, <1>2 DEF Notes, When, Oddities
<1>5. CASE Holed
  <2>1. Harm("null", "arguments", "application") /\ UNCHANGED cvars
    BY <1>2, <1>5
  <2>2. ~sandboxed /\ engine # "rb" /\ "argument" \in odd
    BY <1>1, <1>5 DEF Running
  <2>3. HostUnharmed'
    BY <2>1, <2>2 DEF Harm, HostUnharmed
  <2>4. "argument" \in odd' \cap Fatal
    BY <1>1, <1>4, <2>1, <2>2, FatalIs DEF Harm
  <2> QED
    BY <1>2, <1>4, <2>1, <2>3, <2>4, AfterHarm
<1>6. CASE ~Holed /\ part'
  <2>1. Harm("freed", "result", "application") /\ UNCHANGED cvars
    BY <1>2, <1>6
  <2>2. HostUnharmed'
    BY <1>6, <2>1 DEF Harm, HostUnharmed
  <2>3. "part" \in odd' \cap Fatal
    BY <1>1, <1>4, <1>6, <2>1, FatalIs DEF Harm
  <2> QED
    BY <1>2, <1>4, <2>1, <2>2, <2>3, AfterHarm
<1>7. CASE ~Holed /\ ~part' /\ HasNull(r)
  <2>1. Harm("null", "result", "application") /\ UNCHANGED cvars
    BY <1>2, <1>7
  <2>2. HostUnharmed'
    BY <1>2, <1>3, <1>7, <2>1 DEF Harm, HostUnharmed
  <2>3. "hole" \in odd' \cap Fatal
    BY <1>1, <1>4, <1>7, <2>1, FatalIs DEF Harm
  <2> QED
    BY <1>2, <1>4, <2>1, <2>2, <2>3, AfterHarm
<1>8. CASE ~Holed /\ ~part' /\ ~HasNull(r)
  <2>1. NoHarm("guest") /\ held' = r /\ own' = Out(engine, r) /\ Forget
    BY <1>2, <1>8
  <2>2. engine' = engine /\ place' = "guest"
    BY <2>1 DEF NoHarm
  <2>3. CInv' /\ at' = "idle" /\ Len(argv') = Len(kinds')
    BY <1>1, <2>1, InvariantForget
  <2>4. Holding'
    BY <1>3, <1>8, <2>1, <2>2 DEF Holding
  <2> QED
    BY <1>1, <1>2, <1>4, <2>1, <2>3, <2>4, AfterNoHarm
<1> QED
  BY <1>5, <1>6, <1>7, <1>8

LEMMA StepStutters ==
  ASSUME IInv, UNCHANGED vars
  PROVE  IInv'
<1>1. /\ UNCHANGED <<engine, sandboxed, place, held, own, argv, result, part, odd, accident, culprit, victim>>
      /\ UNCHANGED <<at, params, kinds, filled, slots, beyond>> /\ UNCHANGED cvars
  BY DEF vars, nvars, cvars
<1>2. CInv' /\ CTypeOK'
  BY <1>1, InvariantStays DEF IInv, CInv
<1>3. TypeOK'
  BY <1>1, <1>2 DEF IInv, TypeOK
<1>4. Holding' /\ (Running => Running')
  BY <1>1 DEF IInv, Holding, Running, Holed
<1>5. HostUnharmed' /\ HarmHasCause'
  BY <1>1 DEF IInv, HostUnharmed, HarmHasCause, Fatal, When
<1> QED
  BY <1>1, <1>2, <1>3, <1>4, <1>5 DEF IInv

THEOREM NativesInvariant == Spec => []IInv
<1>1. IInv /\ [Next]_vars => IInv'
  BY StepAppCalls, StepLookupRaises, StepEchoes, StepGuestReturns, StepGuestFails, StepGuestIsRefused, StepGuestCalls,
     StepInFunction, StepNullArgument, StepOverwritten, StepNativeFails, StepNativeReturns, StepStutters DEF Next
<1> QED
  BY <1>1, IInvInit, PTL DEF Spec

(* Whatever the values and the signatures are, the variables have their    *)
(* types.                                                                  *)
THEOREM NativesTypes == Spec => []TypeOK
<1>1. IInv => TypeOK
  BY DEF IInv
<1> QED
  BY <1>1, NativesInvariant, PTL

(* Whatever values a guest in a sandbox makes, however deep, the           *)
(* application comes to harm only by what its own function returned, or    *)
(* after it has made a text behind the slots.                              *)
THEOREM HostStaysUnharmed == Spec => []HostUnharmed
<1>1. IInv => HostUnharmed
  BY DEF IInv
<1> QED
  BY <1>1, NativesInvariant, PTL

(* Nobody comes to harm before something out of the ordinary has happened, *)
(* and what each language survives never leads to harm.                    *)
THEOREM HarmHasCauses == Spec => []HarmHasCause
<1>1. IInv => HarmHasCause
  BY DEF IInv
<1> QED
  BY <1>1, NativesInvariant, PTL

(* Called by a guest, in any of the languages, a function of the           *)
(* application finds its arguments as it does when it is called directly.  *)
THEOREM GuestsDeliver == Spec => []Delivered
<1>1. IInv => Delivered
  BY InvariantDelivers DEF IInv
<1> QED
  BY <1>1, NativesInvariant, PTL

(* The same of the stack behind args_data. *)
THEOREM GuestsWriteBehind == Spec => []InBounds
<1>1. IInv => InBounds
  BY InvariantInBounds DEF IInv
<1> QED
  BY <1>1, NativesInvariant, PTL

(* For values of any depth: what a guest hands back as it got it is what   *)
(* it was, exactly if the language loses no part of it.                    *)
THEOREM ValuesArrive == Spec => ArrivesExactly
<1> DEFINE A == Echoes /\ accident' = "none" => (held' = held <=> Lossless(engine, held))
<1>1. IInv /\ [Next]_vars => [A]_vars
  <2> SUFFICES ASSUME IInv, Echoes, accident' = "none" PROVE held' = held <=> Lossless(engine, held)
    OBVIOUS
  <2>1. own = Out(engine, held) /\ Tree(held, Native) /\ ~HasNull(held) /\ engine \in Engines
    BY OwnIs DEF Echoes, Returns, IInv, TypeOK
  <2>2. held' = In(engine, own)
    BY DEF Echoes, Returns, Harm
  <2> QED
    BY <2>1, <2>2, ValueRoundTrip
<1> QED
  BY <1>1, NativesInvariant, PTL DEF Spec, ArrivesExactly

=============================================================================
