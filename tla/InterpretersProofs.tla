------------------------- MODULE InterpretersProofs -------------------------
(* What is proved of Interpreters for every value of its constants. *)
EXTENDS Interpreters, FiniteSetTheorems, SequenceTheorems, TLAPS

-----------------------------------------------------------------------------
(* Sequences of frames                                                     *)

(* The frames but the last. *)
LEMMA Dropping ==
  ASSUME NEW S, NEW s \in Seq(S), s # <<>>
  PROVE  /\ Len(s) \in Nat \ {0} /\ s[Len(s)] \in S
         /\ SubSeq(s, 1, Len(s) - 1) \in Seq(S)
         /\ Len(SubSeq(s, 1, Len(s) - 1)) = Len(s) - 1
         /\ \A i \in 1..(Len(s) - 1) : SubSeq(s, 1, Len(s) - 1)[i] = s[i]
<1>1. Len(s) \in Nat /\ Len(s) > 0 /\ Len(s) # 0 /\ \A i \in 1..Len(s) : s[i] \in S
  OBVIOUS
<1>2. Len(s) \in 1..Len(s) /\ Len(s) - 1 \in Int /\ \A i \in 1..(Len(s) - 1) : s[i] \in S
  BY <1>1
<1>3. /\ SubSeq(s, 1, Len(s) - 1) \in Seq(S)
      /\ Len(SubSeq(s, 1, Len(s) - 1)) = IF 1 <= Len(s) - 1 THEN Len(s) - 1 - 1 + 1 ELSE 0
      /\ \A i \in 1..(Len(s) - 1 - 1 + 1) : SubSeq(s, 1, Len(s) - 1)[i] = s[1 + i - 1]
  BY <1>2, SubSeqProperties
<1>4. \A i \in 1..(Len(s) - 1) : SubSeq(s, 1, Len(s) - 1)[i] = s[i]
  BY <1>1, <1>3
<1>5. Len(SubSeq(s, 1, Len(s) - 1)) = Len(s) - 1
  <2>1. (IF 1 <= Len(s) - 1 THEN Len(s) - 1 - 1 + 1 ELSE 0) = Len(s) - 1
    BY <1>1
  <2> QED
    BY <1>3, <2>1
<1> QED
  BY <1>1, <1>2, <1>3, <1>4, <1>5

(* The frames and one more. *)
LEMMA Adding ==
  ASSUME NEW S, NEW s \in Seq(S), NEW x \in S
  PROVE  /\ Append(s, x) \in Seq(S) /\ Append(s, x) # <<>>
         /\ Len(s) \in Nat /\ Len(Append(s, x)) = Len(s) + 1
         /\ Append(s, x)[Len(s) + 1] = x
         /\ \A i \in 1..Len(s) : Append(s, x)[i] = s[i]
OBVIOUS

(* The innermost frame is one. *)
LEMMA TopIsFrame ==
  ASSUME TypeOK, calls # <<>>
  PROVE  Top \in Frame /\ Top.guest \in Guests /\ Top.base \in 0..Room /\ Len(calls) \in Nat \ {0}
<1>1. calls \in Seq(Frame)
  BY DEF TypeOK
<1>2. Top \in Frame /\ Len(calls) \in Nat \ {0}
  BY <1>1, Dropping DEF Top
<1> QED
  BY <1>2 DEF Frame

(* What is begun is a frame. *)
LEMMA Beginning ==
  ASSUME TypeOK, NEW g \in Guests, NEW doing \in Doing, NEW due \in Data \cup {"none"}, NEW ran \in Data \cup {"none"},
         Begin(g, doing, due, ran)
  PROVE  /\ calls' \in Seq(Frame) /\ calls' # <<>>
         /\ Len(calls) \in Nat /\ Len(calls') = Len(calls) + 1
         /\ calls'[Len(calls')] = [guest |-> g, doing |-> doing, due |-> due, ran |-> ran, base |-> left[g]]
         /\ \A i \in 1..Len(calls) : calls'[i] = calls[i]
<1> DEFINE f == [guest |-> g, doing |-> doing, due |-> due, ran |-> ran, base |-> left[g]]
<1>1. f \in Frame
  BY DEF TypeOK, Frame
<1>2. calls \in Seq(Frame) /\ calls' = Append(calls, f)
  BY DEF TypeOK, Begin
<1> HIDE DEF f
<1>3. QED
  BY <1>1, <1>2, Adding DEF f

(* What a guest's call of a function of the application begins. *)
LEMMA Invoking ==
  ASSUME TypeOK, NEW n \in Names, Invoke(n)
  PROVE  /\ calls' \in Seq(Frame) /\ calls' # <<>> /\ Top.guest \in Guests
         /\ Len(calls) \in Nat /\ Len(calls') = Len(calls) + 1
         /\ \A i \in 1..Len(calls) : calls'[i] = calls[i]
         /\ \E f \in Found(Top.guest, means[Top.guest][n]) \cap Functions :
              calls'[Len(calls) + 1] = [guest |-> Top.guest, doing |-> "native", due |-> given[Top.guest][n], ran |-> f,
                                        base |-> left[Top.guest]]
<1>1. Top.guest \in Guests
  BY TopIsFrame DEF Invoke, GuestRuns
<1>2. PICK f \in Found(Top.guest, means[Top.guest][n]) \cap Functions : Begin(Top.guest, "native", given[Top.guest][n], f)
  BY DEF Invoke
<1>3. f \in Data \cup {"none"} /\ given[Top.guest][n] \in Data \cup {"none"} /\ "native" \in Doing
  BY <1>1, <1>2 DEF TypeOK, Data, Doing
<1>4. PICK g \in Guests, c \in Data \cup {"none"} : g = Top.guest /\ c = given[Top.guest][n]
  BY <1>1, <1>3
<1>5. Begin(g, "native", c, f)
  BY <1>2, <1>4
<1>6. /\ calls' \in Seq(Frame) /\ calls' # <<>>
      /\ Len(calls) \in Nat /\ Len(calls') = Len(calls) + 1
      /\ calls'[Len(calls')] = [guest |-> g, doing |-> "native", due |-> c, ran |-> f, base |-> left[g]]
      /\ \A i \in 1..Len(calls) : calls'[i] = calls[i]
  BY ONLY TypeOK, <1>3, <1>5, g \in Guests, c \in Data \cup {"none"}, Beginning
<1>7. calls'[Len(calls) + 1] = [guest |-> g, doing |-> "native", due |-> c, ran |-> f, base |-> left[g]]
  BY <1>6
<1> QED
  BY <1>1, <1>2, <1>4, <1>6, <1>7

(* What is ended leaves frames. *)
LEMMA Ending ==
  ASSUME TypeOK, calls # <<>>, End
  PROVE  /\ calls' \in Seq(Frame)
         /\ Len(calls) \in Nat \ {0} /\ Len(calls') = Len(calls) - 1
         /\ \A i \in 1..Len(calls') : calls'[i] = calls[i]
         /\ calls' # <<>> => Len(calls') \in 1..Len(calls')
<1>1. calls \in Seq(Frame) /\ calls' = SubSeq(calls, 1, Len(calls) - 1)
  BY DEF TypeOK, End
<1>2. QED
  BY <1>1, Dropping

-----------------------------------------------------------------------------
(* Types, and the life of guests                                           *)

(* There may be room on a stack, or none. *)
LEMMA RoomIs == Room \in Nat /\ MaxArguments \in Nat /\ 0 \in 0..Room
<1>1. Room \in Nat /\ MaxArguments \in Nat
  BY InterpretersAssumption
<1> QED
  BY <1>1

(* The initial state is of the right types, and nothing is set up. *)
LEMMA InitLife == Init => TypeOK /\ Lifecycle
<1> SUFFICES ASSUME Init PROVE TypeOK /\ Lifecycle
  OBVIOUS
<1>1. TypeOK
  <2>1. calls \in Seq(Frame)
    BY DEF Init
  <2>2. means \in [Guests -> [Names -> Keys \cup Others]]
    BY DEF Init, Others
  <2>3. left \in [Guests -> 0..Room] /\ causes \in [Guests -> 0..Room]
    BY RoomIs DEF Init
  <2> QED
    BY <2>1, <2>2, <2>3 DEF Init, TypeOK
<1>2. Ready = {}
  BY DEF Init, Ready
<1>3. Cardinality(Ready) = 0
  BY <1>2, FS_EmptySet
<1> QED
  BY <1>1, <1>2, <1>3 DEF Init, Lifecycle, Counted

(* A counter that is positive stays a number. *)
LEMMA CounterPositive ==
  ASSUME TypeOK, Lifecycle, Counted, NEW g \in Guests, status[g] = "ready"
  PROVE  refs \in Nat \ {0} /\ IsFiniteSet(Ready) /\ refs = Cardinality(Ready)
<1>1. Ready \subseteq Guests /\ IsFiniteSet(Guests) /\ g \in Ready
  BY InterpretersAssumption DEF Ready
<1>2. IsFiniteSet(Ready)
  BY <1>1, FS_Subset
<1>3. Cardinality(Ready) \in Nat /\ Cardinality(Ready) # 0
  BY <1>1, <1>2, FS_CardinalityType, FS_EmptySet
<1> QED
  BY <1>2, <1>3 DEF Lifecycle

(* An accident changes nothing else. *)
LEMMA HarmType ==
  ASSUME TypeOK, NEW what \in {"null", "freed", "shut down", "exception", "overflow"}, Harm(what)
  PROVE  TypeOK'
BY DEF TypeOK, Harm

(* A name gets its meaning. *)
LEMMA MeansType ==
  ASSUME TypeOK, NEW g \in Guests, NEW n \in Names, NEW k \in Keys \cup Others
  PROVE  Means(g, n, k) \in [Guests -> [Names -> Keys \cup Others]]
BY DEF TypeOK, Means

(* A table gets an entry. *)
LEMMA StoreType ==
  ASSUME TypeOK, NEW g \in Guests, NEW k \in Keys, NEW d \in Data, Store(g, k, d)
  PROVE  table' \subseteq [guest : Guests, key : Keys, data : Data]
<1>1. Entry(g, k, d) \in [guest : Guests, key : Keys, data : Data]
  BY DEF Entry
<1> QED
  BY <1>1 DEF TypeOK, Store

(* More does not get beyond Room, and keeps the order. *)
LEMMA MoreIs ==
  ASSUME NEW m \in 0..Room, NEW n \in Nat
  PROVE  /\ More(m, n) \in 0..Room
         /\ \A k \in 0..Room, l \in Nat : m <= k /\ n <= l => More(m, n) <= More(k, l)
<1>1. Room \in Nat
  BY InterpretersAssumption
<1> QED
  BY <1>1 DEF More

(* What a guest's code leaves when it ends. *)
LEMMA EndsLeaves ==
  ASSUME TypeOK, calls # <<>>, NEW ok \in BOOLEAN, Ends(ok)
  PROVE  /\ End /\ Top.guest \in Guests /\ muted' = MutedAfter(Top, ok)
         /\ UNCHANGED <<engine, status, up, refs, global, means, table, given, accident>>
         /\ \/ UNCHANGED <<left, causes>>
            \/ \E m \in Nat, n \in Nat :
                 /\ m <= n
                 /\ left' = [left EXCEPT ![Top.guest] = More(left[Top.guest], m)]
                 /\ causes' = [causes EXCEPT ![Top.guest] = More(causes[Top.guest], n)]
<1>1. Top.guest \in Guests
  BY TopIsFrame
<1>2. PICK results \in 0..Room :
        IF engine = "lua"
        THEN Leave(Top.guest, Stays(Top, ok, results)) /\ Because(Top.guest, IF ok THEN results ELSE 1)
        ELSE UNCHANGED <<left, causes>>
  BY DEF Ends
<1>3. results \in Nat
  BY <1>2, InterpretersAssumption
<1> DEFINE m == Stays(Top, ok, results)
           n == IF ok THEN results ELSE 1
<1>4. m \in Nat /\ n \in Nat /\ m <= n
  BY <1>3 DEF Stays
<1>5. engine = "lua" => /\ left' = [left EXCEPT ![Top.guest] = More(left[Top.guest], m)]
                        /\ causes' = [causes EXCEPT ![Top.guest] = More(causes[Top.guest], n)]
  BY <1>2 DEF Leave, Because
<1> HIDE DEF m, n
<1> QED
  BY <1>1, <1>2, <1>4, <1>5 DEF Ends

(* Slots are left in use. *)
LEMMA SlotsType ==
  ASSUME TypeOK, NEW g \in Guests, NEW m \in Nat, NEW n \in Nat,
         left' = [left EXCEPT ![g] = More(left[g], m)], causes' = [causes EXCEPT ![g] = More(causes[g], n)]
  PROVE  left' \in [Guests -> 0..Room] /\ causes' \in [Guests -> 0..Room]
<1>1. left \in [Guests -> 0..Room] /\ causes \in [Guests -> 0..Room]
  BY DEF TypeOK
<1>2. More(left[g], m) \in 0..Room /\ More(causes[g], n) \in 0..Room
  BY <1>1, MoreIs
<1> QED
  BY <1>1, <1>2

(* Every step keeps the types. *)
LEMMA TypeStep ==
  ASSUME TypeOK, Lifecycle, [Next]_vars
  PROVE  TypeOK'
<1>1. ASSUME NEW g \in Guests, Initialize(g) PROVE TypeOK'
  <2>1. refs' \in Nat
    <3>1. refs' = (IF Counted THEN refs + 1 ELSE refs) /\ refs \in Nat
      BY <1>1 DEF TypeOK, Initialize
    <3> QED
      BY <3>1
  <2>2. up' \in BOOLEAN
    BY <1>1 DEF Initialize
  <2> QED
    BY <1>1, <2>1, <2>2 DEF TypeOK, Initialize
<1>2. ASSUME NEW g \in Guests, InitializeFails(g) PROVE TypeOK'
  <2>1. CASE Harm("null")
    BY <2>1, HarmType
  <2>2. CASE ~Harm("null")
    BY <1>2, <2>2 DEF TypeOK, InitializeFails
  <2> QED
    BY <2>1, <2>2
<1>3. ASSUME NEW g \in Guests, Destroy(g) PROVE TypeOK'
  <2>1. refs' \in Nat
    <3>1. status[g] = "ready" /\ refs' = IF Counted THEN refs - 1 ELSE refs
      BY <1>3 DEF Destroy, Usable
    <3>2. CASE Counted
      BY <3>1, <3>2, CounterPositive
    <3>3. CASE ~Counted
      BY <3>1, <3>3 DEF TypeOK
    <3> QED
      BY <3>2, <3>3
  <2>2. left' \in [Guests -> 0..Room] /\ causes' \in [Guests -> 0..Room]
    <3>1. 0 \in 0..Room /\ left \in [Guests -> 0..Room] /\ causes \in [Guests -> 0..Room]
      BY RoomIs DEF TypeOK
    <3> QED
      BY <1>3, <3>1 DEF Destroy
  <2>3. means' \in [Guests -> [Names -> Keys \cup Others]]
    BY <1>3 DEF TypeOK, Destroy, Others
  <2> QED
    BY <1>3, <2>1, <2>2, <2>3 DEF TypeOK, Destroy, Counted, LastGone
<1>4. ASSUME NEW g \in Guests, Discard(g) PROVE TypeOK'
  BY <1>4 DEF TypeOK, Discard
<1>5. ASSUME NEW g \in Guests, Compile(g) \/ IsFunction(g) PROVE TypeOK'
  <2>1. Begin(g, "compile", "none", "none") \/ Begin(g, "test", "none", "none")
    BY <1>5 DEF Compile, IsFunction
  <2>2. calls' \in Seq(Frame)
    BY <2>1, Beginning DEF Doing
  <2> QED
    BY <1>5, <2>2 DEF TypeOK, Compile, IsFunction
<1>6. ASSUME NEW g \in Guests, NEW n \in Names, CallFunction(g, n) \/ CallMissing(g, n) PROVE TypeOK'
  <2>1. CASE CallFunction(g, n)
    <3>1. calls' \in Seq(Frame)
      BY <2>1, Beginning DEF Doing, CallFunction
    <3> QED
      BY <2>1, <3>1 DEF TypeOK, CallFunction
  <2>2. CASE CallMissing(g, n)
    <3>1. left' \in [Guests -> 0..Room] /\ causes' \in [Guests -> 0..Room]
      BY <2>2, SlotsType DEF CallMissing, Leave, Because
    <3> QED
      BY <2>2, <3>1 DEF TypeOK, CallMissing
  <2> QED
    BY <1>6, <2>1, <2>2
<1>7. ASSUME NEW g \in Guests, NEW n \in Names, NEW d \in Data,
             (DefineFunction(g, n, d) /\ d \in Functions) \/ (DefineConstant(g, n, d) /\ d \in Constants)
      PROVE  TypeOK'
  <2>1. engine = "rb" => global \in Guests
    BY <1>7, CounterPositive DEF DefineFunction, DefineConstant, Lifecycle, Usable, Counted
  <2>2. given' \in [Guests -> [Names -> Data \cup {"none"}]]
    <3>1. \E x \in Data \cup {"none"} : given' = [given EXCEPT ![g][n] = x]
      BY <1>7 DEF DefineFunction, DefineConstant
    <3>2. given \in [Guests -> [Names -> Data \cup {"none"}]]
      BY DEF TypeOK
    <3> QED
      BY <3>1, <3>2
  <2>3. means' \in [Guests -> [Names -> Keys \cup Others]]
    <3>1. n \in Keys /\ (d \in Functions => d \in Keys) /\ \A a \in Addresses : a \in Keys
      BY DEF Keys
    <3>2. means' = means \/ \E k \in Keys \cup Others : means' = Means(g, n, k)
      BY <1>7, <3>1 DEF DefineFunction, DefineConstant, StoreGlobal, Others
    <3>3. means \in [Guests -> [Names -> Keys \cup Others]]
      BY DEF TypeOK
    <3> QED
      BY <3>2, <3>3, MeansType
  <2>4. table' \subseteq [guest : Guests, key : Keys, data : Data]
    <3>1. n \in Keys /\ \A a \in Addresses : a \in Keys
      BY DEF Keys
    <3>2. CASE UNCHANGED table
      BY <3>2 DEF TypeOK
    <3>3. CASE engine = "rb" /\ Store(global, n, d)
      BY <2>1, <3>1, <3>3, StoreType
    <3>4. CASE \E a \in Addresses : Store(g, a, d)
      BY <3>1, <3>4, StoreType
    <3> QED
      BY <1>7, <3>2, <3>3, <3>4 DEF DefineFunction, DefineConstant, StoreGlobal
  <2>5. UNCHANGED <<engine, status, up, refs, global, calls, left, causes, muted, accident>>
    BY <1>7 DEF DefineFunction, DefineConstant
  <2> QED
    BY <2>2, <2>3, <2>4, <2>5 DEF TypeOK
<1>8. ASSUME NEW n \in Names, Redefine(n) PROVE TypeOK'
  <2>1. Top.guest \in Guests
    BY <1>8, TopIsFrame DEF Redefine, GuestRuns
  <2>2. means' \in [Guests -> [Names -> Keys \cup Others]]
    BY <1>8, <2>1, MeansType DEF Redefine, Others
  <2> QED
    BY <1>8, <2>2 DEF TypeOK, Redefine
<1>9. ASSUME NEW n \in Names, Invoke(n) PROVE TypeOK'
  <2>1. Top.guest \in Guests /\ calls' \in Seq(Frame)
    BY <1>9, Invoking
  <2>2. left' \in [Guests -> 0..Room]
    BY <1>9, <2>1, RoomIs DEF TypeOK, Invoke
  <2> QED
    BY <1>9, <2>1, <2>2 DEF TypeOK, Invoke
<1>10. ASSUME NEW n \in Names, ReadFreed(n) PROVE TypeOK'
  BY <1>10, HarmType DEF ReadFreed
<1>11. ASSUME NEW ok \in BOOLEAN, GuestRuns, Ends(ok)
       PROVE  TypeOK'
  <2>1. calls # <<>> /\ Top.guest \in Guests /\ calls' \in Seq(Frame) /\ muted' = MutedAfter(Top, ok)
    BY <1>11, EndsLeaves, Ending DEF GuestRuns
  <2>2. muted' \in [Guests -> BOOLEAN]
    BY <2>1 DEF TypeOK, MutedAfter
  <2>3. left' \in [Guests -> 0..Room] /\ causes' \in [Guests -> 0..Room]
    <3>1. CASE UNCHANGED <<left, causes>>
      BY <3>1 DEF TypeOK
    <3>2. CASE ~UNCHANGED <<left, causes>>
      BY <1>11, <2>1, <3>2, EndsLeaves, SlotsType
    <3> QED
      BY <3>1, <3>2
  <2>4. UNCHANGED <<engine, status, up, refs, global, means, table, given, accident>>
    BY <1>11, <2>1, EndsLeaves
  <2> QED
    BY <2>1, <2>2, <2>3, <2>4 DEF TypeOK
<1>12. CASE Succeed
  BY <1>12, <1>11 DEF Succeed
<1>13. CASE Fail \/ Escapes
  BY <1>13, <1>11, HarmType DEF Fail, Escapes
<1>19. ASSUME NEW g \in Guests, Overflow(g) \/ \E n \in Names : LookupRaises(g, n) PROVE TypeOK'
  BY <1>19, HarmType DEF Overflow, LookupRaises
<1>14. CASE FunctionReturns
  <2>1. Top.guest \in Guests /\ Top.base \in 0..Room /\ calls' \in Seq(Frame)
    BY <1>14, TopIsFrame, Ending DEF FunctionReturns
  <2>2. left' \in [Guests -> 0..Room]
    BY <1>14, <2>1 DEF TypeOK, FunctionReturns
  <2> QED
    BY <1>14, <2>1, <2>2 DEF TypeOK, FunctionReturns
<1>15. CASE UseShutDown \/ UseFreed
  BY <1>15, HarmType DEF UseShutDown, UseFreed
<1>16. CASE UNCHANGED vars
  BY <1>16 DEF TypeOK, vars
<1>17. ASSUME NEW g \in Guests, NEW n \in Names, NEW f \in Functions, DefineFunction(g, n, f) PROVE TypeOK'
  <2>1. f \in Data /\ f \in Functions /\ DefineFunction(g, n, f)
    BY <1>17 DEF Data
  <2> QED
    BY <2>1, <1>7
<1>18. ASSUME NEW g \in Guests, NEW n \in Names, NEW d \in Constants, DefineConstant(g, n, d) PROVE TypeOK'
  <2>1. d \in Data
    BY DEF Data
  <2> QED
    BY <1>18, <2>1, <1>7
<1> QED
  BY <1>1, <1>2, <1>3, <1>4, <1>5, <1>6, <1>8, <1>9, <1>10, <1>12, <1>13, <1>14, <1>15, <1>16, <1>17,
     <1>18, <1>19 DEF Next

(* Most steps leave the guests' lives alone. *)
LEMMA Living ==
  ASSUME Next
  PROVE  \/ \E g \in Guests : Initialize(g) \/ InitializeFails(g) \/ Destroy(g) \/ Discard(g)
         \/ UNCHANGED <<engine, status, up, refs, global>>
<1>1. ASSUME NEW g \in Guests, Compile(g) \/ IsFunction(g) PROVE UNCHANGED <<engine, status, up, refs, global>>
  BY <1>1 DEF Compile, IsFunction
<1>2. ASSUME NEW g, NEW n, NEW d,
             DefineFunction(g, n, d) \/ DefineConstant(g, n, d) \/ CallFunction(g, n) \/ CallMissing(g, n)
      PROVE  UNCHANGED <<engine, status, up, refs, global>>
  BY <1>2 DEF DefineFunction, DefineConstant, CallFunction, CallMissing
<1>3. ASSUME NEW n, Redefine(n) \/ Invoke(n) \/ ReadFreed(n) PROVE UNCHANGED <<engine, status, up, refs, global>>
  BY <1>3 DEF Redefine, Invoke, ReadFreed, Harm
<1>4. CASE Succeed \/ Fail \/ Escapes \/ FunctionReturns \/ UseShutDown \/ UseFreed
  BY <1>4 DEF Succeed, Fail, Ends, Escapes, FunctionReturns, UseShutDown, UseFreed, Harm
<1>5. ASSUME NEW g, NEW n, Overflow(g) \/ LookupRaises(g, n) PROVE UNCHANGED <<engine, status, up, refs, global>>
  BY <1>5 DEF Overflow, LookupRaises, Harm
<1> QED
  BY <1>1, <1>2, <1>3, <1>4, <1>5 DEF Next

(* Every step keeps the counter and what is set up as they should be. *)
LEMMA LifeStep ==
  ASSUME TypeOK, Lifecycle, [Next]_vars
  PROVE  Lifecycle'
<1>1. IsFiniteSet(Ready) /\ Ready \subseteq Guests /\ Cardinality(Ready) \in Nat
  <2>1. Ready \subseteq Guests
    BY DEF Ready
  <2>2. IsFiniteSet(Ready)
    BY <2>1, FS_Subset, InterpretersAssumption
  <2> QED
    BY <2>1, <2>2, FS_CardinalityType
<1>2. CASE UNCHANGED <<engine, status, up, refs, global>>
  BY <1>2 DEF Lifecycle, Counted, Ready, Outlived
<1>3. ASSUME NEW g \in Guests, Initialize(g) PROVE Lifecycle'
  <2>1. Ready' = Ready \cup {g} /\ g \notin Ready
    BY <1>3 DEF Initialize, Ready, TypeOK
  <2>2. Cardinality(Ready') = Cardinality(Ready) + 1
    BY <1>1, <2>1, FS_AddElement
  <2>3. Counted => refs' = Cardinality(Ready)' /\ (up' <=> refs' > 0)
    <3>1. SUFFICES ASSUME Counted PROVE refs' = Cardinality(Ready)' /\ (up' <=> refs' > 0)
      OBVIOUS
    <3>2. refs' = refs + 1 /\ refs = Cardinality(Ready)
      BY <1>3, <3>1 DEF Initialize, Lifecycle
    <3>3. up'
      BY <1>3, <3>1 DEF Initialize, Counted
    <3>4. refs' = Cardinality(Ready') /\ refs' > 0
      BY <1>1, <2>2, <3>2
    <3> QED
      BY <3>3, <3>4
  <2>4. engine = "js" => up'
    BY <1>3 DEF Initialize
  <2>5. engine = "rb" => global' \in Guests /\ status'[global'] \in {"ready", "destroyed"}
    <3>1. CASE refs = 0
      BY <1>3, <3>1 DEF Initialize, First, TypeOK
    <3>2. CASE engine = "rb" /\ refs # 0
      <4>1. refs > 0 /\ global' = global
        <5>1. refs \in Nat
          BY DEF TypeOK
        <5>2. refs > 0
          BY <3>2, <5>1
        <5> QED
          BY <1>3, <3>2, <5>2 DEF Initialize, First
      <4>2. global \in Guests /\ status[global] \in {"ready", "destroyed"}
        BY <3>2, <4>1 DEF Lifecycle
      <4>3. status'[global] = status[global]
        BY <1>3, <4>2 DEF Initialize, TypeOK
      <4> QED
        BY <4>1, <4>2, <4>3
    <3> QED
      BY <3>1, <3>2
  <2> QED
    BY <1>3, <2>3, <2>4, <2>5 DEF Initialize, Lifecycle, Counted
<1>4. ASSUME NEW g \in Guests, NEW s \in {"failed", "destroyed", "discarded"},
             status' = [status EXCEPT ![g] = s], UNCHANGED <<engine, global>>,
             s \in {"failed", "discarded"} => status[g] = "new",
             s \in {"failed", "destroyed"} \/ UNCHANGED up
      PROVE  /\ engine = "js" /\ ~up' => Ready' = {} \/ Outlived'
             /\ engine = "rb" /\ global \in Guests /\ status[global] \in {"ready", "destroyed"} =>
                  global' \in Guests /\ status'[global'] \in {"ready", "destroyed"}
  <2>1. ASSUME NEW h \in Guests PROVE status'[h] = IF h = g THEN s ELSE status[h]
    BY <1>4 DEF TypeOK
  <2>2. ASSUME s \in {"failed", "destroyed"} PROVE Ready' = {} \/ Outlived'
    BY <2>1, <2>2 DEF Ready, Outlived
  <2>3. ASSUME s = "discarded" PROVE (Ready = {} \/ Outlived) => (Ready' = {} \/ Outlived')
    BY <1>4, <2>1, <2>3 DEF Ready, Outlived
  <2>4. engine = "js" /\ ~up' => Ready' = {} \/ Outlived'
    BY <1>4, <2>2, <2>3 DEF Lifecycle
  <2> QED
    BY <1>4, <2>1, <2>4
<1>5. ASSUME NEW g \in Guests, InitializeFails(g) PROVE Lifecycle'
  <2>1. CASE Harm("null")
    BY <1>2, <2>1 DEF Harm
  <2>2. CASE ~Harm("null")
    BY <1>4, <1>5, <2>2 DEF InitializeFails, Lifecycle, Counted
  <2> QED
    BY <2>1, <2>2
<1>6. ASSUME NEW g \in Guests, Destroy(g) PROVE Lifecycle'
  <2>1. Ready' = Ready \ {g} /\ g \in Ready
    BY <1>6 DEF Destroy, Usable, Ready, TypeOK
  <2>2. Cardinality(Ready') = Cardinality(Ready) - 1
    BY <1>1, <2>1, FS_RemoveElement
  <2>3. Counted => refs \in Nat \ {0} /\ refs = Cardinality(Ready)
    BY <1>6, CounterPositive DEF Destroy, Usable
  <2>4. Counted => refs' = Cardinality(Ready') /\ (up' <=> refs' > 0)
    <3>1. SUFFICES ASSUME Counted PROVE refs' = Cardinality(Ready') /\ (up' <=> refs' > 0)
      OBVIOUS
    <3>2. refs' = refs - 1 /\ (up' <=> refs - 1 # 0)
      BY <1>6, <3>1 DEF Destroy, LastGone
    <3> QED
      BY <2>2, <2>3, <3>1, <3>2
  <2> QED
    <3>1. status' = [status EXCEPT ![g] = "destroyed"] /\ UNCHANGED <<engine, global>>
      BY <1>6 DEF Destroy
    <3>2. engine = "rb" => refs > 0
      BY <2>3 DEF Counted
    <3>3. engine = "js" /\ ~up' => Ready' = {} \/ Outlived'
      BY <1>4, <3>1
    <3>4. engine = "rb" => global' \in Guests /\ status'[global'] \in {"ready", "destroyed"}
      BY <1>4, <3>1, <3>2 DEF Lifecycle
    <3> QED
      BY <2>4, <3>1, <3>3, <3>4 DEF Lifecycle, Counted
<1>7. ASSUME NEW g \in Guests, Discard(g) PROVE Lifecycle'
  <2>1. Ready' = Ready
    BY <1>7 DEF Discard, Ready, TypeOK
  <2> QED
    BY <1>4, <1>7, <2>1 DEF Discard, Lifecycle, Counted
<1> QED
  BY <1>2, <1>3, <1>5, <1>6, <1>7, Living DEF vars

(* The engine is there when it is needed. *)
LEMMA UpWhenUsed ==
  ASSUME TypeOK, Lifecycle
  PROVE  EngineUp
<1>1. Ready \subseteq Guests /\ IsFiniteSet(Ready)
  <2>1. Ready \subseteq Guests
    BY DEF Ready
  <2> QED
    BY <2>1, FS_Subset, InterpretersAssumption
<1>2. Cardinality(Ready) \in Nat /\ (Cardinality(Ready) = 0 <=> Ready = {})
  BY <1>1, FS_CardinalityType, FS_EmptySet
<1> QED
  BY <1>2 DEF Lifecycle, EngineUp

(* Types, and the counters of Python and Ruby, hold. *)
THEOREM LivesInvariant == Spec => [](TypeOK /\ Lifecycle)
<1>1. TypeOK /\ Lifecycle /\ [Next]_vars => (TypeOK /\ Lifecycle)'
  BY TypeStep, LifeStep
<1> QED
  BY InitLife, <1>1, PTL DEF Spec

(* The states of guests are of the right types. *)
THEOREM TypeCorrect == Spec => []TypeOK
BY LivesInvariant, PTL

(* What guests share is set up while it is used (EngineUp). *)
THEOREM EngineIsUp == Spec => []EngineUp
<1>1. TypeOK /\ Lifecycle => EngineUp
  BY UpWhenUsed
<1> QED
  BY LivesInvariant, <1>1, PTL

-----------------------------------------------------------------------------
(* Calls inside of calls                                                   *)

Framed == Nested /\ ErrorsHeard

(* At first nothing goes on. *)
LEMMA InitFramed == Init => Framed
BY DEF Init, Framed, Nested, ErrorsHeard

(* Beginning a call of a guest, from the application. *)
LEMMA FramedBegin ==
  ASSUME TypeOK, Framed, AppRuns, NEW g \in Guests, status[g] = "ready", NEW doing \in Doing \ {"native"},
         Begin(g, doing, "none", "none"), UNCHANGED status,
         \/ UNCHANGED muted
         \/ doing = "test" /\ muted' = [muted EXCEPT ![g] = TRUE]
  PROVE  Framed'
<1> DEFINE n == Len(calls)
<1>1. /\ n \in Nat /\ calls' # <<>> /\ Len(calls') = n + 1
      /\ calls'[n + 1] = [guest |-> g, doing |-> doing, due |-> "none", ran |-> "none", base |-> left[g]]
      /\ \A i \in 1..n : calls'[i] = calls[i]
  BY Beginning
<1>2. Top' = calls'[n + 1]
  BY <1>1 DEF Top
<1>3. n > 0 => n \in 1..n /\ calls[n].doing = "native"
  BY <1>1 DEF AppRuns, Top
<1>4. Nested'
  <2>1. \A i \in 1..Len(calls') : status'[calls'[i].guest] = "ready"
    BY <1>1 DEF Framed, Nested
  <2>2. calls'[1].doing # "native"
    <3>1. CASE n = 0
      BY <1>1, <3>1
    <3>2. CASE n > 0
      BY <1>1, <3>2 DEF Framed, Nested
    <3> QED
      BY <1>1, <3>1, <3>2
  <2>3. ASSUME NEW i \in 1..(Len(calls') - 1)
        PROVE  /\ calls'[i + 1].doing = "native" <=> calls'[i].doing # "native"
               /\ calls'[i + 1].doing = "native" => calls'[i + 1].guest = calls'[i].guest
    <3>1. CASE i = n
      BY <1>1, <1>3, <3>1
    <3>2. CASE i # n
      <4>1. i \in 1..(n - 1) /\ i \in 1..n /\ i + 1 \in 1..n
        BY <1>1, <3>2
      <4> QED
        BY <1>1, <4>1 DEF Framed, Nested
    <3> QED
      BY <3>1, <3>2
  <2> QED
    BY <2>1, <2>2, <2>3 DEF Nested
<1>5. ErrorsHeard'
  <2>1. SUFFICES ASSUME NEW h \in Guests, muted'[h]
                 PROVE  \E i \in 1..Len(calls') : calls'[i].guest = h /\ calls'[i].doing = "test"
    BY DEF ErrorsHeard
  <2>2. CASE h = g /\ doing = "test"
    BY <1>1, <2>2
  <2>3. CASE muted[h]
    BY <1>1, <2>3 DEF Framed, ErrorsHeard
  <2> QED
    BY <2>1, <2>2, <2>3 DEF TypeOK
<1> QED
  BY <1>4, <1>5 DEF Framed

(* A guest's code calls a function of the application. *)
LEMMA FramedInvoke ==
  ASSUME TypeOK, Framed, NEW n \in Names, Invoke(n)
  PROVE  Framed'
<1> DEFINE g == Top.guest
           m == Len(calls)
<1>1. g \in Guests /\ m \in Nat \ {0} /\ Top = calls[m] /\ m \in 1..m
  BY TopIsFrame DEF Invoke, GuestRuns, Top
<1>2. PICK f \in Functions :
        /\ calls' # <<>> /\ Len(calls') = m + 1
        /\ calls'[m + 1] = [guest |-> g, doing |-> "native", due |-> given[g][n], ran |-> f, base |-> left[g]]
        /\ \A i \in 1..m : calls'[i] = calls[i]
  BY Invoking
<1>3. calls[m].guest = g /\ calls[m].doing # "native"
  BY <1>1 DEF Invoke, GuestRuns
<1>4. Nested'
  <2>1. \A i \in 1..Len(calls') : status'[calls'[i].guest] = "ready"
    BY <1>1, <1>2, <1>3 DEF Framed, Nested, Invoke
  <2>2. calls'[1].doing # "native"
    BY <1>1, <1>2 DEF Framed, Nested, Invoke, GuestRuns
  <2>3. ASSUME NEW i \in 1..(Len(calls') - 1)
        PROVE  /\ calls'[i + 1].doing = "native" <=> calls'[i].doing # "native"
               /\ calls'[i + 1].doing = "native" => calls'[i + 1].guest = calls'[i].guest
    <3>1. CASE i = m
      BY <1>1, <1>2, <1>3, <3>1
    <3>2. CASE i # m
      <4>1. i \in 1..(m - 1) /\ i \in 1..m /\ i + 1 \in 1..m
        BY <1>1, <1>2, <3>2
      <4> QED
        BY <1>2, <4>1 DEF Framed, Nested
    <3> QED
      BY <3>1, <3>2
  <2> QED
    BY <2>1, <2>2, <2>3 DEF Nested
<1>5. ErrorsHeard'
  BY <1>1, <1>2 DEF Framed, ErrorsHeard, Invoke
<1> QED
  BY <1>4, <1>5 DEF Framed

(* What remains of nested calls when the innermost ends. *)
LEMMA NestedEnd ==
  ASSUME TypeOK, Nested, calls # <<>>, End, UNCHANGED status
  PROVE  Nested'
<1> DEFINE m == Len(calls)
<1>1. m \in Nat \ {0} /\ Len(calls') = m - 1 /\ \A i \in 1..(m - 1) : calls'[i] = calls[i]
  BY Ending
<1>2. calls' # <<>> => 1 \in 1..(m - 1)
  BY <1>1, Ending
<1>3. ASSUME NEW i \in 1..(Len(calls') - 1)
      PROVE  i \in 1..(m - 1) /\ i + 1 \in 1..(m - 1) /\ calls'[i] = calls[i] /\ calls'[i + 1] = calls[i + 1]
  BY <1>1
<1>4. \A i \in 1..Len(calls') : i \in 1..m /\ calls'[i] = calls[i]
  BY <1>1
<1>5. \A i \in 1..Len(calls') : status'[calls'[i].guest] = "ready"
  BY <1>4 DEF Nested
<1>6. calls' # <<>> => calls'[1].doing # "native"
  BY <1>1, <1>2 DEF Nested
<1>7. ASSUME NEW i \in 1..(Len(calls') - 1)
      PROVE  /\ calls'[i + 1].doing = "native" <=> calls'[i].doing # "native"
             /\ calls'[i + 1].doing = "native" => calls'[i + 1].guest = calls'[i].guest
  <2>1. i \in 1..(Len(calls) - 1)
    BY <1>1, <1>3
  <2> QED
    BY <1>3, <2>1 DEF Nested
<1> QED
  BY <1>5, <1>6, <1>7 DEF Nested

(* A guest's code ends: the application goes on. *)
LEMMA FramedEnd ==
  ASSUME TypeOK, Framed, GuestRuns, NEW ok \in BOOLEAN, Ends(ok)
  PROVE  Framed'
<1> DEFINE m == Len(calls)
<1> End /\ UNCHANGED status /\ muted' = MutedAfter(Top, ok)
  BY DEF Ends
<1>1. m \in Nat \ {0} /\ Len(calls') = m - 1 /\ (\A i \in 1..(m - 1) : calls'[i] = calls[i]) /\ Top = calls[m]
  BY Ending DEF GuestRuns, Top
<1>2. Nested'
  BY NestedEnd DEF Framed, GuestRuns
<1>3. ErrorsHeard'
  <2>1. SUFFICES ASSUME NEW h \in Guests, muted'[h]
                 PROVE  \E i \in 1..Len(calls') : calls'[i].guest = h /\ calls'[i].doing = "test"
    BY DEF ErrorsHeard
  <2>2. muted[h] /\ ~(h = Top.guest /\ Top.doing = "test")
    BY <2>1 DEF TypeOK, MutedAfter
  <2>3. PICK i \in 1..m : calls[i].guest = h /\ calls[i].doing = "test"
    BY <2>2 DEF Framed, ErrorsHeard
  <2>4. i # m
    BY <1>1, <2>2, <2>3
  <2> QED
    BY <1>1, <2>3, <2>4
<1> QED
  BY <1>2, <1>3 DEF Framed

(* A function of the application returns: the guest that called it goes on *)
LEMMA FramedReturn ==
  ASSUME TypeOK, Framed, FunctionReturns
  PROVE  Framed'
<1> DEFINE m == Len(calls)
           g == Top.guest
<1>1. /\ m \in Nat \ {0} /\ Len(calls') = m - 1 /\ (\A i \in 1..(m - 1) : calls'[i] = calls[i])
      /\ Top = calls[m] /\ Top.doing = "native" /\ calls # <<>>
  BY Ending DEF FunctionReturns, AppRuns, Top
<1>2. Nested'
  BY NestedEnd DEF Framed, FunctionReturns
<1>3. ErrorsHeard'
  <2>1. SUFFICES ASSUME NEW h \in Guests, muted[h]
                 PROVE  \E i \in 1..Len(calls') : calls'[i].guest = h /\ calls'[i].doing = "test"
    BY DEF ErrorsHeard, FunctionReturns
  <2>2. PICK i \in 1..m : calls[i].guest = h /\ calls[i].doing = "test"
    BY <2>1 DEF Framed, ErrorsHeard
  <2> QED
    BY <1>1, <2>2
<1> QED
  BY <1>2, <1>3 DEF Framed

(* Every step keeps calls inside of calls in order. *)
LEMMA FramedStep ==
  ASSUME TypeOK, Framed, [Next]_vars
  PROVE  Framed'
<1>1. CASE UNCHANGED <<status, calls, muted>>
  BY <1>1 DEF Framed, Nested, ErrorsHeard, Top
<1>2. ASSUME NEW g \in Guests, NEW s, status' = [status EXCEPT ![g] = s], UNCHANGED <<calls, muted>>,
             \A i \in 1..Len(calls) : calls[i].guest # g
      PROVE  Framed'
  <2>1. \A i \in 1..Len(calls) : calls[i].guest \in Guests
    <3>1. calls \in Seq(Frame)
      BY DEF TypeOK
    <3>2. \A i \in 1..Len(calls) : calls[i] \in Frame
      BY <3>1
    <3> QED
      BY <3>2 DEF Frame
  <2>2. \A i \in 1..Len(calls) : status'[calls[i].guest] = status[calls[i].guest]
    BY <1>2, <2>1 DEF TypeOK
  <2> QED
    BY <1>2, <2>2 DEF Framed, Nested, ErrorsHeard, Top
<1>3. ASSUME NEW g \in Guests, status[g] = "new", NEW i \in 1..Len(calls) PROVE calls[i].guest # g
  BY <1>3 DEF Framed, Nested
<1>4. ASSUME NEW g \in Guests, Initialize(g) \/ InitializeFails(g) \/ Discard(g) \/ Destroy(g) PROVE Framed'
  <2>1. CASE Harm("null")
    BY <1>1, <2>1 DEF Harm
  <2>2. CASE Initialize(g)
    BY <1>2, <1>3, <2>2 DEF Initialize
  <2>3. CASE InitializeFails(g) /\ ~Harm("null")
    BY <1>2, <1>3, <2>3 DEF InitializeFails
  <2>4. CASE Discard(g)
    BY <1>2, <1>3, <2>4 DEF Discard
  <2>5. CASE Destroy(g)
    BY <1>2, <2>5 DEF Destroy
  <2> QED
    BY <1>4, <2>1, <2>2, <2>3, <2>4, <2>5
<1>5. ASSUME NEW g \in Guests, Compile(g) \/ IsFunction(g) PROVE Framed'
  <2>1. AppRuns /\ status[g] = "ready" /\ UNCHANGED status
    BY <1>5 DEF Compile, IsFunction, Usable
  <2>2. CASE Compile(g)
    BY <2>1, <2>2, FramedBegin DEF Compile, Doing
  <2>3. CASE IsFunction(g)
    BY <2>1, <2>3, FramedBegin DEF IsFunction, Doing
  <2> QED
    BY <1>5, <2>2, <2>3
<1>6. ASSUME NEW g \in Guests, NEW n \in Names, CallFunction(g, n) PROVE Framed'
  BY <1>6, FramedBegin DEF CallFunction, Usable, Doing
<1>7. ASSUME NEW g \in Guests, NEW n \in Names, CallMissing(g, n) PROVE Framed'
  BY <1>7 DEF CallMissing, AppRuns, Framed, Nested, ErrorsHeard, Top
<1>8. ASSUME NEW g, NEW n, NEW d, DefineFunction(g, n, d) \/ DefineConstant(g, n, d) PROVE Framed'
  BY <1>1, <1>8 DEF DefineFunction, DefineConstant
<1>9. ASSUME NEW n \in Names, Redefine(n) \/ ReadFreed(n) PROVE Framed'
  BY <1>1, <1>9 DEF Redefine, ReadFreed, Harm
<1>10. CASE Succeed
  BY <1>10, FramedEnd DEF Succeed
<1>11. CASE Fail
  <2>1. CASE Harm("null")
    BY <1>1, <2>1 DEF Harm
  <2>2. CASE ~Harm("null")
    BY <1>11, <2>2, FramedEnd DEF Fail
  <2> QED
    BY <2>1, <2>2
<1>12. CASE UseShutDown \/ UseFreed \/ Escapes
  BY <1>1, <1>12 DEF UseShutDown, UseFreed, Escapes, Harm
<1>13. ASSUME NEW g \in Guests, Overflow(g) \/ \E n \in Names : LookupRaises(g, n) PROVE Framed'
  BY <1>1, <1>13 DEF Overflow, LookupRaises, Harm
<1> QED
  BY <1>1, <1>4, <1>5, <1>6, <1>7, <1>8, <1>9, <1>10, <1>11, <1>12, <1>13, FramedInvoke, FramedReturn DEF Next, vars

(* Calls inside of calls stay in order. *)
THEOREM FramedInvariant == Spec => []Framed
<1>1. TypeOK /\ Framed /\ [Next]_vars => Framed'
  BY FramedStep
<1> QED
  BY InitFramed, <1>1, TypeCorrect, PTL DEF Spec

(* Errors are quiet only while is_function looks (ErrorsHeard). *)
THEOREM ErrorsAreHeard == Spec => []ErrorsHeard
<1>1. Framed => ErrorsHeard
  BY DEF Framed
<1> QED
  BY FramedInvariant, <1>1, PTL

-----------------------------------------------------------------------------
(* Names                                                                   *)

(* No name has a function at first. *)
LEMMA InitNamed == Init => Named
BY InterpretersAssumption DEF Init, Named, NamesOfClosures, NamesOfObjects, NamesOfRuby, Keys, Others

(* The words for what is not a function are not keys. *)
LEMMA NotKeys == {"nothing", "script", "value", "none", "kept", "freed"} \cap Keys = {} /\ Functions \cap Constants = {}
BY InterpretersAssumption DEF Keys, Constants, Others

(* What a name stands for after it gets a meaning. *)
LEMMA MeansIs ==
  ASSUME TypeOK, NEW g \in Guests, NEW n \in Names, NEW k \in Keys \cup Others,
         means' = Means(g, n, k), NEW h \in Guests, NEW m \in Names
  PROVE  means'[h][m] = IF h \in Sharing(g) /\ m = n THEN k ELSE means[h][m]
BY DEF TypeOK, Means

(* What was given after something is given. *)
LEMMA GivenIs ==
  ASSUME TypeOK, NEW g \in Guests, NEW n \in Names, NEW d \in Data \cup {"none"},
         given' = [given EXCEPT ![g][n] = d], NEW h \in Guests, NEW m \in Names
  PROVE  given'[h][m] = IF h = g /\ m = n THEN d ELSE given[h][m]
<1>1. given \in [Guests -> [Names -> Data \cup {"none"}]]
  BY DEF TypeOK
<1> QED
  BY <1>1

(* A usable guest of Ruby is counted. *)
LEMMA RubyCounts ==
  ASSUME TypeOK, Lifecycle, engine = "rb", NEW g \in Guests, status[g] = "ready"
  PROVE  refs \in Nat \ {0} /\ refs > 0 /\ global \in Guests
<1>1. refs \in Nat \ {0}
  BY CounterPositive DEF Counted
<1>2. refs > 0
  BY <1>1
<1> QED
  BY <1>1, <1>2 DEF Lifecycle

(* Guests come and go: the names of Ruby stay in order. *)
LEMMA RubyLives ==
  ASSUME TypeOK, Lifecycle, NamesOfRuby, engine = "rb", NEW g \in Guests, Initialize(g) \/ Destroy(g) \/ Discard(g)
  PROVE  NamesOfRuby'
<1>1. /\ UNCHANGED <<table, given>>
      /\ \A h \in Guests : h # g => status'[h] = status[h]
      /\ status'[g] # "new"
      /\ Initialize(g) \/ status'[g] # "ready"
  BY DEF Initialize, Destroy, Discard, TypeOK
<1>2. \A e \in table : e.guest \in Guests
  BY DEF TypeOK
<1>3. \A e \in table' : e.key \in Names /\ status'[e.guest] # "new"
  BY <1>1, <1>2 DEF NamesOfRuby
<1>4. global' # global => refs = 0 /\ Initialize(g) /\ global' = g
  BY DEF Initialize, Destroy, Discard, First
<1>5. \A e \in table : e.guest = global' => GivenToSomeone(e)
  <2>1. Initialize(g) => status[g] = "new"
    BY DEF Initialize
  <2> QED
    BY <1>4, <2>1 DEF NamesOfRuby
<1>6. \A e \in table' : e.guest = global' => GivenToSomeone(e)'
  BY <1>1, <1>5 DEF GivenToSomeone
<1>7. ASSUME NEW h \in Guests, NEW n \in Names, means'[h][n] \in Keys
      PROVE  refs' > 0 /\ means'[h][n] = n /\ \E d \in Data : Entry(global', n, d) \in table'
  <2>1. CASE Destroy(g)
    <3>1. refs \in Nat \ {0} /\ refs' = refs - 1
      BY <2>1, CounterPositive DEF Destroy, Usable, Counted
    <3>2. refs - 1 # 0 /\ means' = means
      BY <1>7, <2>1, NotKeys DEF Destroy, LastGone
    <3>3. refs' > 0
      BY <3>1, <3>2
    <3>4. global' = global
      BY <2>1 DEF Destroy
    <3> QED
      BY <1>1, <1>7, <3>2, <3>3, <3>4 DEF NamesOfRuby
  <2>2. CASE ~Destroy(g)
    <3>1. means' = means
      BY <2>2 DEF Initialize, Discard
    <3>2. refs > 0 /\ refs \in Nat
      BY <1>7, <3>1 DEF NamesOfRuby, TypeOK
    <3>3. refs' > 0
      <4>1. refs' = refs \/ refs' = refs + 1
        BY <2>2 DEF Initialize, Discard
      <4> QED
        BY <3>2, <4>1
    <3>4. global' = global
      BY <1>4, <3>2
    <3> QED
      BY <1>1, <1>7, <3>1, <3>3, <3>4 DEF NamesOfRuby
  <2> QED
    BY <2>1, <2>2
<1>8. ASSUME NEW h \in Guests, NEW n \in Names, status'[h] = "ready", given'[h][n] # "none"
      PROVE  Entry(global', n, given'[h][n]) \in table'
  <2>1. h # g
    BY <1>1, <1>8 DEF Initialize, NamesOfRuby
  <2>2. status[h] = "ready" /\ given[h][n] # "none"
    BY <1>1, <1>8, <2>1
  <2>3. global' = global
    BY <1>4, <2>2, RubyCounts
  <2> QED
    BY <1>1, <2>2, <2>3 DEF NamesOfRuby
<1>9. \A h \in Guests, n \in Names : status'[h] = "new" => given'[h][n] = "none"
  BY <1>1 DEF NamesOfRuby
<1> QED
  BY <1>3, <1>6, <1>7, <1>8, <1>9 DEF NamesOfRuby

(* Ruby gets a function or a constant. *)
LEMMA RubyDefines ==
  ASSUME TypeOK, Lifecycle, NamesOfRuby, engine = "rb",
         NEW g \in Guests, NEW n \in Names, NEW d \in Data, status[g] = "ready",
         StoreGlobal(g, n, d), given' = [given EXCEPT ![g][n] = d], UNCHANGED <<engine, status, refs, global>>
  PROVE  NamesOfRuby'
<1>1. global \in Guests /\ refs > 0
  BY RubyCounts
<1>2. table' = table \cup {Entry(global, n, d)}
  BY DEF StoreGlobal, Store
<1>3. \A h \in Guests, m \in Names : given'[h][m] = IF h = g /\ m = n THEN d ELSE given[h][m]
  <2> SUFFICES ASSUME NEW h \in Guests, NEW m \in Names
               PROVE  given'[h][m] = IF h = g /\ m = n THEN d ELSE given[h][m]
    OBVIOUS
  <2>1. d \in Data \cup {"none"}
    OBVIOUS
  <2>2. given \in [Guests -> [Names -> Data \cup {"none"}]]
    BY DEF TypeOK
  <2> QED
    BY <2>1, <2>2
<1>4. \A e \in table' : e.key \in Names /\ status'[e.guest] # "new"
  <2>1. status[global] # "new"
    BY <1>1 DEF Lifecycle
  <2> QED
    BY <1>2, <2>1 DEF NamesOfRuby, Entry
<1>5. ASSUME NEW e \in table', e.guest = global'
      PROVE  GivenToSomeone(e)'
  <2>1. CASE e = Entry(global, n, d)
    BY <1>3, <2>1 DEF GivenToSomeone, Entry
  <2>2. CASE e \in table /\ e # Entry(global, n, d)
    <3>1. CASE \E x \in table : x # e /\ x.guest = e.guest /\ x.key = e.key
      BY <1>2, <3>1 DEF GivenToSomeone
    <3>2. CASE \E h \in Guests : given[h][e.key] = e.data
      <4>1. PICK h \in Guests : given[h][e.key] = e.data
        BY <3>2
      <4>2. e.key \in Names
        BY <2>2 DEF NamesOfRuby
      <4>3. CASE h = g /\ e.key = n
        <5>1. /\ Entry(global, n, d) \in table' /\ Entry(global, n, d) # e
              /\ Entry(global, n, d).guest = e.guest /\ Entry(global, n, d).key = e.key
          BY <1>2, <1>5, <2>2, <4>3 DEF Entry
        <5> QED
          BY <5>1 DEF GivenToSomeone
      <4>4. CASE ~(h = g /\ e.key = n)
        BY <1>3, <4>1, <4>2, <4>4 DEF GivenToSomeone
      <4> QED
        BY <4>3, <4>4
    <3> QED
      BY <1>5, <2>2, <3>1, <3>2 DEF NamesOfRuby, GivenToSomeone
  <2> QED
    BY <1>2, <2>1, <2>2
<1>6. ASSUME NEW h \in Guests, NEW m \in Names, means'[h][m] \in Keys
      PROVE  refs' > 0 /\ means'[h][m] = m /\ \E x \in Data : Entry(global', m, x) \in table'
  <2>1. CASE means' = Means(g, n, n) /\ m = n
    <3>1. means'[h][m] = n
      <4>1. h \in Sharing(g) /\ n \in Keys
        BY DEF Sharing, Keys
      <4> QED
        BY <2>1, <4>1, MeansIs
    <3> QED
      BY <1>1, <1>2, <2>1, <3>1
  <2>2. CASE means' = means \/ m # n
    <3>1. means'[h][m] = means[h][m]
      <4>1. n \in Keys
        BY DEF Keys
      <4>2. means' = means \/ means' = Means(g, n, n)
        BY DEF StoreGlobal
      <4> QED
        BY <2>2, <4>1, <4>2, MeansIs
    <3> QED
      BY <1>2, <1>6, <3>1 DEF NamesOfRuby
  <2> QED
    BY <2>1, <2>2 DEF StoreGlobal
<1>7. ASSUME NEW h \in Guests, NEW m \in Names
      PROVE  /\ status'[h] = "ready" /\ given'[h][m] # "none" => Entry(global', m, given'[h][m]) \in table'
             /\ status'[h] = "new" => given'[h][m] = "none"
  BY <1>2, <1>3 DEF NamesOfRuby
<1> QED
  BY <1>4, <1>5, <1>6, <1>7 DEF NamesOfRuby

(* A function is defined. *)
LEMMA NamedFunction ==
  ASSUME TypeOK, Lifecycle, Named, NEW g \in Guests, NEW n \in Names, NEW f \in Functions, DefineFunction(g, n, f)
  PROVE  Named'
<1> USE DEF Named
<1>1. /\ status[g] = "ready" /\ UNCHANGED <<engine, status, refs, global>>
      /\ given' = [given EXCEPT ![g][n] = f] /\ f \in Data /\ f \in Keys
  BY DEF DefineFunction, Usable, Data, Keys
<1>2. \A h \in Guests, m \in Names : given'[h][m] = IF h = g /\ m = n THEN f ELSE given[h][m]
  <2> SUFFICES ASSUME NEW h \in Guests, NEW m \in Names
               PROVE  given'[h][m] = IF h = g /\ m = n THEN f ELSE given[h][m]
    OBVIOUS
  <2>1. f \in Data \cup {"none"}
    BY <1>1
  <2>2. given \in [Guests -> [Names -> Data \cup {"none"}]]
    BY DEF TypeOK
  <2> QED
    BY <1>1, <2>1, <2>2
<1>3. CASE engine \in {"lua", "py"}
  <2>1. means' = Means(g, n, f) /\ Sharing(g) = {g}
    BY <1>3 DEF DefineFunction, Sharing
  <2>2. \A h \in Guests, m \in Names : means'[h][m] = IF h = g /\ m = n THEN f ELSE means[h][m]
    BY <1>1, <2>1, MeansIs
  <2> QED
    BY <1>1, <1>2, <1>3, <2>2 DEF NamesOfClosures
<1>4. CASE engine = "js"
  <2>1. PICK a \in Addresses : means' = Means(g, n, a) /\ Store(g, a, f)
    BY <1>4 DEF DefineFunction
  <2>2. a \in Keys /\ Sharing(g) = {g}
    BY <1>4 DEF Keys, Sharing
  <2>3. \A h \in Guests, m \in Names : means'[h][m] = IF h = g /\ m = n THEN a ELSE means[h][m]
    BY <2>1, <2>2, MeansIs
  <2>4. table' = table \cup {Entry(g, a, f)}
    BY <2>1 DEF Store
  <2>5. \A e \in table' : e.data \in Functions
    BY <1>4, <2>4 DEF NamesOfObjects, Entry
  <2>6. ASSUME NEW h \in Guests, NEW m \in Names, means'[h][m] \in Keys
        PROVE  Entry(h, means'[h][m], given'[h][m]) \in table'
    BY <1>2, <1>4, <2>3, <2>4, <2>6 DEF NamesOfObjects
  <2> QED
    BY <1>1, <1>4, <2>5, <2>6 DEF NamesOfObjects
<1>5. CASE engine = "rb"
  <2>1. StoreGlobal(g, n, f)
    BY <1>5 DEF DefineFunction
  <2> QED
    BY <1>1, <1>5, <2>1, RubyDefines
<1> QED
  BY <1>3, <1>4, <1>5 DEF TypeOK, Engines

(* A name stops standing for a function. *)
LEMMA NamedLoses ==
  ASSUME TypeOK, Named, NEW g \in Guests, NEW n \in Names, NEW k \in {"script", "value"},
         means' = Means(g, n, k), UNCHANGED <<engine, status, refs, global, table>>,
         engine = "rb" => UNCHANGED given,
         \A h \in Guests, m \in Names : ~(h = g /\ m = n) => given'[h][m] = given[h][m]
  PROVE  Named'
<1>1. ASSUME NEW h \in Guests, NEW m \in Names, means'[h][m] \in Keys
      PROVE  means'[h][m] = means[h][m] /\ ~(h = g /\ m = n)
  <2>1. means'[h][m] = IF h \in Sharing(g) /\ m = n THEN k ELSE means[h][m]
    BY MeansIs DEF Others
  <2>2. g \in Sharing(g)
    BY DEF Sharing
  <2> QED
    BY <1>1, <2>1, <2>2, NotKeys
<1>2. CASE engine \in {"lua", "py"}
  BY <1>1, <1>2 DEF Named, NamesOfClosures
<1>3. CASE engine = "js"
  BY <1>1, <1>3 DEF Named, NamesOfObjects
<1>4. CASE engine = "rb"
  <2>1. NamesOfRuby
    BY <1>4 DEF Named
  <2>2. \A e \in table : e.guest = global => GivenToSomeone(e)'
    BY <1>4, <2>1 DEF NamesOfRuby, GivenToSomeone
  <2> QED
    BY <1>1, <1>4, <2>1, <2>2 DEF Named, NamesOfRuby
<1> QED
  BY <1>2, <1>3, <1>4 DEF TypeOK, Engines

(* A constant is defined. *)
LEMMA NamedConstant ==
  ASSUME TypeOK, Lifecycle, Named, NEW g \in Guests, NEW n \in Names, NEW d \in Constants, DefineConstant(g, n, d)
  PROVE  Named'
<1>1. status[g] = "ready" /\ UNCHANGED <<engine, status, refs, global>> /\ d \in Data
  BY DEF DefineConstant, Usable, Data
<1>2. CASE engine = "rb"
  <2>1. StoreGlobal(g, n, d) /\ given' = [given EXCEPT ![g][n] = d]
    BY <1>2 DEF DefineConstant
  <2> QED
    BY <1>1, <1>2, <2>1, RubyDefines DEF Named
<1>3. CASE engine # "rb"
  <2>1. means' = Means(g, n, "value") /\ UNCHANGED table /\ given' = [given EXCEPT ![g][n] = "none"]
    BY <1>3 DEF DefineConstant
  <2>2. \A h \in Guests, m \in Names : ~(h = g /\ m = n) => given'[h][m] = given[h][m]
    BY <2>1, GivenIs
  <2> QED
    BY <1>1, <1>3, <2>1, <2>2, NamedLoses
<1> QED
  BY <1>2, <1>3

(* Every step keeps names in order. *)
LEMMA NamedStep ==
  ASSUME TypeOK, Lifecycle, Named, [Next]_vars
  PROVE  Named'
<1>1. CASE UNCHANGED <<engine, status, refs, global, means, table, given>>
  BY <1>1 DEF Named, NamesOfClosures, NamesOfObjects, NamesOfRuby, GivenToSomeone
<1>2. ASSUME NEW g \in Guests, Initialize(g) \/ Destroy(g) \/ Discard(g) PROVE Named'
  <2>1. UNCHANGED <<engine, table, given>> /\ (engine # "rb" => UNCHANGED means)
    BY <1>2 DEF Initialize, Destroy, Discard
  <2>2. CASE engine = "rb"
    BY <1>2, <2>1, <2>2, RubyLives DEF Named
  <2>3. CASE engine # "rb"
    BY <2>1, <2>3 DEF Named, NamesOfClosures, NamesOfObjects
  <2> QED
    BY <2>2, <2>3
<1>3. ASSUME NEW g \in Guests, InitializeFails(g) PROVE Named'
  BY <1>3 DEF InitializeFails, Harm, Named, NamesOfClosures, NamesOfObjects
<1>4. ASSUME NEW g \in Guests, Compile(g) \/ IsFunction(g) PROVE Named'
  BY <1>1, <1>4 DEF Compile, IsFunction
<1>5. ASSUME NEW g \in Guests, NEW n \in Names, CallFunction(g, n) \/ CallMissing(g, n) PROVE Named'
  BY <1>1, <1>5 DEF CallFunction, CallMissing
<1>6. ASSUME NEW n \in Names, Redefine(n) PROVE Named'
  <2>1. Top.guest \in Guests
    BY <1>6, TopIsFrame DEF Redefine, GuestRuns
  <2> QED
    BY <1>6, <2>1, NamedLoses DEF Redefine
<1>7. ASSUME NEW n \in Names, Invoke(n) \/ ReadFreed(n) PROVE Named'
  BY <1>1, <1>7 DEF Invoke, ReadFreed, Harm
<1>8. CASE Succeed \/ Fail \/ Escapes \/ FunctionReturns \/ UseShutDown \/ UseFreed
  BY <1>1, <1>8 DEF Succeed, Fail, Ends, Escapes, FunctionReturns, UseShutDown, UseFreed, Harm
<1>9. ASSUME NEW g \in Guests, Overflow(g) \/ \E n \in Names : LookupRaises(g, n) PROVE Named'
  BY <1>1, <1>9 DEF Overflow, LookupRaises, Harm
<1> QED
  BY <1>1, <1>2, <1>3, <1>4, <1>5, <1>6, <1>7, <1>8, <1>9, NamedFunction, NamedConstant DEF Next, vars

-----------------------------------------------------------------------------
(* The right function                                                      *)

(* Functions of the application are what runs.                             *)
Ran == \A i \in 1..Len(calls) : calls[i].doing = "native" => calls[i].ran \in Functions

(* A step adds a frame of a function only when a guest invokes it. *)
LEMMA FramesPersist ==
  ASSUME TypeOK, [Next]_vars, NEW i \in 1..Len(calls'), calls'[i].doing = "native"
  PROVE  \/ i \in 1..Len(calls) /\ calls'[i] = calls[i]
         \/ i = Len(calls) + 1 /\ \E n \in Names : Invoke(n)
<1>1. CASE UNCHANGED calls
  BY <1>1
<1>2. ASSUME NEW g \in Guests, NEW doing \in Doing \ {"native"}, Begin(g, doing, "none", "none")
      PROVE  i \in 1..Len(calls) /\ calls'[i] = calls[i]
  <2>1. "none" \in Data \cup {"none"} /\ doing \in Doing /\ doing # "native"
    OBVIOUS
  <2>2. /\ Len(calls) \in Nat /\ Len(calls') = Len(calls) + 1
        /\ calls'[Len(calls')] = [guest |-> g, doing |-> doing, due |-> "none", ran |-> "none", base |-> left[g]]
        /\ \A j \in 1..Len(calls) : calls'[j] = calls[j]
    BY <1>2, <2>1, Beginning
  <2>3. calls'[Len(calls')].doing = doing
    BY <2>2
  <2>4. i # Len(calls')
    BY <2>1, <2>3
  <2> QED
    BY <2>2, <2>4
<1>3. CASE calls # <<>> /\ End
  <2>1. /\ Len(calls) \in Nat \ {0} /\ Len(calls') = Len(calls) - 1
        /\ \A j \in 1..Len(calls') : calls'[j] = calls[j]
    BY <1>3, Ending
  <2> QED
    BY <2>1
<1>4. ASSUME NEW g \in Guests, Initialize(g) \/ InitializeFails(g) \/ Destroy(g) \/ Discard(g) PROVE UNCHANGED calls
  BY <1>4 DEF Initialize, InitializeFails, Destroy, Discard, Harm
<1>5. ASSUME NEW g \in Guests, Compile(g) \/ IsFunction(g) \/ \E n \in Names : CallFunction(g, n)
      PROVE  i \in 1..Len(calls) /\ calls'[i] = calls[i]
  <2>1. Begin(g, "compile", "none", "none") \/ Begin(g, "test", "none", "none") \/ Begin(g, "call", "none", "none")
    BY <1>5 DEF Compile, IsFunction, CallFunction
  <2> QED
    BY <1>2, <2>1 DEF Doing
<1>6. ASSUME NEW g \in Guests, NEW n \in Names, NEW d, DefineFunction(g, n, d) \/ DefineConstant(g, n, d) \/ CallMissing(g, n)
      PROVE  UNCHANGED calls
  BY <1>6 DEF DefineFunction, DefineConstant, CallMissing
<1>7. ASSUME NEW n \in Names, Redefine(n) \/ ReadFreed(n) PROVE UNCHANGED calls
  BY <1>7 DEF Redefine, ReadFreed, Harm
<1>8. ASSUME NEW n \in Names, Invoke(n) PROVE (i \in 1..Len(calls) /\ calls'[i] = calls[i]) \/ (i = Len(calls) + 1 /\ \E m \in Names : Invoke(m))
  BY <1>8, Invoking
<1>9. CASE Succeed \/ Fail \/ Escapes \/ FunctionReturns \/ UseShutDown \/ UseFreed
  BY <1>1, <1>3, <1>9 DEF Succeed, Fail, Ends, Escapes, FunctionReturns, UseShutDown, UseFreed, Harm, GuestRuns
<1>14. ASSUME NEW g \in Guests, Overflow(g) \/ \E n \in Names : LookupRaises(g, n) PROVE UNCHANGED calls
  BY <1>14 DEF Overflow, LookupRaises, Harm
<1>10. CASE \E g \in Guests : Initialize(g) \/ InitializeFails(g) \/ Destroy(g) \/ Discard(g) \/ Compile(g) \/ IsFunction(g)
  BY <1>1, <1>4, <1>5, <1>10
<1>11. CASE \E g \in Guests, n \in Names :
              \/ \E f \in Functions : DefineFunction(g, n, f)
              \/ \E d \in Constants : DefineConstant(g, n, d)
              \/ CallFunction(g, n) \/ CallMissing(g, n)
  BY <1>1, <1>5, <1>6, <1>11
<1>12. CASE \E n \in Names : Redefine(n) \/ Invoke(n) \/ ReadFreed(n)
  BY <1>1, <1>7, <1>8, <1>12
<1>13. CASE UNCHANGED vars
  BY <1>1, <1>13 DEF vars
<1> QED
  BY <1>1, <1>9, <1>10, <1>11, <1>12, <1>13, <1>14 DEF Next

(* The frame of a function that is invoked. *)
LEMMA InvokedFrame ==
  ASSUME TypeOK, NEW n \in Names, Invoke(n)
  PROVE  /\ Top.guest \in Guests /\ Len(calls') = Len(calls) + 1 /\ Len(calls) \in Nat
         /\ calls'[Len(calls) + 1].guest = Top.guest
         /\ calls'[Len(calls) + 1].due = given[Top.guest][n]
         /\ calls'[Len(calls) + 1].ran \in Found(Top.guest, means[Top.guest][n]) \cap Functions
<1>1. PICK f \in Found(Top.guest, means[Top.guest][n]) \cap Functions :
        calls'[Len(calls) + 1] = [guest |-> Top.guest, doing |-> "native", due |-> given[Top.guest][n], ran |-> f,
                                  base |-> left[Top.guest]]
  BY Invoking
<1>2. Top.guest \in Guests /\ Len(calls') = Len(calls) + 1 /\ Len(calls) \in Nat
  BY Invoking
<1> QED
  BY <1>1, <1>2

(* Only functions run. *)
LEMMA RanStep ==
  ASSUME TypeOK, Ran, [Next]_vars
  PROVE  Ran'
<1> SUFFICES ASSUME NEW i \in 1..Len(calls'), calls'[i].doing = "native" PROVE calls'[i].ran \in Functions
  BY DEF Ran
<1> QED
  BY FramesPersist, InvokedFrame DEF Ran

(* The tables of functions grow; what is given has an entry in Ruby. *)
LEMMA TablesGrow ==
  ASSUME TypeOK, [Next]_vars
  PROVE  /\ engine' = engine /\ table \subseteq table'
         /\ global' = global \/ \E g \in Guests : Initialize(g)
         /\ \/ given' = given
            \/ /\ global' = global
               /\ \E g \in Guests, n \in Names, d \in Data :
                    /\ status[g] = "ready"
                    /\ engine = "rb" => given' = [given EXCEPT ![g][n] = d] /\ Entry(global, n, d) \in table'
<1> DEFINE Grow == /\ engine' = engine /\ table \subseteq table'
                   /\ global' = global \/ \E g \in Guests : Initialize(g)
                   /\ \/ given' = given
                      \/ /\ global' = global
                         /\ \E g \in Guests, n \in Names, d \in Data :
                              /\ status[g] = "ready"
                              /\ engine = "rb" => given' = [given EXCEPT ![g][n] = d] /\ Entry(global, n, d) \in table'
<1> SUFFICES Grow
  OBVIOUS
<1> HIDE DEF Grow
<1>1. CASE UNCHANGED <<engine, global, table, given>>
  BY <1>1 DEF Grow
<1>2. ASSUME NEW g \in Guests, Initialize(g) \/ InitializeFails(g) \/ Destroy(g) \/ Discard(g) PROVE Grow
  BY <1>2 DEF Grow, Initialize, InitializeFails, Destroy, Discard, Harm
<1>3. ASSUME NEW g \in Guests, Compile(g) \/ IsFunction(g) PROVE Grow
  BY <1>1, <1>3 DEF Compile, IsFunction
<1>4. ASSUME NEW g \in Guests, NEW n \in Names, CallFunction(g, n) \/ CallMissing(g, n) PROVE Grow
  BY <1>1, <1>4 DEF CallFunction, CallMissing
<1>5. ASSUME NEW g \in Guests, NEW n \in Names, NEW d \in Data,
             (DefineFunction(g, n, d) /\ d \in Functions) \/ (DefineConstant(g, n, d) /\ d \in Constants)
      PROVE  Grow
  <2>1. status[g] = "ready" /\ engine' = engine /\ global' = global
    BY <1>5 DEF DefineFunction, DefineConstant, Usable
  <2>2. table \subseteq table'
    BY <1>5 DEF DefineFunction, DefineConstant, StoreGlobal, Store
  <2>3. engine = "rb" => given' = [given EXCEPT ![g][n] = d] /\ Entry(global, n, d) \in table'
    <3> SUFFICES ASSUME engine = "rb" PROVE given' = [given EXCEPT ![g][n] = d] /\ Entry(global, n, d) \in table'
      OBVIOUS
    <3>1. StoreGlobal(g, n, d) /\ given' = [given EXCEPT ![g][n] = d]
      BY <1>5 DEF DefineFunction, DefineConstant
    <3> QED
      BY <3>1 DEF StoreGlobal, Store
  <2> QED
    BY <2>1, <2>2, <2>3 DEF Grow
<1>6. ASSUME NEW n \in Names, Redefine(n) \/ Invoke(n) \/ ReadFreed(n) PROVE Grow
  BY <1>1, <1>6 DEF Redefine, Invoke, ReadFreed, Harm
<1>7. CASE Succeed \/ Fail \/ Escapes \/ FunctionReturns \/ UseShutDown \/ UseFreed
  BY <1>1, <1>7 DEF Succeed, Fail, Ends, Escapes, FunctionReturns, UseShutDown, UseFreed, Harm
<1>20. ASSUME NEW g \in Guests, Overflow(g) \/ \E n \in Names : LookupRaises(g, n) PROVE Grow
  BY <1>1, <1>20 DEF Overflow, LookupRaises, Harm
<1>8. Functions \subseteq Data /\ Constants \subseteq Data
  BY DEF Data
<1>9. ASSUME NEW g \in Guests, NEW n \in Names,
             (\E f \in Functions : DefineFunction(g, n, f)) \/ (\E d \in Constants : DefineConstant(g, n, d))
      PROVE  Grow
  BY <1>5, <1>8, <1>9
<1>10. CASE UNCHANGED vars
  BY <1>1, <1>10 DEF vars
<1>11. CASE \E g \in Guests : Initialize(g) \/ InitializeFails(g) \/ Destroy(g) \/ Discard(g) \/ Compile(g) \/ IsFunction(g)
  BY <1>2, <1>3, <1>11
<1>12. CASE \E g \in Guests, n \in Names :
              \/ \E f \in Functions : DefineFunction(g, n, f)
              \/ \E d \in Constants : DefineConstant(g, n, d)
              \/ CallFunction(g, n) \/ CallMissing(g, n)
  BY <1>4, <1>9, <1>12
<1>13. CASE \E n \in Names : Redefine(n) \/ Invoke(n) \/ ReadFreed(n)
  BY <1>6, <1>13
<1> QED
  BY <1>7, <1>10, <1>11, <1>12, <1>13, <1>20 DEF Next

(* What may have mistaken a call may still have when it is over. *)
LEMMA MistakenStays ==
  ASSUME TypeOK, Lifecycle, Named, [Next]_vars,
         NEW c \in Frame, status[c.guest] = "ready", c.ran \in Functions, Mistaken(c)
  PROVE  Mistaken(c)'
<1>1. c.guest \in Guests /\ engine' = engine /\ table \subseteq table'
  BY TablesGrow DEF Frame
<1>2. CASE engine = "js"
  BY <1>1, <1>2 DEF Mistaken, Doubled
<1>3. CASE engine = "rb"
  <2>1. refs > 0 /\ refs \in Nat /\ global \in Guests
    BY <1>1, <1>3, RubyCounts
  <2>2. global' = global
    <3>1. ASSUME NEW g \in Guests, Initialize(g) PROVE global' = global
      BY <2>1, <3>1 DEF Initialize, First
    <3> QED
      BY <3>1, TablesGrow
  <2>3. CASE Doubled(global)
    BY <1>1, <1>3, <2>2, <2>3 DEF Mistaken, Doubled
  <2>4. CASE GivenToAnother(c)
    <3>1. PICK h \in Guests \ {c.guest}, n \in Names : given[h][n] = c.ran
      BY <2>4 DEF GivenToAnother
    <3>2. CASE given'[h][n] = given[h][n]
      BY <1>1, <1>3, <3>1, <3>2 DEF Mistaken, GivenToAnother
    <3>3. CASE given'[h][n] # given[h][n]
      <4>1. PICK g \in Guests, m \in Names, d \in Data :
                 status[g] = "ready" /\ given' = [given EXCEPT ![g][m] = d] /\ Entry(global, m, d) \in table'
        BY <1>3, <3>3, TablesGrow
      <4>2. h = g /\ n = m /\ d # c.ran
        <5>1. given'[h][n] = IF h = g /\ n = m THEN d ELSE given[h][n]
          <6>1. given \in [Guests -> [Names -> Data \cup {"none"}]]
            BY DEF TypeOK
          <6> QED
            BY <3>1, <4>1, <6>1
        <5> QED
          BY <3>1, <3>3, <5>1
      <4>3. c.ran # "none"
        BY NotKeys DEF Keys
      <4>4. Entry(global, n, c.ran) \in table
        BY <1>3, <3>1, <4>1, <4>2, <4>3 DEF Named, NamesOfRuby
      <4>5. /\ Entry(global, n, c.ran) \in table' /\ Entry(global, n, d) \in table'
            /\ Entry(global, n, c.ran) # Entry(global, n, d)
            /\ Entry(global, n, c.ran).guest = global /\ Entry(global, n, d).guest = global
            /\ Entry(global, n, c.ran).key = n /\ Entry(global, n, d).key = n
        BY <1>1, <4>1, <4>2, <4>4 DEF Entry
      <4>6. Doubled(global)'
        BY <2>2, <4>5 DEF Doubled
      <4> QED
        BY <1>1, <1>3, <4>6 DEF Mistaken
    <3> QED
      BY <3>2, <3>3
  <2> QED
    BY <1>3, <2>3, <2>4 DEF Mistaken
<1> QED
  BY <1>2, <1>3 DEF Mistaken

(* A function that is invoked is the right one, or there is a reason. *)
LEMMA RightlyInvoked ==
  ASSUME TypeOK, Named, NEW n \in Names, Invoke(n), NEW c \in Frame, c.guest = Top.guest, c.guest \in Guests,
         c.due = given[c.guest][n], c.ran \in Found(c.guest, means[c.guest][n]) \cap Functions, c.ran # c.due
  PROVE  Mistaken(c)
<1>1. means[c.guest][n] \in Keys
  BY DEF Invoke
<1>2. CASE engine \in {"lua", "py"}
  BY <1>1, <1>2 DEF Found, Named, NamesOfClosures
<1>3. CASE engine = "js"
  <2>1. PICK e \in table : e.key = means[c.guest][n] /\ e.guest = c.guest /\ e.data = c.ran
    BY <1>3 DEF Found
  <2>2. Entry(c.guest, means[c.guest][n], c.due) \in table
    BY <1>1, <1>3 DEF Named, NamesOfObjects
  <2> QED
    BY <1>3, <2>1, <2>2 DEF Mistaken, Doubled, Entry
<1>4. CASE engine = "rb"
  <2>1. PICK e \in table : e.key = means[c.guest][n] /\ e.guest = global /\ e.data = c.ran
    BY <1>4 DEF Found
  <2>2. means[c.guest][n] = n /\ GivenToSomeone(e)
    BY <1>1, <1>4, <2>1 DEF Named, NamesOfRuby
  <2>3. CASE \E h \in Guests : given[h][n] = c.ran
    BY <1>4, <2>3 DEF Mistaken, GivenToAnother
  <2>4. CASE \E d \in table : d # e /\ d.guest = e.guest /\ d.key = e.key
    BY <1>4, <2>1, <2>4 DEF Mistaken, Doubled
  <2> QED
    BY <2>1, <2>2, <2>3, <2>4 DEF GivenToSomeone
<1> QED
  BY <1>2, <1>3, <1>4 DEF TypeOK, Engines

(* Every step keeps to the right functions. *)
LEMMA RightlyStep ==
  ASSUME TypeOK, Lifecycle, Framed, Ran, Named, Rightly, [Next]_vars, TypeOK'
  PROVE  Rightly'
<1> SUFFICES ASSUME NEW i \in 1..Len(calls'), calls'[i].doing = "native", calls'[i].ran # calls'[i].due
             PROVE  Mistaken(calls[i])'
  BY DEF Rightly
<1>1. calls'[i] \in Frame
  <2>1. calls' \in Seq(Frame)
    BY DEF TypeOK
  <2> QED
    BY <2>1
<1>2. PICK c \in Frame : c = calls'[i]
  BY <1>1
<1>3. SUFFICES Mistaken(c)'
  BY <1>2 DEF Mistaken, GivenToAnother
<1>4. CASE i \in 1..Len(calls) /\ calls'[i] = calls[i]
  <2>1. Mistaken(c) /\ c.ran \in Functions /\ status[c.guest] = "ready"
    BY <1>2, <1>4 DEF Rightly, Ran, Framed, Nested
  <2> QED
    BY <2>1, MistakenStays
<1>5. CASE i = Len(calls) + 1 /\ \E n \in Names : Invoke(n)
  <2>1. PICK n \in Names : Invoke(n)
    BY <1>5
  <2>2. /\ c.guest = Top.guest /\ c.guest \in Guests /\ c.due = given[c.guest][n]
        /\ c.ran \in Found(c.guest, means[c.guest][n]) \cap Functions /\ c.ran # c.due
    BY <1>2, <1>5, <2>1, InvokedFrame
  <2>3. Mistaken(c)
    BY <2>1, <2>2, RightlyInvoked
  <2>4. UNCHANGED <<engine, global, table, given>>
    BY <2>1 DEF Invoke
  <2> QED
    BY <2>3, <2>4 DEF Mistaken, Doubled, GivenToAnother
<1> QED
  BY <1>4, <1>5, FramesPersist

(* Names stay in order, and functions of the application are called. *)
THEOREM NamesInvariant == Spec => [](Named /\ Ran /\ Rightly)
<1>1. Init => Named /\ Ran /\ Rightly
  BY InitNamed DEF Init, Ran, Rightly
<1>2. TypeOK /\ Lifecycle /\ Framed /\ TypeOK' /\ Named /\ Ran /\ Rightly /\ [Next]_vars => (Named /\ Ran /\ Rightly)'
  BY NamedStep, RanStep, RightlyStep
<1> QED
  BY <1>1, <1>2, LivesInvariant, FramedInvariant, PTL DEF Spec

(* A name finds a function of the application, and the right one, but for  *)
(* the cases that Mistaken lists (RightFunction).                          *)
THEOREM RightFunctionRuns == Spec => []RightFunction
<1>1. TypeOK /\ Lifecycle /\ Named /\ Rightly => RightFunction
  <2> SUFFICES ASSUME TypeOK, Lifecycle, Named, Rightly,
                      NEW g \in Ready, NEW n \in Names, means[g][n] \in Keys, ~GlobalGone
               PROVE  Found(g, means[g][n]) # {}
    BY DEF RightFunction
  <2>1. g \in Guests /\ status[g] = "ready"
    BY DEF Ready
  <2>2. CASE engine \in {"lua", "py"}
    BY <2>2 DEF Found
  <2>3. CASE engine = "js"
    <3>1. Entry(g, means[g][n], given[g][n]) \in table
      BY <2>1, <2>3 DEF Named, NamesOfObjects
    <3> QED
      BY <2>3, <3>1 DEF Found, Entry
  <2>4. CASE engine = "rb"
    <3>1. means[g][n] = n /\ \E d \in Data : Entry(global, n, d) \in table
      BY <2>1, <2>4 DEF Named, NamesOfRuby
    <3> QED
      BY <2>4, <3>1 DEF Found, Entry
  <2> QED
    BY <2>2, <2>3, <2>4 DEF TypeOK, Engines
<1> QED
  BY <1>1, LivesInvariant, NamesInvariant, PTL

-----------------------------------------------------------------------------
(* Accidents                                                               *)

(* Where nothing has happened yet, an accident has its cause. *)
LEMMA AccidentStep ==
  ASSUME TypeOK, Lifecycle, Named, AccidentHasCause, [Next]_vars
  PROVE  AccidentHasCause'
<1>1. CASE accident' = "none"
  BY <1>1 DEF AccidentHasCause
<1>2. CASE UNCHANGED vars
  BY <1>2 DEF AccidentHasCause, Outlived, vars
<1>3. ASSUME accident = "none", accident' # "none", Next PROVE AccidentHasCause'
  <2>1. ASSUME NEW g \in Guests, InitializeFails(g), Harm("null") PROVE AccidentHasCause'
    BY <2>1 DEF InitializeFails, Harm, AccidentHasCause
  <2>2. ASSUME NEW n \in Names, ReadFreed(n) PROVE AccidentHasCause'
    <3>1. Top.guest \in Guests
      BY <2>2, TopIsFrame DEF ReadFreed, GuestRuns
    <3>2. "freed" \notin Keys /\ "freed" \notin Functions
      BY NotKeys DEF Keys
    <3>3. engine = "rb" /\ \E e \in table : e.data = "freed"
      BY <2>2, <3>1, <3>2 DEF ReadFreed, Found, TypeOK, Engines, Named, NamesOfObjects
    <3> QED
      BY <2>2, <3>3 DEF ReadFreed, Harm, AccidentHasCause
  <2>3. CASE Fail \/ Escapes
    BY <1>3, <2>3 DEF Fail, Ends, Escapes, Harm, AccidentHasCause
  <2>11. ASSUME NEW g \in Guests, Overflow(g) \/ \E n \in Names : LookupRaises(g, n) PROVE AccidentHasCause'
    BY <2>11 DEF Overflow, LookupRaises, Harm, AccidentHasCause
  <2>4. CASE UseShutDown
    <3>1. engine = "js" /\ Outlived
      <4>1. ~Counted
        <5>1. SUFFICES ASSUME Counted PROVE FALSE
          OBVIOUS
        <5>2. PICK g \in Guests : status[g] = "ready"
          BY <2>4 DEF UseShutDown
        <5>3. refs \in Nat \ {0}
          BY <5>1, <5>2, CounterPositive
        <5>4. refs > 0
          BY <5>3
        <5> QED
          BY <2>4, <5>1, <5>4 DEF Lifecycle, UseShutDown
      <4>2. engine = "js"
        BY <2>4, <4>1 DEF Counted, UseShutDown, TypeOK, Engines
      <4> QED
        BY <2>4, <4>2 DEF UseShutDown, Lifecycle, Ready
    <3> QED
      BY <2>4, <3>1 DEF UseShutDown, Harm, AccidentHasCause, Outlived
  <2>5. CASE UseFreed
    <3>1. engine = "rb" /\ Outlived
      <4>1. engine = "rb" /\ refs > 0 /\ status[global] # "ready"
        BY <2>5 DEF UseFreed, GlobalGone
      <4>2. global \in Guests /\ status[global] = "destroyed"
        BY <4>1 DEF Lifecycle
      <4>3. \E h \in Guests : status[h] = "ready"
        <5>1. SUFFICES ASSUME Ready = {} PROVE FALSE
          BY DEF Ready
        <5>2. refs = 0
          BY <4>1, <5>1, FS_EmptySet DEF Lifecycle, Counted
        <5> QED
          BY <4>1, <5>2
      <4> QED
        BY <4>1, <4>2, <4>3 DEF Outlived
    <3> QED
      BY <2>5, <3>1 DEF UseFreed, Harm, AccidentHasCause, Outlived
  <2>6. CASE UNCHANGED accident
    BY <1>3, <2>6
  <2>7. ASSUME NEW g \in Guests,
               Initialize(g) \/ InitializeFails(g) \/ Destroy(g) \/ Discard(g) \/ Compile(g) \/ IsFunction(g)
        PROVE  AccidentHasCause'
    <3>1. UNCHANGED accident \/ (InitializeFails(g) /\ Harm("null"))
      BY <2>7 DEF Initialize, InitializeFails, Destroy, Discard, Compile, IsFunction
    <3> QED
      BY <2>1, <2>6, <3>1
  <2>8. ASSUME NEW g \in Guests, NEW n \in Names,
               \/ \E f \in Functions : DefineFunction(g, n, f)
               \/ \E d \in Constants : DefineConstant(g, n, d)
               \/ CallFunction(g, n) \/ CallMissing(g, n)
        PROVE  UNCHANGED accident
    BY <2>8 DEF DefineFunction, DefineConstant, CallFunction, CallMissing
  <2>9. ASSUME NEW n \in Names, Redefine(n) \/ Invoke(n) PROVE UNCHANGED accident
    BY <2>9 DEF Redefine, Invoke
  <2>10. CASE Succeed \/ FunctionReturns
    BY <2>6, <2>10 DEF Succeed, Ends, FunctionReturns
  <2> QED
    BY <1>3, <2>2, <2>3, <2>4, <2>5, <2>6, <2>7, <2>8, <2>9, <2>10, <2>11 DEF Next
<1>4. Next /\ accident # "none" => FALSE
  BY DEF Next, AppRuns, GuestRuns, Initialize, InitializeFails, Destroy, Discard, Compile, IsFunction, DefineFunction,
         DefineConstant, CallFunction, CallMissing, Redefine, Invoke, ReadFreed, Succeed, Fail, Escapes,
         FunctionReturns, UseShutDown, UseFreed, Overflow, LookupRaises
<1> QED
  BY <1>1, <1>2, <1>3, <1>4

(* What guests do is the end of the application only for the reasons that  *)
(* AccidentHasCause names.                                                 *)
THEOREM AccidentsHaveCauses == Spec => []AccidentHasCause
<1>1. Init => AccidentHasCause
  BY DEF Init, AccidentHasCause
<1>2. TypeOK /\ Lifecycle /\ Named /\ AccidentHasCause /\ [Next]_vars => AccidentHasCause'
  BY AccidentStep
<1> QED
  BY <1>1, <1>2, LivesInvariant, NamesInvariant, PTL DEF Spec

-----------------------------------------------------------------------------
(* The Lua stack                                                           *)

(* The frames' guests and bases. *)
LEMMA FrameAt ==
  ASSUME TypeOK, NEW i \in 1..Len(calls)
  PROVE  calls[i].guest \in Guests /\ calls[i].base \in 0..Room
<1>1. calls \in Seq(Frame)
  BY DEF TypeOK
<1>2. calls[i] \in Frame
  BY <1>1
<1> QED
  BY <1>2 DEF Frame

(* At first nothing is left. *)
LEMMA InitExplained == Init => Explained
BY DEF Init, Explained

(* A call of any kind is begun: the base of its frame is what is left now. *)
LEMMA ExplainedBegin ==
  ASSUME TypeOK, Explained, NEW g \in Guests, UNCHANGED causes,
         UNCHANGED left \/ left' = [left EXCEPT ![g] = 0],
         Len(calls) \in Nat, Len(calls') = Len(calls) + 1,
         calls'[Len(calls) + 1].guest = g, calls'[Len(calls) + 1].base = left[g],
         \A i \in 1..Len(calls) : calls'[i] = calls[i]
  PROVE  Explained'
<1>1. \A h \in Guests : left[h] \in 0..Room /\ causes[h] \in 0..Room /\ left[h] <= causes[h]
  BY DEF TypeOK, Explained
<1>2. \A h \in Guests : left'[h] <= causes'[h]
  <2> SUFFICES ASSUME NEW h \in Guests PROVE left'[h] <= causes[h]
    OBVIOUS
  <2>1. left'[h] = left[h] \/ left'[h] = 0
    BY DEF TypeOK
  <2> QED
    BY <1>1, <2>1, InterpretersAssumption
<1>3. ASSUME NEW i \in 1..Len(calls') PROVE calls'[i].base <= causes'[calls'[i].guest]
  <2>1. CASE i = Len(calls) + 1
    BY <1>1, <2>1
  <2>2. CASE i # Len(calls) + 1
    BY <2>2 DEF Explained
  <2> QED
    BY <2>1, <2>2
<1> QED
  BY <1>2, <1>3 DEF Explained

(* Slots are left, and there is as much cause. *)
LEMMA ExplainedLeaves ==
  ASSUME TypeOK, Explained, NEW g \in Guests, NEW m \in Nat, NEW n \in Nat, m <= n,
         left' = [left EXCEPT ![g] = More(left[g], m)], causes' = [causes EXCEPT ![g] = More(causes[g], n)],
         Len(calls') \in 0..Len(calls), \A i \in 1..Len(calls') : calls'[i] = calls[i], Len(calls) \in Nat
  PROVE  Explained'
<1>1. \A h \in Guests : left[h] \in 0..Room /\ causes[h] \in 0..Room /\ left[h] <= causes[h]
  BY DEF TypeOK, Explained
<1>2. \A h \in Guests : causes'[h] = IF h = g THEN More(causes[g], n) ELSE causes[h]
  BY DEF TypeOK
<1>3. More(left[g], m) <= More(causes[g], n)
  BY <1>1, MoreIs
<1>4. causes[g] <= More(causes[g], n)
  BY <1>1, InterpretersAssumption DEF More
<1>5. \A h \in Guests : left'[h] <= causes'[h]
  BY <1>1, <1>2, <1>3 DEF TypeOK
<1>6. ASSUME NEW i \in 1..Len(calls') PROVE calls'[i].base <= causes'[calls'[i].guest]
  <2>1. i \in 1..Len(calls) /\ calls'[i] = calls[i]
    OBVIOUS
  <2>2. calls[i].guest \in Guests /\ calls[i].base \in 0..Room /\ calls[i].base <= causes[calls[i].guest]
    BY <2>1, FrameAt DEF Explained
  <2>3. CASE calls[i].guest = g
    <3>1. More(causes[g], n) \in 0..Room
      BY <1>1, MoreIs
    <3> QED
      BY <1>1, <1>2, <1>4, <2>1, <2>2, <2>3, <3>1
  <2>4. CASE calls[i].guest # g
    BY <1>2, <2>1, <2>2, <2>4
  <2> QED
    BY <2>3, <2>4
<1> QED
  BY <1>5, <1>6 DEF Explained

(* A guest's code ends. *)
LEMMA ExplainedEnds ==
  ASSUME TypeOK, Explained, GuestRuns, NEW ok \in BOOLEAN, Ends(ok)
  PROVE  Explained'
<1>1. calls # <<>> /\ End /\ Top.guest \in Guests
  BY EndsLeaves DEF GuestRuns
<1>2. /\ Len(calls) \in Nat \ {0} /\ Len(calls') = Len(calls) - 1
      /\ \A i \in 1..Len(calls') : calls'[i] = calls[i]
  BY <1>1, Ending
<1>3. CASE UNCHANGED <<left, causes>>
  BY <1>2, <1>3 DEF Explained
<1>4. CASE ~UNCHANGED <<left, causes>>
  <2>1. PICK m \in Nat, n \in Nat :
          /\ m <= n
          /\ left' = [left EXCEPT ![Top.guest] = More(left[Top.guest], m)]
          /\ causes' = [causes EXCEPT ![Top.guest] = More(causes[Top.guest], n)]
    BY <1>1, <1>4, EndsLeaves
  <2>2. Len(calls') \in 0..Len(calls) /\ Len(calls) \in Nat
    BY <1>2
  <2> QED
    BY <1>1, <1>2, <2>1, <2>2, ExplainedLeaves
<1> QED
  BY <1>3, <1>4

(* Every step leaves slots for a cause only. *)
LEMMA ExplainedStep ==
  ASSUME TypeOK, Explained, [Next]_vars
  PROVE  Explained'
<1>1. CASE UNCHANGED <<calls, left, causes>>
  BY <1>1 DEF Explained
<1>2. ASSUME NEW g \in Guests, Initialize(g) \/ InitializeFails(g) \/ Discard(g) PROVE Explained'
  BY <1>1, <1>2 DEF Initialize, InitializeFails, Discard, Harm
<1>3. ASSUME NEW g \in Guests, Destroy(g) PROVE Explained'
  <2>1. /\ calls' = calls /\ \A i \in 1..Len(calls) : calls[i].guest # g
        /\ left' = [left EXCEPT ![g] = 0] /\ causes' = [causes EXCEPT ![g] = 0]
    BY <1>3 DEF Destroy
  <2>2. \A h \in Guests : left'[h] <= causes'[h]
    <3>1. \A h \in Guests : left[h] <= causes[h]
      BY DEF Explained
    <3>2. \A h \in Guests : h = g \/ (left'[h] = left[h] /\ causes'[h] = causes[h])
      BY <2>1 DEF TypeOK
    <3>3. left'[g] = 0 /\ causes'[g] = 0
      BY <2>1 DEF TypeOK
    <3> QED
      BY <3>1, <3>2, <3>3
  <2>3. ASSUME NEW i \in 1..Len(calls) PROVE calls[i].base <= causes'[calls[i].guest]
    BY <2>1, FrameAt DEF TypeOK, Explained
  <2> QED
    BY <2>1, <2>2, <2>3 DEF Explained
<1>4. ASSUME NEW g \in Guests, Compile(g) \/ IsFunction(g) \/ \E n \in Names : CallFunction(g, n) PROVE Explained'
  <2>1. UNCHANGED <<left, causes>>
    BY <1>4 DEF Compile, IsFunction, CallFunction
  <2>2. PICK doing \in Doing : Begin(g, doing, "none", "none")
    BY <1>4 DEF Compile, IsFunction, CallFunction, Doing
  <2>3. /\ Len(calls) \in Nat /\ Len(calls') = Len(calls) + 1
        /\ calls'[Len(calls')] = [guest |-> g, doing |-> doing, due |-> "none", ran |-> "none", base |-> left[g]]
        /\ \A i \in 1..Len(calls) : calls'[i] = calls[i]
    BY <2>2, Beginning
  <2>4. calls'[Len(calls) + 1].guest = g /\ calls'[Len(calls) + 1].base = left[g]
    BY <2>3
  <2> QED
    BY <2>1, <2>3, <2>4, ExplainedBegin
<1>5. ASSUME NEW g \in Guests, NEW n \in Names, CallMissing(g, n) PROVE Explained'
  <2>1. calls' = calls /\ Len(calls) \in Nat
    <3>1. calls \in Seq(Frame)
      BY DEF TypeOK
    <3> QED
      BY <1>5, <3>1 DEF CallMissing
  <2>2. Len(calls') \in 0..Len(calls) /\ \A i \in 1..Len(calls') : calls'[i] = calls[i]
    BY <2>1
  <2>3. left' = [left EXCEPT ![g] = More(left[g], 1)] /\ causes' = [causes EXCEPT ![g] = More(causes[g], 1)]
    BY <1>5 DEF CallMissing, Leave, Because
  <2>4. PICK one \in Nat : one = 1
    OBVIOUS
  <2>5. left' = [left EXCEPT ![g] = More(left[g], one)] /\ causes' = [causes EXCEPT ![g] = More(causes[g], one)] /\ one <= one
    BY <2>3, <2>4
  <2> QED
    BY <2>1, <2>2, <2>5, ExplainedLeaves
<1>6. ASSUME NEW g, NEW n, NEW d, DefineFunction(g, n, d) \/ DefineConstant(g, n, d) PROVE Explained'
  BY <1>1, <1>6 DEF DefineFunction, DefineConstant
<1>7. ASSUME NEW n \in Names, Invoke(n) PROVE Explained'
  <2>1. /\ Top.guest \in Guests /\ Len(calls) \in Nat /\ Len(calls') = Len(calls) + 1
        /\ \A i \in 1..Len(calls) : calls'[i] = calls[i]
        /\ calls'[Len(calls) + 1].guest = Top.guest /\ calls'[Len(calls) + 1].base = left[Top.guest]
    <3>1. PICK f \in Found(Top.guest, means[Top.guest][n]) \cap Functions :
            calls'[Len(calls) + 1] = [guest |-> Top.guest, doing |-> "native", due |-> given[Top.guest][n], ran |-> f,
                                      base |-> left[Top.guest]]
      BY <1>7, Invoking
    <3> QED
      BY <1>7, <3>1, Invoking
  <2>2. UNCHANGED causes /\ left' = [left EXCEPT ![Top.guest] = 0]
    BY <1>7 DEF Invoke
  <2> QED
    BY <2>1, <2>2, ExplainedBegin
<1>8. ASSUME NEW n \in Names, Redefine(n) \/ ReadFreed(n) PROVE Explained'
  BY <1>1, <1>8 DEF Redefine, ReadFreed, Harm
<1>9. CASE Succeed
  BY <1>9, ExplainedEnds DEF Succeed
<1>10. CASE Fail
  BY <1>1, <1>10, ExplainedEnds DEF Fail, Harm
<1>11. CASE FunctionReturns
  <2>1. /\ Len(calls) \in Nat \ {0} /\ Len(calls') = Len(calls) - 1
        /\ \A i \in 1..Len(calls') : calls'[i] = calls[i]
    BY <1>11, Ending DEF FunctionReturns
  <2>2. Len(calls) \in 1..Len(calls) /\ Top = calls[Len(calls)]
    BY <2>1 DEF Top
  <2>3. Top.guest \in Guests /\ Top.base <= causes[Top.guest]
    BY <2>2, FrameAt DEF Explained
  <2>4. causes' = causes /\ \A h \in Guests : left'[h] = IF h = Top.guest THEN Top.base ELSE left[h]
    BY <1>11 DEF FunctionReturns, TypeOK
  <2> QED
    BY <2>1, <2>3, <2>4 DEF Explained
<1>12. CASE Escapes \/ UseShutDown \/ UseFreed
  BY <1>1, <1>12 DEF Escapes, UseShutDown, UseFreed, Harm
<1>13. ASSUME NEW g \in Guests, Overflow(g) \/ \E n \in Names : LookupRaises(g, n) PROVE Explained'
  BY <1>1, <1>13 DEF Overflow, LookupRaises, Harm
<1> QED
  BY <1>1, <1>2, <1>3, <1>4, <1>5, <1>6, <1>7, <1>8, <1>9, <1>10, <1>11, <1>12, <1>13 DEF Next, vars

(* An overflow comes when what is left in a frame leaves too little room.  *)
LEMMA OverflowStep ==
  ASSUME TypeOK, Explained, OverflowHasCause, [Next]_vars
  PROVE  OverflowHasCause'
<1>1. ASSUME NEW g \in Guests, Overflow(g) PROVE OverflowHasCause'
  <2>1. left[g] + 1 + MaxArguments > Room /\ causes' = causes
    BY <1>1 DEF Overflow, Harm
  <2>2. left[g] \in 0..Room /\ causes[g] \in 0..Room /\ left[g] <= causes[g] /\ MaxArguments \in Nat /\ Room \in Nat
    BY InterpretersAssumption DEF TypeOK, Explained
  <2>3. causes[g] + 1 + MaxArguments > Room
    BY <2>1, <2>2
  <2> QED
    BY <2>1, <2>3 DEF OverflowHasCause
<1>2. CASE accident' # "overflow"
  BY <1>2 DEF OverflowHasCause
<1>3. CASE UNCHANGED vars
  BY <1>3 DEF OverflowHasCause, vars
<1>4. ASSUME accident' = "overflow", Next PROVE \E g \in Guests : Overflow(g)
  <2>1. accident = "none"
    BY <1>4 DEF Next, AppRuns, GuestRuns, Initialize, InitializeFails, Destroy, Discard, Compile, IsFunction, DefineFunction,
         DefineConstant, CallFunction, CallMissing, Redefine, Invoke, ReadFreed, Succeed, Fail, Escapes,
         FunctionReturns, UseShutDown, UseFreed, Overflow, LookupRaises
  <2>2. ASSUME NEW g \in Guests,
               Initialize(g) \/ InitializeFails(g) \/ Destroy(g) \/ Discard(g) \/ Compile(g) \/ IsFunction(g)
        PROVE  FALSE
    BY <1>4, <2>1, <2>2 DEF Initialize, InitializeFails, Destroy, Discard, Compile, IsFunction, Harm
  <2>3. ASSUME NEW g \in Guests, NEW n \in Names,
               \/ \E f \in Functions : DefineFunction(g, n, f)
               \/ \E d \in Constants : DefineConstant(g, n, d)
               \/ CallFunction(g, n) \/ CallMissing(g, n) \/ LookupRaises(g, n)
        PROVE  FALSE
    BY <1>4, <2>1, <2>3 DEF DefineFunction, DefineConstant, CallFunction, CallMissing, LookupRaises, Harm
  <2>4. ASSUME NEW n \in Names, Redefine(n) \/ Invoke(n) \/ ReadFreed(n) PROVE FALSE
    BY <1>4, <2>1, <2>4 DEF Redefine, Invoke, ReadFreed, Harm
  <2>5. CASE Succeed \/ Fail \/ Escapes \/ FunctionReturns \/ UseShutDown \/ UseFreed
    BY <1>4, <2>1, <2>5 DEF Succeed, Fail, Ends, Escapes, FunctionReturns, UseShutDown, UseFreed, Harm
  <2> QED
    BY <1>4, <2>2, <2>3, <2>4, <2>5 DEF Next
<1> QED
  BY <1>1, <1>2, <1>3, <1>4

(* A Lua stack runs over only after as many errors, and results of         *)
(* scripts, as its frame has room for (OverflowHasCause).                  *)
THEOREM OverflowsHaveCauses == Spec => []OverflowHasCause
<1>1. Init => OverflowHasCause
  BY DEF Init, OverflowHasCause
<1>2. TypeOK /\ Explained /\ [Next]_vars => Explained'
  BY ExplainedStep
<1>3. TypeOK /\ Explained /\ OverflowHasCause /\ [Next]_vars => OverflowHasCause'
  BY OverflowStep
<1> QED
  BY InitExplained, <1>1, <1>2, <1>3, TypeCorrect, PTL DEF Spec

=============================================================================
