---------------------------- MODULE AlarmProofs ----------------------------
(***************************************************************************)
(* What is proved of Alarm, for every limit and for calls inside of calls  *)
(* to any depth.  NoLateAlarm needs one fact more, about which handler     *)
(* each call has saved: the first the application's, the others sigalarm,  *)
(* as long as every script compiles.                                       *)
(***************************************************************************)
EXTENDS Alarm, SequenceTheorems, TLAPS

(* What each active call will put back.                                    *)
Saved ==
  ~failed =>
    /\ handler = IF calls = <<>> THEN "application" ELSE "sigalarm"
    /\ \A i \in 1..Len(calls) : calls[i].saved = IF i = 1 THEN "application" ELSE "sigalarm"

Invariant == TypeOK /\ NoLateAlarm /\ Saved

-----------------------------------------------------------------------------
(* The calls but the innermost. *)
LEMMA Returning ==
  ASSUME NEW S, NEW s \in Seq(S), s # <<>>
  PROVE  /\ Len(s) \in Nat \ {0} /\ Last(s) \in S
         /\ Front(s) \in Seq(S) /\ Len(Front(s)) = Len(s) - 1
         /\ \A i \in 1..(Len(s) - 1) : Front(s)[i] = s[i]
<1>1. Len(s) \in Nat /\ Len(s) > 0 /\ Len(s) # 0 /\ \A i \in 1..Len(s) : s[i] \in S
  OBVIOUS
<1>2. Len(s) \in 1..Len(s) /\ Len(s) - 1 \in Int /\ \A i \in 1..(Len(s) - 1) : s[i] \in S
  BY <1>1
<1>3. /\ Front(s) \in Seq(S)
      /\ Len(Front(s)) = IF 1 <= Len(s) - 1 THEN Len(s) - 1 - 1 + 1 ELSE 0
      /\ \A i \in 1..(Len(s) - 1 - 1 + 1) : Front(s)[i] = s[1 + i - 1]
  BY <1>2, SubSeqProperties DEF Front
<1>4. Len(Front(s)) = Len(s) - 1
  <2>1. (IF 1 <= Len(s) - 1 THEN Len(s) - 1 - 1 + 1 ELSE 0) = Len(s) - 1
    BY <1>1
  <2> QED
    BY <1>3, <2>1
<1>5. \A i \in 1..(Len(s) - 1) : Front(s)[i] = s[i]
  BY <1>1, <1>3
<1> QED
  BY <1>1, <1>2, <1>3, <1>4, <1>5 DEF Last

(* A call returns and puts the handler back. *)
LEMMA LeaveKeeps ==
  ASSUME Invariant, calls # <<>>, Leave, UNCHANGED <<alive, started, failed>>
  PROVE  Invariant'
<1>1. calls \in Seq(Frame) /\ calls' = Front(calls) /\ alarm' = 0 /\ handler' = calls[Len(calls)].saved
  BY DEF Invariant, TypeOK, Leave, Top, Last
<1>2. /\ Len(calls) \in Nat \ {0} /\ calls[Len(calls)] \in Frame
      /\ calls' \in Seq(Frame) /\ Len(calls') = Len(calls) - 1
      /\ \A i \in 1..(Len(calls) - 1) : calls'[i] = calls[i]
  BY <1>1, Returning DEF Last
<1>3. TypeOK'
  BY <1>1, <1>2, AlarmAssumption DEF Invariant, TypeOK, Frame
<1>4. Saved'
  <2> SUFFICES ASSUME ~failed
               PROVE  /\ handler' = IF calls' = <<>> THEN "application" ELSE "sigalarm"
                      /\ \A i \in 1..Len(calls') : calls'[i].saved = IF i = 1 THEN "application" ELSE "sigalarm"
    BY DEF Saved
  <2>1. \A i \in 1..Len(calls) : calls[i].saved = IF i = 1 THEN "application" ELSE "sigalarm"
    BY DEF Invariant, Saved
  <2>2. calls' = <<>> <=> Len(calls) = 1
    BY <1>2
  <2>3. handler' = IF Len(calls) = 1 THEN "application" ELSE "sigalarm"
    BY <1>1, <1>2, <2>1
  <2>4. \A i \in 1..Len(calls') : i \in 1..Len(calls) /\ calls'[i] = calls[i]
    BY <1>2
  <2> QED
    BY <2>1, <2>2, <2>3, <2>4
<1> QED
  BY <1>1, <1>3, <1>4 DEF Invariant, NoLateAlarm

(* A call inside of a call is added. *)
LEMMA CallKeeps ==
  ASSUME Invariant, NEW seconds \in 1..MaxSeconds, NEW script \in BOOLEAN, NEW function \in BOOLEAN,
         Call(seconds, script, function)
  PROVE  Invariant'
<1> DEFINE f == [at |-> IF script THEN "compile" ELSE "ask", script |-> script, function |-> function, saved |-> handler]
<1>1. f \in Frame /\ f.saved = handler
  BY DEF Invariant, TypeOK, Frame
<1>2. calls \in Seq(Frame) /\ calls' = Append(calls, f)
  BY DEF Invariant, TypeOK, Call
<1> HIDE DEF f
<1>3. /\ calls' \in Seq(Frame) /\ calls' # <<>> /\ Len(calls) \in Nat /\ Len(calls') = Len(calls) + 1
      /\ calls'[Len(calls) + 1] = f /\ \A i \in 1..Len(calls) : calls'[i] = calls[i]
  BY <1>1, <1>2
<1>4. TypeOK'
  <2>1. started' \in 0..MaxCalls
    BY AlarmAssumption DEF Call, Invariant, TypeOK
  <2> QED
    BY <1>3, <2>1, AlarmAssumption DEF Call, Invariant, TypeOK, Handlers
<1>5. Saved'
  <2> SUFFICES ASSUME ~failed
               PROVE  \A i \in 1..Len(calls') : calls'[i].saved = IF i = 1 THEN "application" ELSE "sigalarm"
    BY <1>3 DEF Saved, Call
  <2>1. handler = IF calls = <<>> THEN "application" ELSE "sigalarm"
    BY DEF Invariant, Saved
  <2>2. calls = <<>> <=> Len(calls) + 1 = 1
    BY <1>2, <1>3
  <2>3. calls'[Len(calls) + 1].saved = IF Len(calls) + 1 = 1 THEN "application" ELSE "sigalarm"
    BY <1>1, <1>3, <2>1, <2>2
  <2>4. \A i \in 1..Len(calls) : calls'[i].saved = IF i = 1 THEN "application" ELSE "sigalarm"
    BY <1>3 DEF Invariant, Saved
  <2> QED
    BY <1>3, <2>3, <2>4
<1> QED
  BY <1>3, <1>4, <1>5 DEF Invariant, NoLateAlarm

(* The innermost call goes on to its next place. *)
LEMMA GoOnKeeps ==
  ASSUME Invariant, calls # <<>>, NEW place \in {"ask", "call"}, calls' = [calls EXCEPT ![Len(calls)].at = place],
         UNCHANGED <<alarm, handler, alive, started, failed>>
  PROVE  Invariant'
<1>1. calls \in Seq(Frame) /\ Len(calls) \in Nat \ {0}
  BY DEF Invariant, TypeOK
<1>2. /\ calls' \in Seq(Frame) /\ Len(calls') = Len(calls) /\ calls' # <<>>
      /\ \A i \in 1..Len(calls) : calls'[i].saved = calls[i].saved
  <2>1. \A i \in 1..Len(calls) : calls[i] \in Frame
    BY <1>1
  <2>2. \A i \in 1..Len(calls) : calls'[i] = IF i = Len(calls) THEN [calls[i] EXCEPT !.at = place] ELSE calls[i]
    BY <1>1
  <2>3. \A i \in 1..Len(calls) : calls'[i] \in Frame /\ calls'[i].saved = calls[i].saved
    BY <2>1, <2>2 DEF Frame
  <2>4. Len(calls') = Len(calls) /\ calls' \in [1..Len(calls) -> Frame]
    BY <1>1, <2>3
  <2>5. calls' \in Seq(Frame)
    BY <1>1, <2>4
  <2> QED
    BY <1>1, <2>3, <2>4, <2>5
<1>3. TypeOK'
  BY <1>2 DEF Invariant, TypeOK
<1>4. Saved'
  BY <1>2 DEF Invariant, Saved
<1> QED
  BY <1>2, <1>3, <1>4 DEF Invariant, NoLateAlarm

(* A script does not compile. *)
LEMMA CompileFailsKeeps ==
  ASSUME Invariant, CompileFails
  PROVE  Invariant'
<1>1. calls \in Seq(Frame) /\ calls # <<>> /\ calls' = Front(calls) /\ alarm' = 0 /\ failed' = TRUE
  BY DEF Invariant, TypeOK, CompileFails, LeaveEarly, At
<1>2. calls' \in Seq(Frame)
  BY <1>1, Returning
<1>3. TypeOK'
  BY <1>1, <1>2, AlarmAssumption DEF Invariant, TypeOK, CompileFails, LeaveEarly
<1> QED
  BY <1>1, <1>3 DEF Invariant, NoLateAlarm, Saved

(* Every step keeps the invariant. *)
LEMMA AlarmStep ==
  ASSUME Invariant, [Next]_vars
  PROVE  Invariant'
<1>1. CASE CompileReturns
  <2>1. calls # <<>> /\ UNCHANGED <<alive, started, failed>>
    BY <1>1 DEF CompileReturns, At
  <2>2. CASE Leave
    BY <2>1, <2>2, LeaveKeeps
  <2>3. CASE ~Leave
    BY <1>1, <2>1, <2>3, GoOnKeeps DEF CompileReturns
  <2> QED
    BY <2>2, <2>3
<1>2. CASE IsFunction
  BY <1>2, GoOnKeeps DEF IsFunction, At
<1>3. CASE NoSuchFunction \/ CallReturns
  BY <1>3, LeaveKeeps DEF NoSuchFunction, CallReturns, At
<1>4. CASE Second
  <2>1. alarm' \in 0..MaxSeconds /\ calls # <<>>
    BY <1>4, AlarmAssumption DEF Second, Invariant, TypeOK, NoLateAlarm
  <2>2. alive' \in BOOLEAN
    BY <1>4 DEF Second
  <2>3. TypeOK'
    BY <1>4, <2>1, <2>2 DEF Second, Invariant, TypeOK
  <2>4. Saved'
    BY <1>4 DEF Second, Invariant, Saved
  <2> QED
    BY <1>4, <2>1, <2>3, <2>4 DEF Second, Invariant, NoLateAlarm
<1>5. CASE UNCHANGED vars
  BY <1>5 DEF vars, Invariant, TypeOK, NoLateAlarm, Saved
<1> QED
  BY <1>1, <1>2, <1>3, <1>4, <1>5, CallKeeps, CompileFailsKeeps DEF Next

(* The invariant holds in every state. *)
THEOREM AlarmInvariant == Spec => []Invariant
<1>1. Init => Invariant
  <2> SUFFICES ASSUME Init PROVE Invariant
    OBVIOUS
  <2>1. calls \in Seq(Frame) /\ Len(calls) = 0
    BY DEF Init
  <2>2. TypeOK
    <3>1. alarm \in 0..MaxSeconds /\ started \in 0..MaxCalls /\ handler \in Handlers
      BY AlarmAssumption DEF Init, Handlers
    <3>2. alive \in BOOLEAN /\ failed \in BOOLEAN
      BY DEF Init
    <3> QED
      BY <2>1, <3>1, <3>2 DEF TypeOK
  <2>3. Saved
    BY <2>1 DEF Init, Saved
  <2> QED
    BY <2>2, <2>3 DEF Init, Invariant, NoLateAlarm
<1> QED
  BY <1>1, AlarmStep, PTL DEF Spec

(* The states of Alarm are of the right types. *)
THEOREM TypeCorrect == Spec => []TypeOK
<1>1. Invariant => TypeOK
  BY DEF Invariant
<1> QED
  BY AlarmInvariant, <1>1, PTL

(* No way out of with_timeout leaves an alarm behind (NoLateAlarm). *)
THEOREM AlarmsAreOff == Spec => []NoLateAlarm
<1>1. Invariant => NoLateAlarm
  BY DEF Invariant
<1> QED
  BY AlarmInvariant, <1>1, PTL

(* The application finds its handler again, unless a script did not        *)
(* compile (HandlerRestored).                                              *)
THEOREM HandlersComeBack == Spec => []HandlerRestored
<1>1. Invariant => HandlerRestored
  BY DEF Invariant, Saved, HandlerRestored
<1> QED
  BY AlarmInvariant, <1>1, PTL

=============================================================================
