---------------------------- MODULE ProxyProofs ----------------------------
(* What is proved of Proxy for every value of its constants. *)
EXTENDS ProxyInvariant, TLAPS

-----------------------------------------------------------------------------
(* Pipes                                                                   *)

(* The head of a pipe is a message, and taking it leaves a pipe. *)
LEMMA Taking ==
  ASSUME NEW S, NEW q \in Seq(S), q # <<>>
  PROVE  /\ Head(q) \in S /\ Head(q) = q[1]
         /\ Tail(q) \in Seq(S)
         /\ Len(q) \in Nat \ {0} /\ Len(Tail(q)) = Len(q) - 1
         /\ \A i \in 1..Len(q) - 1 : Tail(q)[i] = q[i + 1]
  OBVIOUS

(* Consuming the header of the first message leaves the others alone. *)
LEMMA Retagging ==
  ASSUME NEW q \in Seq(ToHost), q # <<>>, NEW m \in ToHost
  PROVE  /\ [q EXCEPT ![1] = m] \in Seq(ToHost)
         /\ Len([q EXCEPT ![1] = m]) = Len(q)
         /\ [q EXCEPT ![1] = m][1] = m
         /\ \A i \in 2..Len(q) : [q EXCEPT ![1] = m][i] = q[i]
<1>1. 1 \in 1..Len(q)
  OBVIOUS
<1> QED
  BY <1>1

(* What a read makes of a pipe: a message is gone, or its header is. *)
Reads(q, r) ==
  \/ r = q
  \/ q # <<>> /\ r = Tail(q)
  \/ q # <<>> /\ \E m \in ToHost : m.kind \in {"bool", "torn"} /\ r = [q EXCEPT ![1] = m]

(* Bytes without a header are a message too. *)
LEMMA TornShape == TornMsg \in ToHost /\ TornMsg.kind = "torn"
BY DEF TornMsg, ToHost, Msg

(* An abandoned message is one of which the header is gone. *)
LEMMA Tearing ==
  ASSUME NEW q \in Seq(ToHost)
  PROVE  /\ Reads(q, [q EXCEPT ![1] = TornMsg])
         /\ Reads(q, [q EXCEPT ![1].kind = "bool"])
<1>1. CASE q = <<>>
  <2>1. [q EXCEPT ![1] = TornMsg] = q /\ [q EXCEPT ![1].kind = "bool"] = q
    BY <1>1
  <2> QED
    BY <2>1 DEF Reads
<1>2. CASE q # <<>>
  <2>1. q[1] \in ToHost
    BY <1>2
  <2>2. [q[1] EXCEPT !.kind = "bool"] \in ToHost /\ [q[1] EXCEPT !.kind = "bool"].kind = "bool"
    BY <2>1 DEF ToHost
  <2> QED
    BY <1>2, <2>2, TornShape DEF Reads
<1> QED
  BY <1>1, <1>2

(* So is what remains when bytes are taken at random. *)
LEMMA Remaining ==
  ASSUME toHost \in Seq(ToHost), toHost # <<>>, NEW r \in Remains
  PROVE  Reads(toHost, r) /\ (r = Tail(toHost) \/ r = Torn)
<1>1. r = Tail(toHost) \/ r = Torn
  BY DEF Remains
<1> QED
  BY <1>1, Tearing DEF Reads, Torn

-----------------------------------------------------------------------------
(* Types                                                                   *)

(* The kind of a command tells its shape. *)
LEMMA CommandShape ==
  ASSUME NEW c \in Command \cup {NoMsg}
  PROVE  /\ c.kind = "function" => c.name \in Names
         /\ c.kind \in Commands => c \in ToChild
         /\ c.kind \in Requests => c \in [kind : Requests, id : Nat, name : {NoName}]
         /\ c.id \in Nat
BY DEF Command, ToChild, Commands, Defines, Requests, NoMsg, Msg

(* So does the kind of a message of the child. *)
LEMMA MessageShape ==
  ASSUME NEW m \in ToHost
  PROVE  /\ m.id \in Nat
         /\ m.kind \in {"log", "callback", "return", "error", "bool", "torn"}
         /\ m.name \in Names \cup {NoName}
BY DEF ToHost

(* The initial state is of the right types. *)
THEOREM InitType == Init => TypeOK
<1> SUFFICES ASSUME Init PROVE TypeOK
  OBVIOUS
<1> USE ProxyAssumption DEF Init
<1>1. HostTyped
  <2>1. callbacks \in [Names -> Nat]
    OBVIOUS
  <2>2. op \in [kind : Requests, id : Nat, name : {NoName}] \cup {NoMsg}
    OBVIOUS
  <2>3. hpc \in Reading \cup Returned \cup {"write", "isfn", "callback", "answer"}
    BY DEF Returned
  <2>4. budget \in 0..MaxTime /\ qbudget \in 0..MaxTime
    OBVIOUS
  <2> QED
    BY <2>1, <2>2, <2>3, <2>4 DEF HostTyped
<1>2. ChildTyped /\ PipesTyped
  <2>1. proxies \in [Names -> Nat]
    OBVIOUS
  <2>2. toChild \in Seq(ToChild) /\ toHost \in Seq(ToHost)
    OBVIOUS
  <2> QED
    BY <2>1, <2>2 DEF ChildTyped, PipesTyped
<1>3. AuxTyped
  BY DEF AuxTyped
<1> QED
  BY <1>1, <1>2, <1>3 DEF TypeOK

(* What the application records of its operations keeps its type. *)
LEMMA HostTypedStep == TypeOK /\ Next => HostTyped'
<1> SUFFICES ASSUME TypeOK, Next PROVE HostTyped'
  OBVIOUS
<1> USE ProxyAssumption DEF HostTyped, Reading, Returned, kept
<1>1. CASE DefineConstant
  BY <1>1 DEF TypeOK, DefineConstant, Write, Back
<1>2. CASE DefineFunction
  <2>1. cmd.name \in Names /\ cmd.id \in Nat
    BY <1>2, CommandShape DEF TypeOK, DefineFunction, Write
  <2>2. callbacks' \in [Names -> Nat]
    BY <1>2, <2>1 DEF TypeOK, DefineFunction, Registered
  <2> QED
    BY <1>2, <2>2 DEF TypeOK, DefineFunction, Write, Back
<1>3. CASE IsFunction \/ RequestRefused
  BY <1>3 DEF TypeOK, IsFunction, RequestRefused, Write, Back
<1>4. CASE Request
  <2>1. cmd.kind \in Requests
    BY <1>4 DEF Request, Write
  <2>2. op' \in [kind : Requests, id : Nat, name : {NoName}]
    BY <1>4, <2>1, CommandShape DEF TypeOK, Request
  <2> QED
    BY <1>4, <2>2 DEF TypeOK, Request, Write
<1>5. CASE WriteKilled \/ ReadHeader \/ SkipByte \/ ReadLog \/ LogLost \/ CallbackReturns \/ WriteReply
  BY <1>5 DEF TypeOK, WriteKilled, ReadHeader, SkipByte, ReadLog, LogLost, CallbackReturns,
              WriteReply, host
<1>6. CASE ReadError \/ ReadArgs \/ ArgsLost \/ CallbackFails \/ RespGivesUp \/ ResultLost
  BY <1>6 DEF TypeOK, ReadError, ReadArgs, ArgsLost, CallbackFails, RespGivesUp, ResultLost, Fail
<1>7. CASE ReadResult \/ ReadIsFunction \/ IsFunctionGivesUp
  BY <1>7 DEF TypeOK, ReadResult, ReadIsFunction, IsFunctionGivesUp, Back
<1>11. CASE GarbledRead \/ GarbledCallback \/ GarbledReturn \/ GarbledRest
  BY <1>11 DEF TypeOK, GarbledRead, GarbledCallback, GarbledReturn, GarbledRest, Fail, host
<1>8. CASE ChildStep
  BY <1>8 DEF TypeOK, ChildStep, ChildInit, TakeFunction, TakeCommand, TakeStray, TakeReply, GarbledTake, GarbledSend, GuestLogs,
     GuestCalls, GuestReturns, GuestErrs, IsFunctionDone, ConstantDone, GuestDone, FinishWrite,
     ChildDies, host
<1>9. ASSUME NEW kind \in Commands, Invoke(kind) PROVE HostTyped'
  BY <1>9 DEF TypeOK, Invoke, Command, Msg, AuxTyped
<1>10. CASE WaitTick \/ Destroy
  BY <1>10 DEF TypeOK, WaitTick, Destroy, InSelect, TimeLeft, host
<1> QED
  BY <1>1, <1>2, <1>3, <1>4, <1>5, <1>6, <1>7, <1>8, <1>9, <1>10, <1>11 DEF Next, HostStep

(* So does what the child keeps. *)
LEMMA ChildTypedStep == TypeOK /\ Next => ChildTyped'
<1> SUFFICES ASSUME TypeOK, Next PROVE ChildTyped'
  OBVIOUS
<1> USE DEF ChildTyped
<1>1. CASE UNCHANGED child
  BY <1>1 DEF TypeOK, child
<1>2. CASE Destroy \/ ChildInit \/ ChildDies
  BY <1>2 DEF TypeOK, Destroy, ChildInit, ChildDies
<1>3. CASE TakeFunction
  <2>1. Head(toChild) \in ToChild /\ Head(toChild).kind = "function"
    BY <1>3, Taking DEF TypeOK, PipesTyped, TakeFunction, ChildReads
  <2>2. Head(toChild).name \in Names /\ Head(toChild).id \in Nat
    BY <2>1 DEF ToChild, Command, Commands, Defines, Requests
  <2> QED
    BY <1>3, <2>2 DEF TypeOK, TakeFunction
<1>4. CASE TakeCommand
  <2>1. Head(toChild) \in ToChild /\ Head(toChild).kind \in Commands
    BY <1>4, Taking DEF TypeOK, PipesTyped, TakeCommand, ChildReads
  <2>2. Head(toChild) \in Command
    BY <2>1 DEF ToChild, Commands, Defines, Requests
  <2> QED
    BY <1>4, <2>2 DEF TypeOK, TakeCommand
<1>5. CASE TakeStray \/ TakeReply
  BY <1>5 DEF TypeOK, TakeStray, TakeReply
<1>6. CASE GuestReturns \/ GuestErrs \/ IsFunctionDone \/ ConstantDone
  BY <1>6 DEF TypeOK, GuestReturns, GuestErrs, IsFunctionDone, ConstantDone, GuestDone
<1>7. ASSUME NEW n \in Names, GuestCalls(n) PROVE ChildTyped'
  BY <1>7 DEF TypeOK, GuestCalls
<1>8. CASE GarbledTake \/ GarbledSend \/ GuestLogs \/ FinishWrite \/ WaitTick \/ HostStep
  BY <1>8, <1>1 DEF GarbledTake, GarbledSend, GuestLogs, FinishWrite, WaitTick, HostStep,
     DefineConstant, DefineFunction, IsFunction, Request, RequestRefused, Write, WriteKilled,
     ReadHeader, SkipByte, ReadError, ReadLog, LogLost, ReadArgs, ArgsLost, CallbackReturns,
     CallbackFails, WriteReply, RespGivesUp, ReadResult, ResultLost, ReadIsFunction,
     IsFunctionGivesUp, GarbledRead, GarbledCallback, GarbledReturn, GarbledRest
<1>9. ASSUME NEW kind \in Commands, Invoke(kind) PROVE ChildTyped'
  BY <1>9, <1>1 DEF Invoke
<1> QED
  BY <1>2, <1>3, <1>4, <1>5, <1>6, <1>7, <1>8, <1>9 DEF Next, ChildStep

(* And what is in the pipes. *)
LEMMA PipesTypedStep == TypeOK /\ Next => PipesTyped'
<1> SUFFICES ASSUME TypeOK, Next PROVE PipesTyped'
  OBVIOUS
<1> USE DEF PipesTyped
<1>1. CASE UNCHANGED pipes
  BY <1>1 DEF TypeOK, pipes
<1>2. ASSUME NEW kind \in Commands, Write(kind) PROVE PipesTyped'
  <2>1. cmd \in ToChild
    BY <1>2, CommandShape DEF TypeOK, HostTyped, Write
  <2> QED
    BY <1>2, <2>1 DEF TypeOK, Write
<1>3. CASE DefineConstant \/ DefineFunction \/ IsFunction \/ Request \/ RequestRefused
  BY <1>3, <1>2 DEF DefineConstant, DefineFunction, IsFunction, Request, RequestRefused,
     Commands, Defines, Requests
<1>4. CASE WriteReply
  <2>1. Msg("reply", op.id, NoName) \in ToChild
    BY DEF TypeOK, HostTyped, ToChild, Msg, NoMsg
  <2> QED
    BY <1>4, <2>1 DEF TypeOK, WriteReply
<1>5. ASSUME Reads(toHost, toHost'), UNCHANGED <<toChild, partial>> PROVE PipesTyped'
  <2>typed. toHost \in Seq(ToHost)
    BY DEF TypeOK
  <2>1. CASE toHost # <<>> /\ toHost' = Tail(toHost)
    BY <1>5, <2>typed, <2>1, Taking DEF TypeOK
  <2>2. ASSUME toHost # <<>>, NEW m \in ToHost, toHost' = [toHost EXCEPT ![1] = m]
        PROVE  PipesTyped'
    <3>1. toHost' \in Seq(ToHost)
      BY <2>typed, <2>2, Retagging
    <3> QED
      BY <1>5, <3>1 DEF TypeOK
  <2> QED
    BY <1>5, <2>typed, <2>1, <2>2 DEF TypeOK, Reads
<1>6. CASE SkipByte \/ ReadError \/ ReadLog \/ ReadArgs \/ ReadResult
  <2>1. toHost # <<>>
    BY <1>6 DEF SkipByte, ReadError, ReadLog, ReadArgs, ReadResult, ByteReady, PayloadReady
  <2> QED
    BY <1>5, <1>6, <2>1 DEF SkipByte, ReadError, ReadLog, ReadArgs, ReadResult, Reads
<1>7. CASE LogLost \/ ArgsLost \/ ResultLost
  BY <1>5, <1>7, Tearing DEF TypeOK, LogLost, ArgsLost, ResultLost, Torn
<1>15. CASE ReadIsFunction \/ GarbledRead
  <2>1. toHost # <<>> /\ UNCHANGED <<toChild, partial>>
    BY <1>15 DEF ReadIsFunction, GarbledRead, ByteReady
  <2>2. toHost' = Tail(toHost) \/ toHost' \in Remains
    BY <1>15 DEF ReadIsFunction, GarbledRead
  <2> QED
    BY <1>5, <2>1, <2>2, Remaining DEF TypeOK, Reads
<1>16. CASE GarbledSend
  BY <1>16, TornShape DEF TypeOK, GarbledSend
<1>8. CASE TakeFunction \/ TakeCommand \/ TakeStray \/ TakeReply \/ GarbledTake
  BY <1>8, Taking DEF TypeOK, TakeFunction, TakeCommand, TakeStray, TakeReply, GarbledTake, ChildReads
<1>9. ASSUME NEW k \in {"log", "callback", "return", "error", "bool"},
             NEW n \in Names \cup {NoName},
             toHost' = Append(toHost, Msg(k, creq.id, n)),
             toChild' = toChild, partial' \in BOOLEAN
      PROVE  PipesTyped'
  <2>1. Msg(k, creq.id, n) \in ToHost
    BY CommandShape DEF TypeOK, ChildTyped, ToHost, Msg
  <2> QED
    BY <1>9, <2>1 DEF TypeOK
<1>10. CASE GuestLogs \/ GuestReturns \/ GuestErrs \/ IsFunctionDone
  BY <1>9, <1>10 DEF TypeOK, GuestLogs, GuestReturns, GuestErrs, IsFunctionDone, GuestDone
<1>11. ASSUME NEW n \in Names, GuestCalls(n) PROVE PipesTyped'
  BY <1>9, <1>11 DEF GuestCalls
<1>12. CASE FinishWrite
  BY <1>12 DEF TypeOK, FinishWrite
<1>13. CASE WriteKilled \/ ReadHeader \/ CallbackReturns \/ CallbackFails \/ RespGivesUp
            \/ IsFunctionGivesUp \/ WaitTick \/ Destroy
            \/ ChildInit \/ ConstantDone \/ ChildDies
            \/ GarbledCallback \/ GarbledReturn \/ GarbledRest
  BY <1>13, <1>1 DEF GarbledCallback, GarbledReturn, GarbledRest, WriteKilled, ReadHeader, CallbackReturns, CallbackFails, RespGivesUp,
     IsFunctionGivesUp, WaitTick, Destroy, ChildInit, ConstantDone, GuestDone,
     ChildDies, pipes
<1>14. ASSUME NEW kind \in Commands, Invoke(kind) PROVE PipesTyped'
  BY <1>14, <1>1 DEF Invoke
<1> QED
  BY <1>3, <1>4, <1>5, <1>6, <1>7, <1>8, <1>10, <1>11, <1>12, <1>13, <1>14, <1>15, <1>16
  DEF Next, HostStep, ChildStep

(* And what the model records. *)
LEMMA AuxTypedStep == TypeOK /\ Next => AuxTyped'
<1> SUFFICES ASSUME TypeOK, Next PROVE AuxTyped'
  OBVIOUS
<1> USE ProxyAssumption DEF AuxTyped, Blame, Mishaps, Spoiling
<1>1. CASE UNCHANGED aux
  BY <1>1 DEF TypeOK, aux
<1>2. ASSUME NEW kind \in Commands, Invoke(kind) PROVE AuxTyped'
  BY <1>2 DEF TypeOK, Invoke
<1>3. CASE DefineConstant \/ DefineFunction \/ IsFunction \/ Request
  <2>1. mishap' \in SUBSET Mishaps
    BY <1>3 DEF TypeOK, DefineConstant, DefineFunction, IsFunction, Request, Write
  <2> QED
    BY <1>3, <2>1 DEF TypeOK, DefineConstant, DefineFunction, IsFunction, Request, Write
<1>4. CASE RequestRefused
  <2>1. cmd.id \in Nat
    BY CommandShape DEF TypeOK, HostTyped
  <2> QED
    BY <1>4, <2>1 DEF TypeOK, RequestRefused, Write
<1>5. CASE ReadError \/ ReadArgs \/ ArgsLost \/ CallbackFails \/ RespGivesUp \/ ResultLost
  BY <1>5 DEF TypeOK, ReadError, ReadArgs, ArgsLost, CallbackFails, RespGivesUp, ResultLost, Fail
<1>6. CASE ReadResult
  <2>1. op.id \in Nat /\ Head(toHost).id \in Nat
    BY <1>6, Taking, MessageShape
    DEF TypeOK, HostTyped, PipesTyped, ReadResult, PayloadReady, NoMsg, Msg
  <2> QED
    BY <1>6, <2>1 DEF TypeOK, ReadResult
<1>7. CASE LogLost \/ ReadIsFunction \/ IsFunctionGivesUp
  BY <1>7 DEF TypeOK, LogLost, ReadIsFunction, IsFunctionGivesUp
<1>8. CASE WaitTick \/ TakeCommand \/ GuestLogs
  BY <1>1, <1>8 DEF WaitTick, TakeCommand, GuestLogs
<1>9. ASSUME NEW n \in Names, GuestCalls(n) PROVE AuxTyped'
  BY <1>9 DEF TypeOK, GuestCalls
<1>11. CASE GarbledCallback \/ GarbledReturn \/ GarbledRest
  <2>1. op.id \in Nat
    BY DEF TypeOK, HostTyped, NoMsg, Msg
  <2>2. answer \in [asked : Nat, got : Nat] /\ started \in Nat /\ mishap \in SUBSET Mishaps
    BY DEF TypeOK
  <2>3. CASE GarbledCallback
    BY <2>2, <2>3 DEF GarbledCallback, Fail
  <2>4. CASE GarbledReturn
    <3>1. started' = started
      BY <2>4 DEF GarbledReturn
    <3>2. answer' = answer \/ answer' = [asked |-> op.id, got |-> 0]
      BY <2>4 DEF GarbledReturn
    <3>3. mishap' = mishap \/ mishap' = mishap \cup {"payload"}
      BY <2>4 DEF GarbledReturn
    <3>4. mishap' \in SUBSET Mishaps
      BY <2>2, <3>3
    <3>5. answer' \in [asked : Nat, got : Nat]
      BY <2>1, <2>2, <3>2
    <3> QED
      BY <2>2, <3>1, <3>4, <3>5
  <2>5. CASE GarbledRest
    BY <2>2, <2>5 DEF GarbledRest, Fail
  <2> QED
    BY <1>11, <2>3, <2>4, <2>5
<1>10. CASE WriteKilled \/ ReadHeader \/ SkipByte \/ ReadLog \/ CallbackReturns \/ WriteReply
            \/ Destroy \/ ChildInit \/ TakeFunction \/ TakeStray \/ TakeReply \/ GuestReturns
            \/ GuestErrs \/ IsFunctionDone \/ ConstantDone \/ FinishWrite \/ ChildDies
            \/ GarbledRead \/ GarbledTake \/ GarbledSend
  BY <1>10, <1>1 DEF GarbledRead, GarbledTake, GarbledSend, WriteKilled, ReadHeader, SkipByte, ReadLog, CallbackReturns, WriteReply,
     Destroy, ChildInit, TakeFunction, TakeStray, TakeReply, GuestReturns, GuestErrs,
     IsFunctionDone, ConstantDone, GuestDone, FinishWrite, ChildDies
<1> QED
  BY <1>2, <1>3, <1>4, <1>5, <1>6, <1>7, <1>8, <1>9, <1>10, <1>11
  DEF Next, HostStep, ChildStep

(***************************************************************************)
(* Every state of the proxy is of the right types: no operation leaves a   *)
(* command, an answer or a definition where another kind of thing belongs. *)
(***************************************************************************)
THEOREM TypeCorrect == Spec => []TypeOK
<1>1. TypeOK /\ UNCHANGED vars => TypeOK'
  BY DEF TypeOK, HostTyped, ChildTyped, PipesTyped, AuxTyped, vars, host, child, pipes, aux
<1>2. TypeOK /\ [Next]_vars => TypeOK'
  BY <1>1, HostTypedStep, ChildTypedStep, PipesTypedStep, AuxTypedStep DEF TypeOK
<1> QED
  BY InitType, <1>2, PTL DEF Spec

-----------------------------------------------------------------------------
(* Sequences of messages                                                   *)

(* An empty pipe has only messages of any kinds you like. *)
LEMMA Empty ==
  ASSUME NEW T, NEW q \in Seq(T)
  PROVE  Len(q) \in Nat /\ (Len(q) = 0 <=> q = <<>>)
OBVIOUS

(* What a message put at the end of a pipe changes: the last place only. *)
LEMMA Appending ==
  ASSUME NEW T, NEW q \in Seq(T), NEW m \in T
  PROVE  /\ Append(q, m) \in Seq(T)
         /\ Len(q) \in Nat /\ Len(Append(q, m)) = Len(q) + 1
         /\ Append(q, m)[Len(q) + 1] = m /\ Append(q, m) # <<>>
         /\ \A i \in 1..Len(q) : Append(q, m)[i] = q[i]
         /\ q # <<>> => Head(Append(q, m)) = Head(q)
<1>1. /\ Append(q, m) \in Seq(T) /\ Len(Append(q, m)) = Len(q) + 1
      /\ Len(q) \in Nat /\ Append(q, m)[Len(q) + 1] = m
      /\ \A i \in 1..Len(q) : Append(q, m)[i] = q[i]
  OBVIOUS
<1>2. Append(q, m) # <<>>
  BY <1>1, Empty
<1>3. ASSUME q # <<>> PROVE Head(Append(q, m)) = Head(q)
  <2>1. 1 \in 1..Len(q)
    BY <1>1, <1>3, Empty
  <2> QED
    BY <1>1, <1>2, <1>3, <2>1, Taking
<1> QED
  BY <1>1, <1>2, <1>3

(* Taking a message from a pipe keeps the kinds of the others. *)
LEMMA AllOfTail ==
  ASSUME NEW T, NEW q \in Seq(T), NEW S, AllOf(q, S), q # <<>>
  PROVE  Head(q).kind \in S /\ AllOf(Tail(q), S)
BY Taking DEF AllOf

(* So does putting one more of these kinds at its end. *)
LEMMA AllOfAppend ==
  ASSUME NEW T, NEW q \in Seq(T), NEW S, AllOf(q, S), NEW m \in T, m.kind \in S
  PROVE  AllOf(Append(q, m), S)
BY Appending DEF AllOf

(* The message put behind such messages is the one the pipe ends in. *)
LEMMA EndsInAppend ==
  ASSUME NEW T, NEW q \in Seq(T), NEW S, AllOf(q, S),
         NEW m \in T, NEW K, m.kind \in K
  PROVE  EndsIn(Append(q, m), S, K, m.id)
<1>1. Len(q) \in Nat /\ Len(q) + 1 - 1 = Len(q)
  OBVIOUS
<1> QED
  BY <1>1, Appending DEF AllOf, EndsIn

(* Taking one that is not the last keeps what the pipe ends in. *)
LEMMA EndsInTail ==
  ASSUME NEW T, NEW q \in Seq(T), NEW S, NEW K, NEW id, EndsIn(q, S, K, id)
  PROVE  /\ Head(q).kind \in S \cup K
         /\ Head(q).kind \notin S => Head(q).id = id /\ Tail(q) = <<>>
         /\ Head(q).kind \notin K => EndsIn(Tail(q), S, K, id)
<1>1. /\ Head(q) = q[1] /\ Len(q) \in Nat \ {0} /\ Len(Tail(q)) = Len(q) - 1
      /\ Tail(q) \in Seq(T) /\ \A i \in 1..Len(q) - 1 : Tail(q)[i] = q[i + 1]
  BY Taking DEF EndsIn
<1>2. CASE Len(q) = 1
  <2>1. Tail(q) = <<>>
    <3>1. Len(Tail(q)) = 0
      BY <1>1, <1>2
    <3> QED
      BY <1>1, <3>1, Empty, Zenon
  <2> QED
    BY <1>1, <1>2, <2>1 DEF EndsIn
<1>3. CASE Len(q) > 1
  <2>1. Head(q).kind \in S
    BY <1>1, <1>3 DEF EndsIn
  <2>2. Tail(q) # <<>>
    <3>1. Len(Tail(q)) # 0
      BY <1>1, <1>3
    <3> QED
      BY <1>1, <3>1, Empty, Zenon
  <2>3. Tail(q)[Len(Tail(q))] = q[Len(q)]
    <3>1. Len(q) - 1 \in 1..Len(q) - 1 /\ Len(q) - 1 + 1 = Len(q)
      BY <1>1, <1>3
    <3> QED
      BY <1>1, <3>1
  <2>4. ASSUME NEW i \in 1..Len(Tail(q)) - 1
        PROVE  Tail(q)[i] = q[i + 1] /\ i + 1 \in 1..Len(q) - 1
    BY <1>1, <1>3
  <2> QED
    BY <2>1, <2>2, <2>3, <2>4 DEF EndsIn
<1> QED
  BY <1>1, <1>2, <1>3

-----------------------------------------------------------------------------
(* The parts of the inductive invariant but the last                       *)

(* A child never moves the host, and only appends to what the host reads. *)
Sends(k, n) ==
  /\ Msg(k, creq.id, n) \in ToHost
  /\ toHost' = Append(toHost, Msg(k, creq.id, n)) /\ cpc = "guest"
  /\ k = "callback" => n \in Names /\ proxies[n] # 0

(* A step of the child leaves everything of the host alone. *)
LEMMA ChildFrame ==
  ASSUME TypeOK, ChildStep
  PROVE  /\ UNCHANGED host
         /\ \/ toHost' = toHost
            \/ \E k \in {"log", "callback", "return", "error", "bool"}, n \in Names \cup {NoName} : Sends(k, n)
            \/ toHost' = Append(toHost, TornMsg) /\ cpc = "garbled"
<1>1. ASSUME NEW k \in {"log", "callback", "return", "error", "bool"}, NEW n \in Names \cup {NoName}
      PROVE  Msg(k, creq.id, n) \in ToHost
  BY CommandShape DEF TypeOK, ChildTyped, ToHost, Msg
<1>2. CASE ChildInit \/ TakeFunction \/ TakeCommand \/ TakeStray \/ TakeReply \/ ConstantDone
           \/ FinishWrite \/ ChildDies \/ GarbledTake \/ GarbledSend
  BY <1>2 DEF ChildInit, TakeFunction, TakeCommand, TakeStray, TakeReply, ConstantDone, GuestDone,
     FinishWrite, ChildDies, GarbledTake, GarbledSend, pipes
<1>3. CASE GuestLogs \/ GuestReturns \/ GuestErrs \/ IsFunctionDone
  <2>1. Sends("log", NoName) \/ Sends("return", NoName) \/ Sends("error", NoName) \/ Sends("bool", NoName)
    BY <1>1, <1>3 DEF GuestLogs, GuestReturns, GuestErrs, IsFunctionDone, CanSend, Sends
  <2>2. UNCHANGED host
    BY <1>3 DEF GuestLogs, GuestReturns, GuestErrs, IsFunctionDone, GuestDone
  <2> QED
    BY <2>1, <2>2
<1>4. ASSUME NEW n \in Names, GuestCalls(n)
      PROVE  UNCHANGED host /\ Sends("callback", n)
  BY <1>1, <1>4 DEF GuestCalls, CanSend, Sends
<1> QED
  BY <1>2, <1>3, <1>4 DEF ChildStep

(* The host is inside a compile or call where its program says so. *)
LEMMA OpPlaceStep == TypeOK /\ OpPlace /\ Next => OpPlace'
<1> SUFFICES ASSUME TypeOK, OpPlace, Next PROVE OpPlace'
  OBVIOUS
<1> USE DEF OpPlace, Reading, kept
<1>1. CASE DefineConstant \/ DefineFunction \/ IsFunction \/ RequestRefused
  BY <1>1 DEF DefineConstant, DefineFunction, IsFunction, RequestRefused, Write, Back
<1>2. CASE Request
  BY <1>2 DEF Request, Write, Requests, NoMsg, Msg
<1>3. CASE WriteKilled \/ ReadHeader \/ SkipByte \/ ReadLog \/ LogLost \/ CallbackReturns \/ WriteReply
  BY <1>3 DEF WriteKilled, ReadHeader, SkipByte, ReadLog, LogLost, CallbackReturns, WriteReply, host
<1>4. CASE ReadError \/ ReadArgs \/ ArgsLost \/ CallbackFails \/ RespGivesUp \/ ResultLost
  BY <1>4 DEF ReadError, ReadArgs, ArgsLost, CallbackFails, RespGivesUp, ResultLost, Fail
<1>5. CASE ReadResult \/ ReadIsFunction \/ IsFunctionGivesUp
  BY <1>5 DEF ReadResult, ReadIsFunction, IsFunctionGivesUp, Back
<1>6. CASE ChildStep \/ WaitTick \/ Destroy
  BY <1>6, ChildFrame DEF WaitTick, Destroy, host
<1>7. ASSUME NEW kind \in Commands, Invoke(kind) PROVE OpPlace'
  BY <1>7 DEF Invoke
<1>8. CASE GarbledRead \/ GarbledCallback \/ GarbledReturn \/ GarbledRest
  BY <1>8 DEF GarbledRead, GarbledCallback, GarbledReturn, GarbledRest, Fail, host
<1> QED
  BY <1>1, <1>2, <1>3, <1>4, <1>5, <1>6, <1>7, <1>8 DEF Next, HostStep

(* A header that has been read stays in front of its payload. *)
LEMMA HeaderReadStep == TypeOK /\ HeaderRead /\ Next => HeaderRead'
<1> SUFFICES ASSUME TypeOK, HeaderRead, Next PROVE HeaderRead'
  OBVIOUS
<1> USE DEF HeaderRead, kept
<1>1. CASE hpc' \notin {"log", "args", "result"}
  BY <1>1
<1>2. CASE ChildStep
  <2>1. UNCHANGED host /\ toHost \in Seq(ToHost)
    BY <1>2, ChildFrame DEF TypeOK, PipesTyped
  <2>2. toHost' = toHost \/ \E m \in ToHost : toHost' = Append(toHost, m)
    BY <1>2, ChildFrame, TornShape DEF Sends
  <2>3. toHost # <<>> => toHost' # <<>> /\ Head(toHost') = Head(toHost)
    BY <2>1, <2>2, Appending
  <2> QED
    BY <2>1, <2>3 DEF host
<1>3. CASE ReadHeader
  BY <1>3 DEF ReadHeader, ByteReady, pipes
<1>4. CASE WaitTick
  BY <1>4 DEF WaitTick, host, pipes
<1>5. CASE SkipByte
  BY <1>5 DEF SkipByte, host
<1>6. ASSUME NEW kind \in Commands, Invoke(kind) PROVE HeaderRead'
  BY <1>6 DEF Invoke
<1>7. CASE Destroy \/ WriteKilled \/ ReadLog \/ LogLost \/ CallbackReturns \/ WriteReply
           \/ ReadResult \/ ReadIsFunction \/ IsFunctionGivesUp
  BY <1>7 DEF Destroy, WriteKilled, ReadLog, LogLost, CallbackReturns, WriteReply, ReadResult,
     ReadIsFunction, IsFunctionGivesUp, Back
<1>8. CASE DefineConstant \/ DefineFunction \/ IsFunction \/ Request \/ RequestRefused
  BY <1>8 DEF DefineConstant, DefineFunction, IsFunction, Request, RequestRefused, Back
<1>10. CASE GarbledRead \/ GarbledCallback \/ GarbledReturn \/ GarbledRest
  BY <1>10 DEF GarbledRead, GarbledCallback, GarbledReturn, GarbledRest, Fail, host
<1>9. CASE ReadError \/ ReadArgs \/ ArgsLost \/ CallbackFails \/ RespGivesUp \/ ResultLost
  BY <1>9 DEF ReadError, ReadArgs, ArgsLost, CallbackFails, RespGivesUp, ResultLost, Fail
<1> QED
  BY <1>2, <1>3, <1>4, <1>5, <1>6, <1>7, <1>8, <1>9, <1>10 DEF Next, HostStep

(* What has gone wrong is not forgotten. *)
LEMMA MishapsStay ==
  ASSUME Next
  PROVE  mishap \subseteq mishap'
<1> USE DEF Blame
<1>1. CASE UNCHANGED mishap
  BY <1>1
<1>2. CASE ChildStep
  BY <1>2 DEF ChildStep, ChildInit, TakeFunction, TakeCommand, TakeStray, TakeReply, GarbledTake, GarbledSend, GuestLogs,
     GuestCalls, GuestReturns, GuestErrs, IsFunctionDone, ConstantDone, GuestDone, FinishWrite,
     ChildDies, aux
<1>3. CASE HostStep
  BY <1>3 DEF HostStep, DefineConstant, DefineFunction, IsFunction, Request, RequestRefused,
     Write, WriteKilled, ReadHeader, SkipByte, ReadError, ReadLog, LogLost, ReadArgs, ArgsLost,
     CallbackReturns, CallbackFails, WriteReply, RespGivesUp, ReadResult, ResultLost,
     ReadIsFunction, IsFunctionGivesUp, GarbledRead, GarbledCallback, GarbledReturn, GarbledRest, aux
<1>4. CASE WaitTick \/ Destroy
  BY <1>4 DEF WaitTick, Destroy, aux
<1> QED
  BY <1>1, <1>2, <1>3, <1>4 DEF Next, Invoke

(* A closed session stays closed, and a spoiled one spoiled. *)
LEMMA Permanent ==
  ASSUME TypeOK, OpPlace, Next
  PROVE  (Closed => Closed') /\ (Spoiled => Spoiled')
<1>1. mishap \subseteq mishap'
  BY MishapsStay
<1>2. ASSUME Closed PROVE Closed'
  <2> USE <1>2 DEF Closed, OpPlace, Reading, kept
  <2>1. CASE ChildStep \/ WaitTick \/ Destroy
    BY <2>1, ChildFrame DEF WaitTick, Destroy, host
  <2>2. CASE \E kind \in Commands : Invoke(kind)
    BY <2>2 DEF Invoke
  <2>3. CASE HostStep
    BY <2>3 DEF HostStep, DefineConstant, DefineFunction, IsFunction, Request, RequestRefused,
       Write, WriteKilled, ReadHeader, SkipByte, ReadError, ReadLog, LogLost, ReadArgs, ArgsLost,
       CallbackReturns, CallbackFails, WriteReply, RespGivesUp, ReadResult, ResultLost,
       ReadIsFunction, IsFunctionGivesUp,
       GarbledRead, GarbledCallback, GarbledReturn, GarbledRest, Fail, host
  <2> QED
    BY <2>1, <2>2, <2>3 DEF Next
<1> QED
  BY <1>1, <1>2 DEF Spoiled

(* So a session that is open after a step was open before. *)
LEMMA StillOpen ==
  ASSUME TypeOK, OpPlace, Next, ~Closed', ~Spoiled'
  PROVE  ~Closed /\ ~Spoiled
BY Permanent

(* What may call back has been recorded by define_function, in every step. *)
LEMMA RegistryStep == TypeOK /\ Numbered /\ Registry /\ Next => Registry'
<1> SUFFICES ASSUME TypeOK, Numbered, Registry, Next PROVE Registry'
  OBVIOUS
<1> USE DEF Registry
<1>typed. /\ toChild \in Seq(ToChild) /\ toHost \in Seq(ToHost)
          /\ cmd \in Command \cup {NoMsg} /\ callbacks \in [Names -> Nat]
  BY DEF TypeOK, PipesTyped, HostTyped
<1>1. ASSUME UNCHANGED <<callbacks, proxies, toChild>>, Reads(toHost, toHost')
      PROVE  Registry'
  <2>1. CASE toHost' = toHost
    BY <1>1, <2>1
  <2>2. CASE toHost # <<>> /\ toHost' = Tail(toHost)
    BY <1>1, <1>typed, <2>2, Taking
  <2>3. ASSUME toHost # <<>>, NEW m \in ToHost, m.kind \in {"bool", "torn"}, toHost' = [toHost EXCEPT ![1] = m]
        PROVE  Registry'
    <3>1. /\ Len(toHost') = Len(toHost) /\ toHost'[1].kind \in {"bool", "torn"}
          /\ \A i \in 2..Len(toHost) : toHost'[i] = toHost[i]
      BY <1>typed, <2>3, Retagging
    <3>2. Len(toHost) \in Nat
      BY <1>typed
    <3> QED
      BY <1>1, <3>1, <3>2
  <2> QED
    BY <1>1, <2>1, <2>2, <2>3 DEF Reads
<1>2. ASSUME NEW m \in ToChild, UNCHANGED <<proxies, toHost>>, toChild' = Append(toChild, m),
             \A n \in Names : callbacks[n] # 0 => callbacks'[n] # 0,
             m.kind = "function" => callbacks'[m.name] # 0
      PROVE  Registry'
  <2>1. \A i \in 1..Len(toChild) : toChild[i].kind = "function" => toChild[i].name \in Names
    BY <1>typed DEF ToChild, Command
  <2>2. /\ Len(toChild) \in Nat /\ Len(toChild') = Len(toChild) + 1 /\ toChild'[Len(toChild) + 1] = m
        /\ \A i \in 1..Len(toChild) : toChild'[i] = toChild[i]
    BY <1>typed, <1>2, Appending
  <2> QED
    BY <1>2, <2>1, <2>2
<1>3. ASSUME NEW kind \in Commands \ {"function"}, Write(kind), UNCHANGED callbacks PROVE Registry'
  <2>1. cmd \in ToChild /\ cmd.kind # "function"
    BY <1>3, <1>typed, CommandShape DEF Write
  <2> QED
    BY <1>2, <1>3, <2>1 DEF Write, child
<1>4. CASE DefineConstant \/ IsFunction \/ Request \/ RequestRefused
  BY <1>3, <1>4 DEF DefineConstant, IsFunction, Request, RequestRefused, Commands, Defines, Requests
<1>5. CASE DefineFunction
  <2>1. cmd \in ToChild /\ cmd.name \in Names /\ cmd.id \in Nat \ {0}
    BY <1>5, <1>typed, CommandShape DEF DefineFunction, Write, Numbered, Commands, Defines
  <2>2. /\ \A n \in Names : callbacks[n] # 0 => callbacks'[n] # 0
        /\ callbacks'[cmd.name] # 0
    BY <1>5, <1>typed, <2>1 DEF DefineFunction, Registered
  <2> QED
    BY <1>2, <1>5, <2>1, <2>2 DEF DefineFunction, Write, child
<1>6. CASE WriteReply
  <2>1. Msg("reply", op.id, NoName) \in ToChild /\ Msg("reply", op.id, NoName).kind # "function"
    BY DEF TypeOK, HostTyped, ToChild, Msg, NoMsg
  <2> QED
    BY <1>2, <1>6, <2>1 DEF WriteReply, kept, child
<1>7. CASE WriteKilled \/ ReadHeader \/ CallbackReturns \/ CallbackFails \/ RespGivesUp
           \/ IsFunctionGivesUp \/ WaitTick \/ Destroy
           \/ GarbledCallback \/ GarbledReturn \/ GarbledRest
  BY <1>1, <1>7 DEF WriteKilled, ReadHeader, CallbackReturns, CallbackFails, RespGivesUp,
     IsFunctionGivesUp, WaitTick, Destroy, GarbledCallback, GarbledReturn, GarbledRest,
     Fail, kept, host, child, pipes, Reads
<1>8. CASE SkipByte \/ ReadError \/ ReadLog \/ ReadArgs \/ ReadResult
  <2>1. toHost # <<>> /\ toHost' = Tail(toHost)
    BY <1>8 DEF SkipByte, ReadError, ReadLog, ReadArgs, ReadResult, ByteReady, PayloadReady
  <2> QED
    BY <1>1, <1>8, <2>1 DEF SkipByte, ReadError, ReadLog, ReadArgs, ReadResult, Fail, kept, host, child,
       Reads
<1>9. CASE LogLost \/ ArgsLost \/ ResultLost
  BY <1>1, <1>typed, <1>9, Tearing DEF LogLost, ArgsLost, ResultLost, Torn, Fail, kept, child
<1>17. CASE ReadIsFunction \/ GarbledRead
  <2>1. toHost # <<>> /\ (toHost' = Tail(toHost) \/ toHost' \in Remains)
    BY <1>17 DEF ReadIsFunction, GarbledRead, ByteReady
  <2>2. UNCHANGED <<callbacks, proxies, toChild>>
    BY <1>17 DEF ReadIsFunction, GarbledRead, kept, host, child
  <2> QED
    BY <1>1, <1>typed, <2>1, <2>2, Remaining DEF Reads
<1>10. ASSUME NEW kind \in Commands, Invoke(kind) PROVE Registry'
  BY <1>1, <1>10 DEF Invoke, child, pipes, Reads
<1>11. CASE TakeCommand \/ TakeStray \/ TakeReply \/ GarbledTake
  <2>1. toChild # <<>> /\ toChild' = Tail(toChild) /\ UNCHANGED <<callbacks, proxies, toHost>>
    BY <1>11 DEF TakeCommand, TakeStray, TakeReply, GarbledTake, ChildReads, host, child
  <2> QED
    BY <1>typed, <2>1, Taking
<1>12. CASE TakeFunction
  <2>1. toChild # <<>> /\ Head(toChild).kind = "function" /\ Head(toChild) \in ToChild
        /\ Head(toChild) = toChild[1] /\ 1 \in 1..Len(toChild)
    BY <1>12, <1>typed, Taking DEF TakeFunction, ChildReads
  <2>2. Head(toChild).name \in Names /\ callbacks[Head(toChild).name] # 0
    BY <2>1 DEF ToChild, Command
  <2>3. \A n \in Names : proxies'[n] # 0 => callbacks[n] # 0
    BY <1>12, <2>2 DEF TakeFunction, TypeOK, ChildTyped
  <2>4. UNCHANGED <<callbacks, toHost>> /\ toChild' = Tail(toChild)
    BY <1>12 DEF TakeFunction, host
  <2> QED
    BY <1>typed, <2>1, <2>3, <2>4, Taking
<1>13. CASE ChildInit \/ ConstantDone \/ FinishWrite \/ ChildDies
  BY <1>1, <1>13 DEF ChildInit, ConstantDone, GuestDone, FinishWrite, ChildDies, host, child, pipes, Reads
<1>14. ASSUME UNCHANGED <<callbacks, proxies, toChild>>, NEW m \in ToHost, toHost' = Append(toHost, m),
              m.kind = "callback" => m.name \in Names /\ callbacks[m.name] # 0
       PROVE  Registry'
  <2>1. /\ Len(toHost) \in Nat /\ Len(toHost') = Len(toHost) + 1
        /\ toHost'[Len(toHost) + 1] = m
        /\ \A i \in 1..Len(toHost) : toHost'[i] = toHost[i]
    BY <1>typed, <1>14, Appending
  <2> QED
    BY <1>14, <2>1
<1>15. CASE GuestLogs \/ GuestReturns \/ GuestErrs \/ IsFunctionDone \/ GarbledSend \/ \E n \in Names : GuestCalls(n)
  <2>1. UNCHANGED <<callbacks, proxies, toChild>>
    BY <1>15 DEF GuestLogs, GuestReturns, GuestErrs, IsFunctionDone, GarbledSend, GuestCalls, GuestDone,
       host, child
  <2>2. ChildStep
    BY <1>15 DEF ChildStep
  <2>3. ASSUME NEW k, NEW n \in Names \cup {NoName}, Sends(k, n) PROVE Registry'
    BY <1>14, <2>1, <2>3 DEF Sends, Msg
  <2> QED
    BY <1>1, <1>14, <2>1, <2>2, <2>3, ChildFrame, TornShape DEF Reads
<1> QED
  BY <1>4, <1>5, <1>6, <1>7, <1>8, <1>9, <1>10, <1>11, <1>12, <1>13, <1>15, <1>17
  DEF Next, HostStep, ChildStep

-----------------------------------------------------------------------------
(* Host and child stay in step                                             *)

(* Steps that only move the host within a phase, or let time pass. *)
LEMMA SamePhase ==
  ASSUME InStep, UNCHANGED <<op, child, toChild, toHost>>,
         \/ hpc' = hpc
         \/ hpc = "resp" /\ hpc' = "log" /\ toHost # <<>>
         \/ op = NoMsg
         \/ {hpc, hpc'} \subseteq {"callback", "answer", "write", "killed"}
  PROVE  InStep'
<1> USE DEF child
<1>1. Before => Before'
  BY DEF Before
<1>2. Serving => Serving'
  BY DEF Serving
<1>3. CASE op = NoMsg
  BY <1>1, <1>3 DEF InStep, NoCall
<1>4. CASE op # NoMsg
  <2>1. CASE Queued
    BY <1>1, <1>4, <2>1 DEF InStep, Queued
  <2>2. CASE Running
    BY <1>2, <1>4, <2>2 DEF InStep, Running
  <2>3. CASE Calling
    BY <1>2, <1>4, <2>3 DEF InStep, Calling
  <2>4. CASE Called
    BY <1>2, <1>4, <2>4 DEF InStep, Called
  <2>5. CASE Replied
    BY <1>2, <1>4, <2>5 DEF InStep, Replied
  <2>6. CASE Finished
    BY <1>4, <2>6 DEF InStep, Finished
  <2> QED
    BY <1>4, <2>1, <2>2, <2>3, <2>4, <2>5, <2>6 DEF InStep
<1> QED
  BY <1>3, <1>4

(* The host takes a log, or a byte that means nothing to it. *)
LEMMA NoiseTaken ==
  ASSUME TypeOK, InStep, UNCHANGED <<op, child, toChild>>,
         op = NoMsg \/ (hpc \in {"resp", "log"} /\ hpc' = "resp"),
         toHost # <<>>, Head(toHost).kind \in Noise, toHost' = Tail(toHost)
  PROVE  InStep'
<1> USE DEF child
<1>typed. toHost \in Seq(ToHost)
  BY DEF TypeOK, PipesTyped
<1>1. AllOf(toHost, Noise) => AllOf(toHost', Noise)
  BY <1>typed, AllOfTail
<1>2. ASSUME NEW K, EndsIn(toHost, Noise, K, op.id), K \cap Noise = {}
      PROVE  EndsIn(toHost', Noise, K, op.id)
  BY <1>typed, <1>2, EndsInTail
<1>3. Before => Before'
  BY <1>1 DEF Before
<1>4. Serving => Serving'
  BY DEF Serving
<1>5. CASE op = NoMsg
  BY <1>3, <1>5 DEF InStep, NoCall
<1>6. CASE op # NoMsg
  <2>1. CASE Queued
    BY <1>3, <1>6, <2>1 DEF InStep, Queued
  <2>2. CASE Running
    BY <1>1, <1>4, <1>6, <2>2 DEF InStep, Running
  <2>3. CASE Calling
    BY <1>2, <1>4, <1>6, <2>3 DEF InStep, Calling, Noise
  <2>4. CASE Called \/ Replied
    BY <2>4 DEF Called, Replied
  <2>5. CASE Finished
    BY <1>2, <1>6, <2>5 DEF InStep, Finished, Noise
  <2> QED
    BY <1>6, <2>1, <2>2, <2>3, <2>4, <2>5 DEF InStep
<1> QED
  BY <1>5, <1>6

(* The operations of the proxy, while no compile or call is in progress. *)
LEMMA IdleInStep ==
  ASSUME TypeOK, OpPlace, NoCall, op = NoMsg, HostStep, ~Closed, ~Closed', ~Spoiled'
  PROVE  InStep'
<1>typed. toHost \in Seq(ToHost) /\ toChild \in Seq(ToChild) /\ cmd \in Command \cup {NoMsg}
  BY DEF TypeOK, PipesTyped, HostTyped
<1>inStep. InStep
  BY DEF InStep
<1>1. CASE DefineConstant \/ DefineFunction \/ IsFunction
  <2>1. cmd \in ToChild /\ cmd.kind \in Side
    BY <1>1, <1>typed, CommandShape DEF DefineConstant, DefineFunction, IsFunction, Write, Side, Defines,
       Commands
  <2>2. UNCHANGED <<op, child, toHost>> /\ toChild' = Append(toChild, cmd)
    BY <1>1 DEF DefineConstant, DefineFunction, IsFunction, Write
  <2>3. AllOf(toChild', Side)
    BY <1>typed, <2>1, <2>2, AllOfAppend DEF NoCall
  <2> QED
    BY <2>2, <2>3 DEF InStep, NoCall, Before, child
<1>2. CASE Request
  <2>1. cmd \in ToChild /\ cmd.kind \in Requests
    BY <1>2, <1>typed, CommandShape DEF Request, Write, Commands, Defines, Requests
  <2>2. UNCHANGED <<child, toHost>> /\ toChild' = Append(toChild, cmd) /\ op' = cmd /\ hpc' = "resp"
    BY <1>2 DEF Request, Write
  <2>3. EndsIn(toChild', Side, Requests, cmd.id)
    BY <1>typed, <2>1, <2>2, EndsInAppend DEF NoCall
  <2>4. op' # NoMsg
    BY <2>1, <2>2 DEF NoMsg, Msg, Requests
  <2> QED
    BY <2>2, <2>3, <2>4 DEF InStep, NoCall, Queued, Before, child
<1>3. CASE WriteKilled \/ IsFunctionGivesUp
  BY <1>3, <1>inStep, SamePhase DEF WriteKilled, IsFunctionGivesUp, pipes
<1>4. CASE ReadIsFunction
  <2>1. toHost # <<>> /\ Head(toHost).kind \in Noise
    BY <1>4, <1>typed, AllOfTail DEF ReadIsFunction, ByteReady, NoCall, Before
  <2>2. Head(toHost).kind = "bool" /\ toHost' = Tail(toHost)
    BY <1>4 DEF ReadIsFunction, Blame, Spoiled, Spoiling
  <2> QED
    BY <1>4, <1>inStep, <2>1, <2>2, NoiseTaken DEF ReadIsFunction
<1>5. CASE RequestRefused
  BY <1>5 DEF RequestRefused, Closed
<1>6. hpc \notin Reading \cup {"callback", "answer", "garbled"}
  BY DEF OpPlace
<1> QED
  BY <1>1, <1>2, <1>3, <1>4, <1>5, <1>6
  DEF HostStep, ReadHeader, SkipByte, ReadError, ReadLog, LogLost, ReadArgs, ArgsLost,
      CallbackReturns, CallbackFails, WriteReply, RespGivesUp, ReadResult, ResultLost, Reading,
      GarbledRead, GarbledCallback, GarbledReturn, GarbledRest

(* process_callbacks at work. *)
LEMMA CallInStep ==
  ASSUME TypeOK, OpPlace, HeaderRead, InStep, op # NoMsg, HostStep, ~Closed', ~Spoiled'
  PROVE  InStep'
<1>typed. toHost \in Seq(ToHost) /\ toChild \in Seq(ToChild)
  BY DEF TypeOK, PipesTyped
<1>phases. Queued \/ Running \/ Calling \/ Called \/ Replied \/ Finished
  BY DEF InStep
<1>places. hpc \in {"resp", "log", "args", "result", "callback", "answer", "write", "killed"}
  BY <1>phases DEF Queued, Running, Calling, Called, Replied, Finished
<1>heads. toHost # <<>> =>
            /\ Head(toHost).kind \in Noise \cup {"callback", "return", "error"}
            /\ Head(toHost).kind = "callback" => Calling /\ Tail(toHost) = <<>>
            /\ Head(toHost).kind \in {"return", "error"} =>
                 Finished /\ Tail(toHost) = <<>> /\ Head(toHost).id = op.id
  <2> SUFFICES ASSUME toHost # <<>>
               PROVE  /\ Head(toHost).kind \in Noise \cup {"callback", "return", "error"}
                      /\ Head(toHost).kind = "callback" => Calling /\ Tail(toHost) = <<>>
                      /\ Head(toHost).kind \in {"return", "error"} =>
                           Finished /\ Tail(toHost) = <<>> /\ Head(toHost).id = op.id
    OBVIOUS
  <2> USE DEF Noise
  <2>1. CASE Queued \/ Running
    BY <1>typed, <2>1, AllOfTail DEF Queued, Running, Before
  <2>2. CASE Calling
    BY <1>typed, <2>2, EndsInTail DEF Calling
  <2>3. CASE Finished
    BY <1>typed, <2>3, EndsInTail DEF Finished
  <2> QED
    BY <1>phases, <2>1, <2>2, <2>3 DEF Called, Replied
<1>1. CASE DefineConstant \/ DefineFunction \/ IsFunction \/ Request \/ RequestRefused
  BY <1>1 DEF DefineConstant, DefineFunction, IsFunction, Request, RequestRefused, Write, Blame,
     Spoiled, Spoiling
<1>2. CASE WriteKilled \/ CallbackReturns
  <2>1. hpc \in {"write", "answer", "callback"} /\ hpc' \in {"killed", "answer"}
        /\ UNCHANGED <<op, child, toChild, toHost>>
    BY <1>2 DEF WriteKilled, CallbackReturns, pipes
  <2> QED
    BY <2>1, SamePhase
<1>3. CASE ReadHeader
  <2>1. toHost # <<>> /\ hpc = "resp" /\ UNCHANGED <<op, child, toChild, toHost>>
    BY <1>3 DEF ReadHeader, ByteReady, pipes
  <2>2. CASE Head(toHost).kind = "log"
    BY <1>3, <2>1, <2>2, SamePhase DEF ReadHeader
  <2>3. CASE Head(toHost).kind = "callback"
    BY <1>3, <1>heads, <2>1, <2>3 DEF ReadHeader, InStep, Calling, Serving, child
  <2>4. CASE Head(toHost).kind = "return"
    BY <1>3, <1>heads, <2>1, <2>4 DEF ReadHeader, InStep, Finished, child
  <2> QED
    BY <1>3, <1>heads, <2>1, <2>2, <2>3, <2>4 DEF ReadHeader, Noise
<1>4. CASE SkipByte \/ ReadLog
  <2>1. /\ toHost # <<>> /\ Head(toHost).kind \in Noise /\ toHost' = Tail(toHost)
        /\ hpc \in {"resp", "log"} /\ hpc' = "resp" /\ UNCHANGED <<op, child, toChild>>
    BY <1>4 DEF SkipByte, ReadLog, ByteReady, PayloadReady, HeaderRead, Noise, host
  <2> QED
    BY <2>1, NoiseTaken
<1>5. CASE ReadError \/ ArgsLost \/ CallbackFails \/ RespGivesUp
  BY <1>5 DEF ReadError, ArgsLost, CallbackFails, RespGivesUp, Fail, OpPlace, Closed
<1>6. CASE LogLost \/ ResultLost
  BY <1>6 DEF LogLost, ResultLost, Blame, Spoiled, Spoiling
<1>7. CASE ReadArgs
  <2>1. toHost # <<>> /\ Head(toHost).kind = "callback" /\ toHost' = Tail(toHost)
    BY <1>7 DEF ReadArgs, PayloadReady, HeaderRead
  <2>2. Calling /\ toHost' = <<>>
    BY <1>heads, <2>1
  <2>3. UNCHANGED <<child, toChild, op>> /\ hpc' = "callback"
    BY <1>7 DEF ReadArgs, Fail, OpPlace, Closed
  <2> QED
    BY <2>2, <2>3 DEF InStep, Calling, Called, Serving, child
<1>8. CASE WriteReply
  <2>1. Called
    BY <1>8, <1>phases DEF WriteReply, Queued, Running, Calling, Replied, Finished
  <2>2. Msg("reply", op.id, NoName) \in ToChild /\ Msg("reply", op.id, NoName).kind = "reply"
        /\ Msg("reply", op.id, NoName).id = op.id
    BY DEF TypeOK, HostTyped, ToChild, Msg, NoMsg
  <2>3. UNCHANGED <<child, toHost, op>> /\ hpc' = "resp"
        /\ toChild' = Append(toChild, Msg("reply", op.id, NoName))
    BY <1>8 DEF WriteReply
  <2>4. AllOf(toChild, {})
    BY <2>1 DEF Called, AllOf
  <2>5. EndsIn(toChild', {}, {"reply"}, op.id)
    BY <1>typed, <2>2, <2>3, <2>4, EndsInAppend
  <2> QED
    BY <2>1, <2>3, <2>5 DEF InStep, Called, Replied, Serving, child
<1>9. CASE ReadResult
  <2>1. toHost # <<>> /\ Head(toHost).kind = "return" /\ toHost' = Tail(toHost)
    BY <1>9 DEF ReadResult, PayloadReady, HeaderRead
  <2>2. Finished /\ toHost' = <<>>
    BY <1>heads, <2>1
  <2>3. UNCHANGED <<child, toChild>> /\ op' = NoMsg
    BY <1>9 DEF ReadResult
  <2>4. AllOf(toHost', Noise) /\ AllOf(toChild', Side)
    BY <2>2, <2>3 DEF Finished, AllOf
  <2> QED
    BY <2>2, <2>3, <2>4 DEF InStep, NoCall, Before, Finished, child
<1>10. CASE ReadIsFunction \/ IsFunctionGivesUp \/ GarbledRead \/ GarbledCallback \/ GarbledReturn \/ GarbledRest
  BY <1>10, <1>places DEF ReadIsFunction, IsFunctionGivesUp, GarbledRead, GarbledCallback, GarbledReturn, GarbledRest
<1> QED
  BY <1>1, <1>2, <1>3, <1>4, <1>5, <1>6, <1>7, <1>8, <1>9, <1>10 DEF HostStep

(* The child, whatever the guest program does. *)
LEMMA ChildInStep ==
  ASSUME TypeOK, InStep, ChildStep, ~Spoiled'
  PROVE  InStep'
<1>typed. /\ toHost \in Seq(ToHost) /\ toChild \in Seq(ToChild) /\ creq \in Command \cup {NoMsg}
  BY DEF TypeOK, PipesTyped, ChildTyped
<1>same. UNCHANGED <<op, hpc>>
  BY ChildFrame DEF host
<1>phases. \/ op = NoMsg /\ NoCall
           \/ op # NoMsg /\ (Queued \/ Running \/ Calling \/ Called \/ Replied \/ Finished)
  BY DEF InStep
<1>1. CASE ChildInit \/ ChildDies
  <2>1. /\ UNCHANGED <<creq, toChild, toHost>>
        /\ cpc' = "dead" \/ (cpc = "init" /\ cpc' = "loop")
    BY <1>1 DEF ChildInit, ChildDies, pipes
  <2>2. Before => Before'
    BY <2>1 DEF Before
  <2>3. Serving => Serving'
    BY <1>same, <2>1 DEF Serving
  <2>4. CASE op = NoMsg
    BY <1>same, <1>phases, <2>1, <2>2, <2>4 DEF InStep, NoCall
  <2>5. CASE op # NoMsg /\ Queued
    BY <1>same, <2>1, <2>2, <2>5 DEF InStep, Queued
  <2>6. CASE op # NoMsg /\ (Running \/ Calling \/ Called \/ Replied)
    <3>1. cpc' = "dead"
      BY <2>1, <2>6 DEF Running, Calling, Called, Replied
    <3> QED
      BY <1>same, <2>1, <2>3, <2>6, <3>1 DEF InStep, Running, Calling, Called, Replied
  <2>7. CASE op # NoMsg /\ Finished
    BY <1>same, <2>1, <2>7 DEF InStep, Finished
  <2> QED
    BY <1>phases, <2>4, <2>5, <2>6, <2>7
<1>2. CASE FinishWrite
  BY <1>2, <1>same, SamePhase DEF FinishWrite
<1>3. CASE TakeFunction
  <2>1. /\ cpc = "loop" /\ toChild # <<>> /\ Head(toChild).kind = "function"
        /\ toChild' = Tail(toChild) /\ UNCHANGED <<cpc, creq, toHost>>
    BY <1>3 DEF TakeFunction, ChildReads
  <2>2. Before => Before'
    BY <2>1 DEF Before
  <2>3. CASE op = NoMsg /\ NoCall
    <3>1. AllOf(toChild', Side)
      BY <1>typed, <2>1, <2>3, AllOfTail DEF NoCall
    <3> QED
      BY <1>same, <2>2, <2>3, <3>1 DEF InStep, NoCall
  <2>4. CASE op # NoMsg /\ Queued
    <3>1. EndsIn(toChild', Side, Requests, op.id)
      BY <1>typed, <2>1, <2>4, EndsInTail DEF Queued, Requests
    <3> QED
      BY <1>same, <2>2, <2>4, <3>1 DEF InStep, Queued
  <2> QED
    BY <1>phases, <2>1, <2>3, <2>4 DEF Running, Calling, Called, Replied, Finished
<1>4. CASE TakeCommand
  <2>1. /\ cpc = "loop" /\ toChild # <<>> /\ toChild' = Tail(toChild)
        /\ cpc' = "guest" /\ creq' = Head(toChild) /\ toHost' = toHost
    BY <1>4 DEF TakeCommand, ChildReads
  <2>2. CASE op = NoMsg /\ NoCall
    <3>1. AllOf(toChild', Side) /\ creq'.kind \notin Requests
      BY <1>typed, <2>1, <2>2, AllOfTail DEF NoCall, Side, Defines, Requests
    <3> QED
      BY <1>same, <2>1, <2>2, <3>1 DEF InStep, NoCall, Before
  <2>3. CASE op # NoMsg /\ Queued /\ Head(toChild).kind \in Requests
    <3>1. toChild' = <<>> /\ Head(toChild).id = op.id
      BY <1>typed, <2>1, <2>3, EndsInTail DEF Queued, Side, Defines, Requests
    <3> QED
      BY <1>same, <2>1, <2>3, <3>1 DEF InStep, Queued, Running, Serving, Before
  <2>4. CASE op # NoMsg /\ Queued /\ Head(toChild).kind \notin Requests
    <3>1. EndsIn(toChild', Side, Requests, op.id)
      BY <1>typed, <2>1, <2>4, EndsInTail DEF Queued
    <3> QED
      BY <1>same, <2>1, <2>4, <3>1 DEF InStep, Queued, Before
  <2> QED
    BY <1>phases, <2>1, <2>2, <2>3, <2>4 DEF Running, Calling, Called, Replied, Finished
<1>5. CASE TakeStray
  <2>1. cpc = "loop" /\ toChild # <<>> /\ Head(toChild).kind = "reply"
    BY <1>5 DEF TakeStray, ChildReads
  <2>2. ~NoCall
    BY <1>typed, <2>1, AllOfTail DEF NoCall, Side, Defines
  <2>3. ~Queued
    BY <1>typed, <2>1, EndsInTail DEF Queued, Side, Defines, Requests
  <2> QED
    BY <1>phases, <2>1, <2>2, <2>3 DEF Running, Calling, Called, Replied, Finished
<1>6. CASE TakeReply
  <2>1. cpc = "reply" /\ toChild # <<>> /\ toChild' = Tail(toChild) /\ UNCHANGED <<creq, toHost>>
    BY <1>6 DEF TakeReply, ChildReads
  <2>2. Replied /\ op # NoMsg
    BY <1>phases, <2>1 DEF NoCall, Queued, Before, Running, Calling, Called, Finished
  <2>3. Head(toChild).kind = "reply" /\ toChild' = <<>>
    BY <1>typed, <2>1, <2>2, EndsInTail DEF Replied
  <2>4. cpc' = "guest"
    BY <1>6, <2>3 DEF TakeReply
  <2>5. AllOf(toHost', Noise)
    BY <2>1, <2>2 DEF Replied, AllOf
  <2> QED
    BY <1>same, <2>1, <2>2, <2>3, <2>4, <2>5 DEF InStep, Replied, Running, Serving
<1>7. ASSUME NEW k \in Noise, Sends(k, NoName), UNCHANGED toChild,
             UNCHANGED <<cpc, creq>> \/ (creq.kind \notin Requests /\ cpc' = "loop" /\ creq' = NoMsg)
      PROVE  InStep'
  <2>1. /\ cpc = "guest" /\ Msg(k, creq.id, NoName) \in ToHost
        /\ Msg(k, creq.id, NoName).kind \in Noise
        /\ toHost' = Append(toHost, Msg(k, creq.id, NoName))
    BY <1>7 DEF Sends, Msg
  <2>2. AllOf(toHost, Noise) => AllOf(toHost', Noise)
    BY <1>typed, <2>1, AllOfAppend
  <2>3. Before => Before'
    BY <1>7, <2>1, <2>2 DEF Before, NoMsg, Msg, Requests
  <2>4. CASE op = NoMsg /\ NoCall
    BY <1>7, <1>same, <2>3, <2>4 DEF InStep, NoCall
  <2>5. CASE op # NoMsg /\ Queued
    BY <1>7, <1>same, <2>3, <2>5 DEF InStep, Queued
  <2>6. CASE op # NoMsg /\ Running
    BY <1>7, <1>same, <2>1, <2>2, <2>6 DEF InStep, Running, Serving
  <2> QED
    BY <1>phases, <2>1, <2>4, <2>5, <2>6 DEF Calling, Called, Replied, Finished
<1>sent. ASSUME NEW k \in {"log", "callback", "return", "error", "bool"}, NEW n \in Names \cup {NoName}
         PROVE  Msg(k, creq.id, n) \in ToHost
  BY <1>typed, CommandShape DEF ToHost, Msg
<1>8. CASE GuestLogs
  <2>1. Sends("log", NoName) /\ UNCHANGED <<toChild, cpc, creq>>
    BY <1>8, <1>sent DEF GuestLogs, CanSend, Sends, child
  <2> QED
    BY <1>7, <2>1 DEF Noise
<1>9. CASE IsFunctionDone
  <2>1. Sends("bool", NoName) /\ UNCHANGED toChild
    BY <1>9, <1>sent DEF IsFunctionDone, CanSend, Sends, GuestDone
  <2>2. creq.kind \notin Requests /\ cpc' = "loop" /\ creq' = NoMsg
    BY <1>9 DEF IsFunctionDone, GuestDone, Requests
  <2> QED
    BY <1>7, <2>1, <2>2 DEF Noise
<1>10. CASE ConstantDone
  <2>1. /\ cpc = "guest" /\ creq.kind \notin Requests /\ cpc' = "loop" /\ creq' = NoMsg
        /\ UNCHANGED <<toHost, toChild>>
    BY <1>10 DEF ConstantDone, GuestDone, Requests
  <2>2. Before => Before'
    BY <2>1 DEF Before, NoMsg, Msg, Requests
  <2>3. CASE op = NoMsg /\ NoCall
    BY <1>same, <2>1, <2>2, <2>3 DEF InStep, NoCall
  <2>4. CASE op # NoMsg /\ Queued
    BY <1>same, <2>1, <2>2, <2>4 DEF InStep, Queued
  <2> QED
    BY <1>phases, <2>1, <2>3, <2>4 DEF Running, Calling, Called, Replied, Finished, Serving
<1>11. CASE GuestReturns \/ GuestErrs
  <2>1. Sends("return", NoName) \/ Sends("error", NoName)
    BY <1>11, <1>sent DEF GuestReturns, GuestErrs, CanSend, Sends
  <2>2. creq.kind \in Requests /\ cpc' = "loop" /\ creq' = NoMsg /\ UNCHANGED toChild
    BY <1>11 DEF GuestReturns, GuestErrs, GuestDone, Requests
  <2>3. Running /\ op # NoMsg
    BY <1>phases, <2>1, <2>2
    DEF Sends, NoCall, Queued, Before, Calling, Called, Replied, Finished
  <2>4. EndsIn(toHost', Noise, {"return", "error"}, op.id)
    <3>1. PICK k \in {"return", "error"} : Sends(k, NoName)
      BY <2>1
    <3>2. /\ Msg(k, creq.id, NoName) \in ToHost /\ Msg(k, creq.id, NoName).kind \in {"return", "error"}
          /\ Msg(k, creq.id, NoName).id = op.id /\ toHost' = Append(toHost, Msg(k, creq.id, NoName))
      BY <2>3, <3>1 DEF Sends, Msg, Running, Serving
    <3> QED
      BY <1>typed, <2>3, <3>2, EndsInAppend DEF Running
  <2>5. creq'.kind \notin Requests
    BY <2>2 DEF NoMsg, Msg, Requests
  <2> QED
    BY <1>same, <2>2, <2>3, <2>4, <2>5 DEF InStep, Running, Finished
<1>12. ASSUME NEW n \in Names, GuestCalls(n) PROVE InStep'
  <2>1. Sends("callback", n) /\ creq.kind \in Requests
    BY <1>12, <1>sent DEF GuestCalls, CanSend, Sends, Blame, Spoiled, Spoiling
  <2>2. cpc' = "reply" /\ UNCHANGED <<creq, toChild>>
    BY <1>12 DEF GuestCalls
  <2>3. Running /\ op # NoMsg
    BY <1>phases, <2>1 DEF Sends, NoCall, Queued, Before, Calling, Called, Replied, Finished
  <2>4. EndsIn(toHost', Noise, {"callback"}, op.id)
    <3>1. /\ Msg("callback", creq.id, n) \in ToHost /\ Msg("callback", creq.id, n).kind \in {"callback"}
          /\ Msg("callback", creq.id, n).id = op.id
          /\ toHost' = Append(toHost, Msg("callback", creq.id, n))
      BY <2>1, <2>3 DEF Sends, Msg, Running, Serving
    <3> QED
      BY <1>typed, <2>3, <3>1, EndsInAppend DEF Running
  <2> QED
    BY <1>same, <2>2, <2>3, <2>4 DEF InStep, Running, Calling, Serving
<1>13. CASE GarbledTake \/ GarbledSend
  BY <1>13, <1>phases DEF GarbledTake, GarbledSend, ChildReads, NoCall, Queued, Before, Running,
     Calling, Called, Replied, Finished
<1> QED
  BY <1>1, <1>2, <1>3, <1>4, <1>5, <1>6, <1>8, <1>9, <1>10, <1>11, <1>12, <1>13 DEF ChildStep

(* Time, the application's own steps and destroy change nothing in the pipes. *)
LEMMA OtherInStep ==
  ASSUME OpPlace, InStep,
         WaitTick \/ Destroy \/ \E kind \in Commands : Invoke(kind)
  PROVE  InStep'
<1>1. CASE WaitTick
  <2>1. UNCHANGED <<hpc, op, child, toChild, toHost>>
    BY <1>1 DEF WaitTick, host, pipes
  <2> QED
    BY <2>1, SamePhase
<1>2. CASE Destroy
  <2>1. op = NoMsg /\ NoCall
    BY <1>2 DEF Destroy, OpPlace, InStep
  <2>2. cpc' = "dead" /\ UNCHANGED <<op, creq, toChild, toHost>>
    BY <1>2 DEF Destroy, pipes
  <2> QED
    BY <2>1, <2>2 DEF InStep, NoCall, Before
<1>3. ASSUME NEW kind \in Commands, Invoke(kind) PROVE InStep'
  <2>1. UNCHANGED <<op, child, toChild, toHost>>
        /\ hpc \in {"idle", "callback"} /\ hpc' = "write" /\ (hpc = "idle" => op = NoMsg)
    BY <1>3 DEF Invoke, pipes, OpPlace
  <2> QED
    BY <2>1, SamePhase
<1> QED
  BY <1>1, <1>2, <1>3

(* Host and child stay in step, or the session is closed or spoiled. *)
LEMMA SynchronisedStep ==
  TypeOK /\ OpPlace /\ HeaderRead /\ Synchronised /\ Next => Synchronised'
<1> SUFFICES ASSUME TypeOK, OpPlace, HeaderRead, Synchronised, Next, ~Closed', ~Spoiled'
             PROVE  InStep'
  BY DEF Synchronised
<1>1. ~Closed /\ ~Spoiled /\ InStep
  BY StillOpen DEF Synchronised
<1>2. CASE HostStep /\ op = NoMsg
  BY <1>1, <1>2, IdleInStep DEF InStep
<1>3. CASE HostStep /\ op # NoMsg
  BY <1>1, <1>3, CallInStep
<1>4. CASE ChildStep
  BY <1>1, <1>4, ChildInStep
<1> QED
  BY <1>1, <1>2, <1>3, <1>4, OtherInStep DEF Next

(* A host that takes a payload for headers is in a spoiled session. *)
LEMMA GarbledSpoiled ==
  ASSUME OpPlace, Synchronised, hpc = "garbled"
  PROVE  Spoiled
BY DEF OpPlace, Synchronised, InStep, Closed, Reading, Queued, Running, Calling, Called, Replied, Finished

-----------------------------------------------------------------------------
(* The numbers of the operations                                           *)

(* In an open session a result that is read is that of the current call. *)
LEMMA OwnResult ==
  ASSUME TypeOK, HeaderRead, Synchronised, OpPlace, ReadResult, ~Closed, ~Spoiled
  PROVE  op # NoMsg /\ Head(toHost).id = op.id
<1>1. toHost # <<>> /\ toHost \in Seq(ToHost) /\ Head(toHost).kind = "return" /\ op # NoMsg
  BY DEF TypeOK, PipesTyped, HeaderRead, OpPlace, Reading, ReadResult
<1>2. Finished
  BY <1>1 DEF Synchronised, InStep, ReadResult, Queued, Running, Calling, Called, Replied
<1> QED
  BY <1>1, <1>2, EndsInTail DEF Finished, Noise

(* Requests are numbered in order, and answers are to earlier requests. *)
LEMMA NumberedStep ==
  TypeOK /\ OpPlace /\ HeaderRead /\ Synchronised /\ Numbered /\ Next => Numbered'
<1> SUFFICES ASSUME TypeOK, OpPlace, HeaderRead, Synchronised, Numbered, Next PROVE Numbered'
  OBVIOUS
<1> USE DEF Numbered
<1>typed. /\ started \in Nat /\ op.id \in Nat /\ cmd.id \in Nat
          /\ answer \in [asked : Nat, got : Nat] /\ NoMsg.id = 0
  BY CommandShape DEF TypeOK, AuxTyped, HostTyped, NoMsg, Msg
<1>open. ~Closed' /\ ~Spoiled' => ~Closed /\ ~Spoiled
  BY StillOpen
<1>1. ASSUME UNCHANGED <<started, answer>>,
             op' = op \/ op' = NoMsg,
             hpc' = "write" => hpc = "write" /\ cmd' = cmd /\ op' = op
      PROVE  Numbered'
  BY <1>1, <1>typed, <1>open
<1>2. CASE DefineConstant \/ DefineFunction \/ IsFunction \/ RequestRefused
  BY <1>1, <1>2 DEF DefineConstant, DefineFunction, IsFunction, RequestRefused, Write, Back
<1>3. CASE Request
  BY <1>3, <1>typed, <1>open DEF Request, Write
<1>4. CASE WriteKilled \/ ReadHeader \/ SkipByte \/ ReadLog \/ LogLost \/ CallbackReturns \/ WriteReply
  BY <1>1, <1>4 DEF WriteKilled, ReadHeader, SkipByte, ReadLog, LogLost, CallbackReturns, WriteReply,
     host, aux
<1>5. CASE ReadError \/ ReadArgs \/ ArgsLost \/ CallbackFails \/ RespGivesUp \/ ResultLost
  BY <1>1, <1>5 DEF ReadError, ReadArgs, ArgsLost, CallbackFails, RespGivesUp, ResultLost, Fail
<1>6. CASE ReadIsFunction \/ IsFunctionGivesUp \/ GarbledRead \/ GarbledCallback \/ GarbledRest
  BY <1>1, <1>6 DEF ReadIsFunction, IsFunctionGivesUp, Back, GarbledRead, GarbledCallback, GarbledRest,
     Fail, host, aux
<1>11. CASE GarbledReturn
  <2>1. op' = NoMsg /\ hpc' = "idle" /\ Spoiled /\ UNCHANGED started
    BY <1>11, GarbledSpoiled DEF GarbledReturn
  <2> QED
    BY <1>typed, <1>open, <2>1
<1>7. CASE ReadResult
  <2>1. op' = NoMsg /\ answer'.got = Head(toHost).id /\ started' = started /\ hpc' = "idle"
    BY <1>7 DEF ReadResult
  <2>2. ~Closed /\ ~Spoiled => Head(toHost).id = op.id
    BY <1>7, OwnResult
  <2> QED
    BY <1>typed, <1>open, <2>1, <2>2
<1>8. CASE ChildStep
  <2>1. UNCHANGED <<started, answer>>
    BY <1>8 DEF ChildStep, ChildInit, TakeFunction, TakeCommand, TakeStray, TakeReply, GarbledTake, GarbledSend, GuestLogs,
       GuestCalls, GuestReturns, GuestErrs, IsFunctionDone, ConstantDone, GuestDone, FinishWrite,
       ChildDies, aux
  <2> QED
    BY <1>1, <1>8, <2>1, ChildFrame DEF host
<1>9. CASE WaitTick \/ Destroy
  BY <1>1, <1>9 DEF WaitTick, Destroy, host, aux
<1>10. ASSUME NEW kind \in Commands, Invoke(kind) PROVE Numbered'
  <2>1. /\ started' = started + 1 /\ cmd'.id = started + 1 /\ op' = op /\ answer' = answer
        /\ UNCHANGED <<inCall, mishap>>
    BY <1>10 DEF Invoke, Msg
  <2> QED
    BY <1>typed, <1>open, <2>1
<1> QED
  BY <1>2, <1>3, <1>4, <1>5, <1>6, <1>7, <1>8, <1>9, <1>10, <1>11 DEF Next, HostStep

-----------------------------------------------------------------------------
(* The questions of is_function                                            *)

(* What taking a message, adding one, and leaving a payload do to the      *)
(* messages of one kind in a pipe.                                         *)
LEMMA NoneTail ==
  ASSUME NEW T, NEW q \in Seq(T), q # <<>>, NEW k, None(q, k)
  PROVE  Head(q).kind # k /\ None(Tail(q), k)
BY Taking DEF None

LEMMA NoneAppend ==
  ASSUME NEW T, NEW q \in Seq(T), NEW m \in T, NEW k, None(q, k), m.kind # k
  PROVE  None(Append(q, m), k)
BY Appending DEF None

LEMMA NoneRetagged ==
  ASSUME NEW q \in Seq(ToHost), q # <<>>, None(q, "bool")
  PROVE  None([q EXCEPT ![1] = TornMsg], "bool")
<1>1. /\ Len([q EXCEPT ![1] = TornMsg]) = Len(q) /\ Len(q) \in Nat
      /\ [q EXCEPT ![1] = TornMsg][1].kind = "torn"
      /\ \A i \in 2..Len(q) : [q EXCEPT ![1] = TornMsg][i] = q[i]
  BY Retagging, TornShape
<1> DEFINE r == [q EXCEPT ![1] = TornMsg]
<1> HIDE DEF r
<1>2. ASSUME NEW i \in 1..Len(r) PROVE r[i].kind # "bool"
  <2>1. i = 1 \/ (i \in 2..Len(q) /\ i \in 1..Len(q))
    BY <1>1 DEF r
  <2> QED
    BY <1>1, <2>1 DEF None, r
<1> QED
  BY <1>2 DEF None, r

LEMMA OneTail ==
  ASSUME NEW T, NEW q \in Seq(T), q # <<>>, NEW k, NEW id, AtMostOne(q, k, id)
  PROVE  /\ AtMostOne(Tail(q), k, id)
         /\ Head(q).kind = k => Head(q).id = id /\ None(Tail(q), k)
<1>1. /\ Head(q) = q[1] /\ Len(q) \in Nat \ {0} /\ Len(Tail(q)) = Len(q) - 1
      /\ \A i \in 1..Len(q) - 1 : Tail(q)[i] = q[i + 1]
  BY Taking
<1>2. ASSUME NEW i \in 1..Len(Tail(q)) PROVE i \in Nat /\ i + 1 \in 1..Len(q) /\ i + 1 # 1 /\ Tail(q)[i] = q[i + 1]
  BY <1>1
<1>3. 1 \in 1..Len(q)
  BY <1>1
<1>4. AtMostOne(Tail(q), k, id)
  <2> SUFFICES ASSUME NEW i \in 1..Len(Tail(q)), Tail(q)[i].kind = k
               PROVE  Tail(q)[i].id = id /\ \A j \in 1..Len(Tail(q)) : Tail(q)[j].kind = k => j = i
    BY DEF AtMostOne
  <2>1. ASSUME NEW j \in 1..Len(Tail(q)), Tail(q)[j].kind = k PROVE j = i
    <3>1. j + 1 = i + 1
      BY <1>2, <2>1 DEF AtMostOne
    <3> QED
      BY <1>2, <3>1
  <2> QED
    BY <1>2, <2>1 DEF AtMostOne
<1>5. ASSUME Head(q).kind = k PROVE Head(q).id = id /\ None(Tail(q), k)
  BY <1>1, <1>2, <1>3, <1>5 DEF AtMostOne, None
<1> QED
  BY <1>4, <1>5

LEMMA OneAppend ==
  ASSUME NEW T, NEW q \in Seq(T), NEW m \in T, NEW k
  PROVE  /\ \A id : AtMostOne(q, k, id) /\ m.kind # k => AtMostOne(Append(q, m), k, id)
         /\ None(q, k) => AtMostOne(Append(q, m), k, m.id)
<1>1. /\ Len(q) \in Nat /\ Len(Append(q, m)) = Len(q) + 1 /\ Append(q, m)[Len(q) + 1] = m
      /\ \A i \in 1..Len(q) : Append(q, m)[i] = q[i]
  BY Appending
<1>2. \A i \in 1..Len(Append(q, m)) : i = Len(q) + 1 \/ i \in 1..Len(q)
  BY <1>1
<1> QED
  BY <1>1, <1>2 DEF AtMostOne, None

LEMMA NoneIsOne ==
  ASSUME NEW q, NEW k, None(q, k)
  PROVE  \A id : AtMostOne(q, k, id)
BY DEF None, AtMostOne

(* While the host does something else, a step of it asks one question at   *)
(* most, with IsFunction, and leaves no lone byte.                         *)
LEMMA AskedElsewhere ==
  ASSUME TypeOK, NoneAsked, hpc # "isfn", HostStep, Attended'
  PROVE  Asked'
<1>typed. toHost \in Seq(ToHost) /\ toChild \in Seq(ToChild) /\ cmd \in Command \cup {NoMsg}
  BY DEF TypeOK, PipesTyped, HostTyped
<1>written. ASSUME NEW kind \in Commands, Write(kind)
            PROVE  /\ toChild' = Append(toChild, cmd) /\ cmd \in ToChild /\ cmd.kind = kind
                   /\ UNCHANGED <<cmd, creq, toHost>>
  BY <1>typed, <1>written, CommandShape DEF Write, child
<1>1. CASE IsFunction
  <2>1. Write("isfn") /\ "isfn" \in Commands /\ hpc' = "isfn"
    BY <1>1 DEF IsFunction, Commands
  <2>2. /\ toChild' = Append(toChild, cmd) /\ cmd \in ToChild /\ cmd.kind = "isfn"
        /\ UNCHANGED <<cmd, creq, toHost>>
    BY <1>written, <2>1
  <2>3. AtMostOne(toChild', "isfn", cmd.id)
    BY <1>typed, <2>2, OneAppend DEF NoneAsked
  <2>4. AtMostOne(toHost', "bool", cmd.id)
    BY <2>2, NoneIsOne DEF NoneAsked
  <2> QED
    BY <2>1, <2>2, <2>3, <2>4 DEF Asked, OneAsked, NoneAsked
<1>2. ASSUME NEW kind \in Commands \ {"isfn"}, Write(kind), hpc' # "isfn" PROVE Asked'
  <2>1. None(Append(toChild, cmd), "isfn")
    BY <1>typed, <1>written, <1>2, NoneAppend DEF NoneAsked
  <2> QED
    BY <1>written, <1>2, <2>1 DEF Asked, NoneAsked
<1>3. CASE DefineConstant \/ DefineFunction \/ Request \/ RequestRefused
  <2>1. (\E kind \in Commands \ {"isfn"} : Write(kind)) /\ hpc' # "isfn"
    BY <1>3 DEF DefineConstant, DefineFunction, Request, RequestRefused, Back, Commands, Requests, Defines
  <2> QED
    BY <1>2, <2>1
<1>4. CASE WriteReply
  <2>1. Msg("reply", op.id, NoName) \in ToChild /\ Msg("reply", op.id, NoName).kind # "isfn"
    BY DEF TypeOK, HostTyped, ToChild, Msg, NoMsg
  <2>2. None(toChild', "isfn")
    BY <1>typed, <1>4, <2>1, NoneAppend DEF WriteReply, NoneAsked
  <2> QED
    BY <1>4, <2>2 DEF WriteReply, Asked, NoneAsked, child
<1>5. ASSUME hpc' # "isfn", toHost' = toHost \/ (toHost # <<>> /\ (toHost' = Tail(toHost) \/ toHost' = Torn)),
             UNCHANGED <<creq, toChild>>
      PROVE  Asked'
  <2>1. toHost # <<>> => None(Tail(toHost), "bool")
    BY <1>typed, NoneTail DEF NoneAsked
  <2>2. toHost # <<>> => None(Torn, "bool")
    BY <1>typed, NoneRetagged DEF NoneAsked, Torn
  <2>3. None(toHost', "bool")
    BY <1>5, <2>1, <2>2 DEF NoneAsked
  <2> QED
    BY <1>5, <2>3 DEF Asked, NoneAsked
<1>6. CASE WriteKilled \/ ReadHeader \/ CallbackReturns \/ CallbackFails \/ RespGivesUp
  BY <1>5, <1>6 DEF WriteKilled, ReadHeader, CallbackReturns, CallbackFails, RespGivesUp, Fail, child, pipes
<1>10. CASE GarbledCallback \/ GarbledReturn \/ GarbledRest
  BY <1>5, <1>10 DEF GarbledCallback, GarbledReturn, GarbledRest, Fail, child, pipes
<1>11. CASE GarbledRead
  <2>1. toHost # <<>> /\ toHost' \in Remains /\ hpc' # "isfn" /\ UNCHANGED <<creq, toChild>>
    BY <1>11 DEF GarbledRead, ByteReady, host, child
  <2> QED
    BY <1>typed, <1>5, <2>1, Remaining
<1>7. CASE SkipByte \/ ReadError \/ ReadLog \/ ReadArgs \/ ReadResult
  <2>1. toHost # <<>> /\ toHost' = Tail(toHost) /\ UNCHANGED <<creq, toChild>>
    BY <1>7 DEF SkipByte, ReadError, ReadLog, ReadArgs, ReadResult, ByteReady, PayloadReady, child
  <2>2. hpc' # "isfn"
    BY <1>7 DEF SkipByte, ReadError, ReadLog, ReadArgs, ReadResult, Fail, host
  <2> QED
    BY <1>5, <2>1, <2>2
<1>8. CASE ArgsLost
  <2>1. toHost' = Torn /\ UNCHANGED <<creq, toChild>> /\ hpc' # "isfn"
    BY <1>8 DEF ArgsLost, Fail, child
  <2>2. CASE toHost = <<>>
    <3>1. toHost' = toHost
      BY <1>typed, <2>1, <2>2 DEF Torn
    <3> QED
      BY <1>5, <2>1, <3>1
  <2> QED
    BY <1>5, <2>1, <2>2
<1>9. ~LogLost /\ ~ResultLost /\ ~ReadIsFunction /\ ~IsFunctionGivesUp
  BY DEF LogLost, ResultLost, ReadIsFunction, IsFunctionGivesUp, Blame, Attended
<1> QED
  BY <1>1, <1>3, <1>4, <1>6, <1>7, <1>8, <1>9, <1>10, <1>11 DEF HostStep

(* The host that waits for the answer goes on with the answer it asked     *)
(* for, or is to blame.                                                    *)
LEMMA AnswerRead ==
  ASSUME TypeOK, OneAsked, hpc = "isfn", HostStep, Attended'
  PROVE  Asked' /\ mishap' = mishap
<1>typed. toHost \in Seq(ToHost)
  BY DEF TypeOK, PipesTyped
<1>1. ReadIsFunction /\ ~IsFunctionGivesUp
  BY DEF HostStep, DefineConstant, DefineFunction, IsFunction, Request, RequestRefused, Write, WriteKilled, ReadHeader,
     SkipByte, ReadError, ReadLog, LogLost, ReadArgs, ArgsLost, CallbackReturns, CallbackFails, WriteReply, RespGivesUp,
     ReadResult, ResultLost, IsFunctionGivesUp, GarbledRead, GarbledCallback, GarbledReturn, GarbledRest, Blame, Attended
<1>2. /\ toHost # <<>> /\ Head(toHost).kind = "bool" /\ toHost' = Tail(toHost)
      /\ mishap' = mishap \cup (IF Head(toHost).id = cmd.id THEN {} ELSE {"stale"})
      /\ UNCHANGED <<creq, toChild>> /\ hpc' # "isfn"
  BY <1>1 DEF ReadIsFunction, ByteReady, Blame, Attended, Back, child
<1>3. Head(toHost).id = cmd.id /\ None(Tail(toHost), "bool")
  BY <1>typed, <1>2, OneTail DEF OneAsked
<1>4. ~None(toHost, "bool")
  BY <1>typed, <1>2, Taking DEF None
<1> QED
  BY <1>2, <1>3, <1>4 DEF Asked, NoneAsked, OneAsked

(* The child carries the question from one place to the next. *)
LEMMA AskedOfChild ==
  ASSUME TypeOK, Asked, ChildStep
  PROVE  Asked'
<1>typed. /\ toHost \in Seq(ToHost) /\ toChild \in Seq(ToChild) /\ creq \in Command \cup {NoMsg}
  BY DEF TypeOK, PipesTyped, ChildTyped
<1>host. UNCHANGED <<hpc, cmd>>
  BY ChildFrame DEF host
<1>none. NoMsg.kind # "isfn"
  BY DEF NoMsg, Msg
<1>1. ASSUME UNCHANGED <<toChild, toHost>>, creq' = creq \/ creq' = NoMsg PROVE Asked'
  BY <1>host, <1>none, <1>1 DEF Asked, NoneAsked, OneAsked
<1>2. CASE ChildInit \/ FinishWrite \/ ChildDies \/ ConstantDone
  BY <1>1, <1>2 DEF ChildInit, FinishWrite, ChildDies, ConstantDone, GuestDone, child, pipes
<1>3. ASSUME toChild # <<>>, toChild' = Tail(toChild), toHost' = toHost, creq' = creq \/ creq' = Head(toChild)
      PROVE  Asked'
  <2>1. CASE NoneAsked /\ hpc # "isfn"
    <3>1. Head(toChild).kind # "isfn" /\ None(toChild', "isfn")
      BY <1>typed, <1>3, <2>1, NoneTail DEF NoneAsked
    <3> QED
      BY <1>host, <1>3, <2>1, <3>1 DEF Asked, NoneAsked
  <2>2. CASE OneAsked /\ hpc = "isfn"
    <3>1. /\ AtMostOne(toChild', "isfn", cmd.id)
          /\ Head(toChild).kind = "isfn" => Head(toChild).id = cmd.id /\ None(toChild', "isfn")
      BY <1>typed, <1>3, <2>2, OneTail DEF OneAsked
    <3>2. None(toChild, "isfn") => Head(toChild).kind # "isfn" /\ None(toChild', "isfn")
      BY <1>typed, <1>3, NoneTail
    <3> QED
      BY <1>host, <1>3, <2>2, <3>1, <3>2 DEF Asked, OneAsked
  <2> QED
    BY <2>1, <2>2 DEF Asked
<1>4. CASE TakeFunction \/ TakeCommand \/ TakeStray \/ TakeReply \/ GarbledTake
  BY <1>3, <1>4 DEF TakeFunction, TakeCommand, TakeStray, TakeReply, GarbledTake, ChildReads, child
<1>5. ASSUME NEW m \in ToHost, toHost' = Append(toHost, m), UNCHANGED toChild, creq' = creq \/ creq' = NoMsg,
             m.kind # "bool" \/ (creq.kind = "isfn" /\ m.id = creq.id /\ creq' = NoMsg)
      PROVE  Asked'
  <2>1. CASE NoneAsked /\ hpc # "isfn"
    <3>1. None(toHost', "bool")
      BY <1>typed, <1>5, <2>1, NoneAppend DEF NoneAsked
    <3> QED
      BY <1>host, <1>none, <1>5, <2>1, <3>1 DEF Asked, NoneAsked
  <2>2. CASE OneAsked /\ hpc = "isfn" /\ m.kind # "bool"
    <3>1. AtMostOne(toHost', "bool", cmd.id) /\ (None(toHost, "bool") => None(toHost', "bool"))
      BY <1>typed, <1>5, <2>2, OneAppend, NoneAppend DEF OneAsked
    <3> QED
      BY <1>host, <1>none, <1>5, <2>2, <3>1 DEF Asked, OneAsked
  <2>3. CASE OneAsked /\ hpc = "isfn" /\ m.kind = "bool"
    <3>1. creq.kind = "isfn" /\ m.id = cmd.id /\ creq' = NoMsg /\ None(toHost, "bool") /\ None(toChild, "isfn")
      BY <1>5, <2>3 DEF OneAsked
    <3>2. AtMostOne(toHost', "bool", cmd.id)
      BY <1>typed, <1>5, <3>1, OneAppend
    <3> QED
      BY <1>host, <1>none, <1>5, <2>3, <3>1, <3>2 DEF Asked, OneAsked
  <2> QED
    BY <2>1, <2>2, <2>3 DEF Asked
<1>6. ASSUME NEW k \in {"log", "callback", "return", "error", "bool"}, NEW n \in Names \cup {NoName}
      PROVE  Msg(k, creq.id, n) \in ToHost /\ Msg(k, creq.id, n).kind = k /\ Msg(k, creq.id, n).id = creq.id
  BY <1>typed, CommandShape DEF ToHost, Msg
<1>7. CASE GuestLogs
  <2>1. Msg("log", creq.id, NoName) \in ToHost /\ Msg("log", creq.id, NoName).kind # "bool"
    BY <1>6
  <2> QED
    BY <1>5, <1>7, <2>1 DEF GuestLogs, child
<1>8. ASSUME NEW n \in Names, GuestCalls(n) PROVE Asked'
  <2>1. Msg("callback", creq.id, n) \in ToHost /\ Msg("callback", creq.id, n).kind # "bool"
    BY <1>6
  <2> QED
    BY <1>5, <1>8, <2>1 DEF GuestCalls
<1>9. CASE GuestReturns \/ GuestErrs
  <2>1. \A k \in {"return", "error"} : Msg(k, creq.id, NoName) \in ToHost /\ Msg(k, creq.id, NoName).kind # "bool"
    BY <1>6
  <2> QED
    BY <1>5, <1>9, <2>1 DEF GuestReturns, GuestErrs, GuestDone
<1>10. CASE IsFunctionDone
  <2>1. Msg("bool", creq.id, NoName) \in ToHost /\ Msg("bool", creq.id, NoName).id = creq.id
    BY <1>6
  <2> QED
    BY <1>5, <1>10, <2>1 DEF IsFunctionDone, GuestDone
<1>11. CASE GarbledSend
  BY <1>5, <1>11, TornShape DEF GarbledSend, child
<1> QED
  BY <1>2, <1>4, <1>7, <1>8, <1>9, <1>10, <1>11 DEF ChildStep

(* Each question is in one place, and none outlives its host's wait. *)
LEMMA LoneAnswersStep == TypeOK /\ LoneAnswers /\ Next => LoneAnswers'
<1> SUFFICES ASSUME TypeOK, LoneAnswers, Next, Attended' PROVE "stale" \notin mishap' /\ Asked'
  BY DEF LoneAnswers
<1>1. "stale" \notin mishap /\ Asked
  BY MishapsStay DEF LoneAnswers, Attended
<1>2. CASE HostStep /\ hpc = "isfn"
  BY <1>1, <1>2, AnswerRead DEF Asked
<1>3. CASE HostStep /\ hpc # "isfn"
  <2>1. "stale" \notin mishap'
    BY <1>1, <1>3 DEF HostStep, DefineConstant, DefineFunction, IsFunction, Request, RequestRefused, Write, WriteKilled,
       ReadHeader, SkipByte, ReadError, ReadLog, LogLost, ReadArgs, ArgsLost, CallbackReturns, CallbackFails, WriteReply,
       RespGivesUp, ReadResult, ResultLost, ReadIsFunction, IsFunctionGivesUp,
       GarbledRead, GarbledCallback, GarbledReturn, GarbledRest, Blame, aux
  <2> QED
    BY <1>1, <1>3, <2>1, AskedElsewhere DEF Asked
<1>4. CASE ChildStep
  <2>1. "stale" \notin mishap'
    BY <1>1, <1>4 DEF ChildStep, ChildInit, TakeFunction, TakeCommand, TakeStray, TakeReply, GarbledTake, GarbledSend, GuestLogs, GuestCalls,
       GuestReturns, GuestErrs, IsFunctionDone, ConstantDone, GuestDone, FinishWrite, ChildDies, Blame, aux
  <2> QED
    BY <1>1, <1>4, <2>1, AskedOfChild
<1>5. CASE WaitTick
  BY <1>1, <1>5 DEF WaitTick, Asked, NoneAsked, OneAsked, child, pipes, aux
<1>6. CASE Destroy \/ \E kind \in Commands : Invoke(kind)
  <2>1. hpc # "isfn" /\ hpc' # "isfn" /\ UNCHANGED <<creq, toChild, toHost, mishap>>
    BY <1>6 DEF Destroy, Invoke, child, pipes, aux
  <2> QED
    BY <1>1, <2>1 DEF Asked, NoneAsked
<1> QED
  BY <1>2, <1>3, <1>4, <1>5, <1>6 DEF Next

-----------------------------------------------------------------------------
(* The results                                                             *)

(* The initial state satisfies the invariant. *)
LEMMA InitInvariant == Init => IInv
<1> SUFFICES ASSUME Init PROVE IInv
  OBVIOUS
<1> USE DEF Init
<1>1. NoMsg.id = 0 /\ NoMsg.kind \notin Requests
  BY DEF NoMsg, Msg, Requests
<1>2. OpPlace /\ HeaderRead
  BY DEF OpPlace, HeaderRead, Reading
<1>3. Numbered
  BY <1>1 DEF Numbered
<1>4. Registry
  BY DEF Registry
<1>5. Synchronised
  BY <1>1 DEF Synchronised, InStep, NoCall, Before, AllOf
<1>6. LoneAnswers
  BY DEF LoneAnswers, Asked, NoneAsked, None, NoMsg, Msg
<1> QED
  BY InitType, <1>2, <1>3, <1>4, <1>5, <1>6 DEF IInv

(* And each step keeps it. *)
LEMMA NextInvariant == IInv /\ [Next]_vars => IInv'
<1>1. IInv /\ Next => IInv'
  <2>1. IInv /\ Next => TypeOK'
    BY HostTypedStep, ChildTypedStep, PipesTypedStep, AuxTypedStep DEF IInv, TypeOK
  <2> QED
    BY <2>1, OpPlaceStep, HeaderReadStep, NumberedStep, RegistryStep, SynchronisedStep, LoneAnswersStep DEF IInv
<1>2. IInv /\ UNCHANGED vars => IInv'
  BY DEF IInv, TypeOK, HostTyped, ChildTyped, PipesTyped, AuxTyped, OpPlace, HeaderRead, Numbered,
     Registry, Synchronised, InStep, NoCall, Queued, Running, Calling, Called, Replied, Finished,
     Before, Serving, Closed, Spoiled, LoneAnswers, Attended, Asked, NoneAsked, OneAsked, vars, host, child, pipes, aux
<1> QED
  BY <1>1, <1>2

(* The invariant is inductive: it holds in every state. *)
THEOREM Invariant == Spec => []IInv
BY InitInvariant, NextInvariant, PTL DEF Spec

(***************************************************************************)
(* process_callbacks never takes a payload for a header, unless the        *)
(* session is spoiled: what an abandoned call left in the pipe is not read *)
(* by a later one.                                                         *)
(***************************************************************************)
THEOREM StaysInFrame == Spec => []InFrame
<1>1. IInv => InFrame
  BY GarbledSpoiled DEF IInv, InFrame
<1> QED
  BY <1>1, Invariant, PTL

(* A callback that has been read was defined, in every session. *)
LEMMA ReadIsKnown ==
  ASSUME IInv, ReadArgs
  PROVE  callbacks[Head(toHost).name] # 0
<1>1. toHost \in Seq(ToHost) /\ toHost # <<>> /\ Head(toHost).kind = "callback"
  BY DEF IInv, TypeOK, PipesTyped, HeaderRead, ReadArgs
<1>2. Head(toHost) = toHost[1] /\ 1 \in 1..Len(toHost)
  BY <1>1, Taking
<1> QED
  BY <1>1, <1>2 DEF IInv, Registry

(* A step finds a callback unknown only if it reads a payload for it. *)
LEMMA KnownStep ==
  ASSUME IInv, KnownCallback, Next
  PROVE  KnownCallback'
<1> USE DEF KnownCallback, Blame
<1>1. Spoiled => Spoiled'
  BY Permanent DEF IInv
<1>2. ASSUME "unknown" \notin mishap' \/ mishap' = mishap PROVE KnownCallback'
  BY <1>1, <1>2
<1>3. CASE ReadArgs
  BY <1>2, <1>3, ReadIsKnown DEF ReadArgs
<1>4. CASE GarbledRead \/ GarbledCallback \/ GarbledReturn \/ GarbledRest
  BY <1>1, <1>4, GarbledSpoiled DEF IInv, GarbledRead, GarbledCallback, GarbledReturn, GarbledRest
<1>5. CASE HostStep /\ ~ReadArgs /\ hpc # "garbled"
  <2>1. "unknown" \in mishap' => "unknown" \in mishap
    BY <1>5 DEF HostStep, DefineConstant, DefineFunction, IsFunction, Request, RequestRefused, Write,
       WriteKilled, ReadHeader, SkipByte, ReadError, ReadLog, LogLost, ArgsLost, CallbackReturns,
       CallbackFails, WriteReply, RespGivesUp, ReadResult, ResultLost, ReadIsFunction, IsFunctionGivesUp,
       GarbledRead, GarbledCallback, GarbledReturn, GarbledRest, aux
  <2> QED
    BY <1>1, <2>1
<1>6. CASE ChildStep
  <2>1. "unknown" \in mishap' => "unknown" \in mishap
    BY <1>6 DEF ChildStep, ChildInit, TakeFunction, TakeCommand, TakeStray, TakeReply, GarbledTake,
       GarbledSend, GuestLogs, GuestCalls, GuestReturns, GuestErrs, IsFunctionDone, ConstantDone,
       GuestDone, FinishWrite, ChildDies, aux
  <2> QED
    BY <1>1, <2>1
<1>7. CASE WaitTick \/ Destroy \/ \E kind \in Commands : Invoke(kind)
  BY <1>2, <1>7 DEF WaitTick, Destroy, Invoke, aux
<1>8. hpc = "garbled" /\ HostStep => GarbledRead \/ GarbledCallback \/ GarbledReturn \/ GarbledRest
  BY DEF HostStep, DefineConstant, DefineFunction, IsFunction, Request, RequestRefused, Write,
     WriteKilled, ReadHeader, SkipByte, ReadError, ReadLog, LogLost, ReadArgs, ArgsLost, CallbackReturns,
     CallbackFails, WriteReply, RespGivesUp, ReadResult, ResultLost, ReadIsFunction, IsFunctionGivesUp
<1> QED
  BY <1>3, <1>4, <1>5, <1>6, <1>7, <1>8 DEF Next

(***************************************************************************)
(* process_callbacks finds every name a guest calls back in its table,     *)
(* unless the session is spoiled: the host records a definition in the     *)
(* step that sends it and never drops one, and only a payload taken for a  *)
(* header can name anything else.                                          *)
(***************************************************************************)
THEOREM CallbacksKnown == Spec => []KnownCallback
<1>1. Init => KnownCallback
  BY DEF Init, KnownCallback
<1>2. IInv /\ KnownCallback /\ [Next]_vars => KnownCallback'
  BY KnownStep DEF KnownCallback, Spoiled, vars, aux
<1> QED
  BY <1>1, <1>2, Invariant, PTL DEF Spec

(***************************************************************************)
(* is_function answers about the name it was asked for, although nothing   *)
(* in its answer says so: unless a lone byte was left in the pipe before,  *)
(* by a host that stopped waiting for it or took something else for it.    *)
(***************************************************************************)
THEOREM AnswersAreOwn == Spec => []StaleHasCause
<1>1. IInv => StaleHasCause
  BY DEF IInv, LoneAnswers, Attended, StaleHasCause
<1> QED
  BY <1>1, Invariant, PTL

(* A compile or call that ends without a result leaves in_call set. *)
LEMMA ClosingStep ==
  ASSUME IInv, Next, ~Closed, Closed'
  PROVE  op # NoMsg /\ op' = NoMsg /\ answer' = answer
<1> USE DEF IInv, Closed, kept
<1>1. CASE ReadError \/ ReadArgs \/ ArgsLost \/ CallbackFails \/ RespGivesUp \/ ResultLost
  BY <1>1 DEF ReadError, ReadArgs, ArgsLost, CallbackFails, RespGivesUp, ResultLost, Fail, OpPlace,
     Reading
<1>2. CASE Request
  BY <1>2 DEF Request, Write, Requests, NoMsg, Msg
<1>3. CASE ReadResult
  BY <1>3 DEF ReadResult, OpPlace, Reading
<1>4. CASE ChildStep \/ WaitTick \/ Destroy
  BY <1>4, ChildFrame DEF WaitTick, Destroy, host
<1>5. CASE \E kind \in Commands : Invoke(kind)
  BY <1>5 DEF Invoke
<1>6. CASE DefineConstant \/ DefineFunction \/ IsFunction \/ RequestRefused
  BY <1>6 DEF DefineConstant, DefineFunction, IsFunction, RequestRefused
<1>7. CASE WriteKilled \/ ReadHeader \/ SkipByte \/ ReadLog \/ LogLost \/ CallbackReturns \/ WriteReply
           \/ ReadIsFunction \/ IsFunctionGivesUp
  BY <1>7 DEF WriteKilled, ReadHeader, SkipByte, ReadLog, LogLost, CallbackReturns, WriteReply,
     ReadIsFunction, IsFunctionGivesUp, host, OpPlace, Reading
<1>8. CASE GarbledRead \/ GarbledCallback \/ GarbledReturn \/ GarbledRest
  BY <1>8 DEF GarbledRead, GarbledCallback, GarbledReturn, GarbledRest, Fail, host, OpPlace, Reading
<1> QED
  BY <1>1, <1>2, <1>3, <1>4, <1>5, <1>6, <1>7, <1>8 DEF Next, HostStep

(* Nothing is read in a closed session but what is_function reads. *)
LEMMA ClosedStep ==
  ASSUME IInv, Next, op = NoMsg
  PROVE  answer' = answer
<1>1. CASE ReadResult \/ ReadError \/ ReadArgs \/ ArgsLost \/ CallbackFails \/ RespGivesUp \/ ResultLost
  BY <1>1 DEF ReadResult, ReadError, ReadArgs, ArgsLost, CallbackFails, RespGivesUp, ResultLost, Fail,
     IInv, OpPlace, Reading
<1>2. CASE ChildStep
  BY <1>2 DEF ChildStep, ChildInit, TakeFunction, TakeCommand, TakeStray, TakeReply, GarbledTake, GarbledSend, GuestLogs,
     GuestCalls, GuestReturns, GuestErrs, IsFunctionDone, ConstantDone, GuestDone, FinishWrite,
     ChildDies, aux
<1>3. CASE WaitTick \/ Destroy \/ \E kind \in Commands : Invoke(kind)
  BY <1>3 DEF WaitTick, Destroy, Invoke, aux
<1>4. CASE DefineConstant \/ DefineFunction \/ IsFunction \/ Request \/ RequestRefused
  BY <1>4 DEF DefineConstant, DefineFunction, IsFunction, Request, RequestRefused, Write
<1>5. CASE WriteKilled \/ ReadHeader \/ SkipByte \/ ReadLog \/ LogLost \/ CallbackReturns \/ WriteReply
           \/ ReadIsFunction \/ IsFunctionGivesUp
  BY <1>5 DEF WriteKilled, ReadHeader, SkipByte, ReadLog, LogLost, CallbackReturns, WriteReply,
     ReadIsFunction, IsFunctionGivesUp, aux
<1>6. CASE GarbledRead \/ GarbledCallback \/ GarbledReturn \/ GarbledRest
  BY <1>6 DEF GarbledRead, GarbledCallback, GarbledReturn, GarbledRest, IInv, OpPlace
<1> QED
  BY <1>1, <1>2, <1>3, <1>4, <1>5, <1>6 DEF Next, HostStep

(* While a session stays open, its question and its answer change only *)
(* when a compile or call begins, or gets its own answer.              *)
LEMMA OpenStep ==
  ASSUME IInv, Next, ~Closed', ~Spoiled'
  PROVE  \/ UNCHANGED <<op, answer>>
         \/ op = NoMsg /\ op' # NoMsg /\ op'.id > answer.got /\ answer' = answer
         \/ op # NoMsg /\ op' = NoMsg /\ answer'.got = op.id
<1> USE DEF IInv, kept
<1>open. ~Closed /\ ~Spoiled
  BY StillOpen
<1>1. CASE ReadError \/ ReadArgs \/ ArgsLost \/ CallbackFails \/ RespGivesUp
  BY <1>1 DEF ReadError, ReadArgs, ArgsLost, CallbackFails, RespGivesUp, Fail, OpPlace, Reading, Closed
<1>2. CASE LogLost \/ ResultLost
  BY <1>2 DEF LogLost, ResultLost, Blame, Spoiled, Spoiling
<1>3. CASE Request
  BY <1>3, <1>open DEF Request, Write, OpPlace, Numbered, Requests, NoMsg, Msg
<1>4. CASE ReadResult
  BY <1>4, <1>open, OwnResult DEF ReadResult
<1>5. CASE ChildStep
  <2>1. answer' = answer
    BY <1>5 DEF ChildStep, ChildInit, TakeFunction, TakeCommand, TakeStray, TakeReply, GarbledTake, GarbledSend, GuestLogs,
       GuestCalls, GuestReturns, GuestErrs, IsFunctionDone, ConstantDone, GuestDone, FinishWrite,
       ChildDies, aux
  <2> QED
    BY <1>5, <2>1, ChildFrame DEF host
<1>6. CASE WaitTick \/ Destroy \/ \E kind \in Commands : Invoke(kind)
  BY <1>6 DEF WaitTick, Destroy, Invoke, host, aux
<1>7. CASE DefineConstant \/ DefineFunction \/ IsFunction \/ RequestRefused
  BY <1>7 DEF DefineConstant, DefineFunction, IsFunction, RequestRefused, Write
<1>8. CASE WriteKilled \/ ReadHeader \/ SkipByte \/ ReadLog \/ CallbackReturns \/ WriteReply
           \/ ReadIsFunction \/ IsFunctionGivesUp
  BY <1>8 DEF WriteKilled, ReadHeader, SkipByte, ReadLog, CallbackReturns, WriteReply,
     ReadIsFunction, IsFunctionGivesUp, host, aux
<1>9. CASE GarbledRead \/ GarbledCallback \/ GarbledReturn \/ GarbledRest
  BY <1>9, <1>open, GarbledSpoiled DEF GarbledRead, GarbledCallback, GarbledReturn, GarbledRest
<1> QED
  BY <1>1, <1>2, <1>3, <1>4, <1>5, <1>6, <1>7, <1>8, <1>9 DEF Next, HostStep

(***************************************************************************)
(* The proxy implements the abstract session: the n-th answer a host reads *)
(* is that of the n-th request it made, in whatever order and however late *)
(* the child writes, until a request fails; from then on the proxy serves  *)
(* no other, or the session is spoiled in one of the four named ways.      *)
(***************************************************************************)
THEOREM KeepsSession == Spec => SessionKept
<1> USE DEF Promise!Init, Promise!Next, Promise!Ask, Promise!Answer, Promise!Fail, Promise!Spoil,
            Promise!sessionVars
<1>1. Init => Promise!Init
  BY DEF Init, Closed, Spoiled, NoMsg, Msg
<1>2. IInv /\ IInv' /\ Next => [Promise!Next]_(Promise!sessionVars)
  <2> SUFFICES ASSUME IInv, IInv', Next PROVE [Promise!Next]_(Promise!sessionVars)
    OBVIOUS
  <2>1. /\ op.id \in Nat /\ op'.id \in Nat /\ answer.got \in Nat /\ answer'.got \in Nat
        /\ (op # NoMsg => op.id # 0) /\ NoMsg.id = 0
    BY DEF IInv, TypeOK, HostTyped, AuxTyped, Numbered, NoMsg, Msg
  <2>2. (Closed => Closed') /\ (Spoiled => Spoiled')
    BY Permanent DEF IInv
  <2>3. CASE Closed
    <3>1. op = NoMsg /\ op' = NoMsg /\ Closed'
      BY <2>2, <2>3 DEF Closed
    <3>2. answer' = answer
      BY <3>1, ClosedStep
    <3> QED
      BY <2>3, <3>1, <3>2
  <2>4. CASE ~Closed /\ Closed'
    BY <2>1, <2>4, ClosingStep
  <2>5. CASE ~Closed' /\ Spoiled'
    BY <2>1, <2>2, <2>5
  <2>6. CASE ~Closed' /\ ~Spoiled'
    BY <2>1, <2>2, <2>6, OpenStep
  <2> QED
    BY <2>3, <2>4, <2>5, <2>6
<1>3. UNCHANGED vars => UNCHANGED Promise!sessionVars
  BY DEF vars, host, aux, Closed, Spoiled
<1> QED
  BY <1>1, <1>2, <1>3, Invariant, PTL DEF Spec, SessionKept, Promise!Spec

=============================================================================
