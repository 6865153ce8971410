------------------------------- MODULE Proxy -------------------------------
(***************************************************************************)
(* The sandbox proxy of language_proxy.c: the application (the host) and   *)
(* the forked process in which the guest program runs (the child) talk     *)
(* over two pipes.  The host writes commands and callback results; the     *)
(* child writes log lines, callback requests and answers.                  *)
(*                                                                         *)
(* Granularity.  A command is one message: the child reads it with no time *)
(* limit, so how its bytes arrive cannot be told apart.  What the child    *)
(* writes has a header byte and a payload, written and read separately,    *)
(* because the host may stop reading between the two.  Values, names and   *)
(* scripts are opaque; a message carries the number of the operation it    *)
(* belongs to, which the real pipes do not have: it is what lets the       *)
(* properties say whose answer an answer is.                               *)
(*                                                                         *)
(* Once a reader interprets payload bytes as a header, what it does next   *)
(* depends on the data.  Its control point becomes "garbled", and from     *)
(* there on it may do whatever some data would make it do.                 *)
(***************************************************************************)
EXTENDS Integers, Sequences

CONSTANTS
  Names,      \* names the application may define callback functions under
  NoName,     \* the name of a message that needs none
  MaxTime,    \* config_maxtime, in clock ticks
  PipeCap,    \* messages a pipe holds before its writer blocks
  MaxOps      \* bound: operations the application starts

ASSUME ProxyAssumption ==
  /\ NoName \notin Names
  /\ MaxTime \in Nat /\ PipeCap \in Nat /\ MaxOps \in Nat

VARIABLES
  (* host *)
  hpc,        \* where the host is
  op,         \* the compile or call inside process_callbacks, or NoMsg
  cmd,        \* the command being written, or whose answer is_function awaits
  inCall,     \* proxy->in_call
  budget,     \* the struct timeval that compile or call hands down
  qbudget,    \* the struct timeval of is_function
  timeout,    \* li->timeout
  callbacks,  \* proxy->callback_functions: name -> definition, 0 if absent
  (* child *)
  cpc,        \* where the child is
  creq,       \* the command it is executing, or NoMsg
  proxies,    \* proxy functions it gave the interpreter: name -> definition
  (* pipes *)
  toChild, toHost,
  partial,    \* the last message of toHost has only its header written
  (* auxiliary: the program has no such variables *)
  started,    \* operations started, the number of the latest one
  answer,     \* the latest answer of a compile or call: its number, and
              \* the number of the request it really answers
  mishap      \* what has gone wrong between host and child so far

host  == <<hpc, op, cmd, inCall, budget, qbudget, timeout, callbacks>>
child == <<cpc, creq, proxies>>
pipes == <<toChild, toHost, partial>>
aux   == <<started, answer, mishap>>
vars  == <<host, child, pipes, aux>>
kept  == <<cmd, inCall, budget, qbudget, timeout, callbacks>>

-----------------------------------------------------------------------------
(* Messages                                                                *)

Defines  == {"constant", "function"}
Requests == {"compile", "call"}
Commands == Defines \cup Requests \cup {"isfn"}

Msg(kind, id, name) == [kind |-> kind, id |-> id, name |-> name]
NoMsg == Msg("none", 0, NoName)

(* Bytes without a header of their own, one or more. *)
TornMsg == Msg("torn", 0, NoName)

(* Only the definition of a function needs its name here. *)
Command ==
  [kind : {"function"}, id : Nat, name : Names] \cup
  [kind : Commands \ {"function"}, id : Nat, name : {NoName}]

(* "reply" is the result of a callback. *)
ToChild == Command \cup [kind : {"reply"}, id : Nat, name : {NoName}]

(* "bool" is a lone byte 0 or 1; "torn" are the bytes of a TornMsg.         *)
ToHost ==
  [kind : {"log", "callback", "return", "error", "bool", "torn"},
   id : Nat, name : Names \cup {NoName}]

(***************************************************************************)
(* payload    the host gave up a message after its header (a log line, or  *)
(*            RESP_RETURN), leaving the payload in the pipe                *)
(* reentered  a callback wrote a command to the waiting child              *)
(* uninvited  the guest called back when no process_callbacks was running  *)
(* late       is_function stopped waiting for its answer                   *)
(* misread    is_function took the header of another message as its answer *)
(* stale      is_function took the answer to another question              *)
(* unknown    "Calling unknown callback function"                          *)
(***************************************************************************)
Spoiling == {"payload", "reentered", "uninvited", "misread"}
Mishaps  == Spoiling \cup {"late", "stale", "unknown"}

Reading  == {"resp", "log", "args", "result"}
Returned == {"idle", "destroyed", "killed"}

HostTyped ==
  /\ hpc \in Reading \cup Returned \cup {"write", "isfn", "callback", "answer", "garbled"}
  /\ op \in [kind : Requests, id : Nat, name : {NoName}] \cup {NoMsg}
  /\ cmd \in Command \cup {NoMsg}
  /\ inCall \in BOOLEAN /\ timeout \in BOOLEAN
  /\ budget \in 0..MaxTime /\ qbudget \in 0..MaxTime
  /\ callbacks \in [Names -> Nat]

ChildTyped ==
  /\ cpc \in {"init", "loop", "guest", "reply", "garbled", "dead"}
  /\ creq \in Command \cup {NoMsg}
  /\ proxies \in [Names -> Nat]

PipesTyped ==
  /\ toChild \in Seq(ToChild) /\ toHost \in Seq(ToHost)
  /\ partial \in BOOLEAN

AuxTyped ==
  /\ started \in Nat
  /\ answer \in [asked : Nat, got : Nat]
  /\ mishap \in SUBSET Mishaps

TypeOK == HostTyped /\ ChildTyped /\ PipesTyped /\ AuxTyped

Init ==
  /\ hpc = "idle" /\ op = NoMsg /\ cmd = NoMsg
  /\ inCall = FALSE /\ timeout = FALSE /\ budget = 0 /\ qbudget = 0
  /\ callbacks = [n \in Names |-> 0]
  /\ cpc = "init" /\ creq = NoMsg /\ proxies = [n \in Names |-> 0]
  /\ toChild = <<>> /\ toHost = <<>> /\ partial = FALSE
  /\ started = 0 /\ answer = [asked |-> 0, got |-> 0] /\ mishap = {}

-----------------------------------------------------------------------------
(* The host: language_proxy.c, the functions named ..._proxy               *)

(* What read_with_timeout finds at the head of the pipe. *)
PayloadReady == toHost # <<>> /\ ~(partial /\ Len(toHost) = 1)
ByteReady    == IF toHost = <<>> THEN FALSE
                ELSE Head(toHost).kind \in {"bool", "torn"} => PayloadReady

(* The host is inside a read that has nothing to return yet. *)
Waiting ==
  \/ hpc \in {"resp", "isfn", "garbled"} /\ ~ByteReady
  \/ hpc \in {"log", "args", "result"} /\ ~PayloadReady

TimeLeft == IF hpc = "isfn" THEN qbudget ELSE budget

(* Fault: read_with_retry in the place of read_with_timeout. *)
GivesUpAtEOF == Waiting /\ cpc = "dead"

(* Such a read fails: select timed out, or the child closed its end. *)
GivesUp == Waiting /\ (TimeLeft = 0 \/ cpc = "dead")

(* Fault: the time left is not looked at. *)
InSelectLate == Waiting /\ cpc # "dead"

(* select is waiting for that child. *)
InSelect == Waiting /\ cpc # "dead" /\ TimeLeft > 0

(* The head of the pipe, its header consumed and the payload left behind. *)
Torn == [toHost EXCEPT ![1] = TornMsg]

(* What is in the pipe when bytes have been taken with no regard to what   *)
(* they are.                                                               *)
Remains ==
  CASE Head(toHost).kind \in {"bool", "error"} -> {Tail(toHost)}
    [] Head(toHost).kind = "torn"             -> {Torn, Tail(toHost)}
    [] OTHER                                  -> {Torn}

(* An operation of the proxy returns to its caller. *)
Back == IF op = NoMsg THEN "idle" ELSE "callback"

(* Fault: in_call is reset on the way out, as it is after a success. *)
FailAndReset ==
  /\ hpc' = "idle" /\ op' = NoMsg /\ inCall' = FALSE
  /\ timeout' = (timeout \/ budget = 0)
  /\ UNCHANGED <<cmd, budget, qbudget, callbacks, answer>>

(* compile or call returns false or NULL: in_call keeps its value. *)
Fail ==
  /\ hpc' = "idle" /\ op' = NoMsg
  /\ timeout' = (timeout \/ budget = 0)
  /\ UNCHANGED <<cmd, inCall, budget, qbudget, callbacks, answer>>

Blame(what) == mishap' = mishap \cup what

(* The application calls the proxy, possibly out of a callback function. *)
Invoke(kind) ==
  /\ hpc \in {"idle", "callback"} /\ started < MaxOps
  /\ \E n \in IF kind = "function" THEN Names ELSE {NoName} :
       cmd' = Msg(kind, started + 1, n)
  /\ hpc' = "write" /\ started' = started + 1
  /\ UNCHANGED <<op, inCall, budget, qbudget, timeout, callbacks, child, pipes,
                 answer, mishap>>

(* Every operation first writes its command to the child, in any state. *)
Write(kind) ==
  /\ hpc = "write" /\ cmd.kind = kind
  /\ cpc # "dead" /\ Len(toChild) < PipeCap
  /\ toChild' = Append(toChild, cmd)
  /\ Blame(IF op = NoMsg THEN {} ELSE {"reentered"})
  /\ UNCHANGED <<cmd, timeout, child, toHost, partial, started, answer>>

DefineConstant ==
  /\ Write("constant")
  /\ hpc' = Back
  /\ UNCHANGED <<op, inCall, budget, qbudget, callbacks>>

(* Fault: define_function returns before dict_put. *)
NotRegistered == callbacks

(* A name that is already defined keeps its first definition. *)
Registered == [callbacks EXCEPT ![cmd.name] = IF @ = 0 THEN cmd.id ELSE @]

DefineFunction ==
  /\ Write("function")
  /\ callbacks' = Registered
  /\ hpc' = Back
  /\ UNCHANGED <<op, inCall, budget, qbudget>>

IsFunction ==
  /\ Write("isfn")
  /\ hpc' = "isfn" /\ qbudget' = MaxTime
  /\ UNCHANGED <<op, inCall, budget, callbacks>>

Request ==
  /\ \E kind \in Requests : Write(kind)
  /\ ~inCall
  /\ inCall' = TRUE /\ op' = cmd /\ hpc' = "resp"
  /\ budget' = MaxTime
  /\ UNCHANGED <<qbudget, callbacks>>

RequestRefused ==
  /\ \E kind \in Requests : Write(kind)
  /\ inCall
  /\ hpc' = Back
  /\ UNCHANGED <<op, inCall, budget, qbudget, callbacks>>

(* Nobody reads the pipe any more: SIGPIPE, for which there is no handler. *)
WriteKilled ==
  /\ hpc \in {"write", "answer"} /\ cpc = "dead"
  /\ hpc' = "killed"
  /\ UNCHANGED <<op, kept, child, pipes, aux>>

(* process_callbacks reads the byte that says what follows. *)
ReadHeader ==
  /\ hpc = "resp" /\ ByteReady
  /\ \/ Head(toHost).kind = "log"      /\ hpc' = "log"     /\ UNCHANGED inCall
     \/ Head(toHost).kind = "callback" /\ hpc' = "args"    /\ UNCHANGED inCall
     \/ Head(toHost).kind = "return"   /\ hpc' = "result"  /\ inCall' = FALSE
     \/ Head(toHost).kind = "torn"     /\ hpc' = "garbled" /\ UNCHANGED inCall
  /\ UNCHANGED <<op, cmd, budget, qbudget, timeout, callbacks, child, pipes, aux>>

(* A byte the switch has no case for. *)
SkipByte ==
  /\ hpc = "resp" /\ ByteReady /\ Head(toHost).kind = "bool"
  /\ toHost' = Tail(toHost)
  /\ UNCHANGED <<host, child, toChild, partial, aux>>

ReadError ==
  /\ hpc = "resp" /\ ByteReady /\ Head(toHost).kind = "error"
  /\ toHost' = Tail(toHost)
  /\ Fail
  /\ UNCHANGED <<child, toChild, partial, started, mishap>>

ReadLog ==
  /\ hpc = "log" /\ PayloadReady
  /\ toHost' = Tail(toHost)
  /\ hpc' = "resp"
  /\ UNCHANGED <<op, kept, child, toChild, partial, aux>>

(* read_string gives NULL, which language_log takes for a format string.   *)
(* Undefined: the C library crashes, or the loop goes on.                  *)
LogLost ==
  /\ hpc = "log" /\ GivesUp
  /\ toHost' = Torn
  /\ hpc' \in {"killed", "resp"}
  /\ Blame({"payload"})
  /\ UNCHANGED <<op, kept, child, toChild, partial, started, answer>>

ReadArgs ==
  /\ hpc = "args" /\ PayloadReady
  /\ toHost' = Tail(toHost)
  /\ IF callbacks[Head(toHost).name] = 0
     THEN Fail /\ Blame({"unknown"})
     ELSE /\ hpc' = "callback"
          /\ UNCHANGED <<op, kept, answer, mishap>>
  /\ UNCHANGED <<child, toChild, partial, started>>

(* The arguments exceed MAX_STRING_SIZE or MAX_ARRAY_SIZE, or time is up. *)
ArgsLost ==
  /\ hpc = "args" /\ (PayloadReady \/ GivesUp)
  /\ toHost' = Torn
  /\ Fail
  /\ UNCHANGED <<child, toChild, partial, started, mishap>>

CallbackReturns ==
  /\ hpc = "callback"
  /\ hpc' = "answer"
  /\ UNCHANGED <<op, kept, child, pipes, aux>>

(* The callback gave NULL: nothing is written back. *)
CallbackFails ==
  /\ hpc = "callback"
  /\ Fail
  /\ UNCHANGED <<child, pipes, started, mishap>>

WriteReply ==
  /\ hpc = "answer" /\ cpc # "dead" /\ Len(toChild) < PipeCap
  /\ toChild' = Append(toChild, Msg("reply", op.id, NoName))
  /\ hpc' = "resp"
  /\ UNCHANGED <<op, kept, child, toHost, partial, aux>>

RespGivesUp ==
  /\ hpc = "resp" /\ GivesUp
  /\ Fail
  /\ UNCHANGED <<child, pipes, started, mishap>>

(* Fault: RESP_RETURN is taken for the whole answer of a compile. *)
ReadHalfResult ==
  /\ hpc = "result" /\ PayloadReady
  /\ toHost' = IF op.kind = "compile" THEN [toHost EXCEPT ![1].kind = "bool"] ELSE Tail(toHost)
  /\ answer' = [asked |-> op.id, got |-> Head(toHost).id]
  /\ hpc' = "idle" /\ op' = NoMsg
  /\ UNCHANGED <<kept, child, toChild, partial, started, mishap>>

ReadResult ==
  /\ hpc = "result" /\ PayloadReady
  /\ toHost' = Tail(toHost)
  /\ answer' = [asked |-> op.id, got |-> Head(toHost).id]
  /\ hpc' = "idle" /\ op' = NoMsg
  /\ UNCHANGED <<kept, child, toChild, partial, started, mishap>>

(* The value of a call exceeds the limits, or time is up.  The payload of  *)
(* a compile is one byte, so what stays behind still has its shape.        *)
ResultLost ==
  /\ hpc = "result" /\ ((PayloadReady /\ op.kind = "call") \/ GivesUp)
  /\ toHost' = IF op.kind = "call" THEN Torn ELSE [toHost EXCEPT ![1].kind = "bool"]
  /\ Fail
  /\ Blame({"payload"})
  /\ UNCHANGED <<child, toChild, partial, started>>

(* is_function takes the next byte, whatever it is, for its answer. *)
ReadIsFunction ==
  /\ hpc = "isfn" /\ ByteReady
  /\ hpc' = Back
  /\ \/ /\ Head(toHost).kind = "bool"
        /\ toHost' = Tail(toHost)
        /\ Blame(IF Head(toHost).id = cmd.id THEN {} ELSE {"stale"})
     \/ /\ Head(toHost).kind # "bool"
        /\ toHost' \in Remains
        /\ Blame({"misread"})
  /\ UNCHANGED <<op, kept, child, toChild, partial, started, answer>>

IsFunctionGivesUp ==
  /\ hpc = "isfn" /\ GivesUp
  /\ hpc' = Back
  /\ Blame({"late"})
  /\ UNCHANGED <<op, kept, child, pipes, started, answer>>

(* process_callbacks goes on with bytes that are no headers, but parts of  *)
(* values and names: the guest has made them, so they can be anything.  It *)
(* may use up the payload and parts of the messages after it.              *)
GarbledRead ==
  /\ hpc = "garbled" /\ ByteReady
  /\ toHost' \in Remains
  /\ UNCHANGED <<host, child, toChild, partial, aux>>

(* The bytes say that the guest calls a function, which there may be. *)
GarbledCallback ==
  /\ hpc = "garbled"
  /\ \/ /\ \E n \in Names : callbacks[n] # 0
        /\ hpc' = "callback"
        /\ UNCHANGED <<op, kept, answer, mishap>>
     \/ Fail /\ Blame({"unknown"})
  /\ UNCHANGED <<child, pipes, started>>

(* ... that it returns, with a value that can be read or not. *)
GarbledReturn ==
  /\ hpc = "garbled"
  /\ hpc' = "idle" /\ op' = NoMsg /\ inCall' = FALSE
  /\ \/ answer' = [asked |-> op.id, got |-> 0] /\ UNCHANGED <<timeout, mishap>>
     \/ timeout' = (timeout \/ budget = 0) /\ Blame({"payload"}) /\ UNCHANGED answer
  /\ UNCHANGED <<cmd, budget, qbudget, callbacks, child, pipes, started>>

(* ... that it logs something (of which the rest may be missing), or they  *)
(* say nothing and are skipped, to the last of them; that there is an      *)
(* error, or arguments which cannot be read.                               *)
GarbledRest ==
  /\ hpc = "garbled"
  /\ \/ /\ \/ hpc' = "resp" /\ (toHost # <<>> => Head(toHost).kind # "torn")
           \/ hpc' = "killed" /\ GivesUp
        /\ UNCHANGED <<op, kept, answer>>
     \/ Fail
  /\ UNCHANGED <<child, pipes, started, mishap>>

(* select counts the time it waits; nobody counts the time spent in a      *)
(* callback or in a write.                                                 *)
WaitTick ==
  /\ InSelect
  /\ IF hpc = "isfn" THEN qbudget' = qbudget - 1 /\ UNCHANGED budget
                     ELSE budget' = budget - 1 /\ UNCHANGED qbudget
  /\ UNCHANGED <<hpc, op, cmd, inCall, timeout, callbacks, child, pipes, aux>>

(* The child is killed and waited for. *)
Destroy ==
  /\ hpc = "idle"
  /\ hpc' = "destroyed" /\ cpc' = "dead"
  /\ UNCHANGED <<op, kept, creq, proxies, pipes, aux>>

-----------------------------------------------------------------------------
(* The child: child_loop, and the guest program as the host can see it     *)

ChildInit ==
  /\ cpc = "init"
  /\ cpc' = "loop"
  /\ UNCHANGED <<host, creq, proxies, pipes, aux>>

ChildReads(pc) == cpc = pc /\ ~partial /\ toChild # <<>>

TakeFunction ==
  /\ ChildReads("loop") /\ Head(toChild).kind = "function"
  /\ toChild' = Tail(toChild)
  /\ proxies' = [proxies EXCEPT ![Head(toChild).name] = Head(toChild).id]
  /\ UNCHANGED <<host, cpc, creq, toHost, partial, aux>>

(* The other commands run guest code. *)
TakeCommand ==
  /\ ChildReads("loop") /\ Head(toChild).kind \in Commands \ {"function"}
  /\ toChild' = Tail(toChild)
  /\ cpc' = "guest" /\ creq' = Head(toChild)
  /\ UNCHANGED <<host, proxies, toHost, partial, aux>>

(* A value read as a command: void is an invalid command, and skipped. *)
TakeStray ==
  /\ ChildReads("loop") /\ Head(toChild).kind = "reply"
  /\ toChild' = Tail(toChild)
  /\ cpc' \in {"loop", "garbled"}
  /\ UNCHANGED <<host, creq, proxies, toHost, partial, aux>>

(* The bytes of IS_FUNCTION and its name are those of a string value. *)
TakeReply ==
  /\ ChildReads("reply")
  /\ toChild' = Tail(toChild)
  /\ cpc' = IF Head(toChild).kind \in {"reply", "isfn"} THEN "guest" ELSE "garbled"
  /\ UNCHANGED <<host, creq, proxies, toHost, partial, aux>>

(* A child that takes values for commands, and the other way round, may    *)
(* run anything that it finds there.  What it writes are bytes the host    *)
(* has not asked for (and after such bytes, more of them change nothing).  *)
GarbledTake ==
  /\ ChildReads("garbled")
  /\ toChild' = Tail(toChild)
  /\ UNCHANGED <<host, child, toHost, partial, aux>>

GarbledSend ==
  /\ cpc = "garbled" /\ ~partial /\ Len(toHost) < PipeCap
  /\ toHost # <<>> => toHost[Len(toHost)] # TornMsg
  /\ toHost' = Append(toHost, TornMsg)
  /\ UNCHANGED <<host, child, toChild, partial, aux>>

CanSend == cpc = "guest" /\ ~partial /\ Len(toHost) < PipeCap

GuestLogs ==
  /\ CanSend
  /\ toHost' = Append(toHost, Msg("log", creq.id, NoName))
  /\ partial' = TRUE
  /\ UNCHANGED <<host, child, toChild, aux>>

GuestCalls(n) ==
  /\ CanSend /\ proxies[n] # 0
  /\ toHost' = Append(toHost, Msg("callback", creq.id, n))
  /\ partial' = TRUE
  /\ cpc' = "reply"
  /\ Blame(IF creq.kind \in Requests THEN {} ELSE {"uninvited"})
  /\ UNCHANGED <<host, creq, proxies, toChild, started, answer>>

GuestDone == cpc' = "loop" /\ creq' = NoMsg /\ UNCHANGED <<host, proxies, toChild, aux>>

GuestReturns ==
  /\ CanSend /\ creq.kind \in Requests
  /\ toHost' = Append(toHost, Msg("return", creq.id, NoName)) /\ partial' = TRUE
  /\ GuestDone

GuestErrs ==
  /\ CanSend /\ creq.kind = "call"
  /\ toHost' = Append(toHost, Msg("error", creq.id, NoName)) /\ UNCHANGED partial
  /\ GuestDone

IsFunctionDone ==
  /\ CanSend /\ creq.kind = "isfn"
  /\ toHost' = Append(toHost, Msg("bool", creq.id, NoName)) /\ UNCHANGED partial
  /\ GuestDone

ConstantDone ==
  /\ cpc = "guest" /\ ~partial /\ creq.kind = "constant"
  /\ UNCHANGED <<toHost, partial>>
  /\ GuestDone

FinishWrite ==
  /\ partial /\ cpc # "dead"
  /\ partial' = FALSE
  /\ UNCHANGED <<host, child, toChild, toHost, aux>>

(* A crash, no memory left, a failed initialisation. *)
ChildDies ==
  /\ cpc # "dead"
  /\ cpc' = "dead"
  /\ UNCHANGED <<host, creq, proxies, pipes, aux>>

-----------------------------------------------------------------------------
HostStep ==
  \/ DefineConstant \/ DefineFunction \/ IsFunction \/ Request \/ RequestRefused \/ WriteKilled
  \/ ReadHeader \/ SkipByte \/ ReadError \/ ReadLog \/ LogLost \/ ReadArgs \/ ArgsLost
  \/ CallbackReturns \/ CallbackFails \/ WriteReply \/ RespGivesUp \/ ReadResult \/ ResultLost
  \/ ReadIsFunction \/ IsFunctionGivesUp
  \/ GarbledRead \/ GarbledCallback \/ GarbledReturn \/ GarbledRest

ChildStep ==
  \/ ChildInit \/ TakeFunction \/ TakeCommand \/ TakeStray \/ TakeReply \/ GarbledTake \/ GarbledSend
  \/ GuestLogs \/ (\E n \in Names : GuestCalls(n)) \/ GuestReturns \/ GuestErrs
  \/ IsFunctionDone \/ ConstantDone \/ FinishWrite \/ ChildDies

Next ==
  \/ HostStep \/ ChildStep
  \/ (\E kind \in Commands : Invoke(kind)) \/ WaitTick \/ Destroy

Spec == Init /\ [][Next]_vars

(* The host runs and its callbacks return; time passes while it waits.     *)
(* Nothing is assumed of the guest.                                        *)
FairSpec == Spec /\ WF_vars(HostStep) /\ WF_vars(WaitTick)

-----------------------------------------------------------------------------
(* Properties                                                              *)

(* Closed: a compile or call failed, and in_call was left set. *)
Closed  == inCall /\ op = NoMsg
Spoiled == mishap \cap Spoiling # {}

(***************************************************************************)
(* compile_script_proxy and call_function_proxy implement Session: the     *)
(* pipes carry no request numbers, yet an answer is never that of another  *)
(* request, because in_call stays set when one was abandoned.  The four    *)
(* ways to lose this are the elements of Spoiling.                         *)
(***************************************************************************)
Promise == INSTANCE Session WITH
  asking   <- op.id,
  answered <- answer.got,
  state    <- IF Closed THEN "closed" ELSE IF Spoiled THEN "spoiled" ELSE "open"

SessionKept == Promise!Spec

(* process_callbacks takes payload bytes for a header only in a spoiled    *)
(* session: an abandoned message stays in the pipe, and nobody reads it.   *)
InFrame == hpc = "garbled" => Spoiled

(* "Calling unknown callback function": in a session that is not spoiled a *)
(* guest only knows names whose definition the host recorded before it     *)
(* could ask for them.  In one that is, process_callbacks may read any     *)
(* name out of a payload of the guest's.                                   *)
KnownCallback == "unknown" \in mishap => Spoiled

(* is_function never reports about another name, unless an answer was left *)
(* in the pipe by an is_function or a compile that stopped waiting, or by  *)
(* an is_function that took something else for its answer.                 *)
StaleHasCause == "stale" \in mishap => mishap \cap {"late", "payload", "misread"} # {}

(* The host is in a write to a pipe that stays full. *)
Blocked == hpc \in {"write", "answer"} /\ Len(toChild) = PipeCap

(* Something comes from the guest or is read, or a callback is done. *)
Heard == toHost' # toHost \/ CallbackReturns

(* Whatever the guest does, each operation of the proxy returns to the     *)
(* application (or SIGPIPE ends it): the purpose of the time limit.  There *)
(* are two exceptions: a write to a child that does not read, for which    *)
(* there is no limit, and a guest that logs or calls back for ever, since  *)
(* only the time select waits is counted.                                  *)
CallReturns ==
  \/ hpc \notin Returned ~> (hpc \in Returned \/ []Blocked)
  \/ []<><<Heard>>_vars

-----------------------------------------------------------------------------
(* What the repository says of the program, and the code does not do       *)

(* "log messages are passed back to the parent": is_function does not take *)
(* them for its answer.  language_proxy.c:532                              *)
LogsPassedBack == mishap # {"misread"}

=============================================================================
