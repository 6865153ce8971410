------------------------------- MODULE Alarm -------------------------------
(***************************************************************************)
(* call_function_with_timeout and compile_and_run_function_with_timeout of *)
(* language.c: a second time limit, by alarm(), around any interpreter,    *)
(* sandboxed or not.  A callback function may use them again, inside of a  *)
(* call that is under way.  The alarm, the signal handler and the jump     *)
(* buffer are global, so that calls share them.                            *)
(***************************************************************************)
EXTENDS Integers, Sequences, SequencesExt

CONSTANTS
  MaxSeconds,  \* the limits that are asked for are 1..MaxSeconds
  MaxDepth,    \* bound: calls inside of each other
  MaxCalls     \* bound: calls in all

ASSUME AlarmAssumption == MaxSeconds \in Nat \ {0} /\ MaxDepth \in Nat /\ MaxCalls \in Nat

VARIABLES
  calls,    \* the active calls of with_timeout, the outermost first
  alarm,    \* seconds until SIGALRM, 0 for none
  handler,  \* of SIGPROF: the application's, or sigalarm
  alive,    \* the application is
  (* auxiliary *)
  started,  \* calls so far
  failed    \* a script did not compile

vars == <<calls, alarm, handler, alive, started, failed>>

Handlers == {"application", "sigalarm"}

(* at: in compile_script, about to ask is_function, or in call_function.   *)
Frame == [at : {"compile", "ask", "call"}, script : BOOLEAN, function : BOOLEAN,
          saved : Handlers]

TypeOK ==
  /\ calls \in Seq(Frame) /\ alarm \in 0..MaxSeconds
  /\ handler \in Handlers /\ alive \in BOOLEAN
  /\ started \in 0..MaxCalls /\ failed \in BOOLEAN

Init ==
  /\ calls = <<>> /\ alarm = 0 /\ handler = "application" /\ alive = TRUE
  /\ started = 0 /\ failed = FALSE

-----------------------------------------------------------------------------
Top == Last(calls)

At(place) == alive /\ calls # <<>> /\ Top.at = place

(* The guest is running: its callbacks may make calls of their own. *)
InGuest == alive /\ calls # <<>> /\ Top.at \in {"compile", "call"}

(* alarm(max_seconds) comes first, and replaces the alarm there was. *)
Call(seconds, script, function) ==
  /\ alive /\ (calls = <<>> \/ InGuest)
  /\ Len(calls) < MaxDepth /\ started < MaxCalls
  /\ script \/ function
  /\ calls' = Append(calls, [at |-> IF script THEN "compile" ELSE "ask",
                             script |-> script, function |-> function, saved |-> handler])
  /\ alarm' = seconds
  /\ handler' = "sigalarm"
  /\ started' = started + 1
  /\ UNCHANGED <<alive, failed>>

(* Fault: the alarm is left for the end of the function, and missed. *)
LeaveArmed == calls' = Front(calls) /\ UNCHANGED <<alarm, handler>>

(* Couldn't compile: an early return, without signal(SIGPROF, old_signal). *)
LeaveEarly == calls' = Front(calls) /\ alarm' = 0 /\ UNCHANGED handler

(* Fault: old_signal is put back where it has not been set. *)
LeaveUnset == calls' = Front(calls) /\ alarm' = 0 /\ handler' = "indeterminate"

Leave == calls' = Front(calls) /\ alarm' = 0 /\ handler' = Top.saved

CompileFails ==
  /\ At("compile")
  /\ LeaveEarly
  /\ failed' = TRUE
  /\ UNCHANGED <<alive, started>>

CompileReturns ==
  /\ At("compile")
  /\ IF Top.function
     THEN calls' = [calls EXCEPT ![Len(calls)].at = "ask"] /\ UNCHANGED <<alarm, handler>>
     ELSE Leave
  /\ UNCHANGED <<alive, started, failed>>

IsFunction ==
  /\ At("ask")
  /\ calls' = [calls EXCEPT ![Len(calls)].at = "call"]
  /\ UNCHANGED <<alarm, handler, alive, started, failed>>

NoSuchFunction ==
  /\ At("ask")
  /\ Leave
  /\ UNCHANGED <<alive, started, failed>>

CallReturns ==
  /\ At("call")
  /\ Leave
  /\ UNCHANGED <<alive, started, failed>>

(* There is no handler for SIGALRM: it ends the process. *)
Second ==
  /\ alive /\ alarm > 0
  /\ alarm' = alarm - 1
  /\ alive' = (alarm > 1)
  /\ UNCHANGED <<calls, handler, started, failed>>

Next ==
  \/ \E seconds \in 1..MaxSeconds, script, function \in BOOLEAN : Call(seconds, script, function)
  \/ CompileFails \/ CompileReturns \/ IsFunction \/ NoSuchFunction \/ CallReturns \/ Second

Spec == Init /\ [][Next]_vars

-----------------------------------------------------------------------------
(* Properties                                                              *)

(* No way out of with_timeout leaves an alarm behind, which would go off   *)
(* when nothing is being limited any more.                                 *)
NoLateAlarm == calls = <<>> => alarm = 0

(* The application finds its own SIGPROF handler again, unless a script    *)
(* did not compile.                                                        *)
HandlerRestored == calls = <<>> /\ ~failed => handler = "application"

(* "abort function calls to guest programs after a time limit has          *)
(* elapsed": the call is aborted, not the application.  README.md:12       *)
LimitAborts == alive

=============================================================================
