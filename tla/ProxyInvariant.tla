-------------------------- MODULE ProxyInvariant ---------------------------
(***************************************************************************)
(* Why the proxy keeps its promise: an inductive invariant of Proxy.  As   *)
(* long as the session is neither closed nor spoiled, host and child are   *)
(* in step, although nothing in the pipes says so.                         *)
(***************************************************************************)
EXTENDS Proxy

(* Nothing but messages of kinds S; and such messages, followed by one of  *)
(* the kinds K that belongs to operation id.                               *)
AllOf(q, S) == \A i \in 1..Len(q) : q[i].kind \in S

EndsIn(q, S, K, id) ==
  /\ q # <<>>
  /\ \A i \in 1..Len(q) - 1 : q[i].kind \in S
  /\ q[Len(q)].kind \in K /\ q[Len(q)].id = id

-----------------------------------------------------------------------------
(* The host's place in the program tells what it has read and asked.       *)

OpPlace ==
  /\ hpc \in Reading \cup {"callback", "answer", "garbled"} => op # NoMsg
  /\ hpc \in {"idle", "destroyed"} => op = NoMsg
  /\ op # NoMsg => (inCall <=> hpc # "result")

HeaderRead ==
  /\ hpc \in {"log", "args", "result"} => toHost # <<>>
  /\ hpc = "log"    => Head(toHost).kind = "log"
  /\ hpc = "args"   => Head(toHost).kind = "callback"
  /\ hpc = "result" => Head(toHost).kind = "return"

Numbered ==
  /\ op.id <= started /\ (op # NoMsg => op.id # 0)
  /\ hpc = "write" => cmd.id = started /\ started # 0
  /\ ~Closed /\ ~Spoiled =>
       answer.got <= started /\ (hpc = "write" /\ op = NoMsg => answer.got < started)

(* Whatever may call back was defined before. *)
Registry ==
  /\ \A n \in Names : proxies[n] # 0 => callbacks[n] # 0
  /\ \A i \in 1..Len(toChild) :
       toChild[i].kind = "function" => callbacks[toChild[i].name] # 0
  /\ \A i \in 1..Len(toHost) :
       toHost[i].kind = "callback" => /\ toHost[i].name \in Names
                                      /\ callbacks[toHost[i].name] # 0

-----------------------------------------------------------------------------
(* Host and child in step.  The phases are those of one compile or call.   *)

Side  == Defines \cup {"isfn"}    \* commands that ask for no session
Noise == {"log", "bool"}          \* what their execution may leave behind

(* The child has nothing to do with a compile or call yet. *)
Before ==
  /\ cpc \in {"init", "loop", "guest", "dead"}
  /\ creq.kind \notin Requests
  /\ AllOf(toHost, Noise)

NoCall == Before /\ AllOf(toChild, Side)

Queued == Before /\ EndsIn(toChild, Side, Requests, op.id) /\ hpc \in {"resp", "log"}

Serving == creq.kind \in Requests /\ creq.id = op.id

Running ==
  /\ Serving /\ cpc \in {"guest", "dead"}
  /\ toChild = <<>> /\ AllOf(toHost, Noise)
  /\ hpc \in {"resp", "log"}

Calling ==
  /\ Serving /\ cpc \in {"reply", "dead"}
  /\ toChild = <<>> /\ EndsIn(toHost, Noise, {"callback"}, op.id)
  /\ hpc \in {"resp", "log", "args"}

Called ==
  /\ Serving /\ cpc \in {"reply", "dead"}
  /\ toChild = <<>> /\ toHost = <<>>
  /\ hpc \in {"callback", "answer", "write", "killed"}

Replied ==
  /\ Serving /\ cpc \in {"reply", "dead"}
  /\ EndsIn(toChild, {}, {"reply"}, op.id) /\ toHost = <<>>
  /\ hpc = "resp"

Finished ==
  /\ creq.kind \notin Requests /\ cpc \in {"loop", "dead"}
  /\ toChild = <<>> /\ EndsIn(toHost, Noise, {"return", "error"}, op.id)
  /\ hpc \in {"resp", "log", "result"}

InStep ==
  IF op = NoMsg THEN NoCall
  ELSE Queued \/ Running \/ Calling \/ Called \/ Replied \/ Finished

Synchronised == ~Closed /\ ~Spoiled => InStep

-----------------------------------------------------------------------------
(* The questions of is_function, each of which is in one place at a time:  *)
(* a command in toChild, the command being executed, an answer in toHost.  *)

None(q, kind) == \A i \in 1..Len(q) : q[i].kind # kind

AtMostOne(q, kind, id) ==
  \A i \in 1..Len(q) : q[i].kind = kind =>
    q[i].id = id /\ \A j \in 1..Len(q) : q[j].kind = kind => j = i

NoneAsked == None(toChild, "isfn") /\ creq.kind # "isfn" /\ None(toHost, "bool")

OneAsked ==
  /\ AtMostOne(toChild, "isfn", cmd.id) /\ AtMostOne(toHost, "bool", cmd.id)
  /\ creq.kind = "isfn" => creq.id = cmd.id /\ None(toHost, "bool")
  /\ None(toChild, "isfn") \/ (creq.kind # "isfn" /\ None(toHost, "bool"))

Asked == IF hpc = "isfn" THEN OneAsked ELSE NoneAsked

(* The host has neither stopped waiting for a lone byte nor left one.      *)
Attended == mishap \cap {"late", "payload", "misread"} = {}

LoneAnswers == Attended => "stale" \notin mishap /\ Asked

IInv == TypeOK /\ OpPlace /\ HeaderRead /\ Numbered /\ Registry /\ Synchronised /\ LoneAnswers

=============================================================================
