------------------------------ MODULE Session ------------------------------
(***************************************************************************)
(* What an application may rely on when it compiles and calls through a    *)
(* proxy: one question at a time, each answered with its own answer, in    *)
(* order, until one of them fails.  A failure closes the session for good: *)
(* no later question is asked.  A spoiled session promises nothing, except *)
(* that it may still close.                                                *)
(***************************************************************************)
EXTENDS Naturals

VARIABLES
  asking,    \* number of the question being asked, 0 if none
  answered,  \* number of the question the latest answer belongs to
  state      \* "open", "closed" or "spoiled"

sessionVars == <<asking, answered, state>>

Init == asking = 0 /\ answered = 0 /\ state = "open"

Ask ==
  /\ state = "open" /\ asking = 0
  /\ asking' \in Nat /\ asking' > answered
  /\ UNCHANGED <<answered, state>>

Answer ==
  /\ state = "open" /\ asking # 0
  /\ answered' = asking /\ asking' = 0
  /\ UNCHANGED state

Fail ==
  /\ state = "open" /\ asking # 0
  /\ asking' = 0 /\ state' = "closed"
  /\ UNCHANGED answered

Spoil ==
  /\ state # "closed"
  /\ state' \in {"spoiled", "closed"}
  /\ state = "open" => state' = "spoiled"
  /\ asking' \in Nat /\ answered' \in Nat

Next == Ask \/ Answer \/ Fail \/ Spoil

Spec == Init /\ [][Next]_sessionVars

=============================================================================
