---------------------------- MODULE GuestsProofs ----------------------------
(***************************************************************************)
(* For any number of guests, processes and descriptors: guests are         *)
(* isolated, and a destroyed guest leaves nothing behind, until a fork     *)
(* fails.                                                                  *)
(***************************************************************************)
EXTENDS Guests, TLAPS

-----------------------------------------------------------------------------
(* Types, and the limit of descriptors.  They do not need forks to succeed. *)

(* The steps that remove a process from the table keep the types. *)
LEMMA ReapTyped ==
  ASSUME TypeOK, NEW g, Reap(g) \/ NoSuchChild(g)
  PROVE  TypeOK'
<1>1. CASE Reap(g)
  <2>1. PICK p \in Pids : /\ proc' = [proc EXCEPT ![p] = "free"]
                          /\ owner' = [owner EXCEPT ![p] = None]
                          /\ killed' = killed \ {p} /\ news' = news \ {p}
    BY <1>1 DEF Reap, Target
  <2> QED BY <1>1, <2>1 DEF Reap, Leave, TypeOK
<1>2. CASE NoSuchChild(g)
  BY <1>2 DEF NoSuchChild, Leave, TypeOK
<1> QED BY <1>1, <1>2

(* So does every other step. *)
LEMMA NextTyped ==
  ASSUME TypeOK, [Next]_vars
  PROVE  TypeOK'
<1>1. ASSUME NEW g \in Guests, PipeFails(g) PROVE TypeOK'
  BY <1>1 DEF PipeFails, TypeOK
<1>2. ASSUME NEW g \in Guests, Fork(g) PROVE TypeOK'
  BY <1>2, GuestsAssumption DEF Fork, Spawned, NoRoom, TypeOK
<1>3. ASSUME NEW g \in Guests, ForkFails(g) PROVE TypeOK'
  BY <1>3, GuestsAssumption DEF ForkFails, Spawned, NoRoom, TypeOK
<1>4. ASSUME NEW g \in Guests, Poll(g) PROVE TypeOK'
  <2>1. CASE Reap(g) \/ NoSuchChild(g)
    BY <2>1, ReapTyped
  <2>2. CASE ~(Reap(g) \/ NoSuchChild(g))
    BY <1>4, <2>2 DEF Poll, Leave, TypeOK
  <2> QED BY <2>1, <2>2
<1>5. CASE Kill
  BY <1>5 DEF Kill, Target, TypeOK
<1>6. CASE Wait
  BY <1>6, ReapTyped DEF Wait
<1>7. ASSUME NEW p \in Pids, Dies(p) \/ Stops(p) \/ Continues(p) PROVE TypeOK'
  BY <1>7 DEF Dies, Stops, Continues, host, TypeOK
<1>8. CASE UNCHANGED vars
  BY <1>8 DEF vars, host, TypeOK
<1> QED BY <1>1, <1>2, <1>3, <1>4, <1>5, <1>6, <1>7, <1>8 DEF Next

(* Every state is typed, and the host never has more descriptors open for  *)
(* its guests than it may: what pipe() returns is looked at.               *)
THEOREM TypeCorrect == Spec => []TypeOK
<1>1. Init => TypeOK
  BY GuestsAssumption DEF Init, TypeOK
<1>2. TypeOK /\ [Next]_vars => TypeOK'
  BY NextTyped
<1> QED BY <1>1, <1>2, PTL DEF Spec

-----------------------------------------------------------------------------
(* Who owns which process                                                  *)

(* The waitpid and the kill of a guest reach its own child only. *)
LEMMA OwnTarget ==
  ASSUME TypeOK, Orderly, NEW g \in Guests, state[g] = "live"
  PROVE  pid[g] \in Pids /\ Target(pid[g]) = {pid[g]}
  BY GuestsAssumption DEF TypeOK, Orderly, OwnChild, Target

(* Creating a guest: its process was nobody's, and the guest was new. *)
LEMMA CreateOrderly ==
  ASSUME TypeOK, Orderly, NEW g \in Guests, PipeFails(g) \/ Fork(g)
  PROVE  Orderly'
<1>1. CASE PipeFails(g)
  BY <1>1 DEF PipeFails, TypeOK, Orderly, OwnChild, Owned, Place
<1>2. CASE Fork(g)
  <2>1. PICK p \in Pids : /\ proc[p] = "free" /\ Spawned(g, p)
                          /\ proc' = [proc EXCEPT ![p] = "running"]
                          /\ owner' = [owner EXCEPT ![p] = g]
    BY <1>2 DEF Fork
  <2>2. OwnChild'
    BY <2>1 DEF Spawned, TypeOK, Orderly, OwnChild
  <2>3. Owned'
    BY <2>1 DEF Spawned, TypeOK, Orderly, Owned
  <2>4. Place'
    BY <2>1 DEF Spawned, TypeOK, Orderly, Place
  <2> QED BY <2>2, <2>3, <2>4 DEF Orderly
<1> QED BY <1>1, <1>2

(* A child that has ended is waited for by its own guest. *)
LEMMA ReapOrderly ==
  ASSUME TypeOK, Orderly, NEW g \in Guests, state[g] = "live", Reap(g),
         at = "out" \/ (at = "wait" /\ doomed = g)
  PROVE  Orderly'
<1> DEFINE p == pid[g]
<1>1. p \in Pids /\ Target(p) = {p}
  BY OwnTarget
<1>2. /\ owner[p] = g /\ proc[p] # "free"
      /\ proc' = [proc EXCEPT ![p] = "free"]
      /\ owner' = [owner EXCEPT ![p] = None]
      /\ killed' = killed \ {p}
  BY <1>1 DEF Reap, Orderly, OwnChild
<1>3. /\ state' = [state EXCEPT ![g] = "gone"] /\ at' = "out" /\ doomed' = None
      /\ UNCHANGED <<pid, misled>>
  BY DEF Reap, Leave
<1>4. OwnChild'
  BY <1>1, <1>2, <1>3 DEF TypeOK, Orderly, OwnChild
<1>5. Owned'
  BY <1>1, <1>2, <1>3 DEF TypeOK, Orderly, Owned
<1>6. Place'
  BY <1>1, <1>2, <1>3 DEF TypeOK, Orderly, Place
<1> QED BY <1>4, <1>5, <1>6 DEF Orderly

(* The first waitpid of destroy_proxy. *)
LEMMA PollOrderly ==
  ASSUME TypeOK, Orderly, NEW g \in Guests, Poll(g)
  PROVE  Orderly'
<1>1. state[g] = "live" /\ at = "out" /\ Target(pid[g]) = {pid[g]}
  BY OwnTarget DEF Poll
<1>2. CASE Reap(g)
  BY <1>1, <1>2, ReapOrderly
<1>3. CASE NoSuchChild(g)
  BY <1>1, <1>3 DEF NoSuchChild
<1>4. CASE /\ Leave(g) /\ misled' = misled \cup {g}
           /\ UNCHANGED <<pid, fds, proc, killed, owner>>
  BY <1>1, <1>4 DEF Leave, TypeOK, Orderly, OwnChild, Owned, Place
<1>5. CASE /\ at' = "kill" /\ doomed' = g
           /\ UNCHANGED <<state, pid, fds, proc, news, killed, owner, misled>>
  BY <1>1, <1>5 DEF TypeOK, Orderly, OwnChild, Owned, Place
<1> QED BY <1>2, <1>3, <1>4, <1>5 DEF Poll

(* The rest of destroy_proxy. *)
LEMMA KillOrderly ==
  ASSUME TypeOK, Orderly, Kill \/ Wait
  PROVE  Orderly'
<1>1. doomed \in Guests /\ state[doomed] = "live"
  BY DEF Kill, Wait, Orderly, Place
<1>2. Target(pid[doomed]) = {pid[doomed]}
  BY <1>1, OwnTarget
<1>3. CASE Kill
  BY <1>1, <1>2, <1>3 DEF Kill, TypeOK, Orderly, OwnChild, Owned, Place
<1>4. CASE Wait
  BY <1>1, <1>2, <1>4, ReapOrderly DEF Wait, NoSuchChild
<1> QED BY <1>3, <1>4

(* What happens to processes changes neither whose they are nor who waits. *)
LEMMA ProcessOrderly ==
  ASSUME TypeOK, Orderly, NEW p \in Pids, Dies(p) \/ Stops(p) \/ Continues(p)
  PROVE  Orderly'
<1>1. /\ proc[p] # "free"
      /\ \E s \in {"running", "stopped", "zombie"} : proc' = [proc EXCEPT ![p] = s]
      /\ UNCHANGED <<host, killed, owner, misled>>
  BY DEF Dies, Stops, Continues, TypeOK
<1> QED BY <1>1 DEF host, TypeOK, Orderly, OwnChild, Owned, Place

(* Nothing makes a failed fork undone. *)
LEMMA ForkFailedStays ==
  ASSUME TypeOK, ForkFailed, [Next]_vars
  PROVE  ForkFailed'
<1>1. PICK g \in Guests : state[g] # "none" /\ pid[g] = AnyChild
  BY DEF ForkFailed
<1>2. CASE \E h \in Guests, p \in Pids \cup {AnyChild} : Spawned(h, p)
  BY <1>1, <1>2 DEF Spawned, TypeOK, ForkFailed
<1>3. CASE UNCHANGED <<state, pid>>
  BY <1>1, <1>3 DEF ForkFailed
<1>4. CASE \E h : Leave(h) /\ UNCHANGED pid
  BY <1>1, <1>4 DEF Leave, TypeOK, ForkFailed
<1>5. CASE \E h \in Guests : PipeFails(h)
  BY <1>1, <1>5 DEF PipeFails, TypeOK, ForkFailed
<1> QED
  BY <1>2, <1>3, <1>4, <1>5 DEF Next, vars, host, Fork, ForkFails, Poll, Reap, NoSuchChild,
     Kill, Wait, Dies, Stops, Continues

-----------------------------------------------------------------------------
(* The invariant: until a fork fails, whose child is whose is in order. *)
THEOREM Invariant == Spec => []IInv
<1>1. Init => IInv
  BY GuestsAssumption DEF Init, IInv, TypeOK, Orderly, OwnChild, Owned, Place
<1>2. IInv /\ [Next]_vars => IInv'
  <2> SUFFICES ASSUME TypeOK, Orderly, ~ForkFailed', [Next]_vars PROVE Orderly'
    BY NextTyped, ForkFailedStays DEF IInv
  <2>1. ASSUME NEW g \in Guests, ForkFails(g) PROVE FALSE
    BY <2>1 DEF ForkFails, Spawned, ForkFailed, TypeOK
  <2>2. CASE UNCHANGED vars
    BY <2>2 DEF vars, host, Orderly, OwnChild, Owned, Place
  <2> QED BY <2>1, <2>2, CreateOrderly, PollOrderly, KillOrderly, ProcessOrderly DEF Next
<1> QED BY <1>1, <1>2, PTL DEF Spec

(* Until a fork fails, no guest's child is killed or waited for by         *)
(* anybody but its own destroy_proxy.                                      *)
THEOREM GuestsIsolated == Spec => []Isolated
<1>1. IInv => Isolated
  <2> SUFFICES ASSUME TypeOK, Orderly, NEW g \in Guests, state[g] = "live"
               PROVE  Untouched(g)
    BY DEF IInv, Isolated
  <2>1. pid[g] \in Pids /\ proc[pid[g]] # "free" /\ owner[pid[g]] = g
    BY DEF Orderly, OwnChild
  <2>2. ASSUME pid[g] \in killed PROVE doomed = g
    BY <2>1, <2>2 DEF Orderly, OwnChild, Place, TypeOK
  <2> QED BY <2>1, <2>2 DEF Untouched
<1> QED BY <1>1, Invariant, PTL

(* Until a fork fails, destroy_proxy leaves neither a process nor a zombie *)
(* behind, unless its poll was answered by a stop or a continuation.       *)
THEOREM NothingSurvives == Spec => []NoSurvivor
<1>1. IInv => NoSurvivor
  BY DEF IInv, Orderly, Owned, NoSurvivor
<1> QED BY <1>1, Invariant, PTL

=============================================================================
