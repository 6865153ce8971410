------------------------------- MODULE Guests -------------------------------
(***************************************************************************)
(* The guests of one application as processes: spawn_child forks one child *)
(* per guest, destroy_proxy polls it, kills it and waits for it.  What the *)
(* two share with every other guest are the file descriptors of the host,  *)
(* and the process table, in which a child that has ended stays until it   *)
(* has been waited for.  What goes through the pipes is Proxy's matter.    *)
(***************************************************************************)
EXTENDS Integers, FiniteSets

CONSTANTS
  Guests,       \* the proxies the application creates
  Pids,         \* process ids
  AnyChild,     \* the -1 of a failed fork, which waitpid and kill take for "all"
  None,         \* no process, no guest
  MaxFds        \* descriptors the host may open for its guests

ASSUME GuestsAssumption ==
  /\ AnyChild \notin Pids /\ None \notin Pids \cup Guests /\ AnyChild # None
  /\ MaxFds \in Nat

VARIABLES
  state,    \* what has become of each proxy
  pid,      \* proxy->child_pid
  fds,      \* descriptors open in the host for its guests
  proc,     \* the process table, as far as it concerns children of the host
  news,     \* stopped or continued, and not yet reported by waitpid
  killed,   \* sent SIGKILL
  at,       \* where the host is in destroy_proxy
  doomed,   \* the proxy being destroyed
  (* auxiliary *)
  owner,    \* the guest a process was forked for
  misled    \* guests whose poll reported no end, but a stop or a continuation

host == <<state, pid, fds, at, doomed>>
vars == <<host, proc, news, killed, owner, misled>>

TypeOK ==
  /\ state \in [Guests -> {"none", "failed", "live", "gone"}]
  /\ pid \in [Guests -> Pids \cup {AnyChild, None}]
  /\ fds \in 0..MaxFds
  /\ proc \in [Pids -> {"free", "running", "stopped", "zombie"}]
  /\ news \subseteq Pids /\ killed \subseteq Pids
  /\ at \in {"out", "kill", "wait"} /\ doomed \in Guests \cup {None}
  /\ owner \in [Pids -> Guests \cup {None}]
  /\ misled \subseteq Guests

Init ==
  /\ state = [g \in Guests |-> "none"] /\ pid = [g \in Guests |-> None]
  /\ fds = 0
  /\ proc = [p \in Pids |-> "free"] /\ news = {} /\ killed = {}
  /\ at = "out" /\ doomed = None
  /\ owner = [p \in Pids |-> None] /\ misled = {}

-----------------------------------------------------------------------------
(* spawn_child and proxy_new                                               *)

(* Fault: what pipe() returns is not looked at. *)
RoomForAll == FALSE

(* Four pipes are made; the parent closes two of their eight ends again.   *)
NoRoom == fds + 8 > MaxFds

(* The pipes made before the one that fails stay open. *)
PipeFails(g) ==
  /\ at = "out" /\ state[g] = "none" /\ NoRoom
  /\ state' = [state EXCEPT ![g] = "failed"]
  /\ \E n \in 0..3 : fds + 2 * n <= MaxFds /\ fds + 2 * n + 2 > MaxFds /\ fds' = fds + 2 * n
  /\ UNCHANGED <<pid, at, doomed, proc, news, killed, owner, misled>>

Spawned(g, p) ==
  /\ at = "out" /\ state[g] = "none" /\ ~NoRoom
  /\ state' = [state EXCEPT ![g] = "live"]
  /\ pid' = [pid EXCEPT ![g] = p]
  /\ fds' = fds + 6
  /\ UNCHANGED <<at, doomed, news, killed, misled>>

Fork(g) ==
  \E p \in Pids :
    /\ proc[p] = "free"
    /\ Spawned(g, p)
    /\ proc' = [proc EXCEPT ![p] = "running"]
    /\ owner' = [owner EXCEPT ![p] = g]

(* -1 is not 0: the parent goes on as if there were a child. *)
ForkFails(g) ==
  /\ Spawned(g, AnyChild)
  /\ UNCHANGED <<proc, owner>>

-----------------------------------------------------------------------------
(* destroy_proxy                                                           *)

(* The processes that waitpid and kill take a child_pid for. *)
Target(c) == {p \in Pids : proc[p] # "free" /\ (c = AnyChild \/ c = p)}

(* destroy_proxy returns. *)
Leave(g) == state' = [state EXCEPT ![g] = "gone"] /\ at' = "out" /\ doomed' = None

(* Fault: whatever can be waited for is, as by waitpid(-1, ...). *)
ReapAny(g) ==
  /\ \E p \in Target(AnyChild) :
       /\ proc[p] = "zombie"
       /\ proc' = [proc EXCEPT ![p] = "free"]
       /\ owner' = [owner EXCEPT ![p] = None]
       /\ killed' = killed \ {p} /\ news' = news \ {p}
  /\ Leave(g)
  /\ UNCHANGED <<pid, fds, misled>>

(* waitpid finds a child that has ended. *)
Reap(g) ==
  /\ \E p \in Target(pid[g]) :
       /\ proc[p] = "zombie"
       /\ proc' = [proc EXCEPT ![p] = "free"]
       /\ owner' = [owner EXCEPT ![p] = None]
       /\ killed' = killed \ {p} /\ news' = news \ {p}
  /\ Leave(g)
  /\ UNCHANGED <<pid, fds, misled>>

(* waitpid has nothing to wait for, and returns -1. *)
NoSuchChild(g) ==
  /\ Target(pid[g]) = {}
  /\ Leave(g)
  /\ UNCHANGED <<pid, fds, proc, news, killed, owner, misled>>

(* waitpid with WNOHANG, WUNTRACED and WCONTINUED.  A child that was       *)
(* stopped or continued is reported, and taken for one that has ended.     *)
Poll(g) ==
  /\ state[g] = "live" /\ at = "out"
  /\ \/ Reap(g) \/ NoSuchChild(g)
     \/ /\ \E p \in Target(pid[g]) \cap news : news' = news \ {p}
        /\ Leave(g)
        /\ misled' = misled \cup {g}
        /\ UNCHANGED <<pid, fds, proc, killed, owner>>
     \/ /\ Target(pid[g]) # {}
        /\ \A p \in Target(pid[g]) : proc[p] # "zombie" /\ p \notin news
        /\ at' = "kill" /\ doomed' = g
        /\ UNCHANGED <<state, pid, fds, proc, news, killed, owner, misled>>

(* Fault: kill is left out. *)
WaitOnly ==
  /\ at = "kill"
  /\ at' = "wait"
  /\ UNCHANGED <<state, pid, fds, doomed, proc, news, killed, owner, misled>>

(* Fault: the killed child is not waited for. *)
KillAndLeave ==
  /\ at = "kill"
  /\ killed' = killed \cup Target(pid[doomed])
  /\ Leave(doomed)
  /\ UNCHANGED <<pid, fds, proc, news, owner, misled>>

Kill ==
  /\ at = "kill"
  /\ killed' = killed \cup Target(pid[doomed])
  /\ at' = "wait"
  /\ UNCHANGED <<state, pid, fds, doomed, proc, news, owner, misled>>

(* waitpid without options: it blocks until there is something to return. *)
Wait == at = "wait" /\ (Reap(doomed) \/ NoSuchChild(doomed))

-----------------------------------------------------------------------------
(* What happens to processes.  A stopped one dies of SIGKILL only.         *)

Dies(p) ==
  /\ proc[p] = "running" \/ (proc[p] = "stopped" /\ p \in killed)
  /\ proc' = [proc EXCEPT ![p] = "zombie"]
  /\ news' = news \ {p}
  /\ UNCHANGED <<host, killed, owner, misled>>

Stops(p) ==
  /\ proc[p] = "running" /\ p \notin killed
  /\ proc' = [proc EXCEPT ![p] = "stopped"]
  /\ news' = news \cup {p}
  /\ UNCHANGED <<host, killed, owner, misled>>

Continues(p) ==
  /\ proc[p] = "stopped" /\ p \notin killed
  /\ proc' = [proc EXCEPT ![p] = "running"]
  /\ news' = news \cup {p}
  /\ UNCHANGED <<host, killed, owner, misled>>

Next ==
  \/ \E g \in Guests : PipeFails(g) \/ Fork(g) \/ ForkFails(g) \/ Poll(g)
  \/ Kill \/ Wait
  \/ \E p \in Pids : Dies(p) \/ Stops(p) \/ Continues(p)

Spec == Init /\ [][Next]_vars

(* The host runs inside destroy_proxy, and the kernel delivers SIGKILL. *)
FairSpec ==
  /\ Spec
  /\ WF_vars(Kill) /\ WF_vars(Wait)
  /\ \A p \in Pids : WF_vars(p \in killed /\ Dies(p))

-----------------------------------------------------------------------------
(* Properties                                                              *)

(* The child_pid of a guest that has not been destroyed names its own      *)
(* child, which nobody has killed or waited for.                           *)
Untouched(g) ==
  /\ proc[pid[g]] # "free" /\ owner[pid[g]] = g
  /\ doomed # g => pid[g] \notin killed

ForkFailed == \E g \in Guests : state[g] # "none" /\ pid[g] = AnyChild

(* Guests do not touch each other, unless fork has failed before.          *)
(* destroy_proxy only ever kills and waits for the child of that proxy,    *)
(* whatever the others' children do and however process ids are reused.    *)
Isolated == ForkFailed \/ \A g \in Guests : state[g] = "live" => Untouched(g)

(* A destroyed guest leaves no process behind, unless it was stopped or    *)
(* continued just before, or fork has failed.                              *)
NoSurvivor ==
  \/ ForkFailed
  \/ \A p \in Pids : proc[p] # "free" => \/ state[owner[p]] = "live"
                                         \/ owner[p] \in misled

(* destroy_proxy returns. *)
DestroyReturns == at # "out" ~> at = "out"

(* "multiple simultaneous programs: any number of guests running in a      *)
(* single application": destroying one does not touch the others, which    *)
(* have a child.  README.md:16                                             *)
Simultaneous ==
  \A g \in Guests : state[g] = "live" /\ pid[g] # AnyChild => Untouched(g)

-----------------------------------------------------------------------------
(* Why guests are isolated and leave nothing behind: an inductive          *)
(* invariant.                                                              *)

OwnChild ==
  \A g \in Guests : state[g] = "live" =>
    pid[g] \in Pids /\ proc[pid[g]] # "free" /\ owner[pid[g]] = g

Owned ==
  \A p \in Pids : proc[p] # "free" =>
    /\ owner[p] \in Guests /\ pid[owner[p]] = p
    /\ \/ state[owner[p]] = "live"
       \/ state[owner[p]] = "gone" /\ owner[p] \in misled

Place ==
  /\ at = "out"  => doomed = None
  /\ at # "out"  => doomed \in Guests /\ state[doomed] = "live"
  /\ at # "wait" => killed = {}
  /\ at = "wait" => killed \subseteq {pid[doomed]}

Orderly == OwnChild /\ Owned /\ Place

IInv == TypeOK /\ (ForkFailed \/ Orderly)

=============================================================================
