--------------------------- MODULE TaskLifecycle ---------------------------
(***************************************************************************)
(* What the analysis queue promises whoever watches a task: its status and *)
(* its event history, and nothing of the threads, transactions and crashes *)
(* behind them.  TaskQueue implements it; EventStream relies on it.        *)
(***************************************************************************)
EXTENDS Naturals, Sequences

CONSTANTS Tasks, Sections

VARIABLES status, log

lifecycleVars == <<status, log>>

LifecycleInit ==
    /\ status = [t \in Tasks |-> "absent"]
    /\ log    = [t \in Tasks |-> <<>>]

Move(t, to) == status' = [status EXCEPT ![t] = to]
Tell(t, k)  == log' = [log EXCEPT ![t] = Append(@, k)]

Accept(t) ==
    /\ status[t] = "absent"
    /\ Move(t, "queued") /\ UNCHANGED log

(* At most one task runs. *)
Take(t) ==
    /\ status[t] = "queued"
    /\ \A u \in Tasks : status[u] # "running"
    /\ Move(t, "running") /\ UNCHANGED log

(* Progress is told of a running task only. *)
Report(t, k) ==
    /\ status[t] = "running"
    /\ Tell(t, k) /\ UNCHANGED status

(* A run ends, and says so in the same step. *)
Conclude(t, outcome) ==
    /\ status[t] = "running"
    /\ Move(t, outcome) /\ Tell(t, outcome)

Revive(t) ==
    /\ status[t] = "interrupted"
    /\ Move(t, "queued") /\ Tell(t, "queued")

(* Only a task that is not running goes, and it never comes back. *)
Forget(t) ==
    /\ status[t] \notin {"absent", "deleted", "running"}
    /\ Move(t, "deleted") /\ log' = [log EXCEPT ![t] = <<>>]

LifecycleStep(t) ==
    \/ Accept(t) \/ Take(t)
    \/ \E k \in Sections \cup {"running"} : Report(t, k)
    \/ \E o \in {"completed", "failed", "interrupted"} : Conclude(t, o)
    \/ Revive(t) \/ Forget(t)

LifecycleNext == \E t \in Tasks : LifecycleStep(t)
LifecycleSpec == LifecycleInit /\ [][LifecycleNext]_lifecycleVars
=============================================================================
