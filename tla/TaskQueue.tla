----------------------------- MODULE TaskQueue -----------------------------
(***************************************************************************)
(* The analysis queue of the web process: the worker thread of             *)
(* web/worker.py, the HTTP handlers of web/api.py that create, resume,     *)
(* rerun and delete tasks, each in its own thread, and the lifespan of     *)
(* web/server.py that starts and stops the worker.  They meet in TaskStore.*)
(*                                                                         *)
(* Each store transaction is one step and anything may happen between two  *)
(* of them: a step of another thread, a shutdown, a crash of the process,  *)
(* or an exception raised by the database.                                 *)
(***************************************************************************)
EXTENDS TaskStore

CONSTANTS Clients,        \* HTTP handler threads
          NoTask,         \* "no task" for the worker and for idle handlers
          MayEndBlank,    \* may a run end with a decision that redacts to blank?
          MaxEmits,       \* bound: section events of one run
          MaxClock,       \* bound: created_at stamps drawn
          MaxCrashes,     \* bound: process exits, orderly ones included
          MaxFaults       \* bound: exceptions raised by a store transaction

ASSUME NoTaskAssumption == NoTask \notin Tasks

VARIABLES up,         \* the process has started and its worker.start() returned
          stopping,   \* TaskWorker._stopping
          wake,       \* TaskWorker._wake
          pc,         \* where the worker thread stands
          current,    \* the task it executes
          emitted,    \* sections emitted by this run
          pending,    \* the section just saved, its event still to be appended
          streamed,   \* this run has emitted its decision
          found,      \* the decision read back before finish
          reports,    \* reports/<task id>, or a part of it, exists on disk
          request,    \* the request each handler thread is working on
          clock,      \* the last created_at stamp drawn
          crashes, faults

runVars == <<emitted, pending, streamed, found>>   \* locals of _execute and run
workerVars == <<pc, current, runVars>>
vars == <<storeVars, workerVars, up, stopping, wake, reports, request, clock, crashes, faults>>

(* The steps of _execute, in order; "fail" is its except clause. *)
Executing == {"running", "start", "run", "event", "saved", "read", "finish", "fail"}

(* _run_queue between two tasks.  "loop": about to take the lifecycle lock.  *)
(* "claim": it holds the lock and has seen no stop.  "wait": waiting for the *)
(* wake event, without the lock.  "clear": the wait is over.                 *)
Looking == {"loop", "claim", "wait", "clear"}

(* "ended": stopped in an orderly way.  "dead": an exception left            *)
(* _run_queue.  "off": there is no process.                                  *)
Pcs == Executing \cup Looking \cup {"ended", "dead", "off"}

Steps == {"idle", "probe", "requeue", "stamp", "insert", "readback", "wake", "delete", "rmtree"}
Idle  == [at |-> "idle", task |-> NoTask, stamp |-> 0]

WorkerTypeOK ==
    /\ pc \in Pcs /\ current \in Tasks \cup {NoTask}
    /\ pc \in Executing => current \in Tasks
    /\ pc \in Looking \cup {"ended", "off"} => current = NoTask
    /\ emitted \in Nat /\ pending \in SUBSET Sections
    /\ streamed \in BOOLEAN /\ found \in Nat

RequestTypeOK ==
    /\ request \in [Clients -> [at : Steps, task : Tasks \cup {NoTask}, stamp : Nat]]
    /\ \A c \in Clients : request[c].at \in {"probe", "requeue", "readback", "delete", "rmtree"}
                            => request[c].task \in Tasks

ProcessTypeOK ==
    /\ up \in BOOLEAN /\ stopping \in BOOLEAN /\ wake \in BOOLEAN
    /\ reports \in [Tasks -> BOOLEAN]
    /\ clock \in Nat /\ crashes \in Nat /\ faults \in Nat

TypeOK == StoreTypeOK /\ WorkerTypeOK /\ RequestTypeOK /\ ProcessTypeOK

Init ==
    /\ StoreInit
    /\ up = TRUE /\ stopping = FALSE /\ wake = FALSE
    /\ pc = "loop" /\ current = NoTask
    /\ emitted = 0 /\ pending = {} /\ streamed = FALSE /\ found = 0
    /\ reports = [t \in Tasks |-> FALSE]
    /\ request = [c \in Clients |-> Idle]
    /\ clock = 0 /\ crashes = 0 /\ faults = 0

outside == <<up, stopping, request, clock, crashes, faults>>
looking == <<storeVars, current, runVars, reports>>

-----------------------------------------------------------------------------
(* The worker thread. *)

(* with self._lifecycle: the stop flag is read and the task claimed under    *)
(* the lock that stop() takes to set the flag.                               *)
TakeLock ==
    /\ pc = "loop" /\ ~stopping
    /\ pc' = "claim"
    /\ UNCHANGED <<looking, wake>> /\ UNCHANGED outside

(* _run_queue returns once it sees the stop flag. *)
Quit ==
    /\ pc = "loop" /\ stopping
    /\ pc' = "ended"
    /\ UNCHANGED <<looking, wake>> /\ UNCHANGED outside

(* claim_next, and the lock is released. *)
Claim(t) ==
    /\ pc = "claim"
    /\ ClaimNext(t)
    /\ pc' = "running" /\ current' = t
    /\ UNCHANGED <<runVars, reports, wake>> /\ UNCHANGED outside

ClaimNone ==
    /\ pc = "claim" /\ \A t \in Tasks : ~MayClaim(t)
    /\ pc' = "wait"
    /\ UNCHANGED <<looking, wake>> /\ UNCHANGED outside

(* self._wake.wait(0.25): set meanwhile or before, or a quarter of a second  *)
(* is over.                                                                  *)
Wakes ==
    /\ pc = "wait" /\ wake
    /\ pc' = "clear"
    /\ UNCHANGED <<looking, wake>> /\ UNCHANGED outside

WaitEnds_OnlyByTheEvent == FALSE
WaitEnds == pc = "wait" /\ ~wake

WaitTimesOut ==
    /\ WaitEnds
    /\ pc' = "clear"
    /\ UNCHANGED <<looking, wake>> /\ UNCHANGED outside

(* self._wake.clear(), a wake-up that came after the wait included. *)
ClearWake ==
    /\ pc = "clear"
    /\ pc' = "loop" /\ wake' = FALSE
    /\ UNCHANGED looking /\ UNCHANGED outside

NoteRunning ==
    /\ pc = "running"
    /\ AppendEvent(current, "running")
    /\ pc' = "start"
    /\ UNCHANGED <<current, runVars, reports, wake>>
    /\ UNCHANGED outside

MakeReports == reports' = [reports EXCEPT ![current] = TRUE]

(* runner.run up to the construction of the graph, which makes the task's    *)
(* report directory.                                                         *)
BuildGraph ==
    /\ pc = "start"
    /\ MakeReports
    /\ pc' = "run"
    /\ UNCHANGED <<storeVars, current, runVars, wake>>
    /\ UNCHANGED outside

(* emit: the section row first, its event in a second transaction. *)
EmitSection_EventFirst(s) ==
    /\ pc = "run" /\ emitted < MaxEmits
    /\ AppendEvent(current, s)
    /\ pc' = "event" /\ emitted' = emitted + 1 /\ pending' = {s}
    /\ UNCHANGED <<current, streamed, found, reports, wake>> /\ UNCHANGED outside

EmitSection(s) ==
    /\ pc = "run" /\ emitted < MaxEmits
    /\ SaveSection(current, s)
    /\ pc' = "event" /\ emitted' = emitted + 1 /\ pending' = {s}
    /\ UNCHANGED <<current, streamed, found, reports, wake>> /\ UNCHANGED outside

EmitEvent ==
    /\ pc = "event"
    /\ \E s \in pending : AppendEvent(current, s)
    /\ pc' = "run" /\ streamed' = (streamed \/ Decision \in pending) /\ pending' = {}
    /\ UNCHANGED <<current, emitted, found, reports, wake>> /\ UNCHANGED outside

(* The graph ended with a final decision.  It was streamed, unless nothing   *)
(* was left of it after redaction.                                           *)
HasDecision == streamed \/ MayEndBlank

(* The state log and the report files, in the directory made anew if need be.*)
SaveReports ==
    /\ pc = "run" /\ HasDecision
    /\ MakeReports
    /\ pc' = "saved"
    /\ UNCHANGED <<storeVars, current, runVars, wake>>
    /\ UNCHANGED outside

RunReturns ==
    /\ pc = "saved"
    /\ pc' = "read"
    /\ UNCHANGED <<looking, wake>>
    /\ UNCHANGED outside

(* Configuration, provider, tool, checkpoint, report and cleanup errors all  *)
(* surface here; whatever the run wrote to its directory stays.              *)
RunRaises ==
    /\ pc \in {"start", "run", "saved"}
    /\ pc' = "fail"
    /\ UNCHANGED <<looking, wake>>
    /\ UNCHANGED outside

ReadDecision ==
    /\ pc = "read"
    /\ found' = sections[current][Decision]
    /\ pc' = IF Exists(current) THEN "finish" ELSE "fail"
    /\ UNCHANGED <<storeVars, current, emitted, pending, streamed, reports, wake>>
    /\ UNCHANGED outside

DropLocals  == emitted' = 0 /\ pending' = {} /\ streamed' = FALSE /\ found' = 0
BackToLoop_KeepsTask == pc' = "loop" /\ DropLocals /\ UNCHANGED current
BackToLoop == pc' = "loop" /\ current' = NoTask /\ DropLocals

FinishTask ==
    /\ pc = "finish"
    /\ IF MayFinish(current, found)
         THEN Finish(current, found) /\ BackToLoop
         ELSE pc' = "fail" /\ UNCHANGED <<storeVars, current, runVars>>
    /\ UNCHANGED <<reports, wake>> /\ UNCHANGED outside

FailTask ==
    /\ pc = "fail"
    /\ IF status[current] = "running"
         THEN Fail(current) /\ BackToLoop
         ELSE pc' = "dead" /\ UNCHANGED <<storeVars, current, runVars>>
    /\ UNCHANGED <<reports, wake>> /\ UNCHANGED outside

(* A transaction of the worker raises.  Inside _execute's try the run fails; *)
(* elsewhere the exception ends the thread.                                  *)
Outcome(step) == IF step \in {"claim", "fail"} THEN "dead" ELSE "fail"

StoreRaises ==
    /\ pc \in (Executing \cup {"claim"}) \ {"start", "run", "saved"}
    /\ faults < MaxFaults
    /\ faults' = faults + 1
    /\ pc' = Outcome(pc)
    /\ UNCHANGED <<looking, wake>>
    /\ UNCHANGED <<up, stopping, request, clock, crashes>>

WorkerStep ==
    \/ TakeLock \/ Quit
    \/ \E t \in Tasks : Claim(t)
    \/ ClaimNone \/ Wakes \/ WaitTimesOut \/ ClearWake
    \/ NoteRunning \/ BuildGraph
    \/ \E s \in Sections : EmitSection(s)
    \/ EmitEvent \/ SaveReports \/ RunReturns \/ RunRaises
    \/ ReadDecision \/ FinishTask \/ FailTask

-----------------------------------------------------------------------------
(* HTTP handlers.  A request exists only while the process serves. *)

inside == <<workerVars, up, stopping, crashes, faults>>

Serve(c, step) == up /\ request[c].at = step
Goto(c, step)  == request' = [request EXCEPT ![c].at = step]
Reply(c)       == request' = [request EXCEPT ![c] = Idle]
ToWake(c)      == request' = [request EXCEPT ![c] = [Idle EXCEPT !.at = "wake"]]

(* create_task and rerun: what is inserted depends only on immutable params. *)
(* A rerun needs the old task when it begins and wakes the worker at its end;*)
(* create_task leaves the worker to find the new row.                        *)
BeginCreate(c) ==
    /\ Serve(c, "idle")
    /\ Goto(c, "stamp")
    /\ UNCHANGED <<storeVars, reports, wake, clock>> /\ UNCHANGED inside

BeginRerun(c, t) ==
    /\ Serve(c, "idle") /\ Exists(t)
    /\ request' = [request EXCEPT ![c] = [Idle EXCEPT !.at = "stamp", !.task = t]]
    /\ UNCHANGED <<storeVars, reports, wake, clock>> /\ UNCHANGED inside

(* now = _now(), before the transaction that inserts the row. *)
DrawStamp(c) ==
    /\ Serve(c, "stamp") /\ clock < MaxClock
    /\ clock' = clock + 1
    /\ request' = [request EXCEPT ![c].at = "insert", ![c].stamp = clock + 1]
    /\ UNCHANGED <<storeVars, reports, wake>> /\ UNCHANGED inside

Insert(c, t) ==
    /\ Serve(c, "insert")
    /\ CreateTask(t, request[c].stamp)
    /\ IF request[c].task = NoTask
         THEN Reply(c)
         ELSE request' = [request EXCEPT ![c] = [Idle EXCEPT !.at = "readback", !.task = t]]
    /\ UNCHANGED <<reports, wake, clock>> /\ UNCHANGED inside

(* The provider left the joined list, or the transaction raised. *)
InsertRefused(c) ==
    /\ Serve(c, "insert")
    /\ Reply(c)
    /\ UNCHANGED <<storeVars, reports, wake, clock>> /\ UNCHANGED inside

(* rerun reads the new task before it wakes the worker: 404 if it is gone. *)
ReadBack(c) ==
    /\ Serve(c, "readback")
    /\ IF Exists(request[c].task) THEN ToWake(c) ELSE Reply(c)
    /\ UNCHANGED <<storeVars, reports, wake, clock>> /\ UNCHANGED inside

(* self._wake.set(), the last step of rerun and of resume. *)
WakeWorker(c) ==
    /\ Serve(c, "wake")
    /\ wake' = TRUE
    /\ Reply(c)
    /\ UNCHANGED <<storeVars, reports, clock>> /\ UNCHANGED inside

(* TaskWorker.resume: the status is read first, ... *)
BeginResume(c, t) ==
    /\ Serve(c, "idle") /\ status[t] = "interrupted"
    /\ request' = [request EXCEPT ![c] = [Idle EXCEPT !.at = "probe", !.task = t]]
    /\ UNCHANGED <<storeVars, reports, wake, clock>> /\ UNCHANGED inside

(* ... then the checkpoint is probed, which a run in progress makes fail, ... *)
ProbeFinds(c) ==
    /\ Serve(c, "probe") /\ pc \notin {"run", "event", "saved"}
    /\ Goto(c, "requeue")
    /\ UNCHANGED <<storeVars, reports, wake, clock>> /\ UNCHANGED inside

ProbeRefuses(c) ==
    /\ Serve(c, "probe")
    /\ Reply(c)
    /\ UNCHANGED <<storeVars, reports, wake, clock>> /\ UNCHANGED inside

(* ... and only then is the row requeued, if it still is interrupted. *)
Requeue(c) ==
    /\ Serve(c, "requeue")
    /\ LET t == request[c].task
       IN IF MayRequeue(t) THEN RequeueInterrupted(t) /\ ToWake(c)
                           ELSE UNCHANGED storeVars /\ Reply(c)
    /\ UNCHANGED <<reports, wake, clock>> /\ UNCHANGED inside

BeginDelete(c, t) ==
    /\ Serve(c, "idle") /\ Exists(t)
    /\ request' = [request EXCEPT ![c] = [Idle EXCEPT !.at = "delete", !.task = t]]
    /\ UNCHANGED <<storeVars, reports, wake, clock>> /\ UNCHANGED inside

(* The row goes first; the reply is 409 when it was running. *)
DeleteRow(c) ==
    /\ Serve(c, "delete")
    /\ LET t == request[c].task
       IN IF MayDelete(t) THEN DeleteTask(t) /\ Goto(c, "rmtree")
                          ELSE UNCHANGED storeVars /\ Reply(c)
    /\ UNCHANGED <<reports, wake, clock>> /\ UNCHANGED inside

RemoveReports(c) ==
    /\ Serve(c, "rmtree")
    /\ reports' = [reports EXCEPT ![request[c].task] = FALSE]
    /\ Reply(c)
    /\ UNCHANGED <<storeVars, wake, clock>> /\ UNCHANGED inside

(* The checks on the path skip the directory, or rmtree raises and leaves it *)
(* or a part of it: the row is gone all the same.                            *)
ReportsStay(c) ==
    /\ Serve(c, "rmtree")
    /\ Reply(c)
    /\ UNCHANGED <<storeVars, reports, wake, clock>> /\ UNCHANGED inside

HandlerStep(c) ==
    \/ DrawStamp(c) \/ InsertRefused(c)
    \/ \E t \in Tasks : Insert(c, t)
    \/ ReadBack(c) \/ WakeWorker(c)
    \/ ProbeFinds(c) \/ ProbeRefuses(c) \/ Requeue(c)
    \/ DeleteRow(c) \/ RemoveReports(c) \/ ReportsStay(c)

ClientStep(c) ==
    \/ BeginCreate(c)
    \/ \E t \in Tasks : BeginRerun(c, t) \/ BeginResume(c, t) \/ BeginDelete(c, t)

-----------------------------------------------------------------------------
(* The process. *)

(* TaskWorker.stop at the end of the lifespan.  It waits for the lock, then  *)
(* at most a second for the thread, and cancels nothing.                     *)
LockIsFree_Ignored == TRUE
LockIsFree == pc # "claim"

Stop ==
    /\ up /\ ~stopping
    /\ LockIsFree
    /\ stopping' = TRUE /\ wake' = TRUE
    /\ UNCHANGED <<storeVars, workerVars, up, reports, request, clock, crashes, faults>>

(* The process is gone, killed or at the end of a shutdown, and with it the  *)
(* daemon thread and every request.                                          *)
Exit ==
    /\ up /\ crashes < MaxCrashes
    /\ crashes' = crashes + 1
    /\ up' = FALSE /\ stopping' = FALSE /\ wake' = FALSE
    /\ pc' = "off" /\ current' = NoTask /\ DropLocals
    /\ request' = [c \in Clients |-> Idle]
    /\ UNCHANGED <<storeVars, reports, clock, faults>>

(* TaskWorker.start in a new process: recovery, then a fresh thread. *)
Start ==
    /\ ~up
    /\ InterruptRunning
    /\ up' = TRUE /\ pc' = "loop"
    /\ UNCHANGED <<stopping, wake, current, runVars>>
    /\ UNCHANGED <<reports, request, clock, crashes, faults>>

Next ==
    \/ WorkerStep
    \/ StoreRaises
    \/ \E c \in Clients : HandlerStep(c) \/ ClientStep(c)
    \/ Stop \/ Exit \/ Start

Spec == Init /\ [][Next]_vars
-----------------------------------------------------------------------------
(* Safety. *)

(* The row marked running is the one the worker thread executes, and there   *)
(* is none while it looks for work: deleting, resuming and recovering never  *)
(* pull a row from under a run, so finish and fail always find it running    *)
(* (worker.py:103-136, store.py:168-182, 263-283).                           *)
RunningIsExecuted ==
    /\ pc \in Executing => Running = {current}
    /\ pc \in Looking \cup {"ended"} => Running = {}
    /\ \A t, u \in Running : t = u

LastKind(t) == IF log[t] = <<>> THEN "none" ELSE log[t][Len(log[t])]

(* A status that ends a subscription and the event that announces it are     *)
(* committed together: whoever has read the log up to its end knows whether  *)
(* the task ended, and how (store.py:209-276).                               *)
LogTellsEnd ==
    \A t \in Tasks : \A k \in Terminal : status[t] = k <=> LastKind(t) = k

(* A client told of a section can read it: the row is there, and it holds    *)
(* the text of the run that emitted the event (worker.py:118-124).           *)
NewsIsReadable ==
    \A t \in Tasks : \A i \in 1 .. Len(log[t]) :
        log[t][i] \in Sections =>
            /\ sections[t][log[t][i]] # 0
            /\ (\A j \in i + 1 .. Len(log[t]) : log[t][j] \in Sections)
                 => sections[t][log[t][i]] = started[t]

(* A completed task shows the decision of its last run, never one that an    *)
(* interrupted run left in the sections table (worker.py:129-132,            *)
(* runner.py:195-207, store.py:209-225).                                     *)
DecisionOfLastRun ==
    \A t \in Tasks : status[t] = "completed" =>
        decision[t] = started[t] /\ sections[t][Decision] = decision[t]

(* What is gone of a deleted task does not come back: no run, new or         *)
(* resumed, makes or writes the report directory of a task whose row a       *)
(* delete request removed beside it.  A directory that the removal failed on *)
(* may stay (api.py:280-292, runner.py:139-216, trading_graph.py:107).       *)
ReportsStayGone ==
    [][\A t \in Tasks : status[t] = "deleted" /\ ~reports[t] => ~reports'[t]]_vars

(* No task becomes running once stop() has set the flag, although the worker *)
(* reads the flag first and claims later: the lock covers both               *)
(* (worker.py:41-44, 105-108).                                               *)
NoClaimAfterStop == [][stopping => Running' \subseteq Running]_vars

-----------------------------------------------------------------------------
(* Liveness, without database errors and under the fairness that            *)
(* MCBackgroundThreads states.                                               *)

(* A queued task is claimed or deleted, whatever else is queued, resumed,    *)
(* interrupted or restarted, whether or not its wake-up was set, lost to the *)
(* clear that follows a wait, or never sent (create_task), unless the service is shutting down; and no     *)
(* task stays running for ever: its run ends, or the next start of the       *)
(* process marks it interrupted (worker.py:23-33, 103-113, store.py:263).    *)
TasksAreServed ==
    \A t \in Tasks :
        /\ status[t] = "queued" ~> status[t] # "queued" \/ stopping
        /\ status[t] = "running" ~> status[t] # "running"

-----------------------------------------------------------------------------
Lifecycle == INSTANCE TaskLifecycle WITH status <- status, log <- log

(* The queue keeps the promise of TaskLifecycle: a task is taken once it is  *)
(* queued, its status and the last event of its log agree on how it ended,   *)
(* and what completed or failed is changed by nothing but its deletion       *)
(* (worker.py:50-59, 115-136, store.py:127-283).                             *)
ImplementsLifecycle == Lifecycle!LifecycleSpec
=============================================================================
