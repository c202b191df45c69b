-------------------------- MODULE TaskQueueProofs --------------------------
(***************************************************************************)
(* Proofs about TaskQueue for every set of tasks, sections and handler     *)
(* threads and every bound.                                                *)
(***************************************************************************)
EXTENDS TaskQueue, TLAPS

(* RunningIsExecuted is not inductive alone: a new process must start with a *)
(* worker that holds no task, hence the link from up to pc.  A worker that   *)
(* is about to claim has seen no stop, and stop() waits for its lock.        *)
IInv == TypeOK /\ RunningIsExecuted /\ (~up => pc = "off") /\ (pc = "claim" => ~stopping)

(* Steps that leave the store alone: of the worker, ... *)
QuietStep ==
    \/ TakeLock \/ Quit \/ ClaimNone \/ Wakes \/ WaitTimesOut \/ ClearWake
    \/ BuildGraph \/ SaveReports \/ RunReturns \/ RunRaises \/ ReadDecision

(* ... and of a request. *)
QuietRequest(c) ==
    \/ DrawStamp(c) \/ InsertRefused(c) \/ ReadBack(c) \/ WakeWorker(c)
    \/ ProbeFinds(c) \/ ProbeRefuses(c) \/ RemoveReports(c) \/ ReportsStay(c)
    \/ ClientStep(c)

-----------------------------------------------------------------------------
(* The store keeps its types under every transaction (store.py:127-283). *)
LEMMA StoreTypes ==
    ASSUME StoreTypeOK, NEW t \in Tasks,
           \/ \E now \in Nat : CreateTask(t, now)
           \/ ClaimNext(t)
           \/ \E k \in Kinds : AppendEvent(t, k)
           \/ \E s \in Sections : SaveSection(t, s)
           \/ \E text \in Nat : Finish(t, text)
           \/ Fail(t) \/ RequeueInterrupted(t) \/ DeleteTask(t)
    PROVE  StoreTypeOK'
<1> USE DEF StoreTypeOK, Statuses, Notices, Terminal, Kinds, Exists, Note
<1>1. CASE \E now \in Nat : CreateTask(t, now)
  BY <1>1 DEF CreateTask
<1>2. CASE ClaimNext(t)
  BY <1>2 DEF ClaimNext
<1>3. CASE \E k \in Kinds : AppendEvent(t, k)
  BY <1>3 DEF AppendEvent
<1>4. CASE \E s \in Sections : SaveSection(t, s)
  <2>1. PICK s \in Sections : SaveSection(t, s)
    BY <1>4
  <2>2. sections' \in [Tasks -> [Sections -> Nat]]
    BY <2>1 DEF SaveSection
  <2> QED
    BY <2>1, <2>2 DEF SaveSection
<1>5. CASE \E text \in Nat : Finish(t, text)
  BY <1>5 DEF Finish
<1>6. CASE Fail(t)
  BY <1>6 DEF Fail
<1>7. CASE RequeueInterrupted(t)
  BY <1>7 DEF RequeueInterrupted
<1>8. CASE DeleteTask(t)
  BY <1>8 DEF DeleteTask, NoSections
<1> QED
  BY <1>1, <1>2, <1>3, <1>4, <1>5, <1>6, <1>7, <1>8

(* Recovery interrupts whatever is running and nothing else               *)
(* (store.py:263-276).                                                     *)
LEMMA RecoveryTypes ==
    ASSUME StoreTypeOK, InterruptRunning
    PROVE  StoreTypeOK' /\ Running' = {}
BY DEF StoreTypeOK, Statuses, Notices, Terminal, Kinds, InterruptRunning, InterruptNotes, Running

(* How a transaction changes the set of running rows. *)
LEMMA RunningAfter ==
    ASSUME StoreTypeOK, NEW t \in Tasks
    PROVE  /\ \A now : CreateTask(t, now) => Running' = Running
           /\ ClaimNext(t) => Running = {} /\ Running' = {t}
           /\ \A k : AppendEvent(t, k) => Running' = Running
           /\ \A s : SaveSection(t, s) => Running' = Running
           /\ \A text : Finish(t, text) => t \in Running /\ Running' = Running \ {t}
           /\ Fail(t) => t \in Running /\ Running' = Running \ {t}
           /\ RequeueInterrupted(t) => Running' = Running
           /\ DeleteTask(t) => Running' = Running
           /\ UNCHANGED storeVars => Running' = Running
BY DEF StoreTypeOK, Running, storeVars, CreateTask, ClaimNext, MayClaim, Oldest,
       AppendEvent, SaveSection, Finish, MayFinish, Fail, RequeueInterrupted,
       MayRequeue, DeleteTask, MayDelete

-----------------------------------------------------------------------------
(* A step that leaves the store alone. *)
LEMMA StoreUnchanged ==
    ASSUME StoreTypeOK, UNCHANGED storeVars
    PROVE  StoreTypeOK' /\ Running' = Running
BY DEF StoreTypeOK, Running, storeVars

LEMMA InitIInv == Init => IInv
<1> SUFFICES ASSUME Init PROVE IInv
  OBVIOUS
<1> USE DEF Init
<1>1. StoreTypeOK /\ Running = {}
  BY DEF StoreInit, StoreTypeOK, Statuses, Notices, Terminal, Kinds, NoSections, Running
<1>2. WorkerTypeOK
  BY DEF WorkerTypeOK, Pcs, Executing, Looking
<1>3. RequestTypeOK
  BY DEF RequestTypeOK, Idle, Steps
<1>4. ProcessTypeOK
  BY DEF ProcessTypeOK
<1>5. RunningIsExecuted /\ up
  BY <1>1 DEF RunningIsExecuted, Executing, Looking
<1> QED
  BY <1>1, <1>2, <1>3, <1>4, <1>5 DEF IInv, TypeOK

LEMMA QuietKeepsStore ==
    ASSUME QuietStep
    PROVE  UNCHANGED storeVars /\ pc' # "event"
BY DEF QuietStep, TakeLock, Quit, ClaimNone, Wakes, WaitTimesOut, ClearWake, BuildGraph,
       SaveReports, RunReturns, RunRaises, ReadDecision, looking

LEMMA QuietRequestKeepsStore ==
    ASSUME NEW c \in Clients, QuietRequest(c)
    PROVE  UNCHANGED storeVars
BY DEF QuietRequest, DrawStamp, InsertRefused, ReadBack, WakeWorker, ProbeFinds, ProbeRefuses,
       RemoveReports, ReportsStay, ClientStep, BeginCreate, BeginRerun, BeginResume, BeginDelete

(* A worker step leaves the process and the requests alone; only a run makes *)
(* a report directory.                                                       *)
LEMMA WorkerKeeps ==
    ASSUME WorkerStep
    PROVE  /\ UNCHANGED outside /\ pc # "off"
           /\ UNCHANGED wake \/ wake' = FALSE
           /\ UNCHANGED reports \/ (MakeReports /\ pc \in {"start", "run"} /\ UNCHANGED storeVars)
           /\ pc' = "claim" => ~stopping
BY DEF WorkerStep, TakeLock, Quit, Claim, ClaimNone, Wakes, WaitTimesOut, WaitEnds, ClearWake,
       NoteRunning, BuildGraph, EmitSection, EmitEvent, SaveReports, RunReturns, RunRaises,
       ReadDecision, FinishTask, FailTask, BackToLoop, looking, outside

(* A request never touches the worker. *)
LEMMA RequestKeeps ==
    ASSUME NEW c \in Clients, HandlerStep(c) \/ ClientStep(c)
    PROVE  /\ UNCHANGED inside
           /\ UNCHANGED wake \/ wake' = TRUE
           /\ UNCHANGED reports \/ (RemoveReports(c) /\ UNCHANGED storeVars)
           /\ QuietRequest(c) \/ Requeue(c) \/ DeleteRow(c) \/ \E t \in Tasks : Insert(c, t)
<1> USE DEF HandlerStep, ClientStep, QuietRequest
<1>1. UNCHANGED inside /\ (UNCHANGED wake \/ wake' = TRUE)
  BY DEF Insert, Requeue, DeleteRow, DrawStamp, InsertRefused, ReadBack, WakeWorker, ProbeFinds,
     ProbeRefuses, RemoveReports, ReportsStay, BeginCreate, BeginRerun, BeginResume, BeginDelete
<1>2. UNCHANGED reports \/ RemoveReports(c)
  BY DEF Insert, Requeue, DeleteRow, DrawStamp, InsertRefused, ReadBack, WakeWorker, ProbeFinds,
     ProbeRefuses, ReportsStay, BeginCreate, BeginRerun, BeginResume, BeginDelete
<1>3. RemoveReports(c) => UNCHANGED storeVars
  BY DEF RemoveReports
<1>4. QuietRequest(c) \/ Requeue(c) \/ DeleteRow(c) \/ \E t \in Tasks : Insert(c, t)
  OBVIOUS
<1> QED
  BY <1>1, <1>2, <1>3, <1>4

(* The worker thread, one step per action. *)
LEMMA WorkerIInv ==
    ASSUME IInv, WorkerStep
    PROVE  IInv'
<1>0. /\ StoreTypeOK /\ WorkerTypeOK /\ RequestTypeOK /\ ProcessTypeOK
      /\ RunningIsExecuted /\ (~up => pc = "off") /\ (pc = "claim" => ~stopping)
  BY DEF IInv, TypeOK
<1> USE DEF Pcs, Executing, Looking, looking, outside, runVars
<1>1. StoreTypeOK'
  <2>1. ASSUME NEW t \in Tasks, Claim(t) PROVE StoreTypeOK'
    BY <1>0, <2>1, StoreTypes DEF Claim
  <2>2. CASE QuietStep
    BY <1>0, <2>2, StoreUnchanged, QuietKeepsStore
  <2>3. CASE NoteRunning
    BY <1>0, <2>3, StoreTypes DEF NoteRunning, WorkerTypeOK, Kinds, Notices
  <2>4. ASSUME NEW s \in Sections, EmitSection(s) PROVE StoreTypeOK'
    BY <1>0, <2>4, StoreTypes DEF EmitSection, WorkerTypeOK
  <2>5. CASE EmitEvent
    BY <1>0, <2>5, StoreTypes DEF EmitEvent, WorkerTypeOK, Kinds
  <2>6. CASE FinishTask
    BY <1>0, <2>6, StoreTypes, StoreUnchanged DEF FinishTask, WorkerTypeOK
  <2>7. CASE FailTask
    BY <1>0, <2>7, StoreTypes, StoreUnchanged DEF FailTask, WorkerTypeOK
  <2> QED
    BY <2>1, <2>2, <2>3, <2>4, <2>5, <2>6, <2>7 DEF WorkerStep, QuietStep
<1>2. WorkerTypeOK'
  <2> USE <1>0 DEF WorkerTypeOK
  <2>1. ASSUME NEW t \in Tasks, Claim(t) PROVE WorkerTypeOK'
    BY <2>1 DEF Claim
  <2>2. CASE NoteRunning \/ BuildGraph \/ SaveReports \/ RunReturns \/ RunRaises
    BY <2>2 DEF NoteRunning, BuildGraph, SaveReports, RunReturns, RunRaises
  <2>7. CASE TakeLock \/ Quit \/ ClaimNone \/ Wakes \/ WaitTimesOut \/ ClearWake
    BY <2>7 DEF TakeLock, Quit, ClaimNone, Wakes, WaitTimesOut, WaitEnds, ClearWake
  <2>3. CASE ReadDecision
    BY <2>3, SectionAssumption DEF ReadDecision, StoreTypeOK
  <2>4. ASSUME NEW s \in Sections, EmitSection(s) PROVE WorkerTypeOK'
    BY <2>4 DEF EmitSection
  <2>5. CASE EmitEvent
    BY <2>5 DEF EmitEvent
  <2>6. CASE FinishTask \/ FailTask
    <3>1. CASE BackToLoop
      BY <3>1 DEF BackToLoop, DropLocals
    <3>2. CASE pc' \in {"fail", "dead"} /\ UNCHANGED <<current, runVars>>
      BY <2>6, <3>2 DEF FinishTask, FailTask
    <3> QED
      BY <2>6, <3>1, <3>2 DEF FinishTask, FailTask
  <2> QED
    BY <2>1, <2>2, <2>3, <2>4, <2>5, <2>6, <2>7 DEF WorkerStep
<1>3. RequestTypeOK' /\ (~up' => pc' = "off") /\ (pc' = "claim" => ~stopping')
  BY <1>0, WorkerKeeps DEF RequestTypeOK
<1>4. ProcessTypeOK'
  BY <1>0, WorkerKeeps DEF ProcessTypeOK, MakeReports
<1>5. RunningIsExecuted'
  <2> USE <1>0 DEF WorkerTypeOK, RunningIsExecuted
  <2>1. ASSUME NEW t \in Tasks, Claim(t) PROVE RunningIsExecuted'
    BY <2>1, RunningAfter DEF Claim
  <2>2. CASE QuietStep
    <3>1. UNCHANGED current /\ (pc \in Executing <=> pc' \in Executing) /\ pc # "dead" /\ pc' # "dead"
          /\ pc' # "off" /\ pc # "off"
      BY <2>2 DEF QuietStep, TakeLock, Quit, ClaimNone, Wakes, WaitTimesOut, WaitEnds, ClearWake,
         BuildGraph, SaveReports, RunReturns, RunRaises, ReadDecision
    <3> QED
      BY <2>2, <3>1, StoreUnchanged, QuietKeepsStore
  <2>3. CASE NoteRunning
    BY <2>3, RunningAfter DEF NoteRunning
  <2>4. ASSUME NEW s \in Sections, EmitSection(s) PROVE RunningIsExecuted'
    BY <2>4, RunningAfter DEF EmitSection
  <2>5. CASE EmitEvent
    BY <2>5, RunningAfter DEF EmitEvent
  <2>6. CASE FinishTask
    BY <2>6, RunningAfter, StoreUnchanged DEF FinishTask, BackToLoop
  <2>7. CASE FailTask
    BY <2>7, RunningAfter, StoreUnchanged DEF FailTask, BackToLoop
  <2> QED
    BY <2>1, <2>2, <2>3, <2>4, <2>5, <2>6, <2>7 DEF WorkerStep, QuietStep
<1> QED
  BY <1>1, <1>2, <1>3, <1>4, <1>5 DEF IInv, TypeOK

(* Requests leave the set of running rows alone. *)
LEMMA RequestRunning ==
    ASSUME IInv, NEW c \in Clients, HandlerStep(c) \/ ClientStep(c)
    PROVE  StoreTypeOK' /\ Running' = Running
<1>0. StoreTypeOK /\ RequestTypeOK
  BY DEF IInv, TypeOK
<1>1. ASSUME NEW t \in Tasks, Insert(c, t) PROVE StoreTypeOK' /\ Running' = Running
  BY <1>0, <1>1, StoreTypes, RunningAfter DEF Insert, RequestTypeOK
<1>2. CASE Requeue(c)
  <2>1. request[c].task \in Tasks
    BY <1>0, <1>2 DEF Requeue, Serve, RequestTypeOK
  <2> QED
    BY <1>0, <1>2, <2>1, StoreTypes, RunningAfter, StoreUnchanged DEF Requeue
<1>3. CASE DeleteRow(c)
  <2>1. request[c].task \in Tasks
    BY <1>0, <1>3 DEF DeleteRow, Serve, RequestTypeOK
  <2> QED
    BY <1>0, <1>3, <2>1, StoreTypes, RunningAfter, StoreUnchanged DEF DeleteRow
<1>4. CASE QuietRequest(c)
  BY <1>0, <1>4, StoreUnchanged, QuietRequestKeepsStore
<1> QED
  BY <1>1, <1>2, <1>3, <1>4, RequestKeeps

(* ... and never touch the worker. *)
LEMMA RequestIInv ==
    ASSUME IInv, NEW c \in Clients, HandlerStep(c) \/ ClientStep(c)
    PROVE  IInv'
<1>0. /\ StoreTypeOK /\ WorkerTypeOK /\ RequestTypeOK /\ ProcessTypeOK
      /\ RunningIsExecuted /\ (~up => pc = "off") /\ (pc = "claim" => ~stopping)
  BY DEF IInv, TypeOK
<1>1. StoreTypeOK' /\ Running' = Running
  BY RequestRunning
<1>2. UNCHANGED inside
  BY RequestKeeps
<1>3. RequestTypeOK'
  <2> USE <1>0 DEF RequestTypeOK, Idle, Steps, Serve, Goto, Reply, ToWake
  <2>1. CASE HandlerStep(c)
    <3>1. ASSUME NEW t \in Tasks, Insert(c, t) PROVE RequestTypeOK'
      <4>1. CASE Reply(c)
        BY <4>1
      <4>2. CASE request' = [request EXCEPT ![c] = [at |-> "readback", task |-> t, stamp |-> 0]]
        BY <3>1, <4>2
      <4> QED
        BY <3>1, <4>1, <4>2 DEF Insert
    <3>2. CASE DrawStamp(c) \/ InsertRefused(c) \/ ReadBack(c) \/ WakeWorker(c)
      BY <3>2 DEF DrawStamp, InsertRefused, ReadBack, WakeWorker, ProcessTypeOK
    <3>3. CASE ProbeFinds(c) \/ ProbeRefuses(c) \/ Requeue(c)
      BY <3>3 DEF ProbeFinds, ProbeRefuses, Requeue
    <3>4. CASE DeleteRow(c) \/ RemoveReports(c) \/ ReportsStay(c)
      BY <3>4 DEF DeleteRow, RemoveReports, ReportsStay
    <3> QED
      BY <2>1, <3>1, <3>2, <3>3, <3>4 DEF HandlerStep
  <2>2. CASE ClientStep(c)
    <3>1. CASE BeginCreate(c)
      BY <3>1 DEF BeginCreate
    <3>2. ASSUME NEW t \in Tasks, BeginRerun(c, t) \/ BeginResume(c, t) \/ BeginDelete(c, t)
          PROVE  RequestTypeOK'
      <4>1. CASE BeginRerun(c, t)
        BY <4>1 DEF BeginRerun
      <4>2. CASE BeginResume(c, t)
        BY <4>2 DEF BeginResume
      <4>3. CASE BeginDelete(c, t)
        BY <4>3 DEF BeginDelete
      <4> QED
        BY <3>2, <4>1, <4>2, <4>3
    <3> QED
      BY <2>2, <3>1, <3>2 DEF ClientStep
  <2> QED
    BY <2>1, <2>2
<1>4. ProcessTypeOK'
  <2>1. UNCHANGED clock \/ clock' = clock + 1
    BY DEF ProcessTypeOK, HandlerStep, ClientStep, Insert, Requeue, DeleteRow,
       DrawStamp, InsertRefused, ReadBack, WakeWorker, ProbeFinds, ProbeRefuses, RemoveReports,
       ReportsStay, BeginCreate, BeginRerun, BeginResume, BeginDelete
  <2>2. \/ UNCHANGED reports
        \/ reports' = [reports EXCEPT ![request[c].task] = FALSE]
    BY RequestKeeps DEF RemoveReports
  <2>3. reports' \in [Tasks -> BOOLEAN]
    BY <1>0, <2>2 DEF ProcessTypeOK
  <2>4. UNCHANGED <<up, stopping, crashes, faults>>
    BY <1>2 DEF inside
  <2>5. wake' \in BOOLEAN
    BY <1>0, RequestKeeps DEF ProcessTypeOK
  <2> QED
    BY <1>0, <2>1, <2>3, <2>4, <2>5 DEF ProcessTypeOK
<1> QED
  BY <1>0, <1>1, <1>2, <1>3, <1>4 DEF IInv, TypeOK, WorkerTypeOK, RunningIsExecuted,
     inside, workerVars, runVars

(* Database errors, shutdown, exit and start. *)
LEMMA ProcessIInv ==
    ASSUME IInv, StoreRaises \/ Stop \/ Exit \/ Start
    PROVE  IInv'
<1>0. /\ StoreTypeOK /\ WorkerTypeOK /\ RequestTypeOK /\ ProcessTypeOK
      /\ RunningIsExecuted /\ (~up => pc = "off") /\ (pc = "claim" => ~stopping)
  BY DEF IInv, TypeOK
<1> USE DEF WorkerTypeOK, RunningIsExecuted, ProcessTypeOK, Pcs, Executing, Looking, looking,
           workerVars, runVars
<1>1. CASE StoreRaises
  <2>1. pc' \in {"fail", "dead"} /\ (pc' = "fail" => pc \in Executing) /\ pc # "off"
    BY <1>1 DEF StoreRaises, Outcome
  <2>2. StoreTypeOK' /\ RequestTypeOK' /\ ProcessTypeOK'
    BY <1>0, <1>1, StoreUnchanged DEF StoreRaises, RequestTypeOK
  <2>3. WorkerTypeOK'
    BY <1>0, <1>1, <2>1 DEF StoreRaises
  <2>4. RunningIsExecuted'
    BY <1>0, <1>1, <2>1, StoreUnchanged DEF StoreRaises
  <2> QED
    BY <1>0, <1>1, <2>1, <2>2, <2>3, <2>4 DEF StoreRaises, IInv, TypeOK, ProcessTypeOK
<1>2. CASE Stop
  BY <1>0, <1>2, StoreUnchanged DEF Stop, LockIsFree, IInv, TypeOK, RequestTypeOK
<1>3. CASE Exit
  <2>1. RequestTypeOK'
    BY <1>3 DEF Exit, RequestTypeOK, Idle, Steps
  <2>2. WorkerTypeOK' /\ pc' = "off"
    BY <1>3 DEF Exit, DropLocals
  <2>3. StoreTypeOK' /\ RunningIsExecuted'
    BY <1>0, <1>3, StoreUnchanged DEF Exit
  <2>4. ProcessTypeOK'
    <3>1. up' \in BOOLEAN /\ stopping' \in BOOLEAN /\ wake' \in BOOLEAN
      BY <1>3 DEF Exit
    <3>2. crashes' \in Nat /\ UNCHANGED <<reports, clock, faults>>
      BY <1>0, <1>3 DEF Exit
    <3> QED
      BY <1>0, <3>1, <3>2
  <2> QED
    BY <2>1, <2>2, <2>3, <2>4 DEF IInv, TypeOK
<1>4. CASE Start
  BY <1>0, <1>4, RecoveryTypes DEF Start, IInv, TypeOK, RequestTypeOK
<1> QED
  BY <1>1, <1>2, <1>3, <1>4

LEMMA NextIInv == IInv /\ [Next]_vars => IInv'
<1>1. ASSUME IInv, Next PROVE IInv'
  BY <1>1, WorkerIInv, RequestIInv, ProcessIInv DEF Next
<1>2. ASSUME IInv, UNCHANGED vars PROVE IInv'
  BY <1>2, StoreUnchanged DEF IInv, TypeOK, WorkerTypeOK, RequestTypeOK, ProcessTypeOK,
     RunningIsExecuted, vars, workerVars, runVars
<1> QED
  BY <1>1, <1>2

LEMMA Invariance == Spec => []IInv
BY InitIInv, NextIInv, PTL DEF Spec

(* Every reachable state is well typed. *)
THEOREM TypeCorrect == Spec => []TypeOK
<1>1. IInv => TypeOK
  BY DEF IInv
<1> QED
  BY <1>1, Invariance, PTL

(* At most one task runs, and it is the one the worker executes, through any *)
(* interleaving of handlers, crashes, restarts and database errors.          *)
THEOREM OneRunOwned == Spec => []RunningIsExecuted
<1>1. IInv => RunningIsExecuted
  BY DEF IInv
<1> QED
  BY <1>1, Invariance, PTL

-----------------------------------------------------------------------------
(* Every step of the queue is a step of the lifecycle, or leaves status and  *)
(* log as they are.                                                          *)
LEMMA StepImplements ==
    ASSUME IInv, [Next]_vars
    PROVE  [Lifecycle!LifecycleNext]_<<status, log>>
<1>0. /\ StoreTypeOK /\ WorkerTypeOK /\ RequestTypeOK
      /\ RunningIsExecuted
  BY DEF IInv, TypeOK
<1> DEFINE Goal == Lifecycle!LifecycleNext \/ UNCHANGED <<status, log>>
<1> USE DEF Lifecycle!LifecycleNext, Lifecycle!LifecycleStep, Lifecycle!Move, Lifecycle!Tell
<1>a. (pc \in Executing => current \in Tasks /\ status[current] = "running")
  BY <1>0 DEF RunningIsExecuted, Running, WorkerTypeOK
<1>1. ASSUME NEW t \in Tasks, Claim(t) PROVE Goal
  <2>1. Lifecycle!Take(t)
    BY <1>1 DEF Claim, ClaimNext, MayClaim, Oldest, Running, Lifecycle!Take, Lifecycle!Move
  <2> QED
    BY <2>1
<1>2. ASSUME NEW k \in Sections \cup {"running"}, AppendEvent(current, k), pc \in Executing
      PROVE  Goal
  <2>1. Lifecycle!Report(current, k)
    BY <1>2, <1>a DEF AppendEvent, Note, Lifecycle!Report
  <2> QED
    BY <1>2, <1>a, <2>1
<1>3. ASSUME NEW t \in Tasks, NEW text, Finish(t, text) PROVE Goal
  <2>1. Lifecycle!Conclude(t, "completed")
    BY <1>3 DEF Finish, MayFinish, Note, Lifecycle!Conclude
  <2> QED
    BY <2>1
<1>4. ASSUME NEW t \in Tasks, Fail(t) PROVE Goal
  <2>1. Lifecycle!Conclude(t, "failed")
    BY <1>4 DEF Fail, Note, Lifecycle!Conclude
  <2> QED
    BY <2>1
<1>5. ASSUME NEW t \in Tasks, NEW now, CreateTask(t, now) PROVE Goal
  <2>1. Lifecycle!Accept(t)
    BY <1>5 DEF CreateTask, Lifecycle!Accept
  <2> QED
    BY <2>1
<1>6. ASSUME NEW t \in Tasks, RequeueInterrupted(t) PROVE Goal
  <2>1. Lifecycle!Revive(t)
    BY <1>6 DEF RequeueInterrupted, MayRequeue, Note, Lifecycle!Revive
  <2> QED
    BY <2>1
<1>7. ASSUME NEW t \in Tasks, DeleteTask(t) PROVE Goal
  <2>1. Lifecycle!Forget(t)
    BY <1>7 DEF DeleteTask, MayDelete, Exists, Notices, Terminal, Lifecycle!Forget
  <2> QED
    BY <2>1
<1>8. CASE Start
  <2>1. CASE Running = {}
    BY <1>0, <1>8, <2>1 DEF Start, InterruptRunning, InterruptNotes, StoreTypeOK
  <2>2. ASSUME NEW t \in Running PROVE Goal
    <3>1. t \in Tasks /\ Running = {t} /\ status[t] = "running"
      BY <1>0, <2>2 DEF RunningIsExecuted, Running
    <3>2. status' = [status EXCEPT ![t] = "interrupted"]
      BY <1>0, <1>8, <3>1 DEF Start, InterruptRunning, StoreTypeOK
    <3>3. log' = [log EXCEPT ![t] = Append(@, "interrupted")]
      BY <1>0, <1>8, <3>1 DEF Start, InterruptRunning, InterruptNotes, StoreTypeOK
    <3>4. Lifecycle!Conclude(t, "interrupted")
      BY <3>1, <3>2, <3>3 DEF Lifecycle!Conclude
    <3> QED
      BY <3>1, <3>4
  <2> QED
    BY <2>1, <2>2
<1>9. CASE UNCHANGED storeVars
  BY <1>9 DEF storeVars
<1>10. CASE WorkerStep
  <2> USE DEF WorkerStep
  <2>1. CASE NoteRunning
    BY <1>2, <2>1 DEF NoteRunning, Executing
  <2>2. ASSUME NEW s \in Sections, EmitSection(s) PROVE Goal
    BY <2>2 DEF EmitSection, SaveSection
  <2>3. CASE EmitEvent
    BY <1>0, <1>2, <2>3 DEF EmitEvent, Executing, WorkerTypeOK
  <2>4. CASE FinishTask
    BY <1>a, <1>3, <1>9, <2>4 DEF FinishTask, Executing
  <2>5. CASE FailTask
    BY <1>a, <1>4, <1>9, <2>5 DEF FailTask, Executing
  <2>6. CASE QuietStep
    BY <1>9, <2>6, QuietKeepsStore
  <2> QED
    BY <1>1, <1>10, <2>1, <2>2, <2>3, <2>4, <2>5, <2>6 DEF QuietStep
<1>11. ASSUME NEW c \in Clients, HandlerStep(c) \/ ClientStep(c) PROVE Goal
  <2>1. ASSUME NEW t \in Tasks, Insert(c, t) PROVE Goal
    BY <1>5, <2>1 DEF Insert
  <2>2. CASE Requeue(c)
    <3>1. request[c].task \in Tasks
      BY <1>0, <2>2 DEF Requeue, Serve, RequestTypeOK
    <3> QED
      BY <1>6, <1>9, <2>2, <3>1 DEF Requeue
  <2>3. CASE DeleteRow(c)
    <3>1. request[c].task \in Tasks
      BY <1>0, <2>3 DEF DeleteRow, Serve, RequestTypeOK
    <3> QED
      BY <1>7, <1>9, <2>3, <3>1 DEF DeleteRow
  <2> QED
    BY <1>9, <1>11, <2>1, <2>2, <2>3, RequestKeeps, QuietRequestKeepsStore
<1>12. CASE StoreRaises \/ Stop \/ Exit \/ UNCHANGED vars
  BY <1>9, <1>12 DEF StoreRaises, Stop, Exit, vars, looking
<1> QED
  BY <1>8, <1>10, <1>11, <1>12 DEF Next

(* The queue, with its threads, crashes and database errors, implements the  *)
(* lifecycle that subscribers rely on.                                       *)
THEOREM QueueImplementsLifecycle == Spec => ImplementsLifecycle
<1>1. Init => Lifecycle!LifecycleInit
  BY DEF Init, StoreInit, Lifecycle!LifecycleInit
<1> QED
  BY <1>1, StepImplements, Invariance, PTL
     DEF Spec, ImplementsLifecycle, Lifecycle!LifecycleSpec, Lifecycle!lifecycleVars

-----------------------------------------------------------------------------
(* The last kind of a log to which an event is appended is that event. *)
LEMMA LastAppended ==
    ASSUME StoreTypeOK, NEW t \in Tasks, NEW k \in Kinds,
           log' = [log EXCEPT ![t] = Append(@, k)]
    PROVE  LastKind(t)' = k /\ \A u \in Tasks \ {t} : LastKind(u)' = LastKind(u)
<1>1. log[t] \in Seq(Kinds)
  BY DEF StoreTypeOK
<1>2. Append(log[t], k) # <<>> /\ Append(log[t], k)[Len(Append(log[t], k))] = k
  BY <1>1
<1>3. log'[t] = Append(log[t], k) /\ \A u \in Tasks \ {t} : log'[u] = log[u]
  BY DEF StoreTypeOK
<1> QED
  BY <1>2, <1>3 DEF LastKind

LEMMA LogStep ==
    ASSUME IInv, LogTellsEnd, [Next]_vars
    PROVE  LogTellsEnd'
<1>0. StoreTypeOK
  BY DEF IInv, TypeOK
<1> USE DEF LogTellsEnd, Terminal
<1>1. CASE UNCHANGED <<status, log>>
  BY <1>1 DEF LastKind
<1>2. ASSUME NEW t \in Tasks, Lifecycle!LifecycleStep(t) PROVE LogTellsEnd'
  <2> USE DEF Lifecycle!Move, Lifecycle!Tell
  <2>1. CASE Lifecycle!Accept(t) \/ Lifecycle!Take(t)
    BY <1>0, <2>1 DEF Lifecycle!Accept, Lifecycle!Take, LastKind, StoreTypeOK
  <2>2. ASSUME NEW k \in Sections \cup {"running"}, Lifecycle!Report(t, k)
        PROVE  LogTellsEnd'
    <3>1. k \in Kinds /\ k \notin Terminal
      BY SectionAssumption DEF Kinds, Notices
    <3> QED
      BY <1>0, <2>2, <3>1, LastAppended DEF Lifecycle!Report
  <2>3. ASSUME NEW o \in Terminal, Lifecycle!Conclude(t, o) PROVE LogTellsEnd'
    <3>1. o \in Kinds
      BY DEF Kinds, Notices
    <3> QED
      BY <1>0, <2>3, <3>1, LastAppended DEF Lifecycle!Conclude, StoreTypeOK
  <2>4. CASE Lifecycle!Revive(t)
    <3>1. "queued" \in Kinds
      BY DEF Kinds, Notices
    <3> QED
      BY <1>0, <2>4, <3>1, LastAppended DEF Lifecycle!Revive, StoreTypeOK
  <2>5. CASE Lifecycle!Forget(t)
    BY <1>0, <2>5 DEF Lifecycle!Forget, LastKind, StoreTypeOK
  <2> QED
    BY <1>2, <2>1, <2>2, <2>3, <2>4, <2>5 DEF Lifecycle!LifecycleStep
<1> QED
  BY <1>1, <1>2, StepImplements DEF Lifecycle!LifecycleNext

(* Status and last event agree on whether and how a task ended. *)
THEOREM LogTellsHowItEnded == Spec => []LogTellsEnd
<1>1. Init => LogTellsEnd
  BY DEF Init, StoreInit, LogTellsEnd, LastKind, Terminal
<1> QED
  BY <1>1, LogStep, Invariance, PTL DEF Spec

(* A worker told to stop claims nothing more: the flag cannot be set between *)
(* its check and its claim.                                                  *)
THEOREM StopEndsClaims == Spec => NoClaimAfterStop
<1>1. ASSUME IInv, [Next]_vars PROVE [stopping => Running' \subseteq Running]_vars
  <2>0. /\ StoreTypeOK /\ WorkerTypeOK /\ RequestTypeOK /\ RunningIsExecuted
        /\ (pc = "claim" => ~stopping)
    BY <1>1 DEF IInv, TypeOK
  <2>1. CASE WorkerStep
    <3>1. ASSUME NEW t \in Tasks, Claim(t) PROVE ~stopping
      BY <2>0, <3>1 DEF Claim
    <3>2. CASE NoteRunning \/ EmitEvent \/ \E s \in Sections : EmitSection(s)
      BY <2>0, <3>2 DEF NoteRunning, EmitEvent, EmitSection, AppendEvent, SaveSection, Running
    <3>3. CASE FinishTask \/ FailTask
      BY <2>0, <3>3, RunningAfter, StoreUnchanged
         DEF FinishTask, FailTask, WorkerTypeOK, Executing
    <3>4. CASE QuietStep
      BY <2>0, <3>4, StoreUnchanged, QuietKeepsStore
    <3> QED
      BY <2>1, <3>1, <3>2, <3>3, <3>4 DEF WorkerStep, QuietStep
  <2>2. ASSUME NEW c \in Clients, HandlerStep(c) \/ ClientStep(c) PROVE Running' = Running
    BY <1>1, <2>2, RequestRunning DEF IInv
  <2>3. CASE StoreRaises \/ Stop \/ Exit \/ UNCHANGED vars
    BY <2>0, <2>3, StoreUnchanged DEF StoreRaises, Stop, Exit, vars, looking
  <2>4. CASE Start
    BY <2>0, <2>4, RecoveryTypes DEF Start
  <2> QED
    BY <1>1, <2>1, <2>2, <2>3, <2>4 DEF Next
<1> QED
  BY <1>1, Invariance, PTL DEF Spec, NoClaimAfterStop

-----------------------------------------------------------------------------
(* What clients are told they can read. *)

Readable(events, texts, run) ==
    \A i \in 1 .. Len(events) :
        events[i] \in Sections =>
            /\ texts[events[i]] # 0
            /\ (\A j \in i + 1 .. Len(events) : events[j] \in Sections) => texts[events[i]] = run

(* Nothing of an earlier run is read as news of this one. *)
Closed(events) == events = <<>> \/ events[Len(events)] \notin Sections

LEMMA ClosedIsReadable ==
  ASSUME NEW events \in Seq(Kinds), NEW texts, NEW run, NEW next,
         Readable(events, texts, run), Closed(events)
  PROVE  Readable(events, texts, next)
<1> SUFFICES ASSUME NEW i \in 1 .. Len(events), events[i] \in Sections
             PROVE  /\ texts[events[i]] # 0
                    /\ \E j \in i + 1 .. Len(events) : events[j] \notin Sections
  BY DEF Readable
<1>1. Len(events) \in Nat /\ events # <<>>
  OBVIOUS
<1>2. i # Len(events) /\ events[Len(events)] \notin Sections
  BY <1>1 DEF Closed
<1>3. Len(events) \in i + 1 .. Len(events)
  BY <1>1, <1>2
<1>4. QED
  BY <1>2, <1>3 DEF Readable

LEMMA NoticeIsReadable ==
  ASSUME NEW events \in Seq(Kinds), NEW texts, NEW run, Readable(events, texts, run),
         NEW k \in Notices
  PROVE  Readable(Append(events, k), texts, run) /\ Closed(Append(events, k))
<1> DEFINE more == Append(events, k)
<1>1. k \notin Sections /\ k \in Kinds
  BY SectionAssumption DEF Kinds
<1>2. /\ more \in Seq(Kinds) /\ Len(more) = Len(events) + 1 /\ more[Len(more)] = k
      /\ \A i \in 1 .. Len(events) : more[i] = events[i]
      /\ Len(events) \in Nat
  BY <1>1
<1> HIDE DEF more
<1>3. Closed(more)
  BY <1>1, <1>2 DEF Closed
<1>4. Readable(more, texts, run)
  <2> SUFFICES ASSUME NEW i \in 1 .. Len(more), more[i] \in Sections
               PROVE  /\ texts[more[i]] # 0
                      /\ \E j \in i + 1 .. Len(more) : more[j] \notin Sections
    BY DEF Readable
  <2>1. i # Len(more)
    BY <1>1, <1>2
  <2>2. i \in 1 .. Len(events) /\ Len(more) \in i + 1 .. Len(more)
    BY <1>2, <2>1
  <2>3. QED
    BY <1>1, <1>2, <2>2 DEF Readable
<1>5. QED
  BY <1>3, <1>4 DEF more

LEMMA SectionIsReadable ==
  ASSUME NEW events \in Seq(Kinds), NEW texts, NEW run, Readable(events, texts, run),
         NEW s \in Sections, texts[s] = run, run # 0
  PROVE  Readable(Append(events, s), texts, run)
<1> DEFINE more == Append(events, s)
<1>1. /\ Len(more) = Len(events) + 1 /\ more[Len(more)] = s
      /\ \A i \in 1 .. Len(events) : more[i] = events[i]
      /\ Len(events) \in Nat
  BY DEF Kinds
<1> HIDE DEF more
<1>2. SUFFICES ASSUME NEW i \in 1 .. Len(more), more[i] \in Sections
               PROVE  /\ texts[more[i]] # 0
                      /\ (\A j \in i + 1 .. Len(more) : more[j] \in Sections) => texts[more[i]] = run
  BY DEF Readable, more
<1>3. CASE i = Len(more)
  BY <1>1, <1>3
<1>4. CASE i \in 1 .. Len(events)
  <2>1. (\A j \in i + 1 .. Len(more) : more[j] \in Sections)
           => \A j \in i + 1 .. Len(events) : events[j] \in Sections
    BY <1>1, <1>4
  <2>2. QED
    BY <1>1, <1>2, <1>4, <2>1 DEF Readable
<1>5. QED
  BY <1>1, <1>3, <1>4

LEMMA SavingKeepsReadable ==
  ASSUME NEW events, NEW texts, NEW run, Readable(events, texts, run), run # 0, NEW s \in Sections,
         DOMAIN texts = Sections
  PROVE  Readable(events, [texts EXCEPT ![s] = run], run)
BY DEF Readable

RowSound(t) ==
    /\ Readable(log[t], sections[t], started[t])
    /\ status[t] = "absent" => log[t] = <<>>
    /\ status[t] = "queued" => Closed(log[t])
    /\ status[t] = "running" => started[t] # 0

(* A section whose event is still to come holds the text of this run.        *)
SavedFirst == pc = "event" => \A s \in pending : sections[current][s] = started[current]

NewsInv == (\A t \in Tasks : RowSound(t)) /\ SavedFirst

LEMMA NewsInit == Init => NewsInv
BY DEF Init, StoreInit, NewsInv, RowSound, SavedFirst, Readable

(* One row changes. *)
LEMMA RowStep ==
    ASSUME StoreTypeOK, \A u \in Tasks : RowSound(u), NEW t \in Tasks,
           \/ \E now \in Nat : CreateTask(t, now)
           \/ ClaimNext(t)
           \/ AppendEvent(t, "running")
           \/ \E s \in Sections : AppendEvent(t, s) /\ status[t] = "running" /\ sections[t][s] = started[t]
           \/ \E s \in Sections : SaveSection(t, s) /\ status[t] = "running"
           \/ \E text \in Nat : Finish(t, text)
           \/ Fail(t) \/ RequeueInterrupted(t) \/ DeleteTask(t)
    PROVE  \A u \in Tasks : RowSound(u)'
<1> USE DEF Note
<1>1. /\ log[t] \in Seq(Kinds) /\ sections[t] \in [Sections -> Nat] /\ started[t] \in Nat
      /\ DOMAIN log = Tasks /\ DOMAIN sections = Tasks /\ DOMAIN started = Tasks /\ DOMAIN status = Tasks
  BY DEF StoreTypeOK
<1>2. ASSUME NEW u \in Tasks \ {t} PROVE RowSound(u)'
  <2>1. log'[u] = log[u] /\ sections'[u] = sections[u] /\ started'[u] = started[u] /\ status'[u] = status[u]
    BY <1>1 DEF CreateTask, ClaimNext, AppendEvent, SaveSection, Finish, Fail, RequeueInterrupted, DeleteTask
  <2>2. QED
    BY <1>2, <2>1 DEF RowSound, Readable, Closed
<1> SUFFICES RowSound(t)'
  BY <1>2
<1>3. CASE \E now \in Nat : CreateTask(t, now)
  BY <1>1, <1>3 DEF CreateTask, RowSound, Closed
<1>4. CASE ClaimNext(t)
  <2>1. status[t] = "queued" /\ status'[t] = "running" /\ started'[t] = started[t] + 1
        /\ UNCHANGED <<log, sections>>
    BY <1>1, <1>4 DEF ClaimNext, MayClaim, Oldest
  <2>2. Readable(log[t], sections[t], started'[t])
    BY <1>1, <2>1, ClosedIsReadable DEF RowSound
  <2>3. QED
    BY <1>1, <2>1, <2>2 DEF RowSound
<1>5. ASSUME NEW k \in Notices, log' = [log EXCEPT ![t] = Append(@, k)], UNCHANGED <<sections, started>>,
             status'[t] # "absent", status'[t] = "running" => status[t] = "running"
      PROVE  RowSound(t)'
  <2>1. log'[t] = Append(log[t], k)
    BY <1>1, <1>5
  <2>2. Readable(log'[t], sections[t], started[t]) /\ Closed(log'[t])
    BY <1>1, <2>1, NoticeIsReadable DEF RowSound
  <2>3. QED
    BY <1>5, <2>2 DEF RowSound
<1>6. CASE AppendEvent(t, "running")
  BY <1>5, <1>6 DEF AppendEvent, Exists, Notices, Terminal
<1>7. ASSUME NEW s \in Sections, AppendEvent(t, s), status[t] = "running", sections[t][s] = started[t]
      PROVE  RowSound(t)'
  <2>1. log'[t] = Append(log[t], s) /\ UNCHANGED <<status, sections, started>> /\ status[t] # "absent"
    BY <1>1, <1>7 DEF AppendEvent, Exists, Notices, Terminal
  <2>2. Readable(log'[t], sections[t], started[t])
    BY <1>1, <1>7, <2>1, SectionIsReadable DEF RowSound
  <2>3. QED
    BY <1>7, <2>1, <2>2 DEF RowSound
<1>8. ASSUME NEW s \in Sections, SaveSection(t, s), status[t] = "running"
      PROVE  RowSound(t)'
  <2>1. sections'[t] = [sections[t] EXCEPT ![s] = started[t]] /\ UNCHANGED <<status, log, started>>
    BY <1>1, <1>8 DEF SaveSection
  <2>2. DOMAIN sections[t] = Sections /\ started[t] # 0 /\ Readable(log[t], sections[t], started[t])
    BY <1>1, <1>8 DEF RowSound
  <2>3. Readable(log[t], [sections[t] EXCEPT ![s] = started[t]], started[t])
    BY <2>2, SavingKeepsReadable
  <2>4. QED
    BY <1>8, <2>1, <2>2, <2>3 DEF RowSound
<1>9. CASE \E text \in Nat : Finish(t, text)
  BY <1>1, <1>5, <1>9 DEF Finish, Notices, Terminal
<1>10. CASE Fail(t)
  BY <1>1, <1>5, <1>10 DEF Fail, Notices, Terminal
<1>11. CASE RequeueInterrupted(t)
  BY <1>1, <1>5, <1>11 DEF RequeueInterrupted, Notices
<1>12. CASE DeleteTask(t)
  <2>1. log'[t] = <<>> /\ status'[t] = "deleted"
    BY <1>1, <1>12 DEF DeleteTask
  <2>2. QED
    BY <2>1 DEF RowSound, Readable
<1>13. QED
  BY <1>3, <1>4, <1>6, <1>7, <1>8, <1>9, <1>10, <1>11, <1>12

LEMMA NewsStep ==
    ASSUME IInv, NewsInv, [Next]_vars
    PROVE  NewsInv'
<1>0. /\ StoreTypeOK /\ WorkerTypeOK /\ RequestTypeOK /\ RunningIsExecuted
      /\ (\A t \in Tasks : RowSound(t)) /\ SavedFirst
  BY DEF IInv, TypeOK, NewsInv
<1>a. pc \in Executing => current \in Tasks /\ status[current] = "running" /\ started[current] # 0
  BY <1>0 DEF RunningIsExecuted, Running, WorkerTypeOK, RowSound
<1> DEFINE Rows == \A t \in Tasks : RowSound(t)'
<1>1. ASSUME UNCHANGED storeVars PROVE Rows
  BY <1>0, <1>1 DEF storeVars, RowSound, Readable, Closed
<1>2. CASE WorkerStep
  <2>1. ASSUME NEW t \in Tasks, Claim(t) PROVE Rows /\ SavedFirst'
    BY <1>0, <2>1, RowStep DEF Claim, SavedFirst
  <2>2. CASE QuietStep
    <3>1. UNCHANGED storeVars /\ pc' # "event"
      BY <2>2, QuietKeepsStore
    <3> QED
      BY <1>1, <3>1 DEF NewsInv, SavedFirst
  <2>3. CASE NoteRunning
    BY <1>0, <1>a, <2>3, RowStep DEF NoteRunning, Executing, NewsInv, SavedFirst
  <2>4. ASSUME NEW s \in Sections, EmitSection(s) PROVE Rows /\ SavedFirst'
    <3>1. /\ SaveSection(current, s) /\ current \in Tasks /\ status[current] = "running"
          /\ pending' = {s} /\ UNCHANGED current
      BY <1>a, <2>4 DEF EmitSection, Executing
    <3>2. Rows
      BY <1>0, <3>1, RowStep
    <3>3. sections'[current][s] = started[current] /\ UNCHANGED started
      BY <1>0, <3>1 DEF SaveSection, StoreTypeOK
    <3> QED
      BY <3>1, <3>2, <3>3 DEF NewsInv, SavedFirst
  <2>5. CASE EmitEvent
    <3>1. PICK s \in pending : AppendEvent(current, s)
      BY <2>5 DEF EmitEvent
    <3>2. s \in Sections /\ current \in Tasks /\ status[current] = "running"
          /\ sections[current][s] = started[current] /\ pc' = "run"
      BY <1>0, <1>a, <2>5 DEF EmitEvent, Executing, WorkerTypeOK, SavedFirst
    <3> QED
      BY <1>0, <3>1, <3>2, RowStep DEF NewsInv, SavedFirst
  <2>6. CASE FinishTask
    <3>1. current \in Tasks /\ found \in Nat /\ pc' # "event"
      BY <1>0, <1>a, <2>6 DEF FinishTask, Executing, WorkerTypeOK, BackToLoop
    <3>2. CASE Finish(current, found)
      BY <1>0, <3>1, <3>2, RowStep DEF NewsInv, SavedFirst
    <3>3. CASE UNCHANGED storeVars
      BY <1>1, <3>1, <3>3 DEF NewsInv, SavedFirst
    <3> QED
      BY <2>6, <3>2, <3>3 DEF FinishTask
  <2>7. CASE FailTask
    <3>1. current \in Tasks /\ pc' # "event"
      BY <1>a, <2>7 DEF FailTask, Executing, BackToLoop
    <3>2. CASE Fail(current)
      BY <1>0, <3>1, <3>2, RowStep DEF NewsInv, SavedFirst
    <3>3. CASE UNCHANGED storeVars
      BY <1>1, <3>1, <3>3 DEF NewsInv, SavedFirst
    <3> QED
      BY <2>7, <3>2, <3>3 DEF FailTask
  <2> QED
    BY <1>2, <2>1, <2>2, <2>3, <2>4, <2>5, <2>6, <2>7 DEF WorkerStep, QuietStep, NewsInv
<1>3. ASSUME NEW c \in Clients, HandlerStep(c) \/ ClientStep(c) PROVE NewsInv'
  <2>1. UNCHANGED <<pc, current, pending>>
    BY <1>3, RequestKeeps DEF inside, workerVars, runVars
  <2>2. ASSUME NEW t \in Tasks, Insert(c, t) PROVE Rows
    BY <1>0, <2>2, RowStep DEF Insert, RequestTypeOK
  <2>3. ASSUME Requeue(c) PROVE Rows
    <3>1. request[c].task \in Tasks
      BY <1>0, <2>3 DEF Requeue, Serve, RequestTypeOK
    <3> QED
      BY <1>0, <1>1, <2>3, <3>1, RowStep DEF Requeue, NewsInv
  <2>4. ASSUME DeleteRow(c) PROVE Rows
    <3>1. request[c].task \in Tasks
      BY <1>0, <2>4 DEF DeleteRow, Serve, RequestTypeOK
    <3> QED
      BY <1>0, <1>1, <2>4, <3>1, RowStep DEF DeleteRow, NewsInv
  <2>5. Rows
    BY <1>1, <1>3, <2>2, <2>3, <2>4, RequestKeeps, QuietRequestKeepsStore DEF NewsInv
  <2>6. SavedFirst'
    <3>1. SUFFICES ASSUME pc = "event"
                   PROVE  sections'[current] = sections[current] /\ started'[current] = started[current]
      BY <1>0, <2>1 DEF SavedFirst
    <3>2. current \in Tasks /\ status[current] = "running"
      BY <1>a, <3>1 DEF Executing
    <3>3. ASSUME NEW t \in Tasks, DeleteTask(t)
          PROVE  sections'[current] = sections[current] /\ started'[current] = started[current]
      BY <1>0, <3>2, <3>3 DEF DeleteTask, MayDelete, StoreTypeOK
    <3>4. UNCHANGED <<sections, started>> \/ \E t \in Tasks : DeleteTask(t)
      <4>1. request[c].at = "delete" => request[c].task \in Tasks
        BY <1>0 DEF RequestTypeOK
      <4>2. CASE DeleteRow(c)
        BY <4>1, <4>2 DEF DeleteRow, Serve, storeVars
      <4>3. CASE ~DeleteRow(c)
        BY <1>3, <4>3, RequestKeeps, QuietRequestKeepsStore
           DEF Insert, CreateTask, Requeue, RequeueInterrupted, storeVars
      <4> QED
        BY <4>2, <4>3
    <3> QED
      BY <3>3, <3>4
  <2> QED
    BY <2>5, <2>6 DEF NewsInv
<1>4. CASE Start
  <2>1. pc' # "event" /\ InterruptRunning
    BY <1>4 DEF Start
  <2>2. ASSUME NEW t \in Tasks PROVE RowSound(t)'
    <3>1. CASE t \in Running
      <4>1. /\ log'[t] = Append(log[t], "interrupted") /\ status'[t] = "interrupted"
            /\ UNCHANGED <<sections, started>> /\ log[t] \in Seq(Kinds)
        BY <1>0, <2>1, <3>1 DEF InterruptRunning, InterruptNotes, StoreTypeOK
      <4>2. Readable(log'[t], sections[t], started[t])
        BY <1>0, <4>1, NoticeIsReadable DEF RowSound, Notices, Terminal
      <4> QED
        BY <4>1, <4>2 DEF RowSound
    <3>2. CASE t \notin Running
      <4>1. /\ log'[t] = log[t] /\ status'[t] = status[t]
            /\ UNCHANGED <<sections, started>>
        BY <1>0, <2>1, <3>2 DEF InterruptRunning, InterruptNotes, StoreTypeOK
      <4> QED
        BY <1>0, <4>1 DEF RowSound, Readable, Closed
    <3> QED
      BY <3>1, <3>2
  <2> QED
    BY <2>1, <2>2 DEF NewsInv, SavedFirst
<1>5. CASE StoreRaises \/ Stop \/ Exit \/ UNCHANGED vars
  <2>1. UNCHANGED storeVars /\ (pc' # "event" \/ UNCHANGED <<pc, current, pending>>)
    BY <1>5 DEF StoreRaises, Outcome, Stop, Exit, vars, workerVars, runVars, looking
  <2> QED
    BY <1>0, <1>1, <2>1 DEF NewsInv, SavedFirst, storeVars
<1> QED
  BY <1>2, <1>3, <1>4, <1>5 DEF Next

(* Whatever a client is told of is there to be read, and is the text of the  *)
(* run that told it, through crashes, resumes and database errors.           *)
THEOREM NewsCanBeRead == Spec => []NewsIsReadable
<1>1. NewsInv => NewsIsReadable
  BY DEF NewsInv, RowSound, Readable, NewsIsReadable
<1> QED
  BY <1>1, NewsInit, NewsStep, Invariance, PTL DEF Spec

-----------------------------------------------------------------------------
(* A run makes the directory of the task it executes only, and that task's   *)
(* row is there as long as it is executed.                                   *)
THEOREM ReportsOfTheDeletedStayGone == Spec => ReportsStayGone
<1> DEFINE Stays == \A t \in Tasks : status[t] = "deleted" /\ ~reports[t] => ~reports'[t]
<1>1. ASSUME IInv, [Next]_vars PROVE [Stays]_vars
  <2>0. /\ StoreTypeOK /\ WorkerTypeOK /\ RequestTypeOK /\ ProcessTypeOK /\ RunningIsExecuted
    BY <1>1 DEF IInv, TypeOK
  <2>1. CASE UNCHANGED reports
    BY <2>1
  <2>2. CASE WorkerStep /\ ~UNCHANGED reports
    <3>1. reports' = [reports EXCEPT ![current] = TRUE] /\ pc \in Executing
      BY <2>2, WorkerKeeps DEF MakeReports, Executing
    <3>2. current \in Tasks /\ status[current] = "running"
      BY <2>0, <3>1 DEF WorkerTypeOK, RunningIsExecuted, Running
    <3> QED
      BY <2>0, <3>1, <3>2 DEF ProcessTypeOK
  <2>3. ASSUME NEW c \in Clients, HandlerStep(c) \/ ClientStep(c), ~UNCHANGED reports PROVE Stays
    <3>1. reports' = [reports EXCEPT ![request[c].task] = FALSE]
      BY <2>3, RequestKeeps DEF RemoveReports
    <3> QED
      BY <2>0, <3>1 DEF ProcessTypeOK
  <2>4. CASE StoreRaises \/ Stop \/ Exit \/ Start \/ UNCHANGED vars
    BY <2>1, <2>4 DEF StoreRaises, Stop, Exit, Start, vars, looking
  <2> QED
    BY <1>1, <2>1, <2>2, <2>3, <2>4 DEF Next
<1> QED
  BY <1>1, Invariance, PTL DEF Spec, ReportsStayGone
=============================================================================
