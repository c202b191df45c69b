------------------------- MODULE CheckpointBinding -------------------------
(***************************************************************************)
(* web/runner.py and the checkpoint store it drives.  A LangGraph thread   *)
(* is named by ticker, date and graph shape, not by task, so all tasks of  *)
(* one such combination share one checkpoint.  A tag file, an HMAC over    *)
(* task, thread and credentials, says whose it is; resume is allowed only  *)
(* when the tag matches.                                                   *)
(*                                                                         *)
(* The module follows one shared thread: threads have separate rows and    *)
(* tags, and share only the HMAC key file.  Runs are serialized by the     *)
(* process-wide lock _RUN_LOCK, so there is at most one; a crash may come  *)
(* between any two of its steps, and the credentials in the settings may   *)
(* change at any time.  The queue around it is reduced to task statuses.   *)
(***************************************************************************)
EXTENDS Naturals

CONSTANTS Tasks,          \* tasks that share the thread
          Creds,          \* credentials of their provider
          None,           \* no checkpoint, no tag, no run
          ClearMayFail,   \* may SQLite raise OperationalError in clear_checkpoint?
          MaxCrashes,     \* bound: process exits
          MaxEdits        \* bound: changes of the credentials

Origins == [task : Tasks, cred : Creds]

ASSUME NoneAssumption == None \notin Origins /\ None \notin Tasks
ASSUME ClearAssumption == ClearMayFail \in BOOLEAN

VARIABLES status,      \* tasks.status; "ended" stands for completed and failed
          resume,      \* tasks.resume_requested
          enabled,     \* params["checkpoint_enabled"], fixed at creation
          creds,       \* the credentials the settings resolve to
          checkpoint,  \* whose state the thread's rows hold
          tag,         \* what the tag file was computed from
          key,         \* hmac.key: "absent", "torn" (created, not written), "whole"
          probed,      \* tasks for which a request saw can_resume succeed
          at,          \* the step of run() the worker stands at
          runner,      \* the task it runs
          used,        \* the credentials it resolved
          origin,      \* whose state the graph works on
          crashes, edits

taskVars == <<status, resume, enabled, probed>>
diskVars == <<checkpoint, tag, key>>
runVars  == <<at, runner, used, origin>>
vars == <<taskVars, diskVars, runVars, creds, crashes, edits>>

Places == {"idle", "check", "clear", "key", "write", "bind", "begin", "stream",
           "cleanup", "return"}

TypeOK ==
    /\ status \in [Tasks -> {"absent", "queued", "running", "interrupted", "ended", "deleted"}]
    /\ resume \in [Tasks -> BOOLEAN] /\ enabled \in [Tasks -> BOOLEAN]
    /\ creds \in Creds /\ probed \in SUBSET Tasks
    /\ checkpoint \in Origins \cup {None} /\ tag \in Origins \cup {None}
    /\ key \in {"absent", "torn", "whole"}
    /\ at \in Places /\ runner \in Tasks \cup {None} /\ used \in Creds
    /\ origin \in Origins \cup {None}
    /\ at = "idle" <=> runner = None
    /\ at # "idle" => status[runner] = "running"
    /\ crashes \in Nat /\ edits \in Nat

Init ==
    /\ status = [t \in Tasks |-> "absent"]
    /\ resume = [t \in Tasks |-> FALSE]
    /\ enabled \in [Tasks -> BOOLEAN]
    /\ creds \in Creds /\ used = creds
    /\ checkpoint = None /\ tag = None /\ key = "absent"
    /\ probed = {}
    /\ at = "idle" /\ runner = None /\ origin = None
    /\ crashes = 0 /\ edits = 0

Mine == [task |-> runner, cred |-> used]   \* what the run would put in the tag

-----------------------------------------------------------------------------
(* The surroundings: requests, settings, queue. *)

Move(t, to) == status' = [status EXCEPT ![t] = to]

Create(t) ==
    /\ status[t] = "absent"
    /\ Move(t, "queued")
    /\ UNCHANGED <<resume, enabled, probed, diskVars, runVars, creds, crashes, edits>>

EditCredentials(c) ==
    /\ edits < MaxEdits /\ c # creds
    /\ creds' = c /\ edits' = edits + 1
    /\ UNCHANGED <<taskVars, diskVars, runVars, crashes>>

(* _credential_binding without create: a key that is not whole, a missing or *)
(* a foreign tag all answer no.                                              *)
Bound_AnyTask(t, c) == key = "whole" /\ tag # None /\ tag.cred = c
Bound(t, c) == key = "whole" /\ tag = [task |-> t, cred |-> c]

HasCheckpoint(t) == enabled[t] /\ checkpoint # None

CanResume(t) == at = "idle" /\ HasCheckpoint(t) /\ Bound(t, creds)

Probe(t) ==
    /\ status[t] = "interrupted" /\ CanResume(t)
    /\ probed' = probed \cup {t}
    /\ UNCHANGED <<status, resume, enabled, diskVars, runVars, creds, crashes, edits>>

(* The probe is old news by the time the row is requeued. *)
Requeue(t) ==
    /\ t \in probed
    /\ probed' = probed \ {t}
    /\ IF status[t] = "interrupted"
         THEN Move(t, "queued") /\ resume' = [resume EXCEPT ![t] = TRUE]
         ELSE UNCHANGED <<status, resume>>
    /\ UNCHANGED <<enabled, diskVars, runVars, creds, crashes, edits>>

(* Deleting a task touches neither checkpoint nor tag. *)
Swept_Checkpoint == checkpoint' = None
Swept == UNCHANGED checkpoint

Delete(t) ==
    /\ status[t] \in {"queued", "interrupted", "ended"}
    /\ Move(t, "deleted")
    /\ Swept
    /\ UNCHANGED <<resume, enabled, probed, tag, key, runVars, creds, crashes, edits>>

-----------------------------------------------------------------------------
(* GraphRunner.run, step by step. *)

(* The run lock is taken and the configuration resolved. *)
BeginRun(t) ==
    /\ at = "idle" /\ status[t] = "queued"
    /\ Move(t, "running")
    /\ at' = "check" /\ runner' = t /\ used' = creds
    /\ UNCHANGED <<resume, enabled, probed, diskVars, origin, creds, crashes, edits>>

Step(from, to) == at = from /\ at' = to /\ UNCHANGED <<runner, used>>
Elsewhere == <<taskVars, creds, crashes, edits>>

(* A resumed run is checked again and goes on; a fresh one with checkpoints  *)
(* enabled takes the thread over first.                                      *)
CheckResume ==
    /\ Step("check", "begin")
    /\ resume[runner] /\ HasCheckpoint(runner) /\ Bound(runner, used)
    /\ UNCHANGED <<origin, diskVars>> /\ UNCHANGED Elsewhere

FreshRun_KeepsCheckpoint ==
    /\ at = "check" /\ ~resume[runner]
    /\ Step("check", IF enabled[runner] THEN "key" ELSE "begin")
    /\ UNCHANGED <<origin, diskVars>> /\ UNCHANGED Elsewhere

FreshRun ==
    /\ at = "check" /\ ~resume[runner]
    /\ Step("check", IF enabled[runner] THEN "clear" ELSE "begin")
    /\ UNCHANGED <<origin, diskVars>> /\ UNCHANGED Elsewhere

(* clear_checkpoint swallows OperationalError. *)
Cleared == checkpoint' = None \/ (ClearMayFail /\ UNCHANGED checkpoint)

ClearStale ==
    /\ Step("clear", "key")
    /\ Cleared
    /\ UNCHANGED <<origin, tag, key>> /\ UNCHANGED Elsewhere

(* The key file is created empty (O_EXCL) and written afterwards. *)
CreateKey ==
    /\ key = "absent"
    /\ Step("key", "write")
    /\ key' = "torn"
    /\ UNCHANGED <<origin, checkpoint, tag>> /\ UNCHANGED Elsewhere

WriteKey ==
    /\ Step("write", "bind")
    /\ key' = "whole"
    /\ UNCHANGED <<origin, checkpoint, tag>> /\ UNCHANGED Elsewhere

ReuseKey ==
    /\ key # "absent"
    /\ Step("key", "bind")
    /\ UNCHANGED <<origin, diskVars>> /\ UNCHANGED Elsewhere

(* The tag is replaced atomically; a key that is not whole refuses. *)
Bind ==
    /\ key = "whole"
    /\ Step("bind", "begin")
    /\ tag' = Mine
    /\ UNCHANGED <<origin, checkpoint, key>> /\ UNCHANGED Elsewhere

(* begin_checkpoint and checkpoint_input: whatever checkpoint the thread has *)
(* is continued.                                                             *)
BeginGraph ==
    /\ Step("begin", "stream")
    /\ origin' = IF HasCheckpoint(runner) THEN checkpoint ELSE Mine
    /\ UNCHANGED diskVars /\ UNCHANGED Elsewhere

(* Every node of the graph leaves a checkpoint. *)
GraphStep ==
    /\ Step("stream", "stream")
    /\ enabled[runner] /\ checkpoint' = origin
    /\ UNCHANGED <<origin, tag, key>> /\ UNCHANGED Elsewhere

SaveOutcome ==
    /\ Step("stream", "cleanup")
    /\ UNCHANGED <<origin, diskVars>> /\ UNCHANGED Elsewhere

ClearOnSuccess ==
    /\ Step("cleanup", "return")
    /\ IF enabled[runner] THEN Cleared ELSE UNCHANGED checkpoint
    /\ UNCHANGED <<origin, tag, key>> /\ UNCHANGED Elsewhere

Leave_UnlockOnly == at' = "idle" /\ UNCHANGED <<runner, used, origin>>
Leave == at' = "idle" /\ runner' = None /\ origin' = None /\ UNCHANGED used

(* finish or fail: any step may raise, and leaves disk as it is. *)
EndRun ==
    /\ at # "idle"
    /\ Move(runner, "ended") /\ Leave
    /\ UNCHANGED <<resume, enabled, probed, diskVars, creds, crashes, edits>>

-----------------------------------------------------------------------------
(* Death and restart of the process: the lock and all requests are gone, the *)
(* run's task is interrupted.                                                *)
Restart ==
    /\ crashes < MaxCrashes
    /\ crashes' = crashes + 1
    /\ status' = [t \in Tasks |-> IF t = runner THEN "interrupted" ELSE status[t]]
    /\ probed' = {} /\ Leave
    /\ UNCHANGED <<resume, enabled, diskVars, creds, edits>>

RunStep ==
    \/ CheckResume \/ FreshRun \/ ClearStale \/ CreateKey \/ WriteKey \/ ReuseKey
    \/ Bind \/ BeginGraph \/ GraphStep \/ SaveOutcome \/ ClearOnSuccess \/ EndRun

Next ==
    \/ \E t \in Tasks : Create(t) \/ Probe(t) \/ Requeue(t) \/ Delete(t) \/ BeginRun(t)
    \/ \E c \in Creds : EditCredentials(c)
    \/ RunStep
    \/ Restart

Spec == Init /\ [][Next]_vars

-----------------------------------------------------------------------------
(* A run works on state that its own task began, under the credentials that  *)
(* state was begun with, however tasks that share the thread are rerun,      *)
(* interrupted and resumed (runner.py:60-98, 131-174).                       *)
OwnStateOnly == at = "stream" => origin = Mine

(* The tag never vouches for a checkpoint that another task, or other        *)
(* credentials, left in the thread: not between clearing and binding, and    *)
(* not after a crash there (runner.py:164-174).                              *)
TagTellsOwner == checkpoint # None => tag = checkpoint

Resumable(t) == status[t] = "interrupted" /\ HasCheckpoint(t) /\ Bound(t, creds)

(* An interrupted task that can be resumed stays so, through crashes,        *)
(* deletions and runs without checkpoints, until it is resumed or deleted,   *)
(* the credentials change, or a fresh run takes the thread                   *)
(* (runner.py:100-114, 166-174, api.py:280-292).                             *)
ResumeIsKept ==
    [][\A t \in Tasks : Resumable(t) /\ ~Resumable(t)' =>
          \/ status'[t] # "interrupted"
          \/ creds' # creds
          \/ at = "clear" /\ enabled[runner] /\ ~resume[runner]]_vars
=============================================================================
