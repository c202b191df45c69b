----------------------------- MODULE TaskStore -----------------------------
(***************************************************************************)
(* web/store.py: the SQLite file that outlives the web process.  Every     *)
(* write method runs in one BEGIN IMMEDIATE transaction, so each of them   *)
(* is one atomic action here; the order in which threads call them belongs *)
(* to TaskQueue.                                                           *)
(*                                                                         *)
(* Data abstraction.  A section text is the number of the run that wrote   *)
(* it (0: no row).  A section event is its section; any other event is its *)
(* kind.  Event ids only grow (AUTOINCREMENT), so within one task the id   *)
(* order is the order of the sequence log[t].  A "deleted" row is kept     *)
(* apart from an "absent" one because a uuid4 is never drawn twice.        *)
(***************************************************************************)
EXTENDS Naturals, Sequences

CONSTANTS Tasks,      \* task ids
          Sections,   \* report sections
          Decision    \* the section that holds the final decision

Terminal == {"completed", "failed", "interrupted"}
Notices  == {"queued", "running"} \cup Terminal
Statuses == {"absent", "deleted"} \cup Notices
Kinds    == Notices \cup Sections

ASSUME SectionAssumption == Decision \in Sections /\ Sections \cap Notices = {}

VARIABLES status,     \* tasks.status
          resume,     \* tasks.resume_requested
          createdAt,  \* tasks.created_at
          started,    \* how often the task was claimed: stands for started_at
          sections,   \* the sections table
          decision,   \* tasks.decision, set with tasks.rating
          log         \* the events table, per task, in id order

storeVars == <<status, resume, createdAt, started, sections, decision, log>>

NoSections == [s \in Sections |-> 0]

StoreTypeOK ==
    /\ status    \in [Tasks -> Statuses]
    /\ resume    \in [Tasks -> BOOLEAN]
    /\ createdAt \in [Tasks -> Nat]
    /\ started   \in [Tasks -> Nat]
    /\ sections  \in [Tasks -> [Sections -> Nat]]
    /\ decision  \in [Tasks -> Nat]
    /\ log       \in [Tasks -> Seq(Kinds)]

StoreInit ==
    /\ status    = [t \in Tasks |-> "absent"]
    /\ resume    = [t \in Tasks |-> FALSE]
    /\ createdAt = [t \in Tasks |-> 0]
    /\ started   = [t \in Tasks |-> 0]
    /\ sections  = [t \in Tasks |-> NoSections]
    /\ decision  = [t \in Tasks |-> 0]
    /\ log       = [t \in Tasks |-> <<>>]

Exists(t) == status[t] \in Notices
Running   == {t \in Tasks : status[t] = "running"}

Note(t, kind) == log' = [log EXCEPT ![t] = Append(@, kind)]

(* The INSERT of create_task; now was read before the transaction began. *)
CreateTask(t, now) ==
    /\ status[t] = "absent"
    /\ status'    = [status EXCEPT ![t] = "queued"]
    /\ createdAt' = [createdAt EXCEPT ![t] = now]
    /\ UNCHANGED <<resume, started, sections, decision, log>>

(* created_at decides; equal stamps fall back to the order of insertion, an *)
(* order that distinct stamps produce as well.                              *)
Oldest(t) ==
    /\ status[t] = "queued"
    /\ \A u \in Tasks : status[u] = "queued" => createdAt[t] <= createdAt[u]

MayClaim(t) == Running = {} /\ Oldest(t)

ClaimNext(t) ==
    /\ MayClaim(t)
    /\ status'  = [status EXCEPT ![t] = "running"]
    /\ started' = [started EXCEPT ![t] = @ + 1]
    /\ UNCHANGED <<resume, createdAt, sections, decision, log>>

(* The foreign key refuses an event or a section whose row is gone. *)
AppendEvent(t, kind) ==
    /\ Exists(t)
    /\ Note(t, kind)
    /\ UNCHANGED <<status, resume, createdAt, started, sections, decision>>

SaveSection(t, s) ==
    /\ Exists(t)
    /\ sections' = [sections EXCEPT ![t][s] = started[t]]
    /\ UNCHANGED <<status, resume, createdAt, started, decision, log>>

MayFinish(t, text) ==
    /\ status[t] = "running"
    /\ text # 0
    /\ sections[t][Decision] = text

Finish(t, text) ==
    /\ MayFinish(t, text)
    /\ status'   = [status EXCEPT ![t] = "completed"]
    /\ decision' = [decision EXCEPT ![t] = text]
    /\ Note(t, "completed")
    /\ UNCHANGED <<resume, createdAt, started, sections>>

Fail(t) ==
    /\ status[t] = "running"
    /\ status' = [status EXCEPT ![t] = "failed"]
    /\ Note(t, "failed")
    /\ UNCHANGED <<resume, createdAt, started, sections, decision>>

MayRequeue_AnyEnded(t) == status[t] \in Terminal
MayRequeue(t) == status[t] = "interrupted"

(* The resume flag is set here and never reset. *)
RequeueInterrupted(t) ==
    /\ MayRequeue(t)
    /\ status' = [status EXCEPT ![t] = "queued"]
    /\ resume' = [resume EXCEPT ![t] = TRUE]
    /\ Note(t, "queued")
    /\ UNCHANGED <<createdAt, started, sections, decision>>

InterruptNotes ==
    [t \in Tasks |-> IF t \in Running THEN Append(log[t], "interrupted") ELSE log[t]]

InterruptRunning_Skipped == UNCHANGED storeVars
InterruptRunning ==
    /\ status' = [t \in Tasks |-> IF t \in Running THEN "interrupted" ELSE status[t]]
    /\ log'    = InterruptNotes
    /\ UNCHANGED <<resume, createdAt, started, sections, decision>>

MayDelete_AnyStatus(t) == Exists(t)
MayDelete(t) == Exists(t) /\ status[t] # "running"

(* The row goes, and with it its events and sections (ON DELETE CASCADE). *)
DeleteTask(t) ==
    /\ MayDelete(t)
    /\ status'    = [status EXCEPT ![t] = "deleted"]
    /\ resume'    = [resume EXCEPT ![t] = FALSE]
    /\ createdAt' = [createdAt EXCEPT ![t] = 0]
    /\ started'   = [started EXCEPT ![t] = 0]
    /\ sections'  = [sections EXCEPT ![t] = NoSections]
    /\ decision'  = [decision EXCEPT ![t] = 0]
    /\ log'       = [log EXCEPT ![t] = <<>>]
=============================================================================
