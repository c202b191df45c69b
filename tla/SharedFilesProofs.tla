------------------------- MODULE SharedFilesProofs -------------------------
(***************************************************************************)
(* What processes share in files and tags, for every value of the          *)
(* constants: a run continues only its own checkpoint, learns nothing from *)
(* after the day it is about, loses no decision while it is alone, and     *)
(* local-stable stays a tested image, whatever commands run side by side.  *)
(***************************************************************************)
EXTENDS MCSharedFiles, FiniteSetTheorems, TLAPS

-----------------------------------------------------------------------------
(* The checkpoints: a run continues only what is its own, provided that      *)
(* SQLite does not refuse to clear a checkpoint (clear_checkpoint hides that *)
(* refusal).                                                                 *)

TakingOver == {"clear", "key", "write", "bind"}
Working    == {"begin", "stream", "cleanup", "return"}

(* OwnStateOnly needs to know what the thread holds when the graph begins:   *)
(* nothing, or what the run's own tag vouches for.  That follows from the    *)
(* order of run(): clear, then bind, then begin.                             *)
Ownership ==
    /\ at \in TakingOver => enabled[runner]
    /\ at \in TakingOver \ {"clear"} => checkpoint = None
    /\ at \in Working /\ enabled[runner] => tag = Mine

IInv == TypeOK /\ TagTellsOwner /\ Ownership /\ OwnStateOnly

LEMMA MineIsOrigin == TypeOK /\ at # "idle" => Mine \in Origins /\ Mine # None
BY NoneAssumption DEF TypeOK, Mine, Origins

LEMMA InitIInv == Init => IInv
BY DEF Init, IInv, TypeOK, Places, TagTellsOwner, Ownership, OwnStateOnly, TakingOver, Working

-----------------------------------------------------------------------------
(* Types, action by action. *)
LEMMA SurroundingsTypes ==
    ASSUME TypeOK,
           \/ \E t \in Tasks : Create(t) \/ Probe(t) \/ Requeue(t) \/ Delete(t)
           \/ \E c \in Creds : EditCredentials(c)
    PROVE  TypeOK' /\ UNCHANGED runVars /\ UNCHANGED <<checkpoint, tag>> /\ UNCHANGED enabled
<1> USE DEF TypeOK, Move, taskVars, diskVars, runVars
<1>1. ASSUME NEW t \in Tasks, Create(t)
      PROVE  TypeOK' /\ UNCHANGED runVars /\ UNCHANGED <<checkpoint, tag>> /\ UNCHANGED enabled
  BY <1>1 DEF Create
<1>2. ASSUME NEW t \in Tasks, Probe(t)
      PROVE  TypeOK' /\ UNCHANGED runVars /\ UNCHANGED <<checkpoint, tag>> /\ UNCHANGED enabled
  BY <1>2 DEF Probe
<1>3. ASSUME NEW t \in Tasks, Requeue(t)
      PROVE  TypeOK' /\ UNCHANGED runVars /\ UNCHANGED <<checkpoint, tag>> /\ UNCHANGED enabled
  BY <1>3 DEF Requeue
<1>4. ASSUME NEW t \in Tasks, Delete(t)
      PROVE  TypeOK' /\ UNCHANGED runVars /\ UNCHANGED <<checkpoint, tag>> /\ UNCHANGED enabled
  BY <1>4 DEF Delete, Swept
<1>5. ASSUME NEW c \in Creds, EditCredentials(c)
      PROVE  TypeOK' /\ UNCHANGED runVars /\ UNCHANGED <<checkpoint, tag>> /\ UNCHANGED enabled
  BY <1>5 DEF EditCredentials
<1> QED
  BY <1>1, <1>2, <1>3, <1>4, <1>5

LEMMA RunTypes ==
    ASSUME TypeOK, (\E t \in Tasks : BeginRun(t)) \/ RunStep
    PROVE  TypeOK'
<1> USE DEF TypeOK, Places, Move, Step, Elsewhere, taskVars, diskVars
<1>1. ASSUME NEW t \in Tasks, BeginRun(t) PROVE TypeOK'
  BY <1>1, NoneAssumption DEF BeginRun
<1>2. CASE CheckResume
  BY <1>2 DEF CheckResume
<1>3. CASE FreshRun
  BY <1>3 DEF FreshRun
<1>4. CASE ClearStale
  BY <1>4 DEF ClearStale, Cleared
<1>5. CASE CreateKey
  BY <1>5 DEF CreateKey
<1>6. CASE WriteKey
  BY <1>6 DEF WriteKey
<1>7. CASE ReuseKey
  BY <1>7 DEF ReuseKey
<1>8. CASE Bind
  BY <1>8, MineIsOrigin DEF Bind
<1>9. CASE BeginGraph
  BY <1>9, MineIsOrigin DEF BeginGraph
<1>10. CASE GraphStep
  BY <1>10 DEF GraphStep
<1>11. CASE SaveOutcome
  BY <1>11 DEF SaveOutcome
<1>12. CASE ClearOnSuccess
  BY <1>12 DEF ClearOnSuccess, Cleared
<1>13. CASE EndRun
  BY <1>13 DEF EndRun, Leave
<1> QED
  BY <1>1, <1>2, <1>3, <1>4, <1>5, <1>6, <1>7, <1>8, <1>9, <1>10, <1>11, <1>12, <1>13
     DEF RunStep

LEMMA RestartTypes == TypeOK /\ Restart => TypeOK'
<1> SUFFICES ASSUME TypeOK, Restart PROVE TypeOK'
  OBVIOUS
<1>1. status' \in [Tasks -> {"absent", "queued", "running", "interrupted", "ended", "deleted"}]
  BY DEF Restart, TypeOK
<1> QED
  BY <1>1 DEF Restart, Leave, TypeOK, Places, diskVars

-----------------------------------------------------------------------------
(* Ownership, action by action. *)
LEMMA RunOwnership ==
    ASSUME ~ClearMayFail, IInv, (\E t \in Tasks : BeginRun(t)) \/ RunStep
    PROVE  (TagTellsOwner /\ Ownership /\ OwnStateOnly)'
<1> DEFINE Goal == (TagTellsOwner /\ Ownership /\ OwnStateOnly)'
<1> USE DEF IInv, TypeOK, TagTellsOwner, Ownership, OwnStateOnly, TakingOver, Working,
            Mine, Step, Elsewhere, taskVars, diskVars
<1>1. ASSUME NEW t \in Tasks, BeginRun(t) PROVE Goal
  BY <1>1 DEF BeginRun
<1>2. CASE CheckResume
  BY <1>2 DEF CheckResume, Bound
<1>3. CASE FreshRun
  BY <1>3 DEF FreshRun
<1>4. CASE ClearStale
  BY <1>4 DEF ClearStale, Cleared
<1>5. CASE CreateKey
  BY <1>5 DEF CreateKey
<1>6. CASE WriteKey
  BY <1>6 DEF WriteKey
<1>7. CASE ReuseKey
  BY <1>7 DEF ReuseKey
<1>8. CASE Bind
  BY <1>8 DEF Bind
<1>9. CASE BeginGraph
  BY <1>9 DEF BeginGraph, HasCheckpoint
<1>10. CASE GraphStep
  BY <1>10 DEF GraphStep
<1>11. CASE SaveOutcome
  BY <1>11 DEF SaveOutcome
<1>12. CASE ClearOnSuccess
  BY <1>12 DEF ClearOnSuccess, Cleared
<1>13. CASE EndRun
  BY <1>13 DEF EndRun, Leave
<1> QED
  BY <1>1, <1>2, <1>3, <1>4, <1>5, <1>6, <1>7, <1>8, <1>9, <1>10, <1>11, <1>12, <1>13
     DEF RunStep

LEMMA NextIInv == ~ClearMayFail /\ IInv /\ [Next]_vars => IInv'
<1> SUFFICES ASSUME ~ClearMayFail, IInv, [Next]_vars PROVE IInv'
  OBVIOUS
<1>1. CASE \/ \E t \in Tasks : Create(t) \/ Probe(t) \/ Requeue(t) \/ Delete(t)
           \/ \E c \in Creds : EditCredentials(c)
  BY <1>1, SurroundingsTypes
     DEF IInv, TagTellsOwner, Ownership, OwnStateOnly, Mine, runVars
<1>2. CASE (\E t \in Tasks : BeginRun(t)) \/ RunStep
  BY <1>2, RunTypes, RunOwnership DEF IInv
<1>3. CASE Restart
  BY <1>3, RestartTypes
     DEF IInv, Restart, Leave, TagTellsOwner, Ownership, OwnStateOnly, TakingOver, Working, diskVars
<1>4. CASE UNCHANGED vars
  BY <1>4 DEF IInv, TypeOK, TagTellsOwner, Ownership, OwnStateOnly, Mine, vars,
     taskVars, diskVars, runVars
<1> QED
  BY <1>1, <1>2, <1>3, <1>4 DEF Next

LEMMA Invariance == ~ClearMayFail => (Spec => []IInv)
<1> SUFFICES ASSUME ~ClearMayFail PROVE Spec => []IInv
  OBVIOUS
<1>1. IInv /\ [Next]_vars => IInv'
  BY NextIInv
<1> QED
  BY <1>1, InitIInv, PTL DEF Spec

(* A run works only on state its own task began under the same credentials. *)
THEOREM RunsOwnState == ~ClearMayFail => (Spec => []OwnStateOnly)
<1> SUFFICES ASSUME ~ClearMayFail PROVE Spec => []OwnStateOnly
  OBVIOUS
<1>1. IInv => OwnStateOnly
  BY DEF IInv
<1> QED
  BY <1>1, Invariance, PTL

(* The tag file never vouches for somebody else's checkpoint. *)
THEOREM TagIsTruthful == ~ClearMayFail => (Spec => []TagTellsOwner)
<1> SUFFICES ASSUME ~ClearMayFail PROVE Spec => []TagTellsOwner
  OBVIOUS
<1>1. IInv => TagTellsOwner
  BY DEF IInv
<1> QED
  BY <1>1, Invariance, PTL

(* A fresh run is the only kind that clears, so what it takes from another   *)
(* task it takes at "clear".                                                 *)
FreshRunsClear == at = "clear" => ~resume[runner]

LEMMA NextFreshRunsClear == IInv /\ FreshRunsClear /\ [Next]_vars => FreshRunsClear'
<1> SUFFICES ASSUME IInv, FreshRunsClear, [Next]_vars PROVE FreshRunsClear'
  OBVIOUS
<1> USE DEF IInv, TypeOK, FreshRunsClear, Step, Elsewhere, taskVars, runVars, diskVars
<1>1. ASSUME NEW t \in Tasks, Create(t) \/ Probe(t) \/ Delete(t) PROVE FreshRunsClear'
  BY <1>1 DEF Create, Probe, Delete
<1>2. ASSUME NEW t \in Tasks, Requeue(t) PROVE FreshRunsClear'
  <2>1. at # "idle" /\ status[t] = "interrupted" => runner # t
    OBVIOUS
  <2>2. QED
    BY <1>2, <2>1 DEF Requeue
<1>3. ASSUME NEW t \in Tasks, BeginRun(t) PROVE FreshRunsClear'
  BY <1>3 DEF BeginRun
<1>4. CASE RunStep
  BY <1>4 DEF RunStep, CheckResume, FreshRun, ClearStale, CreateKey, WriteKey, ReuseKey,
     Bind, BeginGraph, GraphStep, SaveOutcome, ClearOnSuccess, EndRun, Leave
<1>5. CASE Restart
  BY <1>5 DEF Restart, Leave
<1>6. ASSUME NEW c \in Creds, EditCredentials(c) PROVE FreshRunsClear'
  BY <1>6 DEF EditCredentials
<1>7. CASE UNCHANGED vars
  BY <1>7 DEF vars
<1> QED
  BY <1>1, <1>2, <1>3, <1>4, <1>5, <1>6, <1>7 DEF Next

(* A run that has bound the thread cannot be looking at somebody else's      *)
(* resumable checkpoint: the tag is its own.                                 *)
LEMMA BoundRunsHaveTheTag ==
  ASSUME IInv, NEW t \in Tasks, Resumable(t), at \in Working, enabled[runner]
  PROVE  FALSE
<1>1. status[runner] = "running" /\ tag = Mine
  BY DEF IInv, TypeOK, Ownership, Working
<1>2. runner = t
  BY <1>1 DEF Resumable, Bound, Mine
<1>3. QED
  BY <1>1, <1>2 DEF Resumable

(* What a step may do to a task that can be resumed. *)
Relinquished(t) ==
    \/ status'[t] # "interrupted"
    \/ creds' # creds
    \/ at = "clear" /\ enabled[runner] /\ ~resume[runner]

LEMMA RunsKeepResumable ==
  ASSUME ~ClearMayFail, IInv, FreshRunsClear, RunStep, NEW t \in Tasks, Resumable(t)
  PROVE  Resumable(t)' \/ Relinquished(t)
<1>1. status[t] = "interrupted" /\ enabled[t] /\ checkpoint # None /\ key = "whole"
      /\ tag = [task |-> t, cred |-> creds]
  BY DEF Resumable, HasCheckpoint, Bound
<1> USE DEF Relinquished, Step, Elsewhere, taskVars, diskVars
<1>2. ASSUME UNCHANGED <<status, enabled, creds, checkpoint, key, tag>> PROVE Resumable(t)'
  BY <1>1, <1>2 DEF Resumable, HasCheckpoint, Bound
<1>3. CASE CheckResume \/ FreshRun \/ ReuseKey \/ BeginGraph \/ SaveOutcome
  BY <1>2, <1>3 DEF CheckResume, FreshRun, ReuseKey, BeginGraph, SaveOutcome
<1>4. CASE ClearStale
  BY <1>4 DEF ClearStale, FreshRunsClear, IInv, Ownership, TakingOver
<1>5. CASE CreateKey \/ WriteKey \/ Bind
  BY <1>1, <1>5 DEF CreateKey, WriteKey, Bind, IInv, Ownership, TakingOver
<1>6. CASE GraphStep
  BY <1>6, BoundRunsHaveTheTag DEF GraphStep, Working
<1>7. CASE ClearOnSuccess
  <2>1. CASE enabled[runner]
    BY <1>7, <2>1, BoundRunsHaveTheTag DEF ClearOnSuccess, Working
  <2>2. CASE ~enabled[runner]
    BY <1>2, <1>7, <2>2 DEF ClearOnSuccess
  <2>3. QED
    BY <2>1, <2>2
<1>8. CASE EndRun
  <2>1. runner # t
    BY <1>1, <1>8 DEF EndRun, IInv, TypeOK
  <2>2. status'[t] = status[t]
    BY <1>8, <2>1 DEF EndRun, Move, IInv, TypeOK
  <2>3. QED
    BY <1>1, <1>8, <2>2 DEF EndRun, Resumable, HasCheckpoint, Bound
<1> HIDE DEF Relinquished, Step, Elsewhere, taskVars, diskVars
<1> QED
  BY <1>3, <1>4, <1>5, <1>6, <1>7, <1>8 DEF RunStep

LEMMA StepsKeepResumable ==
  ASSUME ~ClearMayFail, IInv, FreshRunsClear, [Next]_vars, NEW t \in Tasks, Resumable(t)
  PROVE  Resumable(t)' \/ Relinquished(t)
<1>1. status[t] = "interrupted" /\ enabled[t] /\ checkpoint # None /\ key = "whole"
      /\ tag = [task |-> t, cred |-> creds]
  BY DEF Resumable, HasCheckpoint, Bound
<1>2. ASSUME UNCHANGED <<enabled, creds, checkpoint, key, tag>> PROVE Resumable(t)' \/ Relinquished(t)
  BY <1>1, <1>2 DEF Resumable, HasCheckpoint, Bound, Relinquished
<1>3. ASSUME NEW u \in Tasks, Create(u) \/ Probe(u) \/ Requeue(u) \/ Delete(u) \/ BeginRun(u)
      PROVE  Resumable(t)' \/ Relinquished(t)
  BY <1>2, <1>3 DEF Create, Probe, Requeue, Delete, Swept, BeginRun, diskVars
<1>4. ASSUME NEW c \in Creds, EditCredentials(c) PROVE Relinquished(t)
  BY <1>4 DEF EditCredentials, Relinquished
<1>5. CASE Restart \/ UNCHANGED vars
  BY <1>2, <1>5 DEF Restart, vars, taskVars, diskVars
<1> QED
  BY <1>3, <1>4, <1>5, RunsKeepResumable DEF Next

(* An interrupted task that can be resumed stays so, whatever crashes, is    *)
(* deleted or runs without checkpoints, until it is resumed or deleted, the  *)
(* credentials change, or a fresh run takes the thread: for any number of    *)
(* tasks on the thread (runner.py:100-114, 166-174, api.py:280-292).         *)
THEOREM ResumableStays == ~ClearMayFail => (Spec => ResumeIsKept)
<1> SUFFICES ASSUME ~ClearMayFail PROVE Spec => ResumeIsKept
  OBVIOUS
<1>1. Init => FreshRunsClear
  BY DEF Init, FreshRunsClear
<1>2. IInv /\ FreshRunsClear /\ [Next]_vars => FreshRunsClear'
  BY NextFreshRunsClear
<1>3. IInv /\ FreshRunsClear /\ [Next]_vars =>
        [\A t \in Tasks : Resumable(t) /\ ~Resumable(t)' =>
            \/ status'[t] # "interrupted"
            \/ creds' # creds
            \/ at = "clear" /\ enabled[runner] /\ ~resume[runner]]_vars
  BY StepsKeepResumable DEF Relinquished
<1>4. QED
  BY <1>1, <1>2, <1>3, Invariance, PTL DEF Spec, ResumeIsKept

-----------------------------------------------------------------------------
(* The decision memory: what a rewrite does to a log. *)

(* The place of the last block exists, so NextPlace follows it.              *)
HasLast(blocks) == blocks # {} => \E b \in blocks : \A c \in blocks : c.at <= b.at

KnownBy(blocks, today) == \A b \in blocks : b.known <= today

(* A log as it is found on day today. *)
SoundLog(blocks, today) ==
    blocks \in SUBSET Memory!Blocks /\ HasLast(blocks) /\ KnownBy(blocks, today)

LEMMA SameCardinality ==
  ASSUME NEW S
  PROVE  Memory!Cardinality(S) = Cardinality(S)
BY DEF Memory!Cardinality, Cardinality

LEMMA OutcomesAreSound ==
  ASSUME NEW blocks, NEW today \in Memory!Days, SoundLog(blocks, today),
         NEW D \in SUBSET Memory!Keys, NEW upd \in [D -> BOOLEAN],
         \A k \in D : k.date + Window <= today
  PROVE  SoundLog(Memory!WithOutcomes(blocks, upd), today)
<1> DEFINE after(b) == IF b.key \in DOMAIN upd /\ Memory!FirstPending(blocks, b)
                         THEN [b EXCEPT !.known = b.key.date + Window, !.final = upd[b.key]]
                         ELSE b
           new == Memory!WithOutcomes(blocks, upd)
<1>1. new = {after(b) : b \in blocks}
  BY DEF Memory!WithOutcomes
<1>2. ASSUME NEW b \in blocks
      PROVE  after(b) \in Memory!Blocks /\ after(b).at = b.at /\ after(b).known <= today
  <2>1. b \in Memory!Blocks /\ b.known <= today
    BY DEF SoundLog, KnownBy
  <2>2. CASE b.key \in DOMAIN upd /\ Memory!FirstPending(blocks, b)
    <3>1. b.key \in D /\ upd[b.key] \in BOOLEAN /\ b.key.date \in Nat /\ Window \in Nat
      BY <2>2, MemoryBounds DEF Memory!Keys, Memory!Days, Memory!Bounds
    <3>2. b.key.date + Window \in Nat /\ b.key.date + Window <= today
      BY <3>1
    <3>3. QED
      BY <2>1, <2>2, <3>1, <3>2 DEF Memory!Blocks
  <2>3. QED
    BY <2>1, <2>2
<1>3. new \in SUBSET Memory!Blocks /\ KnownBy(new, today)
  BY <1>1, <1>2 DEF KnownBy
<1>4. HasLast(new)
  <2>1. SUFFICES ASSUME new # {} PROVE \E b \in new : \A c \in new : c.at <= b.at
    BY DEF HasLast
  <2>2. PICK b \in blocks : \A c \in blocks : c.at <= b.at
    BY <1>1, <2>1 DEF SoundLog, HasLast
  <2>3. \A c \in new : c.at <= after(b).at
    BY <1>1, <1>2, <2>2
  <2>4. QED
    BY <1>1, <2>3
<1>5. QED
  BY <1>3, <1>4 DEF SoundLog

LEMMA RotationIsSound ==
  ASSUME NEW blocks, NEW today, SoundLog(blocks, today)
  PROVE  SoundLog(Memory!Rotated(blocks), today)
<1> DEFINE new == Memory!Rotated(blocks)
<1>1. CASE MaxEntries = 0
  BY <1>1 DEF Memory!Rotated
<1>2. CASE MaxEntries # 0
  <2>1. MaxEntries \in Nat /\ 0 < MaxEntries
    BY <1>2, MemoryBounds DEF Memory!Bounds
  <2>2. new \subseteq blocks
    BY <1>2 DEF Memory!Rotated, Memory!Pending, Memory!Resolved
  <2>3. HasLast(new)
    <3>1. SUFFICES ASSUME blocks # {} PROVE \E b \in new : \A c \in new : c.at <= b.at
      BY <2>2 DEF HasLast
    <3>2. PICK b \in blocks : \A c \in blocks : c.at <= b.at
      BY <3>1 DEF SoundLog, HasLast
    <3>3. b \in new
      <4>1. CASE b.known = 0
        BY <4>1, <1>2 DEF Memory!Rotated, Memory!Pending
      <4>2. CASE b.known # 0
        <5>1. \A c \in blocks : c.at \in Nat
          BY DEF SoundLog, Memory!Blocks
        <5>2. {c \in Memory!Resolved(blocks) : c.at > b.at} = {}
          BY <3>2, <5>1 DEF Memory!Resolved
        <5>3. Memory!Cardinality({c \in Memory!Resolved(blocks) : c.at > b.at}) < MaxEntries
          BY <5>2, <2>1, FS_EmptySet, SameCardinality
        <5>4. QED
          BY <4>2, <5>3, <1>2 DEF Memory!Rotated, Memory!Resolved
      <4>3. QED
        BY <4>1, <4>2
    <3>4. QED
      BY <3>2, <3>3, <2>2
  <2>4. QED
    BY <2>2, <2>3 DEF SoundLog, KnownBy
<1>3. QED
  BY <1>1, <1>2

LEMMA NextPlaceIsLast ==
  ASSUME NEW blocks \in SUBSET Memory!Blocks, HasLast(blocks)
  PROVE  Memory!NextPlace(blocks) \in Nat /\ \A b \in blocks : b.at <= Memory!NextPlace(blocks)
<1>1. CASE blocks = {}
  BY <1>1 DEF Memory!NextPlace
<1>2. CASE blocks # {}
  <2>1. \E n \in {b.at : b \in blocks} : \A b \in blocks : b.at <= n
    BY <1>2 DEF HasLast
  <2> DEFINE m == CHOOSE n \in {b.at : b \in blocks} : \A b \in blocks : b.at <= n
  <2>2. m \in {b.at : b \in blocks} /\ \A b \in blocks : b.at <= m
    BY <2>1
  <2>3. m \in Nat /\ \A b \in blocks : b.at \in Nat
    BY <2>2 DEF Memory!Blocks
  <2> HIDE DEF m
  <2>4. Memory!NextPlace(blocks) = 1 + m
    BY <1>2 DEF Memory!NextPlace, m
  <2>5. QED
    BY <2>2, <2>3, <2>4
<1>3. QED
  BY <1>1, <1>2

-----------------------------------------------------------------------------
(* The decision memory: no hindsight, for any number of processes. *)

(* What is learnt was known on the day it was learnt, in the file, in the    *)
(* file beside it and in what a process has read, and a run is about a day   *)
(* that has come.                                                            *)
LogsAreSound ==
    /\ SoundLog(log, day) /\ (tmp # None => SoundLog(tmp, day))
    /\ \A p \in Procs : SoundLog(text[p], day)

OutcomesAreIn ==
    /\ DOMAIN updates = Procs
    /\ \A p \in Procs : \E D \in SUBSET Memory!Keys :
          updates[p] \in [D -> BOOLEAN] /\ \A k \in D : k.date + Window <= day

RunsAreDue == \A p \in Procs : place[p] # "idle" => run[p].date <= day

MemoryInv == Memory!TypeOK /\ LogsAreSound /\ OutcomesAreIn /\ RunsAreDue /\ Memory!NoHindsight

LEMMA NoLogIsSound == SoundLog({}, day)
BY DEF SoundLog, HasLast, KnownBy

LEMMA NoUpdatesAreIn ==
  \E D \in SUBSET Memory!Keys :
      Memory!NoUpdates \in [D -> BOOLEAN] /\ \A k \in D : k.date + Window <= day
<1>1. Memory!NoUpdates \in [{} -> BOOLEAN]
  BY DEF Memory!NoUpdates
<1>2. QED
  BY <1>1

LEMMA MemoryInit == Memory!Init => MemoryInv
<1> SUFFICES ASSUME Memory!Init PROVE MemoryInv
  OBVIOUS
<1> USE MemoryBounds DEF Memory!Bounds
<1>1. \A p \in Procs : updates[p] = Memory!NoUpdates /\ text[p] = {} /\ place[p] = "idle"
  BY DEF Memory!Init
<1>2. day = 1 /\ 1 \in Memory!Days
  BY DEF Memory!Init, Memory!Days
<1>3. \E k \in Memory!Keys : TRUE
  <2>1. PICK a \in Tickers : TRUE
    OBVIOUS
  <2>2. [ticker |-> a, date |-> 1] \in Memory!Keys
    BY <1>2 DEF Memory!Keys
  <2>3. QED
    BY <2>2
<1>4. run \in [Procs -> Memory!Keys]
  BY <1>3 DEF Memory!Init
<1>5. LogsAreSound
  BY <1>1, NoLogIsSound DEF Memory!Init, LogsAreSound
<1>6. OutcomesAreIn
  <2>1. DOMAIN updates = Procs
    BY DEF Memory!Init
  <2>2. QED
    BY <1>1, <2>1, NoUpdatesAreIn DEF OutcomesAreIn
<1>7. RunsAreDue /\ Memory!NoHindsight
  BY <1>1 DEF RunsAreDue, Memory!NoHindsight
<1>8. DOMAIN Memory!NoUpdates = {}
  BY DEF Memory!NoUpdates
<1>9. Memory!TypeOK
  <2>1. log \in SUBSET Memory!Blocks /\ tmp \in (SUBSET Memory!Blocks) \cup {None}
        /\ day \in Memory!Days /\ closed \in BOOLEAN /\ runs \in 0 .. MaxRuns
    <3>1. log = {} /\ tmp = None /\ closed = FALSE
      BY DEF Memory!Init
    <3>2. runs = 0 /\ MaxRuns \in Nat
      BY DEF Memory!Init
    <3>3. runs \in 0 .. MaxRuns
      BY <3>2
    <3>4. QED
      BY <1>2, <3>1, <3>3
  <2>2. place \in [Procs -> Memory!Places] /\ todo \in [Procs -> SUBSET Memory!Keys]
        /\ text \in [Procs -> SUBSET Memory!Blocks] /\ given \in [Procs -> SUBSET Memory!Lessons]
    BY DEF Memory!Init, Memory!Places
  <2>3. \A p \in Procs : DOMAIN updates[p] \subseteq Memory!Keys
    BY <1>1, <1>8
  <2>4. QED
    BY <1>4, <2>1, <2>2, <2>3 DEF Memory!TypeOK
<1>10. QED
  BY <1>5, <1>6, <1>7, <1>9 DEF MemoryInv

(* A day passes: what was known stays known. *)
LEMMA MemoryTick ==
  ASSUME MemoryInv, Memory!Tick
  PROVE  MemoryInv'
<1> USE DEF Memory!fileVars, Memory!local
<1>1. day \in Nat /\ day' \in Memory!Days /\ day' \in Nat /\ day <= day' /\ closed' \in BOOLEAN
  BY MemoryBounds DEF Memory!Tick, MemoryInv, Memory!TypeOK, Memory!Days, Memory!Bounds
<1>2. ASSUME NEW blocks, SoundLog(blocks, day) PROVE SoundLog(blocks, day')
  BY <1>1, <1>2 DEF SoundLog, KnownBy, Memory!Blocks
<1>3. LogsAreSound'
  BY <1>2 DEF MemoryInv, LogsAreSound, Memory!Tick
<1>4. OutcomesAreIn'
  <2>1. SUFFICES ASSUME NEW p \in Procs
                 PROVE  \E D \in SUBSET Memory!Keys :
                           updates[p] \in [D -> BOOLEAN] /\ \A k \in D : k.date + Window <= day'
    BY DEF MemoryInv, OutcomesAreIn, Memory!Tick
  <2>2. PICK D \in SUBSET Memory!Keys :
             updates[p] \in [D -> BOOLEAN] /\ \A k \in D : k.date + Window <= day
    BY DEF MemoryInv, OutcomesAreIn
  <2>3. \A k \in D : k.date + Window \in Nat
    BY MemoryBounds DEF Memory!Keys, Memory!Days, Memory!Bounds
  <2>4. QED
    BY <1>1, <2>2, <2>3
<1>5. RunsAreDue'
  BY <1>1 DEF MemoryInv, RunsAreDue, Memory!Tick, Memory!TypeOK, Memory!Keys, Memory!Days
<1>6. Memory!TypeOK' /\ Memory!NoHindsight'
  BY <1>1 DEF MemoryInv, Memory!TypeOK, Memory!NoHindsight, Memory!Tick
<1>7. QED
  BY <1>3, <1>4, <1>5, <1>6 DEF MemoryInv

(* A run's steps, until it replaces the file. *)
LEMMA LessonsWereKnown ==
  ASSUME MemoryInv, NEW p \in Procs, place[p] # "idle"
  PROVE  LET lessons == Memory!PastContext(run[p].ticker, Memory!AsOf(run[p].date))
         IN  lessons \subseteq Memory!Lessons /\ \A l \in lessons : l.known <= run[p].date
<1> DEFINE cutoff == Memory!AsOf(run[p].date)
<1>1. run[p] \in Memory!Keys /\ run[p].date \in Memory!Days /\ run[p].date \in Nat
      /\ day \in Nat /\ run[p].date <= day
  BY DEF MemoryInv, Memory!TypeOK, RunsAreDue, Memory!Keys, Memory!Days
<1>2. None # run[p].date
  BY <1>1, MemoryBounds DEF Memory!Bounds, Memory!Days
<1>3. ASSUME NEW b \in Memory!Resolved(log), cutoff = None \/ b.known <= cutoff
      PROVE  Memory!Lesson(b) \in Memory!Lessons /\ Memory!Lesson(b).known <= run[p].date
  <2>1. b \in Memory!Blocks /\ b.known <= day
    BY DEF Memory!Resolved, MemoryInv, LogsAreSound, SoundLog, KnownBy
  <2>2. b.known <= run[p].date
    BY <1>1, <1>2, <1>3, <2>1 DEF Memory!AsOf, Memory!Blocks
  <2>3. QED
    BY <2>1, <2>2 DEF Memory!Lesson, Memory!Lessons, Memory!Blocks
<1>4. QED
  BY <1>3 DEF Memory!PastContext, Memory!Latest

LEMMA MemoryRun ==
  ASSUME MemoryInv, NEW p \in Procs, Memory!RunStep(p)
  PROVE  MemoryInv'
<1> USE DEF Memory!fileVars, Memory!clock, Memory!At, Memory!Places
<1>1. day \in Memory!Days /\ day \in Nat
  BY DEF MemoryInv, Memory!TypeOK, Memory!Days
<1>2. ASSUME NEW k \in Memory!Keys, Memory!BeginRun(p, k) PROVE MemoryInv'
  <2>1. Memory!TypeOK'
    BY <1>2, MemoryBounds DEF MemoryInv, Memory!TypeOK, Memory!BeginRun, Memory!Bounds
  <2>2. LogsAreSound' /\ OutcomesAreIn'
    BY <1>2 DEF MemoryInv, LogsAreSound, OutcomesAreIn, Memory!BeginRun
  <2>3. RunsAreDue' /\ Memory!NoHindsight'
    BY <1>2 DEF MemoryInv, RunsAreDue, Memory!NoHindsight, Memory!BeginRun, Memory!TypeOK
  <2>4. QED
    BY <2>1, <2>2, <2>3 DEF MemoryInv
<1>3. CASE Memory!ReadPending(p)
  <2>1. {b.key : b \in {c \in Memory!Pending(log) : c.key.ticker = run[p].ticker}} \subseteq Memory!Keys
    BY DEF MemoryInv, Memory!TypeOK, Memory!Pending, Memory!Blocks
  <2>2. Memory!TypeOK'
    BY <1>3, <2>1 DEF MemoryInv, Memory!TypeOK, Memory!ReadPending
  <2>3. LogsAreSound' /\ OutcomesAreIn'
    BY <1>3 DEF MemoryInv, LogsAreSound, OutcomesAreIn, Memory!ReadPending
  <2>4. RunsAreDue' /\ Memory!NoHindsight'
    BY <1>3 DEF MemoryInv, RunsAreDue, Memory!NoHindsight, Memory!ReadPending, Memory!TypeOK
  <2>5. QED
    BY <2>2, <2>3, <2>4 DEF MemoryInv
<1>4. CASE Memory!Settle(p)
  <2>1. PICK done \in SUBSET {k \in todo[p] : Memory!Traded(k)} :
          /\ place[p] = "settle"
          /\ place' = [place EXCEPT ![p] = IF done = {} THEN "context" ELSE "reread"]
          /\ updates' = [updates EXCEPT ![p] = [k \in done |-> Memory!AtClose(k)]]
          /\ todo' = [todo EXCEPT ![p] = {}]
          /\ UNCHANGED <<log, tmp, day, closed, run, text, given, runs>>
    BY <1>4 DEF Memory!Settle
  <2>2. done \subseteq Memory!Keys /\ \A k \in done : k.date + Window <= day
    BY DEF Memory!Traded, MemoryInv, Memory!TypeOK
  <2>3. [k \in done |-> Memory!AtClose(k)] \in [done -> BOOLEAN]
    BY DEF Memory!AtClose, MemoryInv, Memory!TypeOK
  <2>4. \A q \in Procs : DOMAIN updates'[q] \subseteq Memory!Keys
    BY <2>1, <2>2 DEF MemoryInv, Memory!TypeOK
  <2>5. Memory!TypeOK'
    BY <2>1, <2>4 DEF MemoryInv, Memory!TypeOK
  <2>6. LogsAreSound'
    BY <2>1 DEF MemoryInv, LogsAreSound
  <2>7. OutcomesAreIn'
    <3>1. SUFFICES ASSUME NEW q \in Procs
                   PROVE  \E D \in SUBSET Memory!Keys :
                             updates'[q] \in [D -> BOOLEAN] /\ \A k \in D : k.date + Window <= day
      BY <2>1 DEF MemoryInv, OutcomesAreIn
    <3>2. CASE updates'[q] = updates[q]
      BY <3>2 DEF MemoryInv, OutcomesAreIn
    <3>3. CASE updates'[q] = [k \in done |-> Memory!AtClose(k)]
      BY <3>3, <2>2, <2>3
    <3>4. QED
      BY <2>1, <3>2, <3>3
  <2>8. RunsAreDue' /\ Memory!NoHindsight'
    BY <2>1 DEF MemoryInv, RunsAreDue, Memory!NoHindsight, Memory!TypeOK
  <2>9. QED
    BY <2>5, <2>6, <2>7, <2>8 DEF MemoryInv
<1>5. CASE Memory!Reread(p)
  <2>1. Memory!TypeOK'
    BY <1>5 DEF MemoryInv, Memory!TypeOK, Memory!Reread
  <2>2. LogsAreSound' /\ OutcomesAreIn'
    BY <1>5 DEF MemoryInv, LogsAreSound, OutcomesAreIn, Memory!Reread, Memory!TypeOK
  <2>3. RunsAreDue' /\ Memory!NoHindsight'
    BY <1>5 DEF MemoryInv, RunsAreDue, Memory!NoHindsight, Memory!Reread, Memory!TypeOK
  <2>4. QED
    BY <2>1, <2>2, <2>3 DEF MemoryInv
<1>6. CASE Memory!WriteTmp(p)
  <2>1. PICK D \in SUBSET Memory!Keys :
             updates[p] \in [D -> BOOLEAN] /\ \A k \in D : k.date + Window <= day
    BY DEF MemoryInv, OutcomesAreIn
  <2>2. SoundLog(text[p], day)
    BY DEF MemoryInv, LogsAreSound
  <2>3. SoundLog(tmp', day)
    BY <1>1, <1>6, <2>1, <2>2, OutcomesAreSound, RotationIsSound DEF Memory!WriteTmp
  <2>4. Memory!TypeOK'
    <3>1. DOMAIN Memory!NoUpdates = {}
      BY DEF Memory!NoUpdates
    <3>2. \A q \in Procs : DOMAIN updates'[q] \subseteq Memory!Keys
      BY <1>6, <3>1 DEF MemoryInv, Memory!TypeOK, Memory!WriteTmp
    <3>3. tmp' \in SUBSET Memory!Blocks
      BY <2>3 DEF SoundLog
    <3>4. QED
      BY <1>6, <3>2, <3>3 DEF MemoryInv, Memory!TypeOK, Memory!WriteTmp
  <2>5. LogsAreSound'
    BY <1>6, <2>3, NoLogIsSound DEF MemoryInv, LogsAreSound, Memory!WriteTmp
  <2>6. OutcomesAreIn'
    <3>1. ASSUME NEW q \in Procs
          PROVE  updates'[q] = updates[q] \/ updates'[q] = Memory!NoUpdates
      BY <1>6 DEF Memory!WriteTmp
    <3>2. day' = day
      BY <1>6 DEF Memory!WriteTmp
    <3>3. DOMAIN updates' = Procs
      BY <1>6 DEF Memory!WriteTmp, MemoryInv, OutcomesAreIn
    <3>4. QED
      BY <3>1, <3>2, <3>3, NoUpdatesAreIn DEF MemoryInv, OutcomesAreIn
  <2>7. RunsAreDue' /\ Memory!NoHindsight'
    BY <1>6 DEF MemoryInv, RunsAreDue, Memory!NoHindsight, Memory!WriteTmp, Memory!TypeOK
  <2>8. QED
    BY <2>4, <2>5, <2>6, <2>7 DEF MemoryInv
<1>7. CASE Memory!Replace(p)
  <2>1. Memory!TypeOK'
    BY <1>7 DEF MemoryInv, Memory!TypeOK, Memory!Replace
  <2>2. LogsAreSound' /\ OutcomesAreIn'
    BY <1>7 DEF MemoryInv, LogsAreSound, OutcomesAreIn, Memory!Replace
  <2>3. RunsAreDue' /\ Memory!NoHindsight'
    BY <1>7 DEF MemoryInv, RunsAreDue, Memory!NoHindsight, Memory!Replace, Memory!TypeOK
  <2>4. QED
    BY <2>1, <2>2, <2>3 DEF MemoryInv
<1>8. CASE Memory!DrawLessons(p)
  <2> DEFINE lessons == Memory!PastContext(run[p].ticker, Memory!AsOf(run[p].date))
  <2>1. lessons \subseteq Memory!Lessons /\ \A l \in lessons : l.known <= run[p].date
    BY <1>8, LessonsWereKnown DEF Memory!DrawLessons
  <2>2. given' = [given EXCEPT ![p] = lessons]
    BY <1>8 DEF Memory!DrawLessons
  <2> HIDE DEF lessons
  <2>3. Memory!TypeOK'
    BY <1>8, <2>1, <2>2 DEF MemoryInv, Memory!TypeOK, Memory!DrawLessons
  <2>4. LogsAreSound' /\ OutcomesAreIn'
    BY <1>8 DEF MemoryInv, LogsAreSound, OutcomesAreIn, Memory!DrawLessons
  <2>5. RunsAreDue'
    BY <1>8 DEF MemoryInv, RunsAreDue, Memory!DrawLessons, Memory!TypeOK
  <2>6. Memory!NoHindsight'
    BY <1>8, <2>1, <2>2 DEF MemoryInv, Memory!NoHindsight, Memory!DrawLessons, Memory!TypeOK
  <2>7. QED
    BY <2>3, <2>4, <2>5, <2>6 DEF MemoryInv
<1>9. CASE Memory!CheckStored(p) \/ Memory!Fail(p)
  <2>1. /\ place' = [place EXCEPT ![p] = place'[p]] /\ place'[p] \in {"idle", "append"}
        /\ place[p] # "idle" /\ Memory!Forget(p)
        /\ UNCHANGED <<log, tmp, day, closed, run, runs>>
    BY <1>9 DEF Memory!CheckStored, Memory!Fail, MemoryInv, Memory!TypeOK
  <2>2. \A q \in Procs : /\ updates'[q] = updates[q] \/ updates'[q] = Memory!NoUpdates
                         /\ text'[q] = text[q] \/ text'[q] = {}
    BY <2>1 DEF Memory!Forget, MemoryInv, Memory!TypeOK
  <2>3. DOMAIN Memory!NoUpdates = {}
    BY DEF Memory!NoUpdates
  <2>4. Memory!TypeOK'
    <3>1. \A q \in Procs : DOMAIN updates'[q] \subseteq Memory!Keys
      BY <2>2, <2>3 DEF MemoryInv, Memory!TypeOK
    <3>2. QED
      BY <2>1, <3>1 DEF MemoryInv, Memory!TypeOK, Memory!Forget
  <2>5. LogsAreSound'
    BY <2>1, <2>2, NoLogIsSound DEF MemoryInv, LogsAreSound
  <2>6. OutcomesAreIn'
    <3>1. DOMAIN updates' = Procs
      BY <2>1 DEF Memory!Forget, MemoryInv, OutcomesAreIn
    <3>2. QED
      BY <2>1, <2>2, <3>1, NoUpdatesAreIn DEF MemoryInv, OutcomesAreIn
  <2>7. RunsAreDue' /\ Memory!NoHindsight'
    BY <2>1 DEF MemoryInv, RunsAreDue, Memory!NoHindsight, Memory!TypeOK, Memory!Forget
  <2>8. QED
    BY <2>4, <2>5, <2>6, <2>7 DEF MemoryInv
<1>10. CASE Memory!AppendDecision(p)
  <2> DEFINE n == Memory!NextPlace(log)
             new == [at |-> n, key |-> run[p], known |-> 0, final |-> FALSE]
  <2>1. log' = log \cup {new}
    BY <1>10 DEF Memory!AppendDecision
  <2>2. n \in Nat /\ \A b \in log : b.at <= n
    BY NextPlaceIsLast DEF MemoryInv, LogsAreSound, SoundLog
  <2> HIDE DEF n
  <2>3. new \in Memory!Blocks /\ new.known <= day /\ new.at <= new.at
    BY <1>1, <2>2 DEF Memory!Blocks, MemoryInv, Memory!TypeOK
  <2>4. SoundLog(log', day)
    <3>1. SoundLog(log, day)
      BY DEF MemoryInv, LogsAreSound
    <3>2. \A c \in log' : c.at <= new.at
      BY <2>1, <2>2
    <3>3. HasLast(log')
      BY <2>1, <3>2 DEF HasLast
    <3>4. QED
      BY <2>1, <2>3, <3>1, <3>3 DEF SoundLog, KnownBy
  <2>5. Memory!TypeOK'
    BY <1>10, <2>4 DEF MemoryInv, Memory!TypeOK, Memory!AppendDecision, SoundLog
  <2>6. LogsAreSound' /\ OutcomesAreIn'
    BY <1>10, <2>4 DEF MemoryInv, LogsAreSound, OutcomesAreIn, Memory!AppendDecision
  <2>7. RunsAreDue' /\ Memory!NoHindsight'
    BY <1>10 DEF MemoryInv, RunsAreDue, Memory!NoHindsight, Memory!AppendDecision, Memory!TypeOK
  <2>8. QED
    BY <2>5, <2>6, <2>7 DEF MemoryInv
<1>11. QED
  BY <1>2, <1>3, <1>4, <1>5, <1>6, <1>7, <1>8, <1>9, <1>10 DEF Memory!RunStep

LEMMA MemoryNext == MemoryInv /\ [Memory!Next]_Memory!vars => MemoryInv'
<1>1. ASSUME MemoryInv, UNCHANGED Memory!vars PROVE MemoryInv'
  BY <1>1 DEF Memory!vars, Memory!fileVars, Memory!clock, Memory!local, MemoryInv, Memory!TypeOK,
     LogsAreSound, OutcomesAreIn, RunsAreDue, Memory!NoHindsight
<1>2. QED
  BY <1>1, MemoryTick, MemoryRun DEF Memory!Next

(* No prompt is given a lesson from after the day its run is about: for any  *)
(* number of processes, runs, days and caps (memory.py:70-107).              *)
THEOREM LessonsWereKnownThen == Memory!Spec => []NoHindsight
<1>1. Memory!Spec => []MemoryInv
  BY MemoryInit, MemoryNext, PTL DEF Memory!Spec
<1>2. MemoryInv => NoHindsight
  BY DEF MemoryInv, NoHindsight
<1>3. QED
  BY <1>1, <1>2, PTL

-----------------------------------------------------------------------------
(* The decision memory: with one process, it keeps every decision. *)

WaitingIn(blocks) == {b.key : b \in Memory!Pending(blocks)}
LearntIn(blocks)  == {b.key : b \in Memory!Resolved(blocks)}

OneEach(blocks) == \A b, c \in Memory!Pending(blocks) : b.key = c.key => b = c

(* What the promise lets a log turn into when the outcomes for D arrive.     *)
Learnt(old, new, D) ==
    /\ D # {} /\ D \subseteq WaitingIn(old)
    /\ \A d, e \in D : d.ticker = e.ticker
    /\ WaitingIn(new) = WaitingIn(old) \ D
    /\ LearntIn(new) \subseteq LearntIn(old) \cup D
    /\ MaxEntries = 0 => LearntIn(new) = LearntIn(old) \cup D

LEMMA RewriteLearns ==
  ASSUME NEW blocks \in SUBSET Memory!Blocks, OneEach(blocks),
         NEW D, D # {}, D \subseteq WaitingIn(blocks), \A d, e \in D : d.ticker = e.ticker,
         NEW upd \in [D -> BOOLEAN]
  PROVE  LET new == Memory!Rotated(Memory!WithOutcomes(blocks, upd))
         IN  OneEach(new) /\ Learnt(blocks, new, D)
<1> DEFINE after(b) == IF b.key \in DOMAIN upd /\ Memory!FirstPending(blocks, b)
                         THEN [b EXCEPT !.known = b.key.date + Window, !.final = upd[b.key]]
                         ELSE b
           mid == Memory!WithOutcomes(blocks, upd)
           new == Memory!Rotated(mid)
<1>1. mid = {after(b) : b \in blocks}
  BY DEF Memory!WithOutcomes
<1>2. ASSUME NEW b \in blocks
      PROVE  /\ after(b).key = b.key
             /\ b.known = 0 /\ b.key \in D => after(b).known # 0
             /\ ~(b.known = 0 /\ b.key \in D) => after(b) = b
  <2>1. b \in Memory!Blocks /\ b.at \in Nat
    BY DEF Memory!Blocks
  <2>2. ASSUME b.known = 0 PROVE Memory!FirstPending(blocks, b)
    <3>1. \A c \in Memory!Pending(blocks) : c.key = b.key => c = b
      BY <2>2 DEF OneEach, Memory!Pending
    <3>2. QED
      BY <2>1, <2>2, <3>1 DEF Memory!FirstPending
  <2>3. CASE b.known = 0 /\ b.key \in D
    <3>1. b.key.date \in Nat /\ Window \in Nat \ {0}
      BY <2>1, MemoryBounds DEF Memory!Blocks, Memory!Keys, Memory!Days, Memory!Bounds
    <3>2. b.key.date + Window # 0
      BY <3>1
    <3>3. after(b) = [b EXCEPT !.known = b.key.date + Window, !.final = upd[b.key]]
      BY <2>2, <2>3
    <3>4. QED
      BY <2>1, <2>3, <3>2, <3>3 DEF Memory!Blocks
  <2>4. CASE ~(b.known = 0 /\ b.key \in D)
    BY <2>4 DEF Memory!FirstPending
  <2>5. QED
    BY <2>3, <2>4
<1> HIDE DEF after, mid
<1>3. Memory!Pending(mid) = {b \in Memory!Pending(blocks) : b.key \notin D}
  BY <1>1, <1>2 DEF Memory!Pending
<1>4. LearntIn(mid) = LearntIn(blocks) \cup D
  <2>1. ASSUME NEW k \in LearntIn(mid) PROVE k \in LearntIn(blocks) \cup D
    BY <1>1, <1>2, <2>1 DEF LearntIn, Memory!Resolved
  <2>2. ASSUME NEW k \in LearntIn(blocks) PROVE k \in LearntIn(mid)
    <3>1. PICK b \in blocks : b.known # 0 /\ b.key = k
      BY <2>2 DEF LearntIn, Memory!Resolved
    <3>2. after(b) = b
      BY <1>2, <3>1
    <3>3. QED
      BY <1>1, <3>1, <3>2 DEF LearntIn, Memory!Resolved
  <2>3. ASSUME NEW k \in D PROVE k \in LearntIn(mid)
    <3>1. PICK b \in blocks : b.known = 0 /\ b.key = k
      BY <2>3 DEF WaitingIn, Memory!Pending
    <3>2. after(b) \in mid /\ after(b).known # 0 /\ after(b).key = k
      BY <1>1, <1>2, <2>3, <3>1
    <3>3. QED
      BY <3>2 DEF LearntIn, Memory!Resolved
  <2>4. QED
    BY <2>1, <2>2, <2>3
<1>5. Memory!Pending(new) = Memory!Pending(mid)
  BY DEF Memory!Rotated, Memory!Pending, Memory!Resolved
<1>6. Memory!Resolved(new) \subseteq Memory!Resolved(mid)
      /\ (MaxEntries = 0 => Memory!Resolved(new) = Memory!Resolved(mid))
  BY DEF Memory!Rotated, Memory!Pending, Memory!Resolved
<1> HIDE DEF new
<1>7. OneEach(new)
  BY <1>3, <1>5 DEF OneEach
<1>8. WaitingIn(new) = WaitingIn(blocks) \ D
  BY <1>3, <1>5 DEF WaitingIn
<1>9. LearntIn(new) \subseteq LearntIn(blocks) \cup D
      /\ (MaxEntries = 0 => LearntIn(new) = LearntIn(blocks) \cup D)
  BY <1>4, <1>6 DEF LearntIn
<1>10. QED
  BY <1>7, <1>8, <1>9 DEF Learnt, new, mid

OneProcess == \A p, q \in Procs : p = q

Own(p) == {k \in WaitingIn(log) : k.ticker = run[p].ticker}

(* Nobody else writes the log while a run settles its decisions or is about  *)
(* to append one: what it read still stands.                                 *)
StillStands(p) ==
    /\ place[p] = "settle" => todo[p] \subseteq Own(p)
    /\ place[p] \in {"reread", "write"} =>
           DOMAIN updates[p] # {} /\ DOMAIN updates[p] \subseteq Own(p)
    /\ place[p] = "write" => text[p] = log
    /\ place[p] = "replace" =>
           OneEach(tmp) /\ \E D \in SUBSET Memory!Keys : Learnt(log, tmp, D)
    /\ place[p] = "append" => ~Memory!IsStored(run[p])

KeepingInv == MemoryInv /\ OneEach(log) /\ \A p \in Procs : StillStands(p)

LEMMA KeepingInit == Memory!Init => KeepingInv
<1> SUFFICES ASSUME Memory!Init PROVE KeepingInv
  OBVIOUS
<1>1. MemoryInv
  BY MemoryInit
<1>2. OneEach(log)
  BY DEF OneEach, Memory!Pending, Memory!Init
<1>3. \A p \in Procs : place[p] = "idle"
  BY DEF Memory!Init
<1>4. QED
  BY <1>1, <1>2, <1>3 DEF KeepingInv, StillStands

LEMMA KeepingRun ==
  ASSUME OneProcess, KeepingInv, NEW p \in Procs, Memory!RunStep(p)
  PROVE  (OneEach(log) /\ StillStands(p))'
<1> USE DEF Memory!fileVars, Memory!clock, Memory!At
<1>1. /\ OneEach(log) /\ StillStands(p) /\ Memory!TypeOK
      /\ place \in [Procs -> Memory!Places] /\ log \in SUBSET Memory!Blocks
      /\ run \in [Procs -> Memory!Keys] /\ todo \in [Procs -> SUBSET Memory!Keys]
      /\ text \in [Procs -> SUBSET Memory!Blocks]
  BY DEF KeepingInv, MemoryInv, Memory!TypeOK
<1>2. ASSUME NEW k \in Memory!Keys, Memory!BeginRun(p, k) PROVE (OneEach(log) /\ StillStands(p))'
  BY <1>1, <1>2 DEF Memory!BeginRun, StillStands, OneEach, Memory!Pending
<1>3. CASE Memory!ReadPending(p)
  <2>1. log' = log /\ run' = run /\ place'[p] \in {"context", "settle"}
    BY <1>1, <1>3 DEF Memory!ReadPending
  <2>2. todo'[p] = {b.key : b \in {c \in Memory!Pending(log) : c.key.ticker = run[p].ticker}}
    BY <1>1, <1>3 DEF Memory!ReadPending
  <2>3. todo'[p] \subseteq Own(p)
    BY <2>2 DEF Own, WaitingIn
  <2>4. QED
    BY <1>1, <2>1, <2>3 DEF StillStands, OneEach, Own, WaitingIn, Memory!Pending
<1>4. CASE Memory!Settle(p)
  <2>1. PICK done \in SUBSET {k \in todo[p] : Memory!Traded(k)} :
          /\ place[p] = "settle"
          /\ place' = [place EXCEPT ![p] = IF done = {} THEN "context" ELSE "reread"]
          /\ updates' = [updates EXCEPT ![p] = [k \in done |-> Memory!AtClose(k)]]
          /\ UNCHANGED <<log, run>>
    BY <1>4 DEF Memory!Settle
  <2>2. place'[p] = "context" \/ (place'[p] = "reread" /\ done # {} /\ done \subseteq Own(p))
    BY <1>1, <2>1 DEF StillStands
  <2>3. updates'[p] = [k \in done |-> Memory!AtClose(k)]
    BY <2>1 DEF KeepingInv, MemoryInv, OutcomesAreIn
  <2>4. QED
    BY <1>1, <2>1, <2>2, <2>3 DEF StillStands, OneEach, Own, WaitingIn, Memory!Pending
<1>5. CASE Memory!Reread(p)
  <2>1. place[p] = "reread" /\ place'[p] = "write" /\ text'[p] = log
        /\ UNCHANGED <<log, run, updates>>
    BY <1>1, <1>5 DEF Memory!Reread
  <2>2. QED
    BY <1>1, <2>1 DEF StillStands, OneEach, Own, WaitingIn, Memory!Pending
<1>6. CASE Memory!WriteTmp(p)
  <2>1. /\ place[p] = "write" /\ place'[p] = "replace" /\ UNCHANGED <<log, run>>
        /\ tmp' = Memory!Rotated(Memory!WithOutcomes(text[p], updates[p]))
    BY <1>1, <1>6 DEF Memory!WriteTmp
  <2>2. text[p] = log /\ DOMAIN updates[p] # {} /\ DOMAIN updates[p] \subseteq Own(p)
    BY <1>1, <2>1 DEF StillStands
  <2>3. PICK D \in SUBSET Memory!Keys : updates[p] \in [D -> BOOLEAN]
    BY DEF KeepingInv, MemoryInv, OutcomesAreIn
  <2>4. D # {} /\ D \subseteq WaitingIn(log) /\ \A d, e \in D : d.ticker = e.ticker
    BY <2>2, <2>3 DEF Own
  <2>5. OneEach(tmp') /\ Learnt(log, tmp', D)
    BY <1>1, <2>1, <2>2, <2>3, <2>4, RewriteLearns
  <2>6. QED
    BY <1>1, <2>1, <2>3, <2>5 DEF StillStands, OneEach, Learnt, WaitingIn, LearntIn, Memory!Pending, Memory!Resolved
<1>7. CASE Memory!Replace(p)
  <2>1. place[p] = "replace" /\ place'[p] = "context" /\ log' = tmp
    BY <1>1, <1>7 DEF Memory!Replace
  <2>2. QED
    BY <1>1, <2>1 DEF StillStands, OneEach, Memory!Pending
<1>8. CASE Memory!DrawLessons(p)
  BY <1>1, <1>8 DEF Memory!DrawLessons, StillStands, OneEach, Memory!Pending
<1>9. CASE Memory!CheckStored(p)
  <2>1. /\ place'[p] = IF Memory!IsStored(run[p]) THEN "idle" ELSE "append"
        /\ UNCHANGED <<log, run>>
    BY <1>1, <1>9 DEF Memory!CheckStored
  <2>2. QED
    BY <1>1, <2>1 DEF StillStands, OneEach, Memory!Pending, Memory!IsStored
<1>10. CASE Memory!AppendDecision(p)
  <2> DEFINE new == [at |-> Memory!NextPlace(log), key |-> run[p], known |-> 0, final |-> FALSE]
  <2>1. place[p] = "append" /\ place'[p] = "idle" /\ log' = log \cup {new}
    BY <1>1, <1>10 DEF Memory!AppendDecision
  <2>2. \A b \in Memory!Pending(log) : b.key # new.key
    BY <1>1, <2>1 DEF StillStands, Memory!IsStored
  <2> HIDE DEF new
  <2>3. Memory!Pending(log') \subseteq Memory!Pending(log) \cup {new}
    BY <2>1 DEF Memory!Pending
  <2>4. OneEach(log')
    BY <1>1, <2>2, <2>3 DEF OneEach
  <2>5. QED
    BY <2>1, <2>4 DEF StillStands, OneEach, Memory!Pending
<1>11. CASE Memory!Fail(p)
  <2>1. place'[p] = "idle" /\ log' = log
    BY <1>1, <1>11 DEF Memory!Fail
  <2>2. QED
    BY <1>1, <2>1 DEF StillStands, OneEach, Memory!Pending
<1>12. QED
  BY <1>2, <1>3, <1>4, <1>5, <1>6, <1>7, <1>8, <1>9, <1>10, <1>11 DEF Memory!RunStep

LEMMA KeepingNext ==
  ASSUME OneProcess, KeepingInv, [Memory!Next]_Memory!vars
  PROVE  KeepingInv'
<1>1. MemoryInv'
  BY MemoryNext DEF KeepingInv
<1>2. ASSUME UNCHANGED <<log, tmp, place, run, todo, updates, text>> PROVE KeepingInv'
  BY <1>1, <1>2 DEF KeepingInv, StillStands, OneEach, Own, Learnt, WaitingIn, LearntIn,
     Memory!Pending, Memory!Resolved, Memory!IsStored
<1>3. ASSUME NEW p \in Procs, Memory!RunStep(p) PROVE KeepingInv'
  <2>1. (OneEach(log) /\ StillStands(p))'
    BY <1>3, KeepingRun
  <2>2. \A q \in Procs : q = p
    BY DEF OneProcess
  <2>3. QED
    BY <1>1, <2>1, <2>2 DEF KeepingInv
<1>4. QED
  BY <1>2, <1>3 DEF Memory!Next, Memory!Tick, Memory!vars, Memory!fileVars, Memory!local, Memory!clock

(* The steps of the promise. *)
LEMMA KeepingStep ==
  ASSUME OneProcess, KeepingInv, [Memory!Next]_Memory!vars
  PROVE  [Memory!Promise!Next]_<<{b.key : b \in Memory!Pending(log)},
                                 {b.key : b \in Memory!Resolved(log)}>>
<1> USE DEF Memory!fileVars, Memory!clock, Memory!At
<1>1. CASE UNCHANGED log
  BY <1>1 DEF Memory!Pending, Memory!Resolved
<1>2. ASSUME NEW p \in Procs, Memory!Replace(p) PROVE Memory!Promise!Next
  <2>1. log' = tmp /\ place[p] = "replace"
    BY <1>2 DEF Memory!Replace
  <2>2. PICK D \in SUBSET Memory!Keys : Learnt(log, log', D)
    BY <2>1 DEF KeepingInv, StillStands
  <2>3. Memory!Promise!Learn(D)
    BY <2>2 DEF Memory!Promise!Learn, Learnt, WaitingIn, LearntIn
  <2>4. QED
    BY <2>2, <2>3 DEF Memory!Promise!Next, Learnt, WaitingIn
<1>3. ASSUME NEW p \in Procs, Memory!AppendDecision(p) PROVE Memory!Promise!Next
  <2> DEFINE new == [at |-> Memory!NextPlace(log), key |-> run[p], known |-> 0, final |-> FALSE]
  <2>1. place[p] = "append" /\ log' = log \cup {new} /\ run[p] \in Memory!Keys
    BY <1>3 DEF Memory!AppendDecision, KeepingInv, MemoryInv, Memory!TypeOK
  <2>2. \A b \in Memory!Pending(log) : b.key # run[p]
    BY <2>1 DEF KeepingInv, StillStands, Memory!IsStored
  <2>3. Memory!Pending(log') = Memory!Pending(log) \cup {new}
        /\ Memory!Resolved(log') = Memory!Resolved(log)
    BY <2>1 DEF Memory!Pending, Memory!Resolved
  <2>4. new.key = run[p]
    OBVIOUS
  <2> HIDE DEF new
  <2>5. PICK d \in Memory!Keys : d = run[p]
    BY <2>1
  <2>6. Memory!Promise!Store(d)
    BY <2>2, <2>3, <2>4, <2>5 DEF Memory!Promise!Store
  <2>7. QED
    BY <2>6 DEF Memory!Promise!Next
<1>4. QED
  BY <1>1, <1>2, <1>3 DEF Memory!Next, Memory!RunStep, Memory!Tick, Memory!vars, Memory!BeginRun,
     Memory!ReadPending, Memory!Settle, Memory!Reread, Memory!WriteTmp, Memory!DrawLessons,
     Memory!CheckStored, Memory!Fail

(* As long as one process at a time uses the log, a decision that was stored *)
(* waits for its outcome and becomes a lesson, whatever fails between any    *)
(* two file operations (memory.py:30-49, 177-283).                           *)
THEOREM DecisionsAreKept ==
  ASSUME OneProcess
  PROVE  Memory!Spec => KeepsDecisions
<1>1. Memory!Spec => []KeepingInv
  <2>1. KeepingInv /\ [Memory!Next]_Memory!vars => KeepingInv'
    BY KeepingNext
  <2>2. QED
    BY KeepingInit, <2>1, PTL DEF Memory!Spec
<1>2. Memory!Init => Memory!Promise!Init
  BY DEF Memory!Init, Memory!Promise!Init, Memory!Pending, Memory!Resolved
<1>3. KeepingInv /\ [Memory!Next]_Memory!vars =>
      [Memory!Promise!Next]_<<{b.key : b \in Memory!Pending(log)}, {b.key : b \in Memory!Resolved(log)}>>
  BY KeepingStep
<1>4. QED
  BY <1>1, <1>2, <1>3, PTL DEF Memory!Spec, KeepsDecisions, Memory!KeepsDecisions, Memory!Promise!Spec
-----------------------------------------------------------------------------
(* The images: local-stable stays tested, and what removes its tag was overtaken.    *)

Vouched(i, s) == Releases!Managed(i, s) /\ i \in smoked

TagsAreVouched == \A s \in Shas : released[s] \in {None, 0} \/ Vouched(released[s], s)

(* The images of a set have revisions of their own. *)
Distinct(found) == \A i, j \in found : rev[i] = rev[j] => i = j

(* What each process relies on at the place where it is.  A tag that is not  *)
(* ours never comes into being, so "not the image 0" stays true of a tag     *)
(* whatever the others do; that it exists does not.                          *)
Relies(p) ==
    /\ step[p] # "idle" => sha[p] \in Shas
    /\ step[p] \in {"test", "check", "tag"} => Releases!Managed(cand[p], sha[p])
    /\ step[p] \in {"check", "tag"} => cand[p] \in smoked
    /\ step[p] \in {"reuse", "tag", "promote", "back"} => released[sha[p]] # 0
    /\ step[p] = "keep" => Distinct(listed[p])
    /\ step[p] \in {"used", "remove"} =>
          seen[p] \in Releases!Built /\ \A i \in listed[p] : rev[i] # rev[seen[p]]

ReleaseInv ==
    /\ Releases!TypeOK /\ TagsAreVouched
    /\ \A p \in Publishers : Relies(p)
    /\ Releases!StableIsTested

LEMMA ImagesCounted ==
  ASSUME NEW n \in Nat, NEW S, NEW r \in [1 .. n -> S]
  PROVE  Releases!Cardinality(DOMAIN r) = n
<1>1. Releases!Cardinality(1 .. n) = Cardinality(1 .. n)
  BY DEF Releases!Cardinality, Cardinality
<1>2. Cardinality(1 .. n) = n
  BY FS_Interval
<1>3. QED
  BY <1>1, <1>2

LEMMA ImagesBuilt ==
  ASSUME Releases!TypeOK
  PROVE  \E n \in Releases!Ids : rev \in [1 .. n -> Shas] /\ Releases!Built = 1 .. n
                                 /\ Releases!Cardinality(DOMAIN rev) = n
<1>1. PICK n \in Releases!Ids : rev \in [1 .. n -> Shas]
  BY DEF Releases!TypeOK
<1>2. n \in Nat
  BY ReleaseBounds DEF Releases!Bounds, Releases!Ids
<1>3. Releases!Cardinality(DOMAIN rev) = n
  BY <1>1, <1>2, ImagesCounted
<1>4. QED
  BY <1>1, <1>3 DEF Releases!Built

LEMMA ReleaseInit == Releases!Init => ReleaseInv
<1> SUFFICES ASSUME Releases!Init PROVE ReleaseInv
  OBVIOUS
<1>1. \A p \in Publishers : step[p] = "idle"
  BY DEF Releases!Init
<1>2. rev \in [1 .. 0 -> Shas]
  BY DEF Releases!Init
<1>3. 0 \in Releases!Ids
  BY ReleaseBounds DEF Releases!Bounds, Releases!Ids
<1>4. Releases!TypeOK
  BY <1>2, <1>3 DEF Releases!Init, Releases!TypeOK, Releases!Places
<1>5. TagsAreVouched
  BY DEF Releases!Init, TagsAreVouched
<1>6. \A p \in Publishers : Relies(p)
  BY <1>1 DEF Relies
<1>7. Releases!StableIsTested
  BY DEF Releases!Init, Releases!StableIsTested
<1>8. QED
  BY <1>4, <1>5, <1>6, <1>7 DEF ReleaseInv

(* An image keeps its number and its revision; 0 and None are no images. *)
LEMMA ImagesStay ==
  ASSUME ReleaseInv
  PROVE  /\ 0 \notin Releases!Built /\ None \notin Releases!Built
         /\ Releases!Built \subseteq Releases!Ids
         /\ \A i \in Releases!Built : rev[i] \in Shas
         /\ UNCHANGED rev => Releases!Built' = Releases!Built
<1>1. PICK n \in Releases!Ids : rev \in [1 .. n -> Shas] /\ Releases!Built = 1 .. n
  BY ImagesBuilt DEF ReleaseInv
<1>2. UNCHANGED rev => Releases!Built' = Releases!Built
  BY DEF Releases!Built
<1>3. QED
  BY <1>1, <1>2, ReleaseBounds DEF Releases!Bounds, Releases!Ids

(* The others rely on nothing that one process takes from them. *)
LEMMA OthersRely ==
  ASSUME ReleaseInv, NEW p \in Publishers, NEW q \in Publishers \ {p},
         step'[q] = step[q], sha'[q] = sha[q], cand'[q] = cand[q],
         listed'[q] = listed[q], seen'[q] = seen[q],
         smoked \subseteq smoked',
         \A i \in Releases!Built : i \in Releases!Built' /\ rev'[i] = rev[i],
         \A s \in Shas : released[s] # 0 => released'[s] # 0
  PROVE  Relies(q)'
<1>1. Relies(q) /\ listed[q] \subseteq Releases!Built
  BY DEF ReleaseInv, Releases!TypeOK
<1>2. step[q] \in {"test", "check", "tag"} => Releases!Managed(cand[q], sha[q])'
  BY <1>1 DEF Relies, Releases!Managed
<1>3. step[q] = "keep" => Distinct(listed[q])'
  BY <1>1 DEF Relies, Distinct
<1>4. step[q] \in {"used", "remove"} =>
        seen[q] \in Releases!Built' /\ \A i \in listed[q] : rev'[i] # rev'[seen[q]]
  BY <1>1 DEF Relies
<1>5. QED
  BY <1>1, <1>2, <1>3, <1>4 DEF Relies, Distinct

(* A process begins, goes on without touching a tag, or ends. *)
LEMMA Moves ==
  ASSUME ReleaseInv, NEW p \in Publishers,
         \/ \E s \in Shas : Releases!BeginPublish(p, s) \/ Releases!BeginRollback(p, s)
         \/ Releases!SecondCheck(p) \/ Releases!ListReleases(p)
         \/ Releases!ChooseRetained(p)
         \/ \E ids \in SUBSET Releases!Built : Releases!ReadUsed(p, ids)
         \/ Releases!End(p)
  PROVE  ReleaseInv'
<1> USE DEF Releases!At
<1>1. /\ UNCHANGED <<rev, released, stable, smoked>>
      /\ Releases!Built' = Releases!Built
      /\ 0 \notin Releases!Built /\ None \notin Releases!Built
      /\ Releases!Built \subseteq Releases!Ids
  BY ImagesStay DEF Releases!BeginPublish, Releases!BeginRollback, Releases!SecondCheck,
     Releases!ListReleases, Releases!ChooseRetained, Releases!ReadUsed, Releases!End
<1>2. TagsAreVouched' /\ Releases!StableIsTested'
  BY <1>1 DEF ReleaseInv, TagsAreVouched, Vouched, Releases!Managed, Releases!StableIsTested
<1>3. /\ step \in [Publishers -> Releases!Places]
      /\ sha \in [Publishers -> Shas \cup {None}]
      /\ cand \in [Publishers -> Releases!Ids \cup {None}]
      /\ listed \in [Publishers -> SUBSET Releases!Built]
      /\ seen \in [Publishers -> Releases!Built \cup {None}]
      /\ Relies(p)
  BY DEF ReleaseInv, Releases!TypeOK
<1>4. /\ step' \in [Publishers -> Releases!Places]
      /\ sha' \in [Publishers -> Shas \cup {None}]
      /\ cand' \in [Publishers -> Releases!Ids \cup {None}]
      /\ listed' \in [Publishers -> SUBSET Releases!Built]
      /\ seen' \in [Publishers -> Releases!Built \cup {None}]
      /\ Relies(p)'
      /\ \A q \in Publishers \ {p} : /\ step'[q] = step[q] /\ sha'[q] = sha[q]
                                     /\ cand'[q] = cand[q] /\ listed'[q] = listed[q]
                                     /\ seen'[q] = seen[q]
  <2>1. CASE \E s \in Shas : Releases!BeginPublish(p, s) \/ Releases!BeginRollback(p, s)
    <3>1. PICK s \in Shas : Releases!BeginPublish(p, s) \/ Releases!BeginRollback(p, s)
      BY <2>1
    <3>2. PICK to \in {"build", "reuse", "back"} : step' = [step EXCEPT ![p] = to]
                                                   /\ (to # "build" => Releases!Managed(released[s], s))
      BY <3>1 DEF Releases!BeginPublish, Releases!BeginRollback, Releases!Accepts
    <3>3. sha' = [sha EXCEPT ![p] = s] /\ UNCHANGED <<cand, listed, seen>>
      BY <3>1 DEF Releases!BeginPublish, Releases!BeginRollback
    <3>4. Relies(p)'
      BY <1>1, <1>3, <3>2, <3>3 DEF Relies, Releases!Managed
    <3>5. to \in Releases!Places
      BY <3>2 DEF Releases!Places
    <3>6. QED
      BY <1>3, <3>2, <3>3, <3>4, <3>5
  <2>2. CASE Releases!SecondCheck(p)
    <3>1. PICK to \in {"tag", "promote"} :
            /\ step' = [step EXCEPT ![p] = to] /\ step[p] = "check"
            /\ released[sha[p]] = None \/ released[sha[p]] = cand[p]
      BY <2>2 DEF Releases!SecondCheck
    <3>2. UNCHANGED <<sha, cand, listed, seen>>
      BY <2>2 DEF Releases!SecondCheck
    <3>3. Releases!Managed(cand[p], sha[p]) /\ cand[p] \in smoked /\ sha[p] \in Shas
      BY <1>3, <3>1 DEF Relies
    <3>4. None # 0
      BY ReleaseBounds DEF Releases!Bounds
    <3>5. Relies(p)'
      BY <1>1, <1>3, <3>1, <3>2, <3>3, <3>4 DEF Relies, Releases!Managed
    <3>6. to \in Releases!Places
      BY <3>1 DEF Releases!Places
    <3>7. QED
      BY <1>3, <3>1, <3>2, <3>5, <3>6
  <2>3. CASE Releases!ListReleases(p)
    <3>1. /\ step' = [step EXCEPT ![p] = "keep"] /\ step[p] = "list"
          /\ listed' = [listed EXCEPT ![p] = Releases!Releases]
          /\ UNCHANGED <<sha, cand, seen>>
      BY <2>3 DEF Releases!ListReleases
    <3>2. Releases!Releases \subseteq Releases!Built /\ Distinct(Releases!Releases)
      BY DEF Releases!Releases, Releases!Managed, Distinct
    <3>3. Relies(p)'
      BY <1>1, <1>3, <3>1, <3>2 DEF Relies, Distinct
    <3>4. "keep" \in Releases!Places
      BY DEF Releases!Places
    <3>5. QED
      BY <1>3, <3>1, <3>2, <3>3, <3>4
  <2>4. CASE Releases!ChooseRetained(p)
    <3> DEFINE left == listed[p] \ Releases!Retained(listed[p], stable)
    <3>1. /\ step' = [step EXCEPT ![p] = "used"] /\ step[p] = "keep" /\ stable \in listed[p]
          /\ listed' = [listed EXCEPT ![p] = left]
          /\ seen' = [seen EXCEPT ![p] = stable]
          /\ UNCHANGED <<sha, cand>>
      BY <1>3, <2>4 DEF Releases!ChooseRetained
    <3>2. left \subseteq listed[p] \ {stable}
      BY DEF Releases!Retained
    <3>3. \A i \in left : rev[i] # rev[stable]
      BY <1>3, <3>1, <3>2 DEF Relies, Distinct
    <3> HIDE DEF left
    <3>4. stable \in Releases!Built /\ left \subseteq Releases!Built
      BY <1>3, <3>1, <3>2
    <3>5. step'[p] = "used" /\ seen'[p] = stable /\ listed'[p] = left /\ sha'[p] = sha[p]
          /\ sha[p] \in Shas
      BY <1>3, <3>1 DEF Relies
    <3>6. Relies(p)'
      BY <1>1, <3>3, <3>4, <3>5 DEF Relies
    <3>7. "used" \in Releases!Places
      BY DEF Releases!Places
    <3>8. QED
      BY <1>3, <3>1, <3>4, <3>6, <3>7
  <2>5. CASE \E ids \in SUBSET Releases!Built : Releases!ReadUsed(p, ids)
    <3>1. PICK ids \in SUBSET Releases!Built : Releases!ReadUsed(p, ids)
      BY <2>5
    <3>2. /\ step' = [step EXCEPT ![p] = "remove"] /\ step[p] = "used"
          /\ listed' = [listed EXCEPT ![p] = listed[p] \ ids]
          /\ UNCHANGED <<sha, cand, seen>>
      BY <1>3, <3>1 DEF Releases!ReadUsed
    <3>3. Relies(p)'
      BY <1>1, <1>3, <3>2 DEF Relies
    <3>4. "remove" \in Releases!Places
      BY DEF Releases!Places
    <3>5. QED
      BY <1>3, <3>2, <3>3, <3>4
  <2>6. CASE Releases!End(p)
    BY <1>3, <2>6 DEF Releases!End, Releases!Leave, Releases!Places, Relies
  <2>7. QED
    BY <2>1, <2>2, <2>3, <2>4, <2>5, <2>6
<1>5. Releases!TypeOK'
  BY <1>1, <1>4 DEF ReleaseInv, Releases!TypeOK
<1>6. ASSUME NEW q \in Publishers \ {p} PROVE Relies(q)'
  BY <1>1, <1>4, OthersRely
<1>7. QED
  BY <1>2, <1>4, <1>5, <1>6 DEF ReleaseInv

(* The smoke tests only add to what is tested. *)
LEMMA Tests ==
  ASSUME ReleaseInv, NEW p \in Publishers, Releases!SmokeAgain(p) \/ Releases!Smoke(p)
  PROVE  ReleaseInv'
<1> USE DEF Releases!At
<1>1. /\ UNCHANGED <<rev, released, stable, cand, sha, listed, seen>>
      /\ Releases!Built' = Releases!Built
      /\ 0 \notin Releases!Built
  BY ImagesStay DEF Releases!SmokeAgain, Releases!Smoke
<1>2. Relies(p) /\ step \in [Publishers -> Releases!Places] /\ smoked \subseteq Releases!Built
      /\ cand \in [Publishers -> Releases!Ids \cup {None}]
  BY DEF ReleaseInv, Releases!TypeOK
<1>3. PICK to \in {"promote", "check"}, i \in Releases!Built :
        /\ step' = [step EXCEPT ![p] = to] /\ smoked' = smoked \cup {i}
        /\ to = "promote" => step[p] = "reuse"
        /\ to = "check" => step[p] = "test" /\ i = cand[p]
  <2>1. CASE Releases!SmokeAgain(p)
    <3>1. step[p] = "reuse" /\ released[sha[p]] # None
      BY <2>1 DEF Releases!SmokeAgain
    <3>2. sha[p] \in Shas /\ released[sha[p]] # 0
      BY <1>2, <3>1 DEF Relies
    <3>3. released[sha[p]] \in Releases!Built
      BY <3>1, <3>2 DEF ReleaseInv, TagsAreVouched, Vouched, Releases!Managed
    <3>4. QED
      BY <2>1, <3>1, <3>3 DEF Releases!SmokeAgain
  <2>2. CASE Releases!Smoke(p)
    BY <1>2, <2>2 DEF Releases!Smoke, Relies, Releases!Managed
  <2>3. QED
    BY <2>1, <2>2
<1>4. TagsAreVouched' /\ Releases!StableIsTested'
  BY <1>1, <1>3 DEF ReleaseInv, TagsAreVouched, Vouched, Releases!Managed, Releases!StableIsTested
<1>5. step' \in [Publishers -> Releases!Places] /\ smoked' \subseteq Releases!Built
  <2>1. to \in Releases!Places
    BY <1>3 DEF Releases!Places
  <2>2. QED
    BY <1>2, <1>3, <2>1
<1>6. Releases!TypeOK'
  BY <1>1, <1>5 DEF ReleaseInv, Releases!TypeOK
<1>7. Relies(p)'
  BY <1>1, <1>2, <1>3 DEF Relies, Releases!Managed
<1>8. ASSUME NEW q \in Publishers \ {p} PROVE Relies(q)'
  BY <1>1, <1>2, <1>3, OthersRely
<1>9. QED
  BY <1>4, <1>6, <1>7, <1>8 DEF ReleaseInv

(* A new image has the revision of its build, an old one has it already. *)
LEMMA Builds ==
  ASSUME ReleaseInv, NEW p \in Publishers, Releases!Build(p)
  PROVE  ReleaseInv'
<1> USE DEF Releases!At
<1>1. /\ step \in [Publishers -> Releases!Places] /\ step[p] = "build"
      /\ step' = [step EXCEPT ![p] = "test"] /\ sha[p] \in Shas
      /\ cand \in [Publishers -> Releases!Ids \cup {None}]
      /\ UNCHANGED <<released, stable, smoked, sha, listed, seen>>
  BY DEF ReleaseInv, Releases!TypeOK, Releases!Build, Relies
<1>2. PICK n \in Releases!Ids : /\ rev \in [1 .. n -> Shas] /\ Releases!Built = 1 .. n
                                /\ Releases!Cardinality(DOMAIN rev) = n
  BY ImagesBuilt DEF ReleaseInv
<1>3. PICK new \in Releases!Ids :
        /\ cand' = [cand EXCEPT ![p] = new] /\ new \in Releases!Built' /\ rev'[new] = sha[p]
        /\ \A i \in Releases!Built : i \in Releases!Built' /\ rev'[i] = rev[i]
        /\ \E m \in Releases!Ids : rev' \in [1 .. m -> Shas]
  <2>1. n \in Nat /\ MaxBuilds \in Nat
    BY ReleaseBounds DEF Releases!Ids, Releases!Bounds
  <2>2. CASE \E i \in Releases!Built : /\ rev[i] = sha[p]
                                       /\ cand' = [cand EXCEPT ![p] = i]
                                       /\ UNCHANGED rev
    <3>1. Releases!Built' = Releases!Built /\ Releases!Built \subseteq Releases!Ids
      BY <2>2, ImagesStay
    <3>2. QED
      BY <1>2, <2>2, <3>1
  <2>3. CASE /\ n + 1 <= MaxBuilds
             /\ rev' = [i \in 1 .. n + 1 |-> IF i = n + 1 THEN sha[p] ELSE rev[i]]
             /\ cand' = [cand EXCEPT ![p] = n + 1]
    <3>1. rev' \in [1 .. n + 1 -> Shas] /\ n + 1 \in Nat
      BY <1>1, <1>2, <2>1, <2>3
    <3>2. \A m \in Nat : \A r : r \in [1 .. m -> Shas] => Releases!Cardinality(DOMAIN r) = m
      BY ImagesCounted
    <3>3. Releases!Cardinality(DOMAIN rev') = n + 1
      BY <3>1, <3>2
    <3>4. Releases!Built' = 1 .. n + 1
      BY <3>3 DEF Releases!Built
    <3>5. n + 1 \in Releases!Ids
      BY <2>1, <2>3 DEF Releases!Ids
    <3>6. \A i \in Releases!Built : i \in Releases!Built' /\ rev'[i] = rev[i]
      BY <1>2, <2>1, <2>3, <3>4
    <3>7. n + 1 \in Releases!Built' /\ rev'[n + 1] = sha[p]
      BY <2>1, <2>3, <3>4
    <3>8. QED
      BY <2>3, <3>1, <3>5, <3>6, <3>7
  <2>4. QED
    BY <1>2, <2>2, <2>3 DEF Releases!Build
<1>4. Releases!TypeOK'
  <2>1. "test" \in Releases!Places
    BY DEF Releases!Places
  <2>2. Releases!Built \subseteq Releases!Built'
    BY <1>3
  <2>3. cand' \in [Publishers -> Releases!Ids \cup {None}]
    BY <1>1, <1>3
  <2>4. step' \in [Publishers -> Releases!Places]
    BY <1>1, <2>1
  <2>5. smoked \subseteq Releases!Built' /\ listed \in [Publishers -> SUBSET Releases!Built']
        /\ seen \in [Publishers -> Releases!Built' \cup {None}]
    BY <2>2 DEF ReleaseInv, Releases!TypeOK
  <2>6. QED
    BY <1>1, <1>3, <2>3, <2>4, <2>5 DEF ReleaseInv, Releases!TypeOK
<1>5. TagsAreVouched' /\ Releases!StableIsTested'
  BY <1>1, <1>3 DEF ReleaseInv, TagsAreVouched, Vouched, Releases!Managed, Releases!StableIsTested
<1>6. Relies(p)'
  BY <1>1, <1>3 DEF Relies, Releases!Managed
<1>7. ASSUME NEW q \in Publishers \ {p} PROVE Relies(q)'
  <2>1. step'[q] = step[q] /\ cand'[q] = cand[q]
    BY <1>1, <1>3
  <2>2. QED
    BY <1>1, <1>3, <2>1, OthersRely
<1>8. QED
  BY <1>4, <1>5, <1>6, <1>7 DEF ReleaseInv

(* A tag is set to a tested image of its commit, or removed. *)
LEMMA TagsMove ==
  ASSUME ReleaseInv, NEW p \in Publishers,
         Releases!TagRelease(p) \/ \E i \in Releases!Built : Releases!Remove(p, i)
  PROVE  ReleaseInv'
<1> USE DEF Releases!At
<1>1. /\ UNCHANGED <<rev, stable, cand, smoked, sha, seen>>
      /\ Releases!Built' = Releases!Built
      /\ 0 \notin Releases!Built
  BY ImagesStay DEF Releases!TagRelease, Releases!Remove
<1>2. /\ Relies(p) /\ step \in [Publishers -> Releases!Places]
      /\ released \in [Shas -> Releases!Ids \cup {None}]
      /\ cand \in [Publishers -> Releases!Ids \cup {None}]
      /\ listed \in [Publishers -> SUBSET Releases!Built]
  BY DEF ReleaseInv, Releases!TypeOK
<1>3. None # 0
  BY ReleaseBounds DEF Releases!Bounds
<1>4. /\ step' \in [Publishers -> Releases!Places]
      /\ listed' \in [Publishers -> SUBSET Releases!Built]
      /\ Relies(p)'
      /\ \A q \in Publishers \ {p} : step'[q] = step[q] /\ listed'[q] = listed[q]
      /\ \E s \in Shas, t \in Releases!Ids \cup {None} :
            /\ released' = [released EXCEPT ![s] = t]
            /\ t = None \/ Vouched(t, s)
  <2>1. CASE Releases!TagRelease(p)
    <3>1. /\ step' = [step EXCEPT ![p] = "promote"] /\ step[p] = "tag"
          /\ released' = [released EXCEPT ![sha[p]] = cand[p]] /\ UNCHANGED listed
      BY <2>1 DEF Releases!TagRelease
    <3>2. Vouched(cand[p], sha[p]) /\ sha[p] \in Shas
      BY <1>2, <3>1 DEF Relies, Vouched
    <3>3. cand[p] # 0
      BY <1>1, <3>2 DEF Vouched, Releases!Managed
    <3>4. Relies(p)'
      BY <1>1, <1>2, <3>1, <3>2, <3>3 DEF Relies
    <3>5. "promote" \in Releases!Places
      BY DEF Releases!Places
    <3>6. cand[p] \in Releases!Ids \cup {None}
      BY <1>2
    <3>7. QED
      BY <1>2, <3>1, <3>2, <3>4, <3>5, <3>6
  <2>2. CASE \E i \in Releases!Built : Releases!Remove(p, i)
    <3>1. PICK i \in Releases!Built : Releases!Remove(p, i)
      BY <2>2
    <3>2. /\ released' = [released EXCEPT ![rev[i]] = None] /\ step[p] = "remove"
          /\ listed' = [listed EXCEPT ![p] = listed[p] \ {i}] /\ UNCHANGED step
      BY <1>2, <3>1 DEF Releases!Remove
    <3>3. Relies(p)'
      BY <1>1, <1>2, <3>2 DEF Relies
    <3>4. rev[i] \in Shas
      BY ImagesStay
    <3>5. QED
      BY <1>2, <3>2, <3>3, <3>4
  <2>3. QED
    BY <2>1, <2>2
<1>5. PICK s \in Shas, t \in Releases!Ids \cup {None} :
        released' = [released EXCEPT ![s] = t] /\ (t = None \/ Vouched(t, s))
  BY <1>4
<1>6. TagsAreVouched' /\ Releases!StableIsTested'
  BY <1>1, <1>2, <1>5 DEF ReleaseInv, TagsAreVouched, Vouched, Releases!Managed,
     Releases!StableIsTested
<1>7. Releases!TypeOK'
  BY <1>1, <1>2, <1>4, <1>5 DEF ReleaseInv, Releases!TypeOK
<1>8. t # 0
  BY <1>1, <1>3, <1>5 DEF Vouched, Releases!Managed
<1>9. ASSUME NEW q \in Publishers \ {p} PROVE Relies(q)'
  <2>1. \A r \in Shas : released[r] # 0 => released'[r] # 0
    BY <1>2, <1>5, <1>8
  <2>2. QED
    BY <1>1, <1>4, <2>1, OthersRely
<1>10. QED
  BY <1>4, <1>6, <1>7, <1>9 DEF ReleaseInv

(* local-stable is copied from a tag that exists and is ours. *)
LEMMA StableMoves ==
  ASSUME ReleaseInv, NEW p \in Publishers, Releases!Promote(p) \/ Releases!MoveBack(p)
  PROVE  ReleaseInv'
<1> USE DEF Releases!At
<1>1. /\ UNCHANGED <<rev, released, smoked>> /\ Releases!Built' = Releases!Built
      /\ step[p] \in {"promote", "back"} /\ released[sha[p]] # None
      /\ stable' = released[sha[p]]
  BY ImagesStay DEF Releases!Promote, Releases!MoveBack
<1>2. /\ Relies(p) /\ step \in [Publishers -> Releases!Places]
      /\ sha \in [Publishers -> Shas \cup {None}]
      /\ cand \in [Publishers -> Releases!Ids \cup {None}]
      /\ listed \in [Publishers -> SUBSET Releases!Built]
      /\ seen \in [Publishers -> Releases!Built \cup {None}]
  BY DEF ReleaseInv, Releases!TypeOK
<1>3. sha[p] \in Shas /\ released[sha[p]] # 0
  BY <1>1, <1>2 DEF Relies
<1>4. Vouched(stable', sha[p])
  BY <1>1, <1>3 DEF ReleaseInv, TagsAreVouched
<1>5. TagsAreVouched' /\ Releases!StableIsTested'
  BY <1>1, <1>4 DEF ReleaseInv, TagsAreVouched, Vouched, Releases!Managed, Releases!StableIsTested
<1>6. /\ step' \in [Publishers -> Releases!Places]
      /\ sha' \in [Publishers -> Shas \cup {None}]
      /\ cand' \in [Publishers -> Releases!Ids \cup {None}]
      /\ listed' \in [Publishers -> SUBSET Releases!Built]
      /\ seen' \in [Publishers -> Releases!Built \cup {None}]
      /\ Relies(p)'
      /\ \A q \in Publishers \ {p} : /\ step'[q] = step[q] /\ sha'[q] = sha[q]
                                     /\ cand'[q] = cand[q] /\ listed'[q] = listed[q]
                                     /\ seen'[q] = seen[q]
  <2>1. CASE Releases!Promote(p)
    BY <1>2, <1>3, <2>1 DEF Releases!Promote, Releases!Places, Relies
  <2>2. CASE Releases!MoveBack(p)
    BY <1>2, <2>2 DEF Releases!MoveBack, Releases!Leave, Releases!Places, Relies
  <2>3. QED
    BY <1>1, <2>1, <2>2
<1>7. Releases!TypeOK'
  <2>1. stable' \in Releases!Ids \cup {None}
    BY <1>1, <1>3 DEF ReleaseInv, Releases!TypeOK
  <2>2. QED
    BY <1>1, <1>6, <2>1 DEF ReleaseInv, Releases!TypeOK
<1>8. ASSUME NEW q \in Publishers \ {p} PROVE Relies(q)'
  BY <1>1, <1>6, OthersRely
<1>9. QED
  BY <1>5, <1>6, <1>7, <1>8 DEF ReleaseInv

LEMMA ReleaseNext == ReleaseInv /\ [Releases!Next]_Releases!vars => ReleaseInv'
<1> SUFFICES ASSUME ReleaseInv, [Releases!Next]_Releases!vars PROVE ReleaseInv'
  OBVIOUS
<1>1. CASE UNCHANGED Releases!vars
  BY <1>1 DEF Releases!vars, ReleaseInv, Releases!TypeOK, TagsAreVouched, Vouched, Relies,
     Distinct, Releases!Managed, Releases!Built, Releases!StableIsTested
<1>2. ASSUME NEW p \in Publishers, Releases!Command(p) PROVE ReleaseInv'
  BY <1>2, Moves, Tests, Builds, TagsMove, StableMoves DEF Releases!Command
<1>3. QED
  BY <1>1, <1>2 DEF Releases!Next

LEMMA ReleasesStaySound == Releases!Spec => []ReleaseInv
BY ReleaseInit, ReleaseNext, PTL DEF Releases!Spec

(* local-stable names an image that passed the offline test: for any number  *)
(* of publishers, commits and builds (local_image_release.py:102-119,        *)
(* 159-228).                                                                 *)
THEOREM StableWasTested == Releases!Spec => []StableIsTested
<1>1. ReleaseInv => StableIsTested
  BY DEF ReleaseInv, StableIsTested
<1>2. QED
  BY ReleasesStaySound, <1>1, PTL

(* The tag that rollback needs to return to local-stable goes only to a      *)
(* cleanup that inspected local-stable before another command moved it: for  *)
(* any number of commands side by side (local_image_release.py:131-156).     *)
THEOREM TagGoesOnlyToAnOvertakenCleanup == Releases!Spec => OnlyAnOvertakenCleanup
<1>1. ASSUME ReleaseInv, NEW p \in Publishers, NEW i \in Releases!Built,
             Releases!Remove(p, i), rev[stable] = rev[i]
      PROVE  seen[p] # stable
  BY <1>1 DEF ReleaseInv, Relies, Releases!Remove
<1>2. ReleaseInv => (\A p \in Publishers : \A i \in Releases!Built :
        Releases!Remove(p, i) /\ stable # None /\ rev[stable] = rev[i] => seen[p] # stable)
  BY <1>1
<1>3. QED
  BY ReleasesStaySound, <1>2, PTL DEF OnlyAnOvertakenCleanup, Releases!OnlyAnOvertakenCleanup

-----------------------------------------------------------------------------
(* The three together. *)

SharedInv == TypeOK /\ MemoryInv /\ ReleaseInv

LEMMA CheckpointTypes == TypeOK /\ [Next]_vars => TypeOK'
<1>1. ASSUME TypeOK, UNCHANGED vars PROVE TypeOK'
  BY <1>1 DEF TypeOK, vars, taskVars, diskVars, runVars
<1>2. QED
  BY <1>1, SurroundingsTypes, RunTypes, RestartTypes DEF Next

(* Whatever part a behaviour moves: every variable keeps its type, no run    *)
(* has hindsight, and local-stable is tested, with SQLite refusing to clear  *)
(* checkpoints or not (checkpointer.py:40-115, memory.py:70-107,             *)
(* local_image_release.py:102-228).                                          *)
THEOREM SharedFilesStaySound == MCSpec => [](TypesOK /\ NoHindsight /\ StableIsTested)
<1>1. MCInit => SharedInv
  <2>1. Init => TypeOK
    BY InitIInv DEF IInv
  <2>2. QED
    BY <2>1, MemoryInit, ReleaseInit DEF MCInit, SharedInv
<1>2. SharedInv /\ [MCNext]_allvars => SharedInv'
  <2> SUFFICES ASSUME SharedInv, [MCNext]_allvars PROVE SharedInv'
    OBVIOUS
  <2>1. [Next]_vars /\ [Memory!Next]_Memory!vars /\ [Releases!Next]_Releases!vars
    BY DEF MCNext, allvars, memoryVars, releaseVars, Memory!vars, Memory!fileVars, Memory!clock,
       Memory!local, Releases!vars
  <2>2. QED
    BY <2>1, CheckpointTypes, MemoryNext, ReleaseNext DEF SharedInv
<1>3. SharedInv => TypesOK /\ NoHindsight /\ StableIsTested
  BY DEF SharedInv, MemoryInv, ReleaseInv, TypesOK, NoHindsight, StableIsTested
<1>4. QED
  BY <1>1, <1>2, <1>3, PTL DEF MCSpec

LEMMA PartsRun == MCSpec => Spec /\ Memory!Spec
<1>1. [MCNext]_allvars => [Next]_vars /\ [Memory!Next]_Memory!vars
  BY DEF MCNext, allvars, memoryVars, Memory!vars, Memory!fileVars, Memory!clock, Memory!local
<1>2. MCInit => Init /\ Memory!Init
  BY DEF MCInit
<1>3. QED
  BY <1>1, <1>2, PTL DEF MCSpec, Spec, Memory!Spec

(* The same for what needs a hypothesis: unless SQLite refuses to clear, a   *)
(* run continues only its own state, the tag tells whose it is, and what can *)
(* be resumed stays so (runner.py:60-114, 131-174); with one process, no     *)
(* decision is lost (memory.py:30-49, 177-283).                              *)
THEOREM SharedFilesKeepTheirPromises ==
  /\ ~ClearMayFail => (MCSpec => [](OwnStateOnly /\ TagTellsOwner) /\ ResumeIsKept)
  /\ OneProcess => (MCSpec => KeepsDecisions)
<1>1. ASSUME ~ClearMayFail PROVE MCSpec => [](OwnStateOnly /\ TagTellsOwner) /\ ResumeIsKept
  <2>1. Spec => []OwnStateOnly
    BY <1>1, RunsOwnState
  <2>2. Spec => []TagTellsOwner
    BY <1>1, TagIsTruthful
  <2>3. Spec => ResumeIsKept
    BY <1>1, ResumableStays
  <2>4. QED
    BY <2>1, <2>2, <2>3, PartsRun, PTL
<1>2. ASSUME OneProcess PROVE MCSpec => KeepsDecisions
  <2>1. Memory!Spec => KeepsDecisions
    BY <1>2, DecisionsAreKept
  <2>2. QED
    BY <2>1, PartsRun, PTL
<1>3. QED
  BY <1>1, <1>2
=============================================================================
