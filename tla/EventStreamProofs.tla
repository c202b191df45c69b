------------------------- MODULE EventStreamProofs -------------------------
(***************************************************************************)
(* Proofs about EventStream for every set of tasks and sections and every  *)
(* bound.                                                                  *)
(***************************************************************************)
EXTENDS EventStream, TLAPS

Notices == Sections \cup Ended \cup {"queued", "running"}
Views   == [status : Ended \cup {"none", "queued", "running"}, seen : Nat]

(* The queue's side: what the promise of TaskLifecycle gives the stream. *)
Queue ==
    /\ status \in [Tasks -> {"absent", "deleted", "queued", "running"} \cup Ended]
    /\ log \in [Tasks -> Seq(Notices)]
    /\ Len(Events) <= MaxLog

(* What is on its way to the page is exactly what lies between its cursor *)
(* and the stream's, in order, and the end of the stream after it.        *)
InOrder ==
    /\ cursor <= sent
    /\ Len(net) = sent - cursor + (IF server = "closed" THEN 1 ELSE 0)
    /\ \A i \in 1 .. sent - cursor : net[i] = cursor + i
    /\ server = "closed" => net[Len(net)] = 0

Flow ==
    /\ net \in Seq(0 .. MaxLog)
    /\ server = "none" => net = <<>>
    /\ link = "open" <=> server # "none"
    /\ server # "none" => InOrder
    /\ server = "deliver" => sent < upto

(* Nobody is ahead of a history that still exists. *)
Behind == Known => cursor <= Len(Events) /\ sent <= Len(Events) /\ upto <= Len(Events)

(* A view or an answer that is older than the cursor is about to be *)
(* replaced: a snapshot is asked for, or will be when this one ends. *)
Fresh ==
    /\ view \in Views /\ fetch.got \in Views
    /\ fetch = [at |-> fetch.at, got |-> fetch.got]
    /\ fetch.at = "idle" => error \/ view.seen >= cursor
    /\ fetch.at = "answered" => pending \/ fetch.got.seen >= cursor

StreamInv == TypeOK /\ Queue /\ Flow /\ Behind /\ Fresh

-----------------------------------------------------------------------------
(* The queue's history only grows while the task exists, and a task that is *)
(* gone stays gone.                                                         *)
LEMMA HistoryGrows ==
    ASSUME Queue,
           \/ Take(Task) \/ Forget(Task) \/ Revive(Task)
           \/ \E k \in Sections \cup {"running"} : Report(Task, k)
           \/ \E o \in Ended : Conclude(Task, o)
    PROVE  /\ status' \in [Tasks -> {"absent", "deleted", "queued", "running"} \cup Ended]
           /\ log' \in [Tasks -> Seq(Notices)]
           /\ Known' => Known /\ Len(Events') >= Len(Events)
           /\ Len(Events') <= Len(Events) + 1
           /\ Take(Task) \/ Forget(Task) => Len(Events') <= Len(Events)
<1> USE TaskAssumption DEF Queue, Known, Events, Ended, Notices, Move, Tell
<1> DEFINE Told == \E k \in Notices : log' = [log EXCEPT ![Task] = Append(log[Task], k)]
<1>1. CASE Take(Task)
  BY <1>1 DEF Take
<1>2. CASE Forget(Task)
  BY <1>2 DEF Forget
<1>3. Told => /\ log' \in [Tasks -> Seq(Notices)]
              /\ Len(log'[Task]) = Len(log[Task]) + 1
  <2> SUFFICES ASSUME NEW k \in Notices, log' = [log EXCEPT ![Task] = Append(log[Task], k)]
               PROVE  /\ log' \in [Tasks -> Seq(Notices)]
                      /\ Len(log'[Task]) = Len(log[Task]) + 1
    OBVIOUS
  <2>1. log[Task] \in Seq(Notices) /\ Append(log[Task], k) \in Seq(Notices)
    OBVIOUS
  <2> QED
    BY <2>1
<1>4. CASE Revive(Task)
  <2>1. Told
    BY <1>4 DEF Revive
  <2> QED
    BY <1>3, <1>4, <2>1 DEF Revive, Take, Forget
<1>5. CASE \E k \in Sections \cup {"running"} : Report(Task, k)
  <2>1. Told
    BY <1>5 DEF Report
  <2> QED
    BY <1>3, <1>5, <2>1 DEF Report, Take, Forget
<1>6. CASE \E o \in Ended : Conclude(Task, o)
  <2>1. Told
    BY <1>6 DEF Conclude
  <2> QED
    BY <1>3, <1>6, <2>1 DEF Conclude, Take, Forget
<1> QED
  BY <1>1, <1>2, <1>4, <1>5, <1>6
-----------------------------------------------------------------------------
LEMMA ElementsOf ==
    ASSUME NEW S, NEW q \in Seq(S)
    PROVE  \A i \in 1 .. Len(q) : q[i] \in S
OBVIOUS

(* What each part of the invariant depends on. *)
LEMMA Kept ==
    /\ Queue /\ UNCHANGED lifecycleVars => Queue'
    /\ Flow /\ UNCHANGED <<server, sent, upto, net, link, cursor>> => Flow'
    /\ Behind /\ UNCHANGED <<lifecycleVars, sent, upto, cursor>> => Behind'
    /\ Fresh /\ UNCHANGED <<view, error, cursor, fetch, pending>> => Fresh'
<1>1. Queue /\ UNCHANGED lifecycleVars => Queue'
  BY DEF Queue, lifecycleVars, Events
<1>2. Flow /\ UNCHANGED <<server, sent, upto, net, link, cursor>> => Flow'
  BY DEF Flow, InOrder
<1>3. Behind /\ UNCHANGED <<lifecycleVars, sent, upto, cursor>> => Behind'
  BY DEF Behind, lifecycleVars, Events, Known
<1>4. Fresh /\ UNCHANGED <<view, error, cursor, fetch, pending>> => Fresh'
  BY DEF Fresh
<1> QED
  BY <1>1, <1>2, <1>3, <1>4

(* A step of the queue, when the history has room for it. *)
LEMMA QueueMoves ==
    ASSUME TypeOK, Queue, Behind, UNCHANGED <<sent, upto, cursor>>,
           \/ UNCHANGED lifecycleVars
           \/ Take(Task) \/ Forget(Task)
           \/ /\ Len(Events) < MaxLog
              /\ \/ Revive(Task)
                 \/ \E k \in Sections \cup {"running"} : Report(Task, k)
                 \/ \E o \in Ended : Conclude(Task, o)
    PROVE  Queue' /\ Behind'
<1> USE MaxLogAssumption
<1>1. CASE UNCHANGED lifecycleVars
  BY <1>1, Kept
<1>2. CASE ~ UNCHANGED lifecycleVars
  <2>1. Events \in Seq(Notices) /\ Events' = log'[Task]
    BY TaskAssumption DEF Queue, Events
  <2>2. log' \in [Tasks -> Seq(Notices)]
    BY <1>2, HistoryGrows
  <2>3. Events' \in Seq(Notices) /\ Len(Events) \in Nat /\ Len(Events') \in Nat
    BY <2>1, <2>2, TaskAssumption
  <2>4. /\ status' \in [Tasks -> {"absent", "deleted", "queued", "running"} \cup Ended]
        /\ Known' => Known /\ Len(Events') >= Len(Events)
        /\ Len(Events') <= Len(Events) + 1
        /\ Take(Task) \/ Forget(Task) => Len(Events') <= Len(Events)
    BY <1>2, HistoryGrows
  <2>5. Len(Events) <= MaxLog
    BY DEF Queue
  <2>6. Len(Events') <= MaxLog
    BY <1>2, <2>3, <2>4, <2>5
  <2>7. Queue'
    BY <2>2, <2>4, <2>6 DEF Queue, Events
  <2>8. Behind'
    BY <2>3, <2>4 DEF Behind, TypeOK
  <2> QED
    BY <2>7, <2>8
<1> QED
  BY <1>1, <1>2

(* The stream may look about and move its mark as far as the history goes. *)
LEMMA StreamLooks ==
    ASSUME TypeOK, Queue, Flow, Behind, Fresh,
           UNCHANGED Outside, UNCHANGED <<sent, net>>,
           server \in Servers \ {"none", "closed"}, server' \in Servers \ {"none", "closed"},
           expired' \in BOOLEAN,
           upto' = upto \/ upto' = Len(Events),
           server' = "deliver" => HasNews /\ upto' = Len(Events)
    PROVE  StreamInv'
<1> USE DEF Outside, pageVars, linkVars, shownVars, faults
<1>1. Len(Events) \in 0 .. MaxLog
  BY TaskAssumption, MaxLogAssumption DEF Queue, Events
<1>2. TypeOK'
  BY <1>1 DEF TypeOK, Servers
<1>3. Queue' /\ Fresh'
  BY Kept
<1>4. Flow'
  BY <1>1 DEF Flow, InOrder, HasNews, Servers
<1>5. Behind'
  BY <1>1 DEF Behind, lifecycleVars, Known, Events
<1> QED
  BY <1>2, <1>3, <1>4, <1>5 DEF StreamInv

(* Asking for a snapshot makes up for whatever the view misses. *)
LEMMA RefreshRenews ==
    ASSUME Fresh, TypeOK, Refresh, UNCHANGED <<view, error>>, cursor' \in Nat
    PROVE  /\ Fresh'
           /\ pending' \in BOOLEAN /\ fetch'.at \in {"idle", "asked", "answered"}
<1>1. Asked.got \in Views /\ Asked = [at |-> Asked.at, got |-> Asked.got] /\ Asked.at = "asked"
  BY DEF Asked, NoView, Views
<1>2. CASE fetch.at = "idle"
  BY <1>1, <1>2 DEF Fresh, Refresh, TypeOK
<1>3. CASE fetch.at # "idle"
  BY <1>3 DEF Fresh, Refresh, TypeOK
<1> QED
  BY <1>2, <1>3

(* A connection that is gone leaves nothing in the pipe. *)
LEMMA HangupEmpties ==
    ASSUME Hangup, link' \in {"none", "lost"}
    PROVE  /\ Flow'
           /\ net' = <<>> /\ server' = "none" /\ server' \in Servers
           /\ sent' = 0 /\ upto' = 0 /\ expired' \in BOOLEAN
<1>1. /\ net' = <<>> /\ server' = "none" /\ server' \in Servers
      /\ sent' = 0 /\ upto' = 0 /\ expired' \in BOOLEAN
  BY DEF Hangup, Servers
<1>2. net' \in Seq(0 .. MaxLog)
  BY <1>1
<1>3. Flow'
  BY <1>1, <1>2 DEF Flow
<1> QED
  BY <1>1, <1>3

(* A new connection starts at the cursor. *)
LEMMA OpenResumes ==
    ASSUME TypeOK, Open, UNCHANGED cursor
    PROVE  /\ Flow'
           /\ net' = <<>> /\ server' \in Servers
           /\ sent' \in {0, cursor} /\ upto' = 0 /\ expired' \in BOOLEAN
           /\ disconnected' \in BOOLEAN /\ link' \in {"open", "lost"}
           /\ server' # "none" => link' = "open" /\ cursor' <= sent'
<1>1. /\ net' = <<>> /\ server' \in {"none", "read"}
      /\ sent' \in {0, cursor} /\ upto' = 0 /\ expired' \in BOOLEAN
      /\ server' # "none" => sent' = cursor
      /\ disconnected' \in BOOLEAN /\ link' \in {"open", "lost"}
      /\ link' = "open" <=> server' # "none"
  BY DEF TypeOK, Open, ResumeFrom
<1>2. net' \in Seq(0 .. MaxLog) /\ Len(net') = 0
  BY <1>1
<1>3. cursor \in Nat /\ cursor' = cursor
  BY DEF TypeOK
<1>4. server' # "none" => InOrder'
  BY <1>1, <1>2, <1>3 DEF InOrder
<1>5. Flow'
  BY <1>1, <1>2, <1>4 DEF Flow
<1> QED
  BY <1>1, <1>3, <1>5 DEF Servers, Reading

LEMMA BehindAtCursor ==
    ASSUME Queue, Behind, UNCHANGED <<lifecycleVars, cursor>>, sent' \in {0, cursor}, upto' = 0
    PROVE  Behind'
<1>1. Len(Events) \in Nat
  BY TaskAssumption DEF Queue, Events
<1> QED
  BY <1>1 DEF Behind, lifecycleVars, Known, Events

-----------------------------------------------------------------------------
LEMMA InitStream == Init => StreamInv
<1> SUFFICES ASSUME Init PROVE StreamInv
  OBVIOUS
<1>1. Events = <<>>
  BY TaskAssumption DEF Init, Events
<1>2. TypeOK
  <2>1. fetch.at = "asked" /\ 0 \in 0 .. MaxLog /\ Len(net) = 0
    BY MaxLogAssumption DEF Init, Asked
  <2>2. {retry, due, pending, error, disconnected, stopped} \subseteq BOOLEAN
    BY DEF Init
  <2>3. server \in Servers /\ owed \in BOOLEAN /\ expired \in BOOLEAN
    BY DEF Init, Servers
  <2>4. sent \in 0 .. MaxLog /\ upto \in 0 .. MaxLog /\ cursor \in 0 .. MaxLog
    BY <2>1 DEF Init
  <2>5. \A i \in 1 .. Len(net) : net[i] \in 0 .. MaxLog
    BY <2>1
  <2>6. link = "none" /\ server = "none" /\ net = <<>> /\ stopped = FALSE
    BY DEF Init
  <2> QED
    BY <2>1, <2>2, <2>3, <2>4, <2>5, <2>6 DEF TypeOK
<1>3. Queue
  BY <1>1, MaxLogAssumption DEF Init, Queue, Ended
<1>4. Flow
  BY DEF Init, Flow
<1>5. Behind
  BY <1>1 DEF Init, Behind
<1>6. Fresh
  BY DEF Init, Fresh, Views, NoView, Asked
<1> QED
  BY <1>2, <1>3, <1>4, <1>5, <1>6 DEF StreamInv

-----------------------------------------------------------------------------
(* The queue, and what is lost on the way. *)
LEMMA QueueStep ==
    ASSUME StreamInv, Commit \/ Silent
    PROVE  StreamInv'
<1> USE DEF StreamInv, serverVars, pageVars, linkVars, shownVars, faults
<1>1. UNCHANGED <<serverVars, net, pageVars, faults>> /\ owed' \in BOOLEAN
  BY DEF Commit, Silent, TypeOK
<1>2. TypeOK'
  BY <1>1 DEF TypeOK
<1>3. Queue' /\ Behind'
  BY <1>1, QueueMoves DEF Commit, Silent
<1>4. Flow' /\ Fresh'
  BY <1>1, Kept
<1> QED
  BY <1>2, <1>3, <1>4

LEMMA NotifyStep ==
    ASSUME StreamInv, Notify
    PROVE  StreamInv'
<1> USE DEF StreamInv, pageVars, linkVars, shownVars
<1>1. /\ UNCHANGED <<lifecycleVars, sent, upto, expired, net, pageVars>> /\ owed' \in BOOLEAN
      /\ server' = server \/ (server = "sleep" /\ server' = "read")
  BY DEF Notify
<1>2. TypeOK'
  BY <1>1 DEF TypeOK, Servers, Reading
<1>3. Queue' /\ Behind' /\ Fresh'
  BY <1>1, Kept
<1>4. Flow'
  BY <1>1 DEF Flow, InOrder
<1> QED
  BY <1>2, <1>3, <1>4

LEMMA LossStep ==
    ASSUME StreamInv, Drop \/ ServerRestart
    PROVE  StreamInv'
<1> USE DEF StreamInv, linkVars, shownVars
<1>1. /\ Hangup /\ link' = (IF link = "open" THEN "lost" ELSE link) /\ owed' \in BOOLEAN
      /\ UNCHANGED <<retry, due, disconnected, cursor, fetch, pending, shownVars>>
  BY DEF Drop, ServerRestart, Cut, TypeOK
<1>2. link' \in {"none", "lost"} /\ (link = "none" => link' = "none")
  BY <1>1 DEF TypeOK
<1>3. /\ Flow' /\ net' = <<>> /\ server' = "none" /\ server' \in Servers
      /\ sent' = 0 /\ upto' = 0 /\ expired' \in BOOLEAN
  BY <1>1, <1>2, HangupEmpties
<1>4. TypeOK'
  BY <1>1, <1>2, <1>3, MaxLogAssumption DEF TypeOK
<1>5. Fresh'
  BY <1>1, Kept
<1>6. Queue' /\ (Known' => Known) /\ (Known' => Len(Events) <= Len(Events'))
  <2>1. CASE UNCHANGED lifecycleVars
    BY <2>1, Kept, TaskAssumption DEF lifecycleVars, Known, Events, Queue
  <2>2. CASE ~ UNCHANGED lifecycleVars
    <3>1. Len(Events) < MaxLog /\ \E o \in Ended : Conclude(Task, o)
      BY <2>2 DEF Drop, ServerRestart, Ended
    <3>2. /\ status' \in [Tasks -> {"absent", "deleted", "queued", "running"} \cup Ended]
          /\ log' \in [Tasks -> Seq(Notices)]
          /\ Known' => Known /\ Len(Events') >= Len(Events)
          /\ Len(Events') <= Len(Events) + 1
      BY <3>1, HistoryGrows
    <3>3. Len(Events) \in Nat /\ Len(Events') \in Nat
      BY <3>2, TaskAssumption DEF Queue, Events
    <3> QED
      BY <3>1, <3>2, <3>3, MaxLogAssumption DEF Queue, Events
  <2> QED
    BY <2>1, <2>2
<1>7. Behind'
  <2>1. Len(Events) \in Nat /\ Len(Events') \in Nat
    BY <1>6, TaskAssumption DEF Queue, Events
  <2> QED
    BY <1>1, <1>3, <1>6, <2>1 DEF Behind, TypeOK
<1> QED
  BY <1>3, <1>4, <1>5, <1>6, <1>7

-----------------------------------------------------------------------------
(* The stream. *)
LEMMA LookStep ==
    ASSUME StreamInv, ReadEvents \/ LookAtTask \/ ReadAgain \/ LookForEnd \/ Timeout
    PROVE  StreamInv'
<1> USE DEF StreamInv, ServerStep, HasNews, Servers, Reading
<1>1. expired' \in BOOLEAN
  BY DEF ReadEvents, LookAtTask, ReadAgain, LookForEnd, Timeout, TypeOK
<1>2. CASE ReadEvents \/ ReadAgain
  BY <1>1, <1>2, StreamLooks DEF ReadEvents, ReadAgain
<1>3. CASE LookAtTask \/ LookForEnd \/ Timeout
  BY <1>1, <1>3, StreamLooks DEF LookAtTask, LookForEnd, Timeout
<1> QED
  BY <1>2, <1>3

LEMMA DeliverStep ==
    ASSUME StreamInv, Deliver
    PROVE  StreamInv'
<1> USE DEF StreamInv, Deliver, ServerStep, Outside, pageVars, linkVars, shownVars, faults
<1>1. sent < upto /\ sent \in Nat /\ upto \in 0 .. MaxLog /\ cursor \in Nat /\ sent + 1 \in 0 .. MaxLog
  BY MaxLogAssumption DEF Flow, TypeOK
<1>2. /\ net \in Seq(0 .. MaxLog) /\ Len(net) = sent - cursor /\ cursor <= sent
      /\ \A i \in 1 .. sent - cursor : net[i] = cursor + i
      /\ link = "open"
  BY <1>1 DEF Flow, InOrder
<1>3. /\ net' \in Seq(0 .. MaxLog) /\ Len(net') = sent + 1 - cursor
      /\ \A i \in 1 .. sent + 1 - cursor : net'[i] = cursor + i
  BY <1>1, <1>2
<1>4. server' \in {"deliver", "read"} /\ upto' \in {0, upto} /\ sent' = sent + 1
      /\ (server' = "deliver" => upto' = upto /\ sent + 1 # upto)
  BY <1>1
<1>5. Flow'
  <2>1. InOrder'
    BY <1>1, <1>2, <1>3, <1>4 DEF InOrder
  <2> QED
    BY <1>1, <1>2, <1>3, <1>4, <2>1 DEF Flow
<1>6. TypeOK'
  <2>1. \A i \in 1 .. Len(net') : net'[i] \in 0 .. MaxLog
    BY <1>3, ElementsOf
  <2>2. /\ server' \in Servers /\ expired' \in BOOLEAN
        /\ sent' \in 0 .. MaxLog /\ upto' \in 0 .. MaxLog /\ cursor' <= sent'
    <3>1. server' \in Servers /\ expired' \in BOOLEAN
      BY <1>4 DEF Servers, Reading
    <3>2. sent' \in 0 .. MaxLog /\ upto' \in 0 .. MaxLog
      BY <1>1, <1>4, MaxLogAssumption
    <3>3. cursor' <= sent'
      BY <1>1, <1>2, <1>4
    <3> QED
      BY <3>1, <3>2, <3>3
  <2>3. owed' \in BOOLEAN /\ {retry, due, pending, error, disconnected, stopped}' \subseteq BOOLEAN
    BY DEF TypeOK
  <2>4. /\ cursor' \in 0 .. MaxLog /\ link' = "open" /\ stopped' = FALSE
        /\ fetch'.at \in {"idle", "asked", "answered"}
    BY <1>2 DEF TypeOK
  <2> QED
    BY <2>1, <2>2, <2>3, <2>4 DEF TypeOK
<1>7. Queue' /\ Fresh'
  BY Kept
<1>8. Behind'
  <2>1. Len(Events) \in Nat
    BY TaskAssumption DEF Queue, Events
  <2> QED
    BY <1>1, <1>4, <2>1 DEF Behind, lifecycleVars, Known, Events
<1> QED
  BY <1>5, <1>6, <1>7, <1>8

(* The events that raced the last look follow in order, then the end. *)
LEMMA CloseStep ==
    ASSUME StreamInv, Close
    PROVE  StreamInv'
<1> USE DEF StreamInv
<1> DEFINE behind == Len(Events) - sent
           more == IF HasNews THEN behind ELSE 0
<1>1. /\ UNCHANGED <<upto, expired>> /\ UNCHANGED Outside
      /\ server = "trail" /\ server' = "closed"
      /\ net' = (net \o Trailing) \o <<0>>
      /\ sent' = sent + Len(Trailing)
  BY DEF Close, ServerStep
<1>2. sent \in Nat /\ sent <= MaxLog /\ cursor \in Nat /\ Len(Events) \in Nat /\ Len(Events) <= MaxLog
  BY TaskAssumption, MaxLogAssumption DEF TypeOK, Queue, Events
<1>3. /\ net \in Seq(0 .. MaxLog) /\ Len(net) = sent - cursor /\ cursor <= sent
      /\ \A i \in 1 .. sent - cursor : net[i] = cursor + i
      /\ link = "open"
  BY <1>1, <1>2 DEF Flow, InOrder
<1>4. more \in Nat /\ sent + more <= MaxLog
  BY <1>2, MaxLogAssumption DEF HasNews
<1>5. /\ Trailing \in Seq(0 .. MaxLog) /\ Len(Trailing) = more
      /\ \A i \in 1 .. more : Trailing[i] = sent + i
  <2>1. Trailing = [i \in 1 .. more |-> sent + i]
    BY DEF Trailing
  <2>2. \A i \in 1 .. more : sent + i \in 0 .. MaxLog
    BY <1>2, <1>4, MaxLogAssumption
  <2> HIDE DEF more
  <2> QED
    BY <1>4, <2>1, <2>2
<1> HIDE DEF more
<1> DEFINE told == net \o Trailing
<1>6. /\ told \in Seq(0 .. MaxLog) /\ Len(told) = sent + more - cursor
      /\ \A i \in 1 .. sent + more - cursor : told[i] = cursor + i
  <2>1. told \in Seq(0 .. MaxLog) /\ Len(told) = Len(net) + Len(Trailing)
    BY <1>3, <1>5
  <2>2. \A i \in 1 .. Len(told) : told[i] = IF i <= Len(net) THEN net[i] ELSE Trailing[i - Len(net)]
    BY <1>3, <1>5
  <2>3. ASSUME NEW i \in 1 .. sent + more - cursor
        PROVE  told[i] = cursor + i
    <3>1. CASE i <= Len(net)
      BY <1>2, <1>3, <1>4, <1>5, <2>1, <2>2, <3>1
    <3>2. CASE i > Len(net)
      <4>1. i - Len(net) \in 1 .. more /\ i \in 1 .. Len(told)
        BY <1>2, <1>3, <1>4, <1>5, <2>1, <3>2
      <4>2. told[i] = Trailing[i - Len(net)]
        BY <2>2, <3>2, <4>1, <1>3
      <4>3. Trailing[i - Len(net)] = sent + (i - Len(net))
        BY <1>5, <4>1
      <4>4. i \in Nat /\ sent + (i - Len(net)) = cursor + i
        BY <1>2, <1>3, <1>4
      <4> QED
        BY <4>2, <4>3, <4>4
    <3>3. i <= Len(net) \/ i > Len(net)
      BY <1>2, <1>3, <1>4
    <3> QED
      BY <3>1, <3>2, <3>3
  <2> QED
    BY <1>2, <1>3, <1>4, <1>5, <2>1, <2>3
<1>7. /\ net' \in Seq(0 .. MaxLog) /\ Len(net') = sent + more - cursor + 1
      /\ \A i \in 1 .. sent + more - cursor : net'[i] = cursor + i
      /\ net'[Len(net')] = 0
  <2>1. net' = told \o <<0>> /\ 0 \in 0 .. MaxLog
    BY <1>1, MaxLogAssumption
  <2> HIDE DEF told
  <2>2. sent + more - cursor \in Nat
    BY <1>2, <1>3, <1>4
  <2> QED
    BY <1>6, <2>1, <2>2
<1>8. sent' = sent + more /\ UNCHANGED cursor
  BY <1>1, <1>5 DEF Outside, pageVars
<1>9. Flow'
  <2>1. InOrder'
    BY <1>1, <1>2, <1>3, <1>4, <1>7, <1>8 DEF InOrder
  <2> QED
    BY <1>1, <1>3, <1>7, <2>1 DEF Flow, Outside, pageVars, linkVars
<1>10. TypeOK'
  <2>1. \A i \in 1 .. Len(net') : net'[i] \in 0 .. MaxLog
    BY <1>7, ElementsOf
  <2>2. /\ server' \in Servers /\ expired' \in BOOLEAN
        /\ sent' \in 0 .. MaxLog /\ upto' \in 0 .. MaxLog /\ cursor' <= sent'
    <3>1. server' \in Servers /\ expired' \in BOOLEAN
      BY <1>1 DEF TypeOK, Servers
    <3>2. sent' \in 0 .. MaxLog /\ cursor' <= sent'
      BY <1>2, <1>3, <1>4, <1>8, MaxLogAssumption
    <3>3. upto' \in 0 .. MaxLog
      BY <1>1 DEF TypeOK
    <3> QED
      BY <3>1, <3>2, <3>3
  <2>3. owed' \in BOOLEAN /\ {retry, due, pending, error, disconnected, stopped}' \subseteq BOOLEAN
    BY <1>1 DEF TypeOK, Outside, pageVars, linkVars, shownVars
  <2>4. /\ cursor' \in 0 .. MaxLog /\ link' = "open" /\ stopped' = FALSE
        /\ fetch'.at \in {"idle", "asked", "answered"}
    BY <1>1, <1>3 DEF TypeOK, Outside, pageVars, linkVars, shownVars
  <2> QED
    BY <2>1, <2>2, <2>3, <2>4 DEF TypeOK
<1>11. Queue' /\ Fresh'
  BY <1>1, Kept DEF Outside, pageVars, shownVars
<1>12. Behind'
  BY <1>1, <1>2, <1>4, <1>8 DEF Behind, HasNews, more, Outside, pageVars, lifecycleVars, Known, Events
<1> QED
  BY <1>9, <1>10, <1>11, <1>12

-----------------------------------------------------------------------------
(* The page. *)
LEMMA OnEventStep ==
    ASSUME StreamInv, OnEvent
    PROVE  StreamInv' /\ (cursor' # cursor => cursor' = cursor + 1)
<1> USE DEF StreamInv
<1>1. /\ link = "open" /\ net # <<>> /\ Head(net) # 0 /\ net' = Tail(net)
      /\ UNCHANGED <<lifecycleVars, owed, serverVars, linkVars, shownVars>>
  BY DEF OnEvent
<1>2. /\ sent \in Nat /\ cursor \in Nat /\ sent <= MaxLog /\ cursor <= sent
      /\ server # "none" /\ net \in Seq(0 .. MaxLog) /\ Len(net) > 0
  BY <1>1, MaxLogAssumption DEF TypeOK, Flow
<1>3. sent > cursor
  <2> SUFFICES ASSUME sent = cursor PROVE FALSE
    BY <1>2
  <2>1. server = "closed" /\ Len(net) = 1 /\ net[1] = 0
    BY <1>2 DEF Flow, InOrder
  <2> QED
    BY <1>1, <1>2, <2>1
<1>4. Head(net) = cursor + 1
  <2>1. net[1] = cursor + 1
    BY <1>2, <1>3 DEF Flow, InOrder
  <2> QED
    BY <1>1, <1>2, <2>1
<1>5. cursor' = cursor + 1 /\ Refresh
  BY <1>2, <1>4 DEF OnEvent
<1>6. /\ net' \in Seq(0 .. MaxLog) /\ Len(net') = Len(net) - 1
      /\ \A i \in 1 .. Len(net) - 1 : net'[i] = net[i + 1]
  BY <1>1, <1>2
<1>7. UNCHANGED <<server, sent, upto, link>>
  BY <1>1 DEF serverVars, linkVars
<1>8. InOrder'
  <2>1. /\ Len(net) = sent - cursor + (IF server = "closed" THEN 1 ELSE 0)
        /\ \A i \in 1 .. sent - cursor : net[i] = cursor + i
        /\ server = "closed" => net[Len(net)] = 0
    BY <1>2 DEF Flow, InOrder
  <2>2. ASSUME NEW i \in 1 .. sent - cursor'
        PROVE  net'[i] = cursor' + i
    <3>1. i + 1 \in 1 .. sent - cursor /\ i \in 1 .. Len(net) - 1
      BY <1>2, <1>5, <2>1
    <3> QED
      BY <1>2, <1>5, <1>6, <2>1, <3>1
  <2>3. server = "closed" => net'[Len(net')] = 0
    <3> SUFFICES ASSUME server = "closed" PROVE net'[Len(net')] = 0
      OBVIOUS
    <3>1. Len(net) - 1 \in 1 .. Len(net) - 1
      BY <1>2, <1>3, <2>1
    <3> QED
      BY <1>2, <1>6, <2>1, <3>1
  <2> QED
    BY <1>2, <1>3, <1>5, <1>6, <1>7, <2>1, <2>2, <2>3 DEF InOrder
<1>9. Flow'
  BY <1>2, <1>6, <1>7, <1>8 DEF Flow
<1>10. Fresh' /\ pending' \in BOOLEAN /\ fetch'.at \in {"idle", "asked", "answered"}
  BY <1>1, <1>2, <1>5, RefreshRenews DEF shownVars
<1>11. TypeOK'
  <2>1. \A i \in 1 .. Len(net') : net'[i] \in 0 .. MaxLog
    BY <1>6, ElementsOf
  <2>2. cursor' \in 0 .. MaxLog /\ cursor' <= sent'
    BY <1>2, <1>3, <1>5, <1>7, MaxLogAssumption
  <2> QED
    BY <1>1, <1>10, <2>1, <2>2 DEF TypeOK, serverVars, linkVars, shownVars
<1>12. Queue'
  BY <1>1, Kept
<1>13. Behind'
  <2>1. Len(Events) \in Nat
    BY TaskAssumption DEF Queue, Events
  <2> QED
    BY <1>1, <1>2, <1>3, <1>5, <1>7, <2>1 DEF Behind, lifecycleVars, Known, Events
<1> QED
  BY <1>5, <1>9, <1>10, <1>11, <1>12, <1>13

(* A connection is closed, or a new one is opened at the cursor; the stream  *)
(* it had is gone with all that was on its way.                              *)
LEMMA Rewired ==
    ASSUME StreamInv,
           UNCHANGED <<lifecycleVars, owed, cursor, stopped>>, Fresh',
           retry' \in BOOLEAN, due' \in BOOLEAN, pending' \in BOOLEAN, error' \in BOOLEAN,
           disconnected' \in BOOLEAN,
           fetch'.at \in {"idle", "asked", "answered"},
           stopped => ~retry',
           \/ UNCHANGED <<serverVars, net, link>>
           \/ Hangup /\ link' = "none"
           \/ Open /\ ~stopped
    PROVE  StreamInv'
<1> USE DEF StreamInv, serverVars
<1>1. Queue'
  BY Kept
<1>2. CASE UNCHANGED <<serverVars, net, link>>
  <2>1. TypeOK'
    BY <1>2 DEF TypeOK
  <2> QED
    BY <1>1, <1>2, <2>1, Kept
<1>3. ASSUME Flow',
             net' = <<>>, server' \in Servers, expired' \in BOOLEAN,
             sent' \in {0, cursor}, upto' = 0, link' \in {"none", "lost", "open"},
             server' # "none" => link' = "open" /\ cursor' <= sent',
             stopped => link' = "none"
      PROVE  StreamInv'
  <2>1. TypeOK'
    <3>1. sent' \in 0 .. MaxLog /\ upto' \in 0 .. MaxLog /\ Len(net') = 0
      BY <1>3, MaxLogAssumption DEF TypeOK
    <3> QED
      BY <1>3, <3>1 DEF TypeOK
  <2>2. Behind'
    BY <1>3, BehindAtCursor
  <2> QED
    BY <1>1, <1>3, <2>1, <2>2
<1>4. CASE Hangup /\ link' = "none"
  <2>1. link' \in {"none", "lost"} /\ Hangup
    BY <1>4
  <2>2. /\ Flow' /\ net' = <<>> /\ server' = "none" /\ server' \in Servers
        /\ sent' = 0 /\ upto' = 0 /\ expired' \in BOOLEAN
    BY <2>1, HangupEmpties
  <2> QED
    BY <1>3, <1>4, <2>2
<1>5. CASE Open /\ ~stopped
  <2>1. Open /\ UNCHANGED cursor /\ TypeOK
    BY <1>5
  <2>2. /\ Flow'
        /\ net' = <<>> /\ server' \in Servers
        /\ sent' \in {0, cursor} /\ upto' = 0 /\ expired' \in BOOLEAN
        /\ disconnected' \in BOOLEAN /\ link' \in {"open", "lost"}
        /\ server' # "none" => link' = "open" /\ cursor' <= sent'
    BY <2>1, OpenResumes
  <2> QED
    BY <1>3, <1>5, <2>2
<1> QED
  BY <1>2, <1>4, <1>5

LEMMA OpenFlag == TypeOK /\ Open => disconnected' \in BOOLEAN
BY DEF TypeOK, Open

LEMMA OnErrorStep ==
    ASSUME StreamInv, OnError
    PROVE  StreamInv'
<1>1. /\ Refresh /\ Hangup /\ link' = "none" /\ retry' = TRUE /\ disconnected' = TRUE
      /\ UNCHANGED <<lifecycleVars, owed, due, cursor, shownVars>>
      /\ link # "none"
  BY DEF OnError
<1>2. TypeOK /\ Fresh /\ cursor' \in Nat /\ UNCHANGED <<view, error>>
  BY <1>1 DEF StreamInv, shownVars, TypeOK
<1>3. Fresh' /\ pending' \in BOOLEAN /\ fetch'.at \in {"idle", "asked", "answered"}
  BY <1>1, <1>2, RefreshRenews
<1>4. /\ retry' \in BOOLEAN /\ disconnected' \in BOOLEAN /\ due' \in BOOLEAN /\ error' \in BOOLEAN
      /\ ~stopped /\ UNCHANGED stopped
  BY <1>1, <1>2 DEF TypeOK, shownVars
<1> QED
  BY <1>1, <1>3, <1>4, Rewired

LEMMA ConnectStep ==
    ASSUME StreamInv, Connect
    PROVE  StreamInv'
<1>1. /\ due' = FALSE
      /\ UNCHANGED <<lifecycleVars, owed, retry, cursor, fetch, pending, view, error, stopped>>
      /\ \/ UNCHANGED <<serverVars, net, link, disconnected>>
         \/ Open /\ ~stopped
  BY DEF Connect, shownVars
<1>2. TypeOK /\ Fresh'
  BY <1>1, Kept DEF StreamInv
<1>3. disconnected' \in BOOLEAN
  BY <1>1, <1>2, OpenFlag DEF TypeOK
<1>4. /\ retry' \in BOOLEAN /\ due' \in BOOLEAN /\ pending' \in BOOLEAN /\ error' \in BOOLEAN
      /\ fetch'.at \in {"idle", "asked", "answered"} /\ (stopped => ~retry')
  BY <1>1, <1>2 DEF TypeOK
<1> QED
  BY <1>1, <1>2, <1>3, <1>4, Rewired

LEMMA RetryTimerStep ==
    ASSUME StreamInv, RetryTimer
    PROVE  StreamInv'
<1>1. /\ retry /\ retry' = FALSE /\ Open
      /\ UNCHANGED <<lifecycleVars, owed, due, cursor, fetch, pending, view, error, stopped>>
  BY DEF RetryTimer, shownVars
<1>2. TypeOK /\ Fresh'
  BY <1>1, Kept DEF StreamInv
<1>3. disconnected' \in BOOLEAN /\ ~stopped
  BY <1>1, <1>2, OpenFlag DEF TypeOK
<1>4. /\ retry' \in BOOLEAN /\ due' \in BOOLEAN /\ pending' \in BOOLEAN /\ error' \in BOOLEAN
      /\ fetch'.at \in {"idle", "asked", "answered"}
  BY <1>1, <1>2 DEF TypeOK
<1> QED
  BY <1>1, <1>2, <1>3, <1>4, Rewired

LEMMA ReconnectStep ==
    ASSUME StreamInv, Reconnect
    PROVE  StreamInv'
<1>1. /\ Refresh /\ retry' = FALSE
      /\ UNCHANGED <<lifecycleVars, owed, cursor, view, error, stopped>>
      /\ \/ due' = TRUE /\ UNCHANGED <<serverVars, net, link, disconnected>>
         \/ UNCHANGED due /\ Open /\ ~stopped
  BY DEF Reconnect, shownVars
<1>2. TypeOK /\ Fresh /\ cursor' \in Nat
  BY <1>1 DEF StreamInv, TypeOK
<1>3. Fresh' /\ pending' \in BOOLEAN /\ fetch'.at \in {"idle", "asked", "answered"}
  BY <1>1, <1>2, RefreshRenews
<1>4. disconnected' \in BOOLEAN
  BY <1>1, <1>2, OpenFlag DEF TypeOK
<1>5. retry' \in BOOLEAN /\ due' \in BOOLEAN /\ error' \in BOOLEAN
  BY <1>1, <1>2 DEF TypeOK
<1> QED
  BY <1>1, <1>3, <1>4, <1>5, Rewired

LEMMA StartOverStep ==
    ASSUME StreamInv, StartOver
    PROVE  StreamInv'
<1>1. /\ fetch' = Asked /\ pending' = FALSE /\ error' = FALSE /\ retry' = FALSE /\ due' = TRUE
      /\ Hangup /\ link' = "none"
      /\ UNCHANGED <<lifecycleVars, owed, disconnected, cursor, view, stopped>>
  BY DEF StartOver
<1>2. Fresh'
  BY <1>1 DEF StreamInv, Fresh, Asked, NoView, Views
<1>3. disconnected' \in BOOLEAN /\ fetch'.at \in {"idle", "asked", "answered"}
  BY <1>1 DEF StreamInv, TypeOK, Asked
<1> QED
  BY <1>1, <1>2, <1>3, Rewired

(* Snapshots: asked for, answered, shown, failed. *)
LEMMA PollStep ==
    ASSUME StreamInv, Poll
    PROVE  StreamInv'
<1>1. /\ Refresh /\ UNCHANGED <<view, error>>
      /\ UNCHANGED <<lifecycleVars, owed, cursor, stopped, serverVars, net, link>>
      /\ UNCHANGED <<retry, due, disconnected>>
  BY DEF Poll, linkVars, shownVars
<1>2. TypeOK /\ Fresh /\ cursor' \in Nat
  BY <1>1 DEF StreamInv, TypeOK
<1>3. Fresh' /\ pending' \in BOOLEAN /\ fetch'.at \in {"idle", "asked", "answered"}
  BY <1>1, <1>2, RefreshRenews
<1>4. /\ retry' \in BOOLEAN /\ disconnected' \in BOOLEAN /\ due' \in BOOLEAN /\ error' \in BOOLEAN
      /\ (stopped => ~retry')
  BY <1>1, <1>2 DEF TypeOK
<1> QED
  BY <1>1, <1>3, <1>4, Rewired

LEMMA AnswerStep ==
    ASSUME StreamInv, Answer
    PROVE  StreamInv'
<1>1. /\ Known /\ fetch' = [at |-> "answered", got |-> Snapshot]
      /\ UNCHANGED <<lifecycleVars, owed, cursor, stopped, serverVars, net, link>>
      /\ UNCHANGED <<retry, due, disconnected, pending, view, error>>
  BY DEF Answer, linkVars, shownVars
<1>2. TypeOK /\ Queue /\ Fresh /\ cursor <= Len(Events)
  BY <1>1 DEF StreamInv, Behind
<1>3. Snapshot \in Views /\ Snapshot.seen = Len(Events)
  BY <1>1, <1>2, TaskAssumption DEF Snapshot, Views, Queue, Events, Known, Ended
<1>4. Fresh'
  BY <1>1, <1>2, <1>3 DEF Fresh
<1>5. /\ retry' \in BOOLEAN /\ disconnected' \in BOOLEAN /\ due' \in BOOLEAN /\ error' \in BOOLEAN
      /\ pending' \in BOOLEAN /\ (stopped => ~retry') /\ fetch'.at \in {"idle", "asked", "answered"}
  BY <1>1, <1>2 DEF TypeOK
<1> QED
  BY <1>1, <1>4, <1>5, Rewired

LEMMA NextFetchIsTyped ==
    ASSUME NextFetch, TypeOK
    PROVE  /\ fetch'.got \in Views /\ fetch' = [at |-> fetch'.at, got |-> fetch'.got]
           /\ pending' \in BOOLEAN /\ fetch'.at \in {"idle", "asked"}
           /\ fetch'.at = "idle" => ~pending
<1>1. /\ Asked.got \in Views /\ Asked = [at |-> Asked.at, got |-> Asked.got] /\ Asked.at = "asked"
      /\ NoFetch.got \in Views /\ NoFetch = [at |-> NoFetch.at, got |-> NoFetch.got]
      /\ NoFetch.at = "idle"
  BY DEF Asked, NoFetch, NoView, Views
<1>2. CASE pending
  BY <1>1, <1>2 DEF NextFetch
<1>3. CASE ~pending
  BY <1>1, <1>3 DEF NextFetch
<1> QED
  BY <1>2, <1>3

LEMMA ShowErrorStep ==
    ASSUME StreamInv, ShowError
    PROVE  StreamInv'
<1>1. /\ NextFetch /\ error' = TRUE
      /\ UNCHANGED <<lifecycleVars, owed, cursor, stopped, serverVars, net, link>>
      /\ UNCHANGED <<retry, due, disconnected, view>>
  BY DEF ShowError, linkVars
<1>2. TypeOK /\ Fresh
  BY DEF StreamInv
<1>3. Fresh'
  BY <1>1, <1>2, NextFetchIsTyped DEF Fresh
<1>4. pending' \in BOOLEAN /\ fetch'.at \in {"idle", "asked", "answered"}
  BY <1>1, <1>2, NextFetchIsTyped
<1>5. /\ retry' \in BOOLEAN /\ disconnected' \in BOOLEAN /\ due' \in BOOLEAN /\ error' \in BOOLEAN
      /\ (stopped => ~retry')
  BY <1>1, <1>2 DEF TypeOK
<1> QED
  BY <1>1, <1>3, <1>4, <1>5, Rewired

(* The one step that changes stopped: the page closes what it had. *)
LEMMA ShowStep ==
    ASSUME StreamInv, Show
    PROVE  StreamInv'
<1>1. /\ NextFetch /\ error' = FALSE /\ view' = fetch.got /\ fetch.at = "answered"
      /\ UNCHANGED <<lifecycleVars, owed, due, cursor>>
      /\ \/ /\ stopped' = TRUE /\ link' = "none" /\ retry' = FALSE
            /\ disconnected' = FALSE /\ Hangup
         \/ UNCHANGED <<stopped, link, retry, disconnected, serverVars, net>>
  BY DEF Show
<1>2. TypeOK /\ Fresh /\ Queue /\ Queue'
  BY <1>1, Kept DEF StreamInv
<1>3. Fresh'
  BY <1>1, <1>2, NextFetchIsTyped DEF Fresh
<1>4. pending' \in BOOLEAN /\ fetch'.at \in {"idle", "asked", "answered"}
  BY <1>1, <1>2, NextFetchIsTyped
<1>5. CASE UNCHANGED <<stopped, link, retry, disconnected, serverVars, net>>
  <2>1. /\ retry' \in BOOLEAN /\ disconnected' \in BOOLEAN /\ due' \in BOOLEAN /\ error' \in BOOLEAN
        /\ (stopped => ~retry')
    BY <1>1, <1>2, <1>5 DEF TypeOK
  <2> QED
    BY <1>1, <1>3, <1>4, <1>5, <2>1, Rewired
<1>6. CASE /\ stopped' = TRUE /\ link' = "none" /\ retry' = FALSE
           /\ disconnected' = FALSE /\ Hangup
  <2>1. /\ Flow' /\ net' = <<>> /\ server' = "none" /\ server' \in Servers
        /\ sent' = 0 /\ upto' = 0 /\ expired' \in BOOLEAN
    BY <1>6, HangupEmpties
  <2>2. Behind'
    BY <1>1, <1>2, <2>1, BehindAtCursor DEF StreamInv
  <2>3. TypeOK'
    <3>1. sent' \in 0 .. MaxLog /\ upto' \in 0 .. MaxLog /\ Len(net') = 0
      BY <2>1, MaxLogAssumption
    <3>2. owed' \in BOOLEAN /\ {retry, due, pending, error, disconnected, stopped}' \subseteq BOOLEAN
      BY <1>1, <1>2, <1>4, <1>6 DEF TypeOK
    <3>3. cursor' \in 0 .. MaxLog /\ link' = "none" /\ ~retry'
      BY <1>1, <1>2, <1>6 DEF TypeOK
    <3> QED
      BY <1>4, <2>1, <3>1, <3>2, <3>3 DEF TypeOK
  <2> QED
    BY <1>2, <1>3, <2>1, <2>2, <2>3 DEF StreamInv
<1> QED
  BY <1>1, <1>5, <1>6

-----------------------------------------------------------------------------
LEMMA StreamKept == StreamInv /\ [Next]_vars => StreamInv'
<1> SUFFICES ASSUME StreamInv, [Next]_vars PROVE StreamInv'
  OBVIOUS
<1>1. CASE Commit \/ Silent
  BY <1>1, QueueStep
<1>2. CASE Notify
  BY <1>2, NotifyStep
<1>3. CASE StreamStep \/ Timeout
  BY <1>3, LookStep, DeliverStep, CloseStep DEF StreamStep
<1>4. CASE PageStep
  BY <1>4, OnEventStep, OnErrorStep, ConnectStep, RetryTimerStep DEF PageStep
<1>5. CASE Poll \/ Reconnect \/ StartOver
  BY <1>5, PollStep, ReconnectStep, StartOverStep
<1>6. CASE Answer \/ Show \/ ShowError
  BY <1>6, AnswerStep, ShowStep, ShowErrorStep
<1>7. CASE Drop \/ ServerRestart
  BY <1>7, LossStep
<1>8. CASE UNCHANGED vars
  <2>1. TypeOK'
    BY <1>8 DEF StreamInv, TypeOK, vars, serverVars, pageVars, linkVars, shownVars
  <2> QED
    BY <1>8, <2>1, Kept DEF StreamInv, vars, serverVars, pageVars, linkVars, shownVars
<1> QED
  BY <1>1, <1>2, <1>3, <1>4, <1>5, <1>6, <1>7, <1>8 DEF Next

LEMMA StreamIsSound == Spec => []StreamInv
<1> QED
  BY InitStream, StreamKept, PTL DEF Spec

(* The page, the connection and the stream keep their types, and what the *)
(* server has sent is never behind the page's cursor.                     *)
THEOREM StreamTypes == Spec => []TypeOK
<1>1. StreamInv => TypeOK
  BY DEF StreamInv
<1> QED
  BY <1>1, StreamIsSound, PTL

(* A page at rest shows a task at least as new as the last event it was told *)
(* of (Run.tsx:42-66, 74-78).                                                *)
THEOREM ViewCatchesUp == Spec => []ViewIsFresh
<1>1. StreamInv => ViewIsFresh
  BY DEF StreamInv, Fresh, ViewIsFresh
<1> QED
  BY <1>1, StreamIsSound, PTL

(* The cursor moves one event at a time, through lost connections and *)
(* reconnections (api.py:306-325, Run.tsx:67-88).                     *)
THEOREM EventsComeInOrder == Spec => NoEventSkipped
<1>1. StreamInv /\ [Next]_vars => [cursor' # cursor => cursor' = cursor + 1]_vars
  <2> SUFFICES ASSUME StreamInv, Next
               PROVE  cursor' # cursor => cursor' = cursor + 1
    BY DEF vars
  <2>1. CASE OnEvent
    BY <2>1, OnEventStep
  <2>2. CASE ~OnEvent
    BY <2>2 DEF Next, Commit, Silent, Notify, StreamStep, Timeout, ReadEvents, LookAtTask,
       ReadAgain, Deliver, LookForEnd, Close, PageStep, OnError, Connect, RetryTimer, Poll,
       Reconnect, StartOver, Answer, Show, ShowError, Drop, ServerRestart, Outside, pageVars
  <2> QED
    BY <2>1, <2>2
<1> QED
  BY <1>1, StreamIsSound, PTL DEF Spec, NoEventSkipped

(* A stream closes only after the last event (worker.py:94-97,  *)
(* api.py:315-324).                                             *)
THEOREM StreamsEndComplete == Spec => ClosesComplete
<1>1. StreamInv /\ [Next]_vars => [server = "trail" /\ server' = "closed" => sent' >= Len(Events)]_vars
  <2> SUFFICES ASSUME StreamInv, Next, server = "trail", server' = "closed"
               PROVE  sent' >= Len(Events)
    BY DEF vars
  <2>1. CASE Close
    <3>1. sent \in Nat /\ Len(Events) \in Nat
      BY TaskAssumption DEF StreamInv, TypeOK, Queue, Events
    <3>2. Len(Trailing) = (IF HasNews THEN Len(Events) - sent ELSE 0)
      BY <3>1 DEF Trailing, HasNews
    <3> QED
      BY <2>1, <3>1, <3>2 DEF Close, HasNews
  <2>2. CASE ~Close
    BY <2>2 DEF Next, Commit, Silent, Notify, StreamStep, Timeout, ReadEvents, LookAtTask,
       ReadAgain, Deliver, LookForEnd, PageStep, OnEvent, OnError, Connect, RetryTimer, Poll,
       Reconnect, StartOver, Answer, Show, ShowError, Drop, ServerRestart, Outside, serverVars,
       ServerStep, Open, Hangup, Cut
  <2> QED
    BY <2>1, <2>2
<1> QED
  BY <1>1, StreamIsSound, PTL DEF Spec, ClosesComplete
=============================================================================
