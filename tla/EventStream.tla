---------------------------- MODULE EventStream ----------------------------
(***************************************************************************)
(* How a browser page follows a task: the SSE endpoint of web/api.py on    *)
(* top of TaskWorker.wait_for_events, the network, and the page            *)
(* client/src/pages/Run.tsx, which keeps a cursor, asks for a snapshot     *)
(* after every event, and reconnects from its cursor.                      *)
(*                                                                         *)
(* The queue is taken at its promise, TaskLifecycle.  Only one task and    *)
(* one page matter: pages share nothing but the condition variable, and    *)
(* event ids of one task only grow, so an id is its position in log[Task]. *)
(***************************************************************************)
EXTENDS TaskLifecycle

CONSTANTS Task,       \* the task the page shows
          MaxLog,     \* bound: events of the task
          MaxDrops,   \* bound: connections lost, server exits included
          MaxErrors   \* bound: snapshot requests that fail

ASSUME TaskAssumption == Task \in Tasks
ASSUME MaxLogAssumption == MaxLog \in Nat

VARIABLES owed,      \* an event is committed, its notify() still to come
          server,    \* where the stream of the page's connection stands
          sent,      \* the stream's cursor
          upto,      \* the batch in hand ends with this event
          expired,   \* the heartbeat deadline has passed
          net,       \* events on their way to the page; 0 is end of stream
          link,      \* the page's EventSource
          retry,     \* the reconnection timer is set
          due,       \* connect() follows when the snapshot loop ends
          cursor,    \* Run.tsx cursor.current
          fetch,     \* the snapshot in progress: loading and its answer
          pending,   \* Run.tsx pending
          view,      \* the task as the page shows it, and how old that is
          error, disconnected, stopped,
          drops, errors

serverVars == <<server, sent, upto, expired>>
linkVars   == <<link, retry, due, disconnected>>
shownVars  == <<view, error, stopped>>
pageVars   == <<linkVars, cursor, fetch, pending, shownVars>>
faults     == <<drops, errors>>
vars == <<lifecycleVars, owed, serverVars, net, pageVars, faults>>

Ended     == {"completed", "failed", "interrupted"}
Events    == log[Task]
Known     == status[Task] \notin {"absent", "deleted"}
Snapshot  == [status |-> status[Task], seen |-> Len(Events)]
NoView    == [status |-> "none", seen |-> 0]

Reading   == {"read", "look", "again"}   \* inside wait_for_events, lock held
Servers   == Reading \cup {"none", "sleep", "deliver", "snap", "trail", "closed"}

TypeOK ==
    /\ owed \in BOOLEAN /\ server \in Servers /\ expired \in BOOLEAN
    /\ sent \in 0 .. MaxLog /\ upto \in 0 .. MaxLog /\ cursor \in 0 .. MaxLog
    /\ \A i \in 1 .. Len(net) : net[i] \in 0 .. MaxLog
    /\ link \in {"none", "open", "lost"}
    /\ fetch.at \in {"idle", "asked", "answered"}
    /\ {retry, due, pending, error, disconnected, stopped} \subseteq BOOLEAN
    /\ server # "none" => link = "open" /\ cursor <= sent
    /\ net # <<>> => link = "open"
    /\ stopped => link = "none" /\ ~retry

NoFetch == [at |-> "idle", got |-> NoView]
Asked   == [at |-> "asked", got |-> NoView]

(* The page opens on a task that exists, and asks for a first snapshot. *)
Init ==
    /\ status = [t \in Tasks |-> IF t = Task THEN "queued" ELSE "absent"]
    /\ log = [t \in Tasks |-> <<>>]
    /\ owed = FALSE
    /\ server = "none" /\ sent = 0 /\ upto = 0 /\ expired = FALSE
    /\ net = <<>>
    /\ link = "none" /\ retry = FALSE /\ due = TRUE /\ disconnected = FALSE
    /\ cursor = 0 /\ fetch = Asked /\ pending = FALSE
    /\ view = NoView /\ error = FALSE /\ stopped = FALSE
    /\ drops = 0 /\ errors = 0

-----------------------------------------------------------------------------
(* The queue.  A commit is followed by notify(), except for a deletion. *)
Commit ==
    /\ Len(Events) < MaxLog
    /\ \/ \E k \in Sections \cup {"running"} : Report(Task, k)
       \/ \E o \in Ended : Conclude(Task, o)
       \/ Revive(Task)
    /\ owed' = TRUE
    /\ UNCHANGED <<serverVars, net, pageVars, faults>>

Silent ==
    /\ Take(Task) \/ Forget(Task)
    /\ UNCHANGED <<owed, serverVars, net, pageVars, faults>>

(* notify() needs the lock that wait_for_events holds until it sleeps. *)
MayNotify_Unlocked == owed
MayNotify == owed /\ server \notin Reading

Notify ==
    /\ MayNotify
    /\ owed' = FALSE
    /\ server' = IF server = "sleep" THEN "read" ELSE server
    /\ UNCHANGED <<lifecycleVars, sent, upto, expired, net, pageVars, faults>>

-----------------------------------------------------------------------------
(* The stream of one connection. *)

ServerStep(from, to) == server = from /\ server' = to
Outside == <<lifecycleVars, owed, pageVars, faults>>

HasNews == Len(Events) > sent
TaskOver_Forgets == ~Known \/ status[Task] \in {"completed", "interrupted"}
TaskOver == ~Known \/ status[Task] \in Ended

ReadEvents ==
    /\ ServerStep("read", IF HasNews THEN "deliver" ELSE "look")
    /\ upto' = IF HasNews THEN Len(Events) ELSE upto
    /\ UNCHANGED <<sent, expired, net>> /\ UNCHANGED Outside

LookAtTask ==
    /\ ServerStep("look", IF TaskOver THEN "again"
                          ELSE IF expired THEN "snap" ELSE "sleep")
    /\ UNCHANGED <<sent, upto, expired, net>> /\ UNCHANGED Outside

ReadAgain ==
    /\ ServerStep("again", IF HasNews THEN "deliver" ELSE "snap")
    /\ upto' = IF HasNews THEN Len(Events) ELSE upto
    /\ UNCHANGED <<sent, expired, net>> /\ UNCHANGED Outside

Timeout ==
    /\ ServerStep("sleep", "read")
    /\ expired' = TRUE
    /\ UNCHANGED <<sent, upto, net>> /\ UNCHANGED Outside

(* One event of the batch; after the last the next wait begins. *)
Deliver ==
    /\ ServerStep("deliver", IF sent + 1 = upto THEN "read" ELSE "deliver")
    /\ sent' = sent + 1 /\ net' = Append(net, sent + 1)
    /\ upto' = (IF sent + 1 = upto THEN 0 ELSE upto) /\ expired' = FALSE
    /\ UNCHANGED Outside

(* An empty batch: a heartbeat, or the end. *)
LookForEnd ==
    /\ ServerStep("snap", IF TaskOver THEN "trail" ELSE "read")
    /\ expired' = FALSE
    /\ UNCHANGED <<sent, upto, net>> /\ UNCHANGED Outside

(* Events that raced the last look are still sent, then the stream closes. *)
Trailing_None == <<>>
Trailing == [i \in 1 .. (IF HasNews THEN Len(Events) - sent ELSE 0) |-> sent + i]

Close ==
    /\ ServerStep("trail", "closed")
    /\ net' = net \o Trailing \o <<0>>
    /\ sent' = sent + Len(Trailing)
    /\ UNCHANGED <<upto, expired>> /\ UNCHANGED Outside

StreamStep ==
    ReadEvents \/ LookAtTask \/ ReadAgain \/ Deliver \/ LookForEnd \/ Close

-----------------------------------------------------------------------------
(* The page. *)

(* snapshot(): while one is loading, another is only remembered. *)
Refresh_Forgets ==
    /\ fetch' = IF fetch.at = "idle" THEN Asked ELSE fetch
    /\ UNCHANGED pending

Refresh ==
    /\ fetch' = IF fetch.at = "idle" THEN Asked ELSE fetch
    /\ pending' = (pending \/ fetch.at # "idle")

(* The server side of a connection that is gone. *)
Hangup == server' = "none" /\ sent' = 0 /\ upto' = 0 /\ expired' = FALSE /\ net' = <<>>

(* connect(): the old EventSource is closed, a new one starts at the cursor; *)
(* a stream for a task that is gone is refused.                              *)
ResumeFrom_View == view.seen
ResumeFrom == cursor

Open ==
    /\ net' = <<>> /\ upto' = 0 /\ expired' = FALSE
    /\ IF Known
         THEN /\ link' = "open" /\ server' = "read" /\ sent' = ResumeFrom
              /\ disconnected' = FALSE
         ELSE /\ link' = "lost" /\ server' = "none" /\ sent' = 0
              /\ UNCHANGED disconnected

(* snapshot().then(connect): nothing else runs in between. *)
Continues == due /\ fetch.at = "idle"

Connect ==
    /\ Continues
    /\ due' = FALSE
    /\ IF stopped THEN UNCHANGED <<serverVars, net, link, disconnected>> ELSE Open
    /\ UNCHANGED <<lifecycleVars, owed, retry, cursor, fetch, pending, shownVars, faults>>

RetryTimer ==
    /\ retry /\ ~Continues
    /\ retry' = FALSE
    /\ Open
    /\ UNCHANGED <<lifecycleVars, owed, due, cursor, fetch, pending, shownVars, faults>>

OnEvent ==
    /\ link = "open" /\ net # <<>> /\ Head(net) # 0 /\ ~Continues
    /\ net' = Tail(net)
    /\ IF Head(net) > cursor THEN cursor' = Head(net) /\ Refresh
                             ELSE UNCHANGED <<cursor, fetch, pending>>
    /\ UNCHANGED <<lifecycleVars, owed, serverVars, linkVars, shownVars, faults>>

(* onError: close, take a snapshot, try again in three seconds. *)
OnError ==
    /\ ~Continues
    /\ link = "lost" \/ (link = "open" /\ net # <<>> /\ Head(net) = 0)
    /\ link' = "none" /\ retry' = TRUE /\ disconnected' = TRUE
    /\ Hangup
    /\ Refresh
    /\ UNCHANGED <<lifecycleVars, owed, due, cursor, shownVars, faults>>

Poll ==
    /\ ~stopped /\ ~Continues
    /\ Refresh
    /\ UNCHANGED <<lifecycleVars, owed, serverVars, net, linkVars, cursor, shownVars, faults>>

(* The user presses the button of a warning: refresh(), which connects at    *)
(* once if a snapshot is loading and after a new one if not ...              *)
Reconnect ==
    /\ (error /\ view # NoView) \/ disconnected
    /\ ~Continues
    /\ Refresh
    /\ retry' = FALSE
    /\ IF fetch.at = "idle" \/ stopped
         THEN due' = TRUE /\ UNCHANGED <<serverVars, net, link, disconnected>>
         ELSE UNCHANGED due /\ Open
    /\ UNCHANGED <<lifecycleVars, owed, cursor, shownVars, faults>>

(* ... or the whole effect again if no task is shown; the cursor survives.   *)
StartOver ==
    /\ error /\ view = NoView
    /\ fetch' = Asked /\ pending' = FALSE /\ error' = FALSE
    /\ link' = "none" /\ retry' = FALSE /\ due' = TRUE
    /\ Hangup
    /\ UNCHANGED <<lifecycleVars, owed, disconnected, cursor, view, stopped, faults>>

(* The server answers the snapshot request. *)
Answer ==
    /\ fetch.at = "asked" /\ Known
    /\ fetch' = [at |-> "answered", got |-> Snapshot]
    /\ UNCHANGED <<lifecycleVars, owed, serverVars, net, linkVars, cursor, pending, shownVars, faults>>

NextFetch == fetch' = (IF pending THEN Asked ELSE NoFetch) /\ pending' = FALSE

(* The answer arrives; a task that is not queued or running ends the page's  *)
(* subscription.                                                             *)
Show ==
    /\ fetch.at = "answered"
    /\ view' = fetch.got /\ error' = FALSE
    /\ IF fetch.got.status \in Ended
         THEN /\ stopped' = TRUE /\ link' = "none" /\ retry' = FALSE
              /\ disconnected' = FALSE /\ Hangup
         ELSE UNCHANGED <<stopped, link, retry, disconnected, serverVars, net>>
    /\ NextFetch
    /\ UNCHANGED <<lifecycleVars, owed, due, cursor, faults>>

(* The request failed, or the task is gone (404). *)
ShowError ==
    /\ fetch.at = "asked"
    /\ IF Known THEN errors < MaxErrors /\ errors' = errors + 1 ELSE UNCHANGED errors
    /\ error' = TRUE
    /\ NextFetch
    /\ UNCHANGED <<lifecycleVars, owed, serverVars, net, linkVars, cursor, view, stopped, drops>>

PageStep == OnEvent \/ OnError \/ Connect \/ RetryTimer

-----------------------------------------------------------------------------
Cut == link' = (IF link = "open" THEN "lost" ELSE link) /\ Hangup

(* The connection breaks. *)
Drop ==
    /\ link = "open" /\ drops < MaxDrops
    /\ drops' = drops + 1
    /\ Cut
    /\ UNCHANGED <<lifecycleVars, owed, retry, due, disconnected, cursor, fetch, pending>>
    /\ UNCHANGED <<shownVars, errors>>

(* The server process is replaced: streams and notifications are gone, a     *)
(* running task is interrupted with nobody there to be told.                 *)
ServerRestart ==
    /\ drops < MaxDrops /\ Len(Events) < MaxLog
    /\ drops' = drops + 1
    /\ IF status[Task] = "running" THEN Conclude(Task, "interrupted")
                                   ELSE UNCHANGED lifecycleVars
    /\ owed' = FALSE
    /\ Cut
    /\ UNCHANGED <<retry, due, disconnected, cursor, fetch, pending, shownVars, errors>>

Next ==
    \/ Commit \/ Silent \/ Notify
    \/ StreamStep \/ Timeout
    \/ PageStep \/ Poll \/ Reconnect \/ StartOver
    \/ Answer \/ Show \/ ShowError
    \/ Drop \/ ServerRestart

(* Threads and the browser's event loop run, requests are answered, and the  *)
(* retry timer fires.  The heartbeat and the 15 s poll are left out: what    *)
(* follows does not wait for them.                                           *)
Fairness ==
    /\ WF_vars(Notify) /\ WF_vars(StreamStep) /\ WF_vars(PageStep)
    /\ WF_vars(Answer \/ Show \/ ShowError)

Spec == Init /\ [][Next]_vars
FairSpec == Spec /\ Fairness

-----------------------------------------------------------------------------
(* Every event reaches the page once and in order, across lost connections,  *)
(* reconnections from the cursor and a closing stream (api.py:306-325,       *)
(* Run.tsx:67-88).                                                           *)
NoEventSkipped == [][cursor' # cursor => cursor' = cursor + 1]_vars

(* A page that is not loading and shows no error shows a task at least as    *)
(* new as the last event it was told of, however events and answers          *)
(* overtake each other (Run.tsx:42-66, 74-78).                               *)
ViewIsFresh == fetch.at = "idle" /\ ~error => view.seen >= cursor

(* A stream closes only after it has sent every event that was logged when   *)
(* it found the task over: the page can tell an end from a lost connection   *)
(* (worker.py:94-97, api.py:315-324).                                        *)
ClosesComplete ==
    [][server = "trail" /\ server' = "closed" => sent' >= Len(Events)]_vars

(* A committed event goes out on a live connection without waiting for the   *)
(* heartbeat: no notification is lost between the reads and the sleep        *)
(* (worker.py:76-101).                                                       *)
DeliveredPromptly ==
    \A n \in 1 .. MaxLog :
        server # "none" /\ Len(Events) >= n
            ~> sent >= n \/ server \in {"none", "closed"} \/ Len(Events) < n

(* The page learns that the task ended although connections break, snapshots *)
(* fail and the server restarts; it does not need the poll.  It then stops   *)
(* following the task, for an interrupted one too, though that may be        *)
(* resumed (Run.tsx:42-96, api.py:315-324).                                  *)
EndIsShown ==
    status[Task] \in {"completed", "failed"} ~> stopped \/ status[Task] = "deleted"
=============================================================================
