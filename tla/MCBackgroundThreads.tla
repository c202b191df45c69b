------------------------ MODULE MCBackgroundThreads ------------------------
(* The threads that a started process keeps running: the one that works off *)
(* the queue of tasks and those that renew the lists of A-shares.  They     *)
(* share nothing but start and stop, which each handles for itself, so a    *)
(* behaviour moves one of them, chosen at the start.                        *)
EXTENDS CatalogRefresh

CONSTANTS Tasks, Sections, Decision, Clients, NoTask, MayEndBlank,
          MaxEmits, MaxClock, MaxCrashes, MaxFaults, First, sh

VARIABLES part,
          status, resume, createdAt, claims, sections, decision, events,
          up, halting, wake, place, current, emitted, pending, streamed,
          found, reports, request, clock, crashes, faults

Queue == INSTANCE TaskQueue WITH
             started <- claims, log <- events, stopping <- halting, pc <- place

queueVars ==
    <<status, resume, createdAt, claims, sections, decision, events, up, halting, wake, place, current,
      emitted, pending, streamed, found, reports, request, clock, crashes, faults>>
allvars == <<vars, queueVars, part>>

MCThreads == {<<sh, 1>>, <<sh, 2>>}

MCInit ==
    /\ part \in {"queue", "lists"}
    /\ Queue!Init
    /\ Init /\ (part = "queue" => file = [e \in Exchanges |-> None])

(* The names of tasks mean nothing: the first one inserted is called First.  *)
Named == status[First] = "absent" => \A t \in Tasks : status[t] = "absent"

InQueue(step) == part = "queue" /\ step /\ Named' /\ UNCHANGED <<vars, part>>
InLists(step) == part = "lists" /\ step /\ UNCHANGED <<queueVars, part>>

MCNext == InQueue(Queue!Next) \/ InLists(Next)

(* The scheduler runs the worker thread and the handlers that can run, and a *)
(* stopped container is started again (restart: unless-stopped).  Nothing    *)
(* obliges a client, a crash or a fault to happen.  A run ends: every call   *)
(* to a provider has a timeout, and the graph has a recursion limit.  The    *)
(* lists have the fairness of CatalogRefresh, whose steps are all disabled   *)
(* where they rest.                                                          *)
MCFairness ==
    /\ WF_allvars(InQueue(Queue!WorkerStep))
    /\ \A c \in Clients : WF_allvars(InQueue(Queue!HandlerStep(c)))
    /\ WF_allvars(InQueue(Queue!Start))
    /\ Fairness

MCSpec == MCInit /\ [][MCNext]_allvars /\ MCFairness

\* Queued tasks are served and running ones settle (worker.py:23-33, 103-113).
TasksAreServed == Queue!TasksAreServed
=============================================================================
