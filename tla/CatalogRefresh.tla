--------------------------- MODULE CatalogRefresh ---------------------------
(***************************************************************************)
(* web/portfolio/market.py: lists of A-shares, one per exchange, kept as   *)
(* files and renewed through child processes that can be killed            *)
(* (fetch.py).  A thread per exchange looks every thirty seconds whether   *)
(* its list must be renewed; requests read what is there.                  *)
(*                                                                         *)
(* Time is kept as ages that stop growing once nothing depends on them.    *)
(* The content of a list is the version of the upstream data it was made   *)
(* from.  A thread is a pair of an exchange and a number: the program has  *)
(* one per exchange, refresh_catalog allows any number of callers.         *)
(***************************************************************************)
EXTENDS Naturals, FiniteSets

CONSTANTS Exchanges,
          Threads,      \* pairs <<exchange, number>>
          Readers,      \* requests that look a stock up
          Fresh,        \* CATALOG_FRESH
          Usable,       \* CATALOG_USABLE
          Retry,        \* CATALOG_RETRY
          MaxVersions,  \* bound: versions of the upstream data
          None

ASSUME ThreadsAssumption == Threads \subseteq Exchanges \X Nat
ASSUME AgesAssumption ==
    Fresh \in Nat /\ Usable \in Nat /\ Retry \in Nat /\ 0 < Retry /\ Retry <= Fresh /\ Fresh < Usable
ASSUME VersionsAssumption == MaxVersions \in Nat \ {0}
ASSUME NoneAssumption ==
    None \notin Threads /\ None \notin [version : 1 .. MaxVersions, age : 0 .. Usable]

VARIABLES upstream,    \* version the exchanges publish
          file,        \* the cache file of each list: version and age, or None
          since,       \* age of the last attempt, or None
          refreshing, errors,
          lock,        \* the single-flight lock of each list
          pc, answer,  \* where each thread is, and the version it was given
          children,    \* BoundedFetch._children, by the thread that waits
          alive,       \* children that still run
          started, stopping, closed,   \* market started, _stopping, BoundedFetch._stopped
          stop, reap,  \* where stop() is, and the children it will end
          reader       \* the requests

data    == <<upstream, file, since>>
shown   == <<refreshing, errors>>
threads == <<lock, pc, answer>>
procs   == <<children, alive>>
life    == <<started, stopping, closed, stop, reap>>
vars    == <<data, shown, threads, procs, life, reader>>

Versions == 1 .. MaxVersions
Files == [version : Versions, age : 0 .. Usable] \cup {None}
Of(t) == t[1]

TypeOK ==
    /\ upstream \in Versions /\ file \in [Exchanges -> Files]
    /\ since \in [Exchanges -> 0 .. Retry \cup {None}]
    /\ refreshing \subseteq Exchanges /\ errors \subseteq Exchanges
    /\ lock \in [Exchanges -> Threads \cup {None}]
    /\ pc \in [Threads -> {"off", "loop", "look", "call", "talk", "validate", "publish", "done", "failed", "wait"}]
    /\ answer \in [Threads -> Versions \cup {None}]
    /\ children \subseteq Threads /\ alive \subseteq Threads
    /\ started \in BOOLEAN /\ stopping \in BOOLEAN /\ closed \in BOOLEAN
    /\ stop \in {"no", "fetches", "reap", "done"} /\ reap \subseteq Threads
    /\ reader \in [Readers -> [of : Exchanges \cup {None}, at : {"idle", "status", "archive"},
                               listed : BOOLEAN, loading : BOOLEAN, error : BOOLEAN]]

(* _migrate_catalog: an exchange without a file takes its part of the common *)
(* file of earlier versions, with that file's date.                          *)
Migrated(own, legacy) ==
    IF own = None /\ legacy # None /\ legacy.age < Usable THEN legacy ELSE own

Reading(at, e, listed, loading, error) ==
    [of |-> e, at |-> at, listed |-> listed, loading |-> loading, error |-> error]
Idle == Reading("idle", None, FALSE, FALSE, FALSE)

Volatile ==
    /\ since = [e \in Exchanges |-> None] /\ refreshing = {} /\ errors = {}
    /\ lock = [e \in Exchanges |-> None]
    /\ pc = [t \in Threads |-> "off"] /\ answer = [t \in Threads |-> None]
    /\ children = {} /\ alive = {}
    /\ started = FALSE /\ stopping = FALSE /\ closed = FALSE /\ stop = "no" /\ reap = {}
    /\ reader = [r \in Readers |-> Idle]

Init ==
    /\ upstream = 1
    /\ \E own \in [Exchanges -> {None, [version |-> 1, age |-> Fresh]}],
          legacy \in {None, [version |-> 1, age |-> 0], [version |-> 1, age |-> Usable]} :
          file = [e \in Exchanges |-> Migrated(own[e], legacy)]
    /\ Volatile

-----------------------------------------------------------------------------
(* Time, upstream, start. *)

Older(n, limit) == IF n < limit THEN n + 1 ELSE n

Tick ==
    /\ file' = [e \in Exchanges |-> IF file[e] = None THEN None
                                ELSE [file[e] EXCEPT !.age = Older(@, Usable)]]
    /\ since' = [e \in Exchanges |-> IF since[e] = None THEN None ELSE Older(since[e], Retry)]
    /\ UNCHANGED <<upstream, shown, threads, procs, life, reader>>

Publication ==
    /\ upstream < MaxVersions
    /\ upstream' = upstream + 1
    /\ UNCHANGED <<file, since, shown, threads, procs, life, reader>>

Start ==
    /\ ~started /\ ~stopping
    /\ started' = TRUE
    /\ pc' = [t \in Threads |-> IF pc[t] = "off" THEN "loop" ELSE pc[t]]
    /\ UNCHANGED <<data, shown, lock, answer, procs, stopping, closed, stop, reap, reader>>

-----------------------------------------------------------------------------
(* refresh_catalog. *)

Step(t, from, to) == pc[t] = from /\ pc' = [pc EXCEPT ![t] = to]

Take_NoLock(t) == UNCHANGED lock
Take(t) == lock[Of(t)] = None /\ lock' = [lock EXCEPT ![Of(t)] = t]

Enter(t) ==
    /\ ~stopping
    /\ Step(t, "loop", "look") /\ Take(t)
    /\ UNCHANGED <<data, shown, answer, procs, life, reader>>

IsFresh(e)  == file[e] # None /\ file[e].age < Fresh
IsUsable(e) == file[e] # None /\ file[e].age < Usable

(* A failed attempt is not repeated at once.                                 *)
Throttled_Always(e) == stopping \/ since[e] # None
Throttled(e) == stopping \/ (since[e] # None /\ since[e] < Retry)

Release(t) == lock' = [lock EXCEPT ![Of(t)] = None]

NothingToDo(t) ==
    /\ IsFresh(Of(t)) \/ Throttled(Of(t))
    /\ Step(t, "look", "wait") /\ Release(t)
    /\ UNCHANGED <<data, shown, answer, procs, life, reader>>

(* The attempt is dated and shown as running under one lock.                 *)
Begin_NotShown(e) == since' = [since EXCEPT ![e] = 0] /\ UNCHANGED refreshing
Begin(e) == since' = [since EXCEPT ![e] = 0] /\ refreshing' = refreshing \cup {e}

Attempt(t) ==
    /\ ~IsFresh(Of(t)) /\ ~Throttled(Of(t))
    /\ Step(t, "look", "call")
    /\ Begin(Of(t))
    /\ UNCHANGED <<upstream, file, errors, lock, answer, procs, life, reader>>

(* BoundedFetch: refused once stopped; else the child is created and listed  *)
(* under one lock.                                                           *)
Spawn_Unlisted(t) == alive' = alive \cup {t} /\ UNCHANGED children
Spawn(t) == children' = children \cup {t} /\ alive' = alive \cup {t}

Call(t) ==
    /\ ~closed
    /\ Step(t, "call", "talk") /\ Spawn(t)
    /\ UNCHANGED <<data, shown, lock, answer, life, reader>>

Refused(t) ==
    /\ closed
    /\ Step(t, "call", "failed")
    /\ UNCHANGED <<data, shown, lock, answer, procs, life, reader>>

Ended(t) == children' = children \ {t} /\ alive' = alive \ {t}

Answered(t) ==
    /\ t \in alive
    /\ Step(t, "talk", "validate")
    /\ answer' = [answer EXCEPT ![t] = upstream] /\ Ended(t)
    /\ UNCHANGED <<data, shown, lock, life, reader>>

(* Timeout, a child that failed or was killed, or an answer that is no list. *)
NoAnswer(t) ==
    /\ Step(t, "talk", "failed") /\ Ended(t)
    /\ UNCHANGED <<data, shown, lock, answer, life, reader>>

(* _validate_catalog: an empty list, or one with a bad or a double entry, is *)
(* refused whole.                                                            *)
Validate(t, sound) ==
    /\ Step(t, "validate", IF sound THEN "publish" ELSE "failed")
    /\ UNCHANGED <<data, shown, lock, answer, procs, life, reader>>

(* _publish: the file is replaced as a whole or, on an error, not at all.    *)
Publish(t, ok) ==
    /\ Step(t, "publish", IF ok THEN "done" ELSE "failed")
    /\ file' = IF ok THEN [file EXCEPT ![Of(t)] = [version |-> answer[t], age |-> 0]] ELSE file

PublishStep(t, ok) ==
    /\ Publish(t, ok)
    /\ UNCHANGED <<upstream, since, shown, lock, answer, procs, life, reader>>

(* The finally clause. *)
Finish(t) ==
    /\ pc[t] \in {"done", "failed"}
    /\ pc' = [pc EXCEPT ![t] = "wait"] /\ Release(t)
    /\ answer' = [answer EXCEPT ![t] = None]
    /\ refreshing' = refreshing \ {Of(t)}
    /\ errors' = IF pc[t] = "failed" THEN errors \cup {Of(t)}
                 ELSE errors \ {Of(t)}
    /\ UNCHANGED <<data, procs, life, reader>>

(* _refresh_loop. *)
Again(t) ==
    /\ Step(t, "wait", IF stopping THEN "off" ELSE "loop")
    /\ UNCHANGED <<data, shown, lock, answer, procs, life, reader>>

-----------------------------------------------------------------------------
(* stop(), and the end of the process. *)

StopMarket ==
    /\ stop = "no" /\ stop' = "fetches" /\ stopping' = TRUE
    /\ UNCHANGED <<data, shown, threads, procs, started, closed, reap, reader>>

CloseFetches ==
    /\ stop = "fetches" /\ stop' = "reap"
    /\ closed' = TRUE /\ reap' = children
    /\ UNCHANGED <<data, shown, threads, procs, started, stopping, reader>>

(* Each child is ended; the threads are then waited for, a second each.      *)
ReapChildren ==
    /\ stop = "reap" /\ stop' = "done"
    /\ alive' = alive \ reap /\ reap' = {}
    /\ UNCHANGED <<data, shown, threads, children, started, stopping, closed, reader>>

(* The process ends, with or without stop(), and starts again.               *)
Restart ==
    /\ since' = [e \in Exchanges |-> None] /\ refreshing' = {} /\ errors' = {}
    /\ lock' = [e \in Exchanges |-> None]
    /\ pc' = [t \in Threads |-> "off"] /\ answer' = [t \in Threads |-> None]
    /\ children' = {} /\ alive' = {}
    /\ started' = FALSE /\ stopping' = FALSE /\ closed' = FALSE /\ stop' = "no" /\ reap' = {}
    /\ reader' = [r \in Readers |-> Idle]
    /\ UNCHANGED <<upstream, file>>

-----------------------------------------------------------------------------
(* _catalog, for resolve and search: the list, its status under the lock,    *)
(* and the file once more, whatever its age.  A refresh may take any steps   *)
(* between them.                                                             *)

Ask(r, e) ==
    /\ started /\ reader[r].at = "idle"
    /\ reader' = [reader EXCEPT ![r] = Reading("status", e, IsUsable(e), FALSE, FALSE)]
    /\ UNCHANGED <<data, shown, threads, procs, life>>

Loading(e, listed) == e \in refreshing \/ (started /\ ~stopping /\ ~listed /\ since[e] = None)

ReadStatus(r) ==
    /\ reader[r].at = "status"
    /\ LET e == reader[r].of
           listed == reader[r].listed
       IN  reader' = [reader EXCEPT ![r] =
                        Reading("archive", e, listed, Loading(e, listed), e \in errors)]
    /\ UNCHANGED <<data, shown, threads, procs, life>>

(* What it is told, by what it has read and the file as it reads it last.    *)
Told(r) ==
    IF reader[r].listed THEN "listed"
    ELSE IF file[reader[r].of] # None THEN "expired"
    ELSE IF reader[r].loading THEN "loading" ELSE "unavailable"

Answer(r) ==
    /\ reader[r].at = "archive"
    /\ reader' = [reader EXCEPT ![r] = Idle]
    /\ UNCHANGED <<data, shown, threads, procs, life>>

-----------------------------------------------------------------------------
Refresh(t) ==
    \/ Enter(t) \/ NothingToDo(t) \/ Attempt(t) \/ Call(t) \/ Refused(t)
    \/ Answered(t) \/ NoAnswer(t)
    \/ \E ok \in BOOLEAN : Validate(t, ok) \/ PublishStep(t, ok)
    \/ Finish(t) \/ Again(t)

Request(r) ==
    \/ \E e \in Exchanges : Ask(r, e)
    \/ ReadStatus(r) \/ Answer(r)

Next ==
    \/ Tick \/ Publication \/ Start
    \/ \E t \in Threads : Refresh(t)
    \/ StopMarket \/ CloseFetches \/ ReapChildren \/ Restart
    \/ \E r \in Readers : Request(r)

Spec == Init /\ [][Next]_vars

ListAnswered(e)  == \E t \in Threads : Of(t) = e /\ Answered(t)
ListValidated(e) == \E t \in Threads : Of(t) = e /\ Validate(t, TRUE)
ListStored(e)    == \E t \in Threads : Of(t) = e /\ PublishStep(t, TRUE)

(* The threads and the clock run, and an exchange that is asked often enough *)
(* answers well and the answer can be stored.                                *)
Fairness ==
    /\ WF_vars(Tick)
    /\ \A t \in Threads : WF_vars(Refresh(t))
    /\ \A e \in Exchanges :
          /\ SF_vars(ListAnswered(e)) /\ SF_vars(ListValidated(e)) /\ SF_vars(ListStored(e))

-----------------------------------------------------------------------------
(* A list is never replaced by older data: with two refreshes at once the    *)
(* slower could bring back what the other had replaced, under a new date     *)
(* (market.py:200-223).                                                      *)
NewsNeverReverts ==
    [][\A e \in Exchanges : file[e] # None =>
          file'[e] # None /\ file'[e].version >= file[e].version]_vars

(* After stop() no child process is left, wherever the threads were when it  *)
(* began (market.py:32-44, 85-90, 435-440).                                  *)
NoChildOutlivesStop == stop = "done" => alive = {}

(* A request that is told a list is unavailable, not even an old one there   *)
(* and none being loaded, is also told of the failure, unless the market is  *)
(* stopping: a refresh that stored the list and reported its end between the *)
(* reads does not pass for a list that failed without a reason               *)
(* (market.py:206-241, 250-277).                                             *)
AbsenceIsExplained ==
    \A r \in Readers :
        reader[r].at = "archive" /\ Told(r) = "unavailable" => reader[r].error \/ stopping

(* As long as the process runs, each list becomes fresh again and again.     *)
ListsAreRenewed == \A e \in Exchanges : []<>(IsFresh(e) \/ ~started \/ stopping)
=============================================================================
