---------------------------- MODULE CloseCheck ----------------------------
(***************************************************************************)
(* The close check of portfolio holdings: web/portfolio/worker.py on top   *)
(* of the portfolio_checks table of web/portfolio/store.py.  One thread    *)
(* schedules at most three automatic checks per trading day, half an hour  *)
(* apart, and works off one check at a time; requests add manual checks;   *)
(* the process stops, dies and starts; the database may raise.             *)
(*                                                                         *)
(* Time is counted in half hours, SlotsPerDay of them a day; the market is *)
(* closed from slot Cutoff (16:30) on.  A store method is one transaction  *)
(* and one action.  Results are reduced to the set of plans with a valid   *)
(* quote, error codes are dropped.                                         *)
(***************************************************************************)
EXTENDS Naturals, Sequences, FiniteSets

CONSTANTS Plans, Clients,
          None,          \* no stamp
          TradingDays,   \* days on which the exchange trades
          Weekend,       \* Saturdays and Sundays
          Coverage,      \* last days of the calendars the source may publish
          LastDay, SlotsPerDay, MaxClock,                \* bounds on time
          MaxChecks, MaxManual, MaxExits, MaxFaults, MaxEdits,  \* bounds
          MaxTogether    \* bound on exits, faults and edits together

Days   == 1 .. LastDay
Clocks == 0 .. MaxClock
Cutoff == 1

CalendarBounds ==
    /\ LastDay \in Nat /\ SlotsPerDay \in Nat \ {0} /\ MaxClock \in Nat
    /\ MaxClock < LastDay * SlotsPerDay
    /\ TradingDays \subseteq Days \ Weekend /\ Coverage \subseteq TradingDays
    /\ None \notin Clocks

ASSUME CalendarAssumption == CalendarBounds

VARIABLES checks,      \* portfolio_checks in rowid order
          active,      \* the plans that are active
          automatic,   \* portfolio_settings.automatic
          clock,
          pc,          \* where the worker thread stands
          now,         \* tick: now
          attempts,    \* _schedule: len(attempts)
          check,       \* tick: the claimed row, 0 if none
          left, valid, missed,  \* its plans: to quote, quoted, not to be had
          killed,      \* market.stop() ended one of its fetches
          wake, stopping,
          market,      \* the market accepts calls
          up,          \* the process runs
          asked,       \* stamps of the requests on their way to enqueue
          exits, faults, edits

tableVars == <<checks, active, automatic>>
tickVars  == <<now, attempts, check, left, valid, missed, killed>>
lifeVars  == <<stopping, market, up>>
bounds    == <<exits, faults, edits>>
vars == <<tableVars, clock, pc, tickVars, wake, lifeVars, asked, bounds>>

(* A process that is stopping will end, which counts already.                *)
Room == exits + faults + edits + (IF stopping THEN 1 ELSE 0) < MaxTogether

Pending   == {"queued", "running"}
Finished  == {"completed", "partial", "failed", "interrupted"}
Checking  == {"target", "quotes", "fetch", "finish", "failing"}
Places    == Checking \cup {"off", "loop", "look", "decide", "calendar", "enqueue",
                            "claim", "rescue", "wait", "woken", "dead"}
Rows      == 1 .. Len(checks)

TypeOK ==
    /\ \A i \in Rows :
          /\ checks[i].source \in {"manual", "automatic"}
          /\ checks[i].day \in Days \cup {0} /\ checks[i].attempt \in 0 .. 3
          /\ checks[i].status \in Pending \cup Finished /\ checks[i].at \in Clocks
    /\ Cardinality({i \in Rows : checks[i].status \in Pending}) <= 1
    /\ active \subseteq Plans /\ automatic \in BOOLEAN
    /\ clock \in Clocks /\ now \in Clocks /\ pc \in Places
    /\ attempts \in 0 .. 2 /\ check \in Rows \cup {0}
    /\ {left, valid, missed} \subseteq SUBSET Plans
    /\ {killed, wake, stopping, market, up} \subseteq BOOLEAN
    /\ killed => ~market
    /\ asked \in [Clients -> Clocks \cup {None}]
    /\ pc \in Checking => checks[check].status = "running"

Init ==
    /\ checks = <<>> /\ active \in SUBSET Plans /\ automatic = TRUE
    /\ clock = 0 /\ now = 0 /\ attempts = 0
    /\ check = 0 /\ left = {} /\ valid = {} /\ missed = {} /\ killed = FALSE
    /\ pc = "off" /\ wake = FALSE /\ stopping = FALSE /\ market = TRUE /\ up = FALSE
    /\ asked = [c \in Clients |-> None]
    /\ exits = 0 /\ faults = 0 /\ edits = 0

-----------------------------------------------------------------------------
(* Days, and what the market calendar says of them. *)

Day(t)     == t \div SlotsPerDay + 1
Weekday(d) == d \notin Weekend

Closed_AnyTime(d, t) == d <= Day(t)
Closed(d, t) == d < Day(t) \/ (d = Day(t) /\ t % SlotsPerDay >= Cutoff)

(* A calendar that ends with the trading day u; it needs two days.  The      *)
(* source may also be unavailable.                                           *)
Calendar(u) == TradingDays \cap (1 .. u)
Calendars   == {Calendar(u) : u \in {v \in Coverage : Cardinality(Calendar(v)) >= 2}}
Answers     == Calendars \cup {{}}

Latest(days) == CHOOSE d \in days : \A e \in days : e <= d

(* completed_date, or 0 for "calendar_unavailable". *)
CompletedDate(t, days) ==
    LET past    == {d \in days : Closed(d, t)}
        unknown == /\ days # {}
                   /\ \/ \A d \in days : d > Day(t)
                      \/ Weekday(Day(t)) /\ Day(t) > Latest(days)
    IN  IF unknown \/ past = {} THEN 0 ELSE Latest(past)

-----------------------------------------------------------------------------
(* The table. *)

Waiting(i)  == checks[i].status \in Pending
SetStatus(i, s) == checks' = [checks EXCEPT ![i].status = s]

(* latest_check: by the stamp the row was made with, then by rowid. *)
IsLatest(i) == \A j \in Rows : checks[j].at < checks[i].at
                                 \/ (checks[j].at = checks[i].at /\ j <= i)

AttemptsOn(d) == {i \in Rows : checks[i].source = "automatic" /\ checks[i].day = d}

HasSuccess_Automatic(d) == \E i \in AttemptsOn(d) : checks[i].status = "completed"
HasSuccess(d) == \E i \in Rows : checks[i].day = d /\ checks[i].status = "completed"

(* enqueue: a pending check, or the same attempt, is returned instead. *)
Enqueue(source, day, n, stamp) ==
    IF \/ \E i \in Rows : Waiting(i)
       \/ source = "automatic" /\ \E i \in AttemptsOn(day) : checks[i].attempt = n
      THEN UNCHANGED checks
      ELSE /\ Len(checks) < MaxChecks
           /\ checks' = Append(checks, [source |-> source, day |-> day, attempt |-> n,
                                        status |-> "queued", at |-> stamp])

(* fail: only a running row. *)
Fail(i) == IF checks[i].status = "running" THEN SetStatus(i, "failed") ELSE UNCHANGED checks

Interrupted(row) ==
    IF row.status = "running" THEN [row EXCEPT !.status = "interrupted"] ELSE row

Recover == checks' = [i \in Rows |-> Interrupted(checks[i])]

-----------------------------------------------------------------------------
(* Users: plans and settings, and requests for a check, whose stamp is taken *)
(* before the transaction begins.                                            *)

EditPlans(p) ==
    /\ up /\ edits < MaxEdits /\ Room /\ edits' = edits + 1
    /\ active' = IF p \in active THEN active \ {p} ELSE active \cup {p}
    /\ UNCHANGED <<checks, automatic, clock, pc, tickVars, wake, lifeVars, asked, exits, faults>>

SetAutomatic(b) ==
    /\ up /\ edits < MaxEdits /\ Room /\ edits' = edits + 1
    /\ b # automatic /\ automatic' = b
    /\ UNCHANGED <<checks, active, clock, pc, tickVars, wake, lifeVars, asked, exits, faults>>

RequestCheck(c) ==
    /\ up /\ ~stopping /\ asked[c] = None
    /\ Cardinality({i \in Rows : checks[i].source = "manual"}) < MaxManual
    /\ asked' = [asked EXCEPT ![c] = clock]
    /\ UNCHANGED <<tableVars, clock, pc, tickVars, wake, lifeVars, bounds>>

Answered(c) == asked' = [asked EXCEPT ![c] = None]

SetWake_Forgotten == UNCHANGED wake
SetWake == wake' = TRUE

EnqueueManual(c) ==
    /\ asked[c] # None
    /\ Enqueue("manual", 0, 0, asked[c])
    /\ SetWake
    /\ Answered(c)
    /\ UNCHANGED <<active, automatic, clock, pc, tickVars, lifeVars, bounds>>

RequestFails(c) ==
    /\ asked[c] # None /\ faults < MaxFaults /\ Room /\ faults' = faults + 1
    /\ Answered(c)
    /\ UNCHANGED <<tableVars, clock, pc, tickVars, wake, lifeVars, exits, edits>>

PassTime ==
    /\ clock + 1 \in Clocks /\ clock' = clock + 1
    /\ UNCHANGED <<tableVars, pc, tickVars, wake, lifeVars, asked, bounds>>

-----------------------------------------------------------------------------
(* The worker thread. *)

At(place) == pc = place
Goto(place) == pc' = place
Around == <<active, automatic, clock, lifeVars, asked, bounds>>

(* The tick is over: wait for the wake event or thirty seconds. *)
Rest == Goto("wait") /\ now' = 0 /\ UNCHANGED wake

BeginTick ==
    /\ At("loop") /\ ~stopping
    /\ Goto("look") /\ now' = clock
    /\ UNCHANGED <<checks, wake, attempts, check, left, valid, missed, killed>> /\ UNCHANGED Around

LeaveLoop ==
    /\ At("loop") /\ stopping
    /\ Goto("off")
    /\ UNCHANGED <<checks, wake, tickVars>> /\ UNCHANGED Around

LookAtLatest ==
    /\ At("look")
    /\ Goto(IF \E i \in Rows : IsLatest(i) /\ Waiting(i) THEN "claim" ELSE "decide")
    /\ UNCHANGED <<checks, wake, tickVars>> /\ UNCHANGED Around

Spaced_Always(d) == TRUE
Spaced(d) == \A i \in AttemptsOn(d) :
                (\A j \in AttemptsOn(d) : checks[j].attempt <= checks[i].attempt)
                   => now >= checks[i].at + 1

Due == LET d == Day(now) IN
    /\ Weekday(d) /\ now % SlotsPerDay >= Cutoff
    /\ automatic /\ active # {}
    /\ ~HasSuccess(d)
    /\ Cardinality(AttemptsOn(d)) < 3
    /\ Spaced(d)

Decide ==
    /\ At("decide")
    /\ Goto(IF Due THEN "calendar" ELSE "claim")
    /\ attempts' = IF Due THEN Cardinality(AttemptsOn(Day(now))) ELSE 0
    /\ UNCHANGED <<checks, wake, now, check, left, valid, missed, killed>> /\ UNCHANGED Around

(* Only a calendar that covers the day can make it a holiday. *)
AskCalendar ==
    /\ At("calendar")
    /\ \E days \in Answers :
          Goto(IF CompletedDate(now, days) # 0 /\ Day(now) \notin days
                 THEN "claim" ELSE "enqueue")
    /\ UNCHANGED <<checks, wake, tickVars>> /\ UNCHANGED Around

EnqueueAutomatic ==
    /\ At("enqueue")
    /\ Enqueue("automatic", Day(now), attempts + 1, now)
    /\ Goto("claim") /\ attempts' = 0
    /\ UNCHANGED <<wake, now, check, left, valid, missed, killed>> /\ UNCHANGED Around

Claim(i) ==
    /\ At("claim") /\ checks[i].status = "queued"
    /\ SetStatus(i, "running")
    /\ Goto("target")
    /\ check' = i /\ left' = active /\ UNCHANGED <<valid, missed, killed>>
    /\ UNCHANGED <<wake, now, attempts>> /\ UNCHANGED Around

NothingToClaim ==
    /\ At("claim") /\ \A i \in Rows : checks[i].status # "queued"
    /\ Rest
    /\ UNCHANGED <<checks, attempts, check, left, valid, missed, killed>> /\ UNCHANGED Around

Expired_Never(d) == FALSE
Expired(d) == checks[check].source = "automatic" /\ checks[check].day # d

SetTarget ==
    /\ At("target")
    /\ \E days \in Answers :
          LET d == CompletedDate(now, days) IN
          IF d = 0 \/ Expired(d)
            THEN Goto("failing") /\ UNCHANGED checks
            ELSE Goto("quotes") /\ checks' = [checks EXCEPT ![check].day = d]
    /\ UNCHANGED <<wake, tickVars>> /\ UNCHANGED Around

NextQuote ==
    /\ At("quotes")
    /\ Goto(IF left = {} THEN "finish" ELSE IF stopping THEN "failing" ELSE "fetch")
    /\ UNCHANGED <<checks, wake, tickVars>> /\ UNCHANGED Around

(* A market that has been stopped ends the fetch and refuses new ones. *)
Quote(p) ==
    /\ At("fetch") /\ p \in left
    /\ left' = left \ {p}
    /\ \/ market /\ valid' = valid \cup {p} /\ UNCHANGED <<missed, killed>>
       \/ missed' = missed \cup {p} /\ killed' = (killed \/ ~market) /\ UNCHANGED valid
    /\ Goto("quotes")
    /\ UNCHANGED <<checks, wake, now, attempts, check>> /\ UNCHANGED Around

Verdict == IF missed = {} THEN "completed" ELSE IF valid # {} THEN "partial" ELSE "failed"

MayComplete_Always == TRUE
MayComplete == ~stopping

NoCheck == check' = 0 /\ left' = {} /\ valid' = {} /\ missed' = {} /\ killed' = FALSE

(* complete never meets a row that is not running. *)
Complete ==
    /\ At("finish") /\ MayComplete
    /\ SetStatus(check, Verdict)
    /\ Rest /\ NoCheck
    /\ UNCHANGED attempts /\ UNCHANGED Around

InterruptCheck ==
    /\ At("finish") /\ ~MayComplete
    /\ Goto("failing")
    /\ UNCHANGED <<checks, wake, tickVars>> /\ UNCHANGED Around

FailCheck ==
    /\ At("failing")
    /\ Fail(check)
    /\ Rest /\ NoCheck
    /\ UNCHANGED attempts /\ UNCHANGED Around
(* _run's handler: the latest row, if it is running, fails. *)
FailLatest_Not == UNCHANGED checks
FailLatest == IF Rows = {} THEN UNCHANGED checks ELSE \E i \in Rows : IsLatest(i) /\ Fail(i)

Rescue ==
    /\ At("rescue")
    /\ FailLatest
    /\ Rest /\ NoCheck
    /\ UNCHANGED attempts /\ UNCHANGED Around

(* A store method raises: inside the try of tick the check fails, outside it *)
(* _run's handler takes over, and nothing catches what that one raises.      *)
StoreRaises ==
    /\ faults < MaxFaults /\ Room /\ faults' = faults + 1
    /\ \/ pc \in {"look", "decide", "enqueue", "claim", "failing"} /\ Goto("rescue")
       \/ pc \in {"target", "finish"} /\ Goto("failing")
       \/ At("rescue") /\ Goto("dead")
    /\ attempts' = 0
    /\ UNCHANGED <<tableVars, clock, now, check, left, valid, missed, killed>>
    /\ UNCHANGED <<wake, lifeVars, asked, exits, edits>>

Woken ==
    /\ At("wait") /\ wake
    /\ Goto("woken")
    /\ UNCHANGED <<checks, wake, tickVars>> /\ UNCHANGED Around

ThirtySeconds ==
    /\ At("wait")
    /\ Goto("woken")
    /\ UNCHANGED <<checks, wake, tickVars>> /\ UNCHANGED Around

ClearWake ==
    /\ At("woken")
    /\ Goto("loop") /\ wake' = FALSE
    /\ UNCHANGED <<checks, tickVars>> /\ UNCHANGED Around

WorkerStep ==
    \/ BeginTick \/ LeaveLoop \/ LookAtLatest \/ Decide \/ AskCalendar \/ EnqueueAutomatic
    \/ (\E i \in Rows : Claim(i)) \/ NothingToClaim \/ SetTarget \/ NextQuote
    \/ (\E p \in Plans : Quote(p)) \/ Complete \/ InterruptCheck \/ FailCheck
    \/ Rescue \/ Woken \/ ClearWake

-----------------------------------------------------------------------------
(* The process. *)

Start ==
    /\ ~up
    /\ Recover
    /\ up' = TRUE /\ stopping' = FALSE /\ market' = TRUE /\ wake' = FALSE
    /\ Goto("loop")
    /\ UNCHANGED <<active, automatic, clock, tickVars, asked, bounds>>

Stop ==
    /\ up /\ ~stopping /\ exits < MaxExits /\ Room
    /\ stopping' = TRUE /\ wake' = TRUE
    /\ UNCHANGED <<tableVars, clock, pc, tickVars, market, up, asked, bounds>>

StopMarket ==
    /\ stopping /\ market
    /\ market' = FALSE
    /\ UNCHANGED <<tableVars, clock, pc, tickVars, wake, stopping, up, asked, bounds>>

(* The process ends: after stop, which waits two seconds for the thread, or  *)
(* at any time.                                                              *)
Exit ==
    /\ up /\ exits < MaxExits /\ (stopping \/ Room) /\ exits' = exits + 1
    /\ up' = FALSE /\ stopping' = FALSE /\ market' = TRUE /\ wake' = FALSE
    /\ Goto("off") /\ now' = 0 /\ attempts' = 0 /\ NoCheck
    /\ asked' = [c \in Clients |-> None]
    /\ UNCHANGED <<tableVars, clock, faults, edits>>

Next ==
    \/ WorkerStep \/ ThirtySeconds \/ StoreRaises
    \/ \E c \in Clients : RequestCheck(c) \/ EnqueueManual(c) \/ RequestFails(c)
    \/ \E p \in Plans : EditPlans(p)
    \/ \E b \in BOOLEAN : SetAutomatic(b)
    \/ PassTime \/ Start \/ Stop \/ StopMarket \/ Exit

(* The worker thread and the handlers are scheduled, the process ends after  *)
(* a stop and is started again.  The thirty-second timer is needed only      *)
(* where the store has failed.                                               *)
Fairness ==
    /\ WF_vars(WorkerStep)
    /\ \A c \in Clients : WF_vars(EnqueueManual(c))
    /\ WF_vars(Start) /\ WF_vars(stopping /\ Exit)
    /\ WF_vars(faults > 0 /\ ThirtySeconds)

Spec == Init /\ [][Next]_vars
FairSpec == Spec /\ Fairness

-----------------------------------------------------------------------------
(* Automatic checks of a day: at most three, numbered in order, half an hour *)
(* apart, whatever manual checks, restarts and settings come in between      *)
(* (portfolio/worker.py:55-86, portfolio/store.py:238-267).                  *)
AttemptsPaced ==
    \A d \in Days :
        LET tries == AttemptsOn(d) IN
        /\ {checks[i].attempt : i \in tries} = 1 .. Cardinality(tries)
        /\ Cardinality(tries) <= 3
        /\ \A i, j \in tries :
              checks[i].attempt < checks[j].attempt => checks[i].at < checks[j].at

(* No automatic check is made for a day that has been checked with success,  *)
(* by hand or automatically, although the calendar call lies between the     *)
(* look and the insertion (portfolio/worker.py:68-86).                       *)
NoneAfterSuccess ==
    [][\A i \in 1 .. Len(checks') \ Rows :
          checks'[i].source = "automatic" =>
             \A j \in Rows : checks[j].day = checks'[i].day => checks[j].status # "completed"]_vars

(* Quotes are asked for the last trading day that has closed: not for one    *)
(* that is still open, nor, for want of a calendar, for an earlier one       *)
(* (portfolio/worker.py:13-21, 98-101).                                      *)
TargetIsLatest ==
    pc \in {"quotes", "fetch", "finish"} =>
        LET over == {d \in TradingDays : (d - 1) * SlotsPerDay + Cutoff <= now} IN
        checks[check].day \in over /\ \A d \in over : d <= checks[check].day

(* An automatic check that was left over judges its own day or none          *)
(* (portfolio/worker.py:99-101).                                             *)
AutomaticKeepsItsDay ==
    [][\A i \in Rows : checks[i].source = "automatic" => checks'[i].day = checks[i].day]_vars

(* The quotes that a shutdown takes away are never counted as missing ones   *)
(* (portfolio/worker.py:41-46, 103-113).                                     *)
NoVerdictFromKilledFetches ==
    [][pc = "finish" /\ killed => UNCHANGED checks \/ Fail(check)]_vars

(* A check that everybody is referred to is left running by nobody but a     *)
(* thread that has died: when a method raises it fails, provided that it is  *)
(* the latest row (portfolio/worker.py:97-127, portfolio/store.py:246-250).  *)
LatestIsHeld ==
    \A i \in Rows :
        up /\ checks[i].status = "running" /\ IsLatest(i)
            => pc \in Checking \cup {"rescue", "dead"}

StatusOf(i) == IF i \in Rows THEN checks[i].status ELSE "none"

(* What a store failure leaves to the next start: everything if the handler  *)
(* of _run met it too, else the rows that are not the latest.                *)
LeftOver(i) == pc = "dead" \/ (faults > 0 /\ StatusOf(i) = "running" /\ ~IsLatest(i))

(* A check that is asked for ends: it is taken up without waiting for the    *)
(* timer, since setting and clearing the wake event never cross, unless the  *)
(* store failed, and if the process dies the next start ends it              *)
(* (portfolio/worker.py:32-39, 48-53, 97-129, portfolio/store.py:356-362).   *)
CheckSettles ==
    \A i \in 1 .. MaxChecks :
        StatusOf(i) \in {"queued", "running"} ~> StatusOf(i) \in Finished \/ LeftOver(i)
=============================================================================
