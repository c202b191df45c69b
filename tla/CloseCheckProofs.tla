-------------------------- MODULE CloseCheckProofs --------------------------
(***************************************************************************)
(* Proofs about CloseCheck for every set of plans and clients, every       *)
(* calendar and every bound.                                               *)
(***************************************************************************)
EXTENDS CloseCheck, FiniteSetTheorems, WellFoundedInduction, TLAPS

Entries == [source : {"manual", "automatic"}, day : Nat, attempt : Nat,
            status : Pending \cup Finished, at : Clocks]

(* The table: one check at a time is pending. *)
Table ==
    /\ checks \in Seq(Entries)
    /\ \A i, j \in Rows : Waiting(i) /\ Waiting(j) => i = j

(* The thread: what it judges is running; only a stop closes the market. *)
Thread ==
    /\ pc \in Places /\ clock \in Clocks /\ now \in Clocks
    /\ asked \in [Clients -> Clocks \cup {None}]
    /\ pc \in Checking => check \in Rows /\ checks[check].status = "running"
    /\ killed => ~market
    /\ ~market => stopping
    /\ stopping => up
    /\ ~up => pc = "off"

(* What was found at the look still holds when the attempt is inserted. *)
Deciding ==
    pc \in {"calendar", "enqueue"} =>
        /\ attempts = Cardinality(AttemptsOn(Day(now))) /\ attempts < 3
        /\ ~HasSuccess(Day(now)) /\ Spaced(Day(now))

CheckInv == Table /\ Thread /\ Deciding

-----------------------------------------------------------------------------
(* What a step does to the table. *)
Untouched == UNCHANGED checks
Requested == \E c \in Clients : asked[c] # None /\ Enqueue("manual", 0, 0, asked[c])
Attempted == At("enqueue") /\ Enqueue("automatic", Day(now), attempts + 1, now)
Moved     == \E i \in Rows, s \in Finished \cup {"running"} :
                /\ SetStatus(i, s)
                /\ s = "running" => checks[i].status = "queued" /\ pc' = "target"
Targeted  == pc = "target" /\ (\E d \in Days : checks' = [checks EXCEPT ![check].day = d])
             /\ (checks[check].source = "automatic" => checks'[check].day = checks[check].day)

(* A row stays what it is, but for its status and, if it was asked for by *)
(* hand, its day.                                                         *)
Stays(old, new) ==
    /\ new.source = old.source /\ new.attempt = old.attempt /\ new.at = old.at
    /\ old.source = "automatic" => new.day = old.day

LEMMA CalendarFacts ==
    /\ LastDay \in Nat /\ SlotsPerDay \in Nat \ {0} /\ MaxClock \in Nat
    /\ None \notin Clocks /\ Clocks \subseteq Nat /\ Days \subseteq Nat
    /\ \A t \in Clocks : Day(t) \in Nat
BY CalendarAssumption DEF CalendarBounds, Clocks, Days, Day

(* A set of days that is not empty has a last one. *)
LEMMA HasLatest ==
    ASSUME NEW S, S \subseteq Days, S # {}
    PROVE  Latest(S) \in S /\ \A e \in S : e <= Latest(S)
<1> DEFINE T == {LastDay - d : d \in S}
           Less == OpToRel(<, Nat)
<1>1. \A x, y \in Nat : x < y => <<x, y>> \in Less
  BY DEF OpToRel
<1>2. LastDay \in Nat /\ \A d \in S : d \in Nat /\ d <= LastDay /\ LastDay - d \in Nat
  BY CalendarFacts DEF Days
<1>3. T \subseteq Nat /\ T # {}
  BY <1>2
<1>4. IsWellFoundedOn(Less, Nat)
  BY NatLessThanWellFounded
<1> HIDE DEF Less
<1>5. PICK x \in T : \A y \in T : ~ (<<y, x>> \in Less)
  <2> HIDE DEF T
  <2> QED
    BY <1>3, <1>4, WFMin
<1>6. PICK d \in S : x = LastDay - d
  BY <1>5
<1>7. \A e \in S : e <= d
  <2> SUFFICES ASSUME NEW e \in S, ~ (e <= d) PROVE FALSE
    OBVIOUS
  <2>1. LastDay - e \in T /\ LastDay - e < LastDay - d
    BY <1>2
  <2>2. LastDay - e \in Nat /\ LastDay - d \in Nat
    BY <1>2
  <2> QED
    BY <1>1, <1>5, <1>6, <2>1, <2>2
<1> QED
  BY <1>6, <1>7 DEF Latest

(* What completed_date finds is a trading day that has closed. *)
LEMMA TargetIsADay ==
    ASSUME NEW t, NEW days \in Answers, CompletedDate(t, days) # 0
    PROVE  LET past == {d \in days : Closed(d, t)}
           IN  /\ CompletedDate(t, days) = Latest(past)
               /\ past \subseteq TradingDays /\ past # {}
               /\ CompletedDate(t, days) \in past /\ \A e \in past : e <= CompletedDate(t, days)
               /\ CompletedDate(t, days) \in Days
<1> DEFINE past == {d \in days : Closed(d, t)}
<1>1. days \subseteq TradingDays /\ TradingDays \subseteq Days
  BY CalendarAssumption DEF CalendarBounds, Answers, Calendars, Calendar
<1>2. past # {} /\ CompletedDate(t, days) = Latest(past)
  BY DEF CompletedDate
<1>3. past \subseteq TradingDays /\ past \subseteq Days
  BY <1>1
<1> HIDE DEF past
<1>4. Latest(past) \in past /\ \A e \in past : e <= Latest(past)
  BY <1>2, <1>3, HasLatest
<1>5. /\ CompletedDate(t, days) = Latest(past)
      /\ past \subseteq TradingDays /\ past # {}
      /\ CompletedDate(t, days) \in past /\ \A e \in past : e <= CompletedDate(t, days)
      /\ CompletedDate(t, days) \in Days
  BY <1>2, <1>3, <1>4
<1> QED
  BY <1>5 DEF past

LEMMA StepOnTable ==
    ASSUME CheckInv, Next
    PROVE  Untouched \/ Requested \/ Attempted \/ Moved \/ Targeted \/ (~up /\ Recover)
<1> USE DEF CheckInv, Table, Thread
<1>1. CASE WorkerStep
  <2>1. CASE EnqueueAutomatic
    BY <2>1 DEF EnqueueAutomatic, Attempted
  <2>2. CASE \E i \in Rows : Claim(i)
    BY <2>2 DEF Claim, Goto, Moved
  <2>3. CASE SetTarget
    <3>1. pc = "target" /\ check \in Rows /\ checks \in Seq(Entries)
      BY <2>3 DEF SetTarget, At, Checking
    <3>2. PICK days \in Answers :
              LET d == CompletedDate(now, days) IN
              IF d = 0 \/ Expired(d)
                THEN Goto("failing") /\ UNCHANGED checks
                ELSE Goto("quotes") /\ checks' = [checks EXCEPT ![check].day = d]
      BY <2>3 DEF SetTarget
    <3> DEFINE d == CompletedDate(now, days)
    <3>3. CASE d = 0 \/ Expired(d)
      BY <3>2, <3>3 DEF Untouched
    <3>4. CASE ~(d = 0 \/ Expired(d))
      <4>1. checks' = [checks EXCEPT ![check].day = d] /\ d # 0
        BY <3>2, <3>4
      <4>2. d \in Days
        BY <3>4, TargetIsADay
      <4>3. checks[check] \in Entries /\ check \in DOMAIN checks
        BY <3>1 DEF Rows
      <4>4. checks'[check].day = d
        BY <4>1, <4>3 DEF Entries
      <4> HIDE DEF d
      <4>5. checks[check].source = "automatic" => checks[check].day = d
        BY <3>4 DEF Expired
      <4> QED
        BY <3>1, <4>1, <4>2, <4>4, <4>5 DEF Targeted
    <3> QED
      BY <3>3, <3>4
  <2>4. CASE Complete
    BY <2>4 DEF Complete, At, Verdict, Moved, Pending, Finished, Checking
  <2>5. CASE FailCheck
    BY <2>5 DEF FailCheck, Fail, Moved, Pending, Finished, At, Checking, Untouched
  <2>6. CASE Rescue
    BY <2>6 DEF Rescue, FailLatest, Fail, Moved, Pending, Finished, Untouched
  <2>7. CASE ~(EnqueueAutomatic \/ (\E i \in Rows : Claim(i)) \/ SetTarget \/ Complete \/ FailCheck \/ Rescue)
    BY <1>1, <2>7 DEF WorkerStep, BeginTick, LeaveLoop, LookAtLatest, Decide, AskCalendar,
       NothingToClaim, NextQuote, Quote, InterruptCheck, Woken, ClearWake, Untouched
  <2> QED
    BY <2>1, <2>2, <2>3, <2>4, <2>5, <2>6, <2>7
<1>2. CASE Start
  BY <1>2 DEF Start
<1>3. CASE \E c \in Clients : EnqueueManual(c)
  BY <1>3 DEF EnqueueManual, Requested
<1>4. CASE ~(WorkerStep \/ Start \/ \E c \in Clients : EnqueueManual(c))
  BY <1>4 DEF Next, ThirtySeconds, StoreRaises, RequestCheck, RequestFails, EditPlans, SetAutomatic,
     PassTime, Stop, StopMarket, Exit, Untouched, tableVars, Around
<1> QED
  BY <1>1, <1>2, <1>3, <1>4

(* Enqueueing leaves the table alone or puts one queued row behind it, and  *)
(* that only when nothing waits.                                            *)
LEMMA EnqueueEffect ==
    ASSUME NEW source, NEW day, NEW n, NEW stamp, Enqueue(source, day, n, stamp)
    PROVE  \/ UNCHANGED checks
           \/ /\ checks' = Append(checks, [source |-> source, day |-> day, attempt |-> n,
                                          status |-> "queued", at |-> stamp])
              /\ \A i \in Rows : ~Waiting(i)
              /\ ~ (source = "automatic" /\ \E i \in AttemptsOn(day) : checks[i].attempt = n)
BY DEF Enqueue

(* Rows are never taken away, and stay what they are. *)
LEMMA TableStep ==
    ASSUME CheckInv, Next
    PROVE  /\ checks' \in Seq(Entries)
           /\ \A i, j \in Rows' : Waiting(i)' /\ Waiting(j)' => i = j
           /\ Rows \subseteq Rows'
           /\ \A i \in Rows : Stays(checks[i], checks'[i])
           /\ ~Attempted => \A i \in Rows' \ Rows : checks'[i].source = "manual"
<1> USE DEF CheckInv, Table
<1> DEFINE Result ==
           /\ checks' \in Seq(Entries)
           /\ \A i, j \in Rows' : Waiting(i)' /\ Waiting(j)' => i = j
           /\ Rows \subseteq Rows'
           /\ \A i \in Rows : Stays(checks[i], checks'[i])
           /\ ~Attempted => \A i \in Rows' \ Rows : checks'[i].source = "manual"
<1>1. CASE Untouched
  BY <1>1 DEF Untouched, Rows, Waiting, Stays
<1>2. ASSUME NEW row \in Entries, checks' = Append(checks, row),
             \A i \in Rows : ~Waiting(i), ~Attempted => row.source = "manual"
      PROVE  Result
  <2>1. /\ checks' \in Seq(Entries) /\ Len(checks') = Len(checks) + 1
        /\ \A i \in 1 .. Len(checks) : checks'[i] = checks[i]
        /\ checks'[Len(checks) + 1] = row
    BY <1>2
  <2>2. Rows \subseteq Rows' /\ \A i \in Rows' \ Rows : i = Len(checks) + 1
    BY <2>1 DEF Rows
  <2>3. \A i, j \in Rows' : Waiting(i)' /\ Waiting(j)' => i = j
    BY <1>2, <2>1, <2>2 DEF Rows, Waiting
  <2>4. \A i \in Rows : Stays(checks[i], checks'[i])
    BY <2>1 DEF Rows, Stays
  <2> QED
    BY <1>2, <2>1, <2>2, <2>3, <2>4
<1>3. CASE Requested
  <2>1. PICK c \in Clients : asked[c] # None /\ Enqueue("manual", 0, 0, asked[c])
    BY <1>3 DEF Requested
  <2> DEFINE row == [source |-> "manual", day |-> 0, attempt |-> 0, status |-> "queued", at |-> asked[c]]
  <2>2. row \in Entries /\ row.source = "manual"
    BY <2>1 DEF Entries, Pending, Thread
  <2>3. UNCHANGED checks \/ (checks' = Append(checks, row) /\ \A i \in Rows : ~Waiting(i))
    BY <2>1, EnqueueEffect
  <2> HIDE DEF row
  <2> QED
    BY <1>1, <1>2, <2>2, <2>3 DEF Untouched
<1>4. CASE Attempted
  <2> DEFINE row == [source |-> "automatic", day |-> Day(now), attempt |-> attempts + 1,
                     status |-> "queued", at |-> now]
  <2>1. Day(now) \in Nat /\ attempts + 1 \in Nat /\ now \in Clocks
    <3>1. now \in Clocks /\ pc = "enqueue"
      BY <1>4 DEF Thread, Attempted, At
    <3>2. attempts \in Nat
      <4>1. attempts = Cardinality(AttemptsOn(Day(now)))
        BY <3>1 DEF Deciding
      <4>2. IsFiniteSet(AttemptsOn(Day(now)))
        <5>1. Len(checks) \in Nat
          OBVIOUS
        <5>2. IsFiniteSet(1 .. Len(checks))
          BY <5>1, FS_Interval
        <5> QED
          BY <5>2, FS_Subset DEF AttemptsOn, Rows
      <4> QED
        BY <4>1, <4>2, FS_CardinalityType
    <3> QED
      BY <3>1, <3>2, CalendarFacts
  <2>2. row \in Entries
    BY <2>1 DEF Entries, Pending
  <2>3. UNCHANGED checks \/ (checks' = Append(checks, row) /\ \A i \in Rows : ~Waiting(i))
    BY <1>4, EnqueueEffect DEF Attempted
  <2> HIDE DEF row
  <2> QED
    BY <1>1, <1>2, <1>4, <2>2, <2>3 DEF Untouched
<1>5. CASE Moved
  <2>1. PICK i \in Rows, s \in Finished \cup {"running"} :
            /\ SetStatus(i, s)
            /\ s = "running" => checks[i].status = "queued"
    BY <1>5 DEF Moved
  <2>2. checks' = [checks EXCEPT ![i].status = s] /\ i \in DOMAIN checks /\ checks[i] \in Entries
    BY <2>1 DEF SetStatus, Rows
  <2>3. [checks[i] EXCEPT !.status = s] \in Entries
    BY <2>2 DEF Entries, Pending
  <2>4. checks' \in Seq(Entries) /\ Len(checks') = Len(checks)
    BY <2>2, <2>3
  <2>5. \A j \in Rows : checks'[j] = IF j = i THEN [checks[i] EXCEPT !.status = s] ELSE checks[j]
    BY <2>2 DEF Rows
  <2>6. \A j \in Rows : Stays(checks[j], checks'[j]) /\ (Waiting(j)' => Waiting(j))
    BY <2>1, <2>2, <2>5 DEF Stays, Waiting, Entries, Pending, Finished, Rows
  <2> QED
    BY <2>4, <2>6 DEF Rows
<1>6. CASE Targeted
  <2>1. PICK d \in Days : checks' = [checks EXCEPT ![check].day = d]
    BY <1>6 DEF Targeted
  <2>2. check \in DOMAIN checks /\ checks[check] \in Entries
    BY <1>6 DEF Targeted, Thread, Checking, Rows
  <2>3. [checks[check] EXCEPT !.day = d] \in Entries
    BY <2>2, CalendarFacts DEF Entries
  <2>4. checks' \in Seq(Entries) /\ Len(checks') = Len(checks)
    BY <2>1, <2>2, <2>3
  <2>5. \A j \in Rows : checks'[j] = IF j = check THEN [checks[check] EXCEPT !.day = d] ELSE checks[j]
    BY <2>1, <2>2 DEF Rows
  <2>6. \A j \in Rows : Stays(checks[j], checks'[j]) /\ (Waiting(j)' => Waiting(j))
    BY <1>6, <2>2, <2>5 DEF Stays, Waiting, Entries, Targeted, Rows
  <2> QED
    BY <2>4, <2>6 DEF Rows
<1>7. CASE Recover
  <2>1. checks' = [i \in 1 .. Len(checks) |-> Interrupted(checks[i])]
    BY <1>7 DEF Recover, Rows
  <2>2. \A i \in Rows : checks[i] \in Entries /\ Interrupted(checks[i]) \in Entries
    <3>1. \A row \in Entries : Interrupted(row) \in Entries
      <4> SUFFICES ASSUME NEW row \in Entries PROVE Interrupted(row) \in Entries
        OBVIOUS
      <4>1. "interrupted" \in Pending \cup Finished
        BY DEF Finished
      <4>2. [row EXCEPT !.status = "interrupted"] \in Entries
        BY <4>1 DEF Entries
      <4> QED
        BY <4>2 DEF Interrupted
    <3>2. \A i \in Rows : checks[i] \in Entries
      BY DEF Rows
    <3> QED
      BY <3>1, <3>2
  <2>3. checks' \in Seq(Entries) /\ Len(checks') = Len(checks)
    BY <2>1, <2>2 DEF Rows
  <2>4. \A j \in Rows : checks'[j] = Interrupted(checks[j])
    BY <2>1 DEF Rows
  <2>5. \A j \in Rows : Stays(checks[j], checks'[j]) /\ (Waiting(j)' => Waiting(j))
    BY <2>2, <2>4 DEF Stays, Waiting, Entries, Interrupted, Pending
  <2> QED
    BY <2>3, <2>5 DEF Rows
<1> HIDE DEF Result
<1> QED
  BY <1>1, <1>3, <1>4, <1>5, <1>6, <1>7, StepOnTable DEF Result

-----------------------------------------------------------------------------
(* The thread. *)

LEMMA ThreadTypes ==
    ASSUME CheckInv, Next
    PROVE  /\ pc' \in Places /\ clock' \in Clocks /\ now' \in Clocks
           /\ asked' \in [Clients -> Clocks \cup {None}]
           /\ killed' => ~market'
           /\ ~market' => stopping'
           /\ stopping' => up'
           /\ ~up' => pc' = "off"
<1> USE DEF CheckInv, Thread, Places, Checking, At, Goto, Around, lifeVars, Rest, NoCheck
<1>0. 0 \in Clocks
  BY CalendarFacts DEF Clocks
<1>1. CASE WorkerStep
  <2>1. up /\ UNCHANGED <<clock, asked, market, stopping, up>>
    BY <1>1 DEF WorkerStep, BeginTick, LeaveLoop, LookAtLatest, Decide, AskCalendar, EnqueueAutomatic,
       Claim, NothingToClaim, SetTarget, NextQuote, Quote, Complete, InterruptCheck, FailCheck,
       Rescue, Woken, ClearWake
  <2>2. now' \in {now, clock, 0} /\ pc' \in Places
    BY <1>1 DEF WorkerStep, BeginTick, LeaveLoop, LookAtLatest, Decide, AskCalendar, EnqueueAutomatic,
       Claim, NothingToClaim, SetTarget, NextQuote, Quote, Complete, InterruptCheck, FailCheck,
       Rescue, Woken, ClearWake, tickVars
  <2>3. killed' => killed \/ ~market
    BY <1>1 DEF WorkerStep, BeginTick, LeaveLoop, LookAtLatest, Decide, AskCalendar, EnqueueAutomatic,
       Claim, NothingToClaim, SetTarget, NextQuote, Quote, Complete, InterruptCheck, FailCheck,
       Rescue, Woken, ClearWake, tickVars
  <2> QED
    BY <1>0, <2>1, <2>2, <2>3
<1>2. CASE ThirtySeconds \/ StoreRaises
  <2>1. up /\ UNCHANGED <<clock, now, asked, market, stopping, up, killed>> /\ pc' \in Places
    BY <1>2 DEF ThirtySeconds, StoreRaises, tickVars
  <2> QED
    BY <2>1
<1>3. CASE PassTime \/ Stop \/ StopMarket
  <2>1. /\ UNCHANGED <<now, asked, killed, pc, up>> /\ clock' \in Clocks
        /\ (market' = market \/ market' = FALSE)
        /\ (~market' => stopping') /\ (stopping' => up')
    BY <1>3 DEF PassTime, Stop, StopMarket, tickVars
  <2>2. killed' => ~market'
    BY <1>3 DEF PassTime, Stop, StopMarket, tickVars
  <2> QED
    BY <2>1, <2>2
<1>4. CASE Start
  <2>1. /\ UNCHANGED <<now, asked, killed, clock>> /\ up' /\ market' /\ ~stopping' /\ pc' = "loop"
    BY <1>4 DEF Start, tickVars
  <2>2. ~killed
    BY <1>4 DEF Start
  <2> QED
    BY <2>1, <2>2
<1>5. CASE Exit
  <2>1. /\ UNCHANGED clock /\ now' = 0 /\ ~killed' /\ market' /\ ~stopping' /\ pc' = "off"
        /\ asked' = [c \in Clients |-> None]
    BY <1>5 DEF Exit
  <2> QED
    BY <1>0, <2>1
<1>6. CASE \E c \in Clients : RequestCheck(c) \/ EnqueueManual(c) \/ RequestFails(c)
  <2>1. PICK c \in Clients : RequestCheck(c) \/ EnqueueManual(c) \/ RequestFails(c)
    BY <1>6
  <2>2. asked' = [asked EXCEPT ![c] = clock] \/ asked' = [asked EXCEPT ![c] = None]
    BY <2>1 DEF RequestCheck, EnqueueManual, RequestFails, Answered
  <2>3. UNCHANGED <<clock, now, pc, killed, market, stopping, up>>
    BY <2>1 DEF RequestCheck, EnqueueManual, RequestFails, tickVars
  <2> QED
    BY <2>2, <2>3
<1>7. CASE (\E p \in Plans : EditPlans(p)) \/ \E b \in BOOLEAN : SetAutomatic(b)
  <2>1. UNCHANGED <<clock, now, pc, killed, market, stopping, up, asked>>
    BY <1>7 DEF EditPlans, SetAutomatic, tickVars
  <2> QED
    BY <2>1
<1> QED
  BY <1>1, <1>2, <1>3, <1>4, <1>5, <1>6, <1>7 DEF Next

(* What the thread judges stays running while it judges it: nobody else ends *)
(* a row.                                                                    *)
LEMMA JudgedRuns ==
    ASSUME CheckInv, Next
    PROVE  pc' \in Checking => check' \in Rows' /\ checks'[check'].status = "running"
<1> USE DEF CheckInv, Thread
<1> SUFFICES ASSUME pc' \in Checking
             PROVE  check' \in Rows' /\ checks'[check'].status = "running"
  OBVIOUS
<1>1. Rows \subseteq Rows' /\ checks \in Seq(Entries)
  BY TableStep DEF Table
<1>2. CASE \E i \in Rows : Claim(i)
  <2>1. PICK i \in Rows : Claim(i)
    BY <1>2
  <2>2. check' = i /\ checks' = [checks EXCEPT ![i].status = "running"] /\ i \in DOMAIN checks
    BY <1>1, <2>1 DEF Claim, SetStatus, Rows
  <2>3. checks[i] \in Entries
    BY <1>1, <2>2
  <2> QED
    BY <1>1, <2>2, <2>3 DEF Entries
<1>3. CASE UNCHANGED <<checks, check>> /\ pc \in Checking
  BY <1>1, <1>3
<1>4. CASE SetTarget
  <2>1. UNCHANGED check /\ pc = "target" /\ check \in DOMAIN checks /\ checks[check] \in Entries
    BY <1>1, <1>4 DEF SetTarget, At, tickVars, Checking, Rows
  <2>2. checks' = checks \/ \E d : checks' = [checks EXCEPT ![check].day = d]
    BY <1>4 DEF SetTarget
  <2>3. checks[check].status = "running" /\ check \in Rows
    BY <2>1 DEF Checking
  <2> QED
    BY <1>1, <2>1, <2>2, <2>3 DEF Entries
<1>5. CASE \E c \in Clients : EnqueueManual(c)
  <2>1. UNCHANGED <<pc, check>> /\ \E c \in Clients : Enqueue("manual", 0, 0, asked[c])
    BY <1>5 DEF EnqueueManual, tickVars
  <2>2. Waiting(check) /\ check \in Rows
    BY <2>1 DEF Waiting, Pending
  <2> QED
    BY <1>3, <2>1, <2>2 DEF Enqueue
<1>6. CASE WorkerStep /\ ~SetTarget /\ ~ \E i \in Rows : Claim(i)
  <2>1. NextQuote \/ (\E p \in Plans : Quote(p)) \/ InterruptCheck
    BY <1>6 DEF WorkerStep, BeginTick, LeaveLoop, LookAtLatest, Decide, AskCalendar, EnqueueAutomatic,
       NothingToClaim, Complete, FailCheck, Rescue, Woken, ClearWake, Goto, Rest, Checking
  <2> QED
    BY <1>3, <2>1 DEF NextQuote, Quote, InterruptCheck, At, tickVars, Checking
<1>7. CASE ~WorkerStep /\ ~ \E c \in Clients : EnqueueManual(c)
  <2>1. UNCHANGED <<checks, check>> /\ pc \in Checking
    BY <1>7 DEF Next, ThirtySeconds, StoreRaises, RequestCheck, RequestFails, EditPlans, SetAutomatic,
       PassTime, Start, Stop, StopMarket, Exit, tableVars, tickVars, Around, Goto, At, Checking
  <2> QED
    BY <1>3, <2>1
<1> QED
  BY <1>2, <1>4, <1>5, <1>6, <1>7

-----------------------------------------------------------------------------
(* The automatic attempts of a day. *)

LEMMA AttemptsAreFinite ==
    ASSUME checks \in Seq(Entries), NEW d
    PROVE  IsFiniteSet(AttemptsOn(d)) /\ Cardinality(AttemptsOn(d)) \in Nat
<1>1. Len(checks) \in Nat
  OBVIOUS
<1>2. IsFiniteSet(1 .. Len(checks))
  BY <1>1, FS_Interval
<1>3. IsFiniteSet(AttemptsOn(d))
  BY <1>2, FS_Subset DEF AttemptsOn, Rows
<1> QED
  BY <1>3, FS_CardinalityType

(* Only an insertion adds to them. *)
LEMMA AttemptsKept ==
    ASSUME CheckInv, Next, ~Attempted, NEW d \in Nat
    PROVE  /\ AttemptsOn(d)' = AttemptsOn(d)
           /\ \A i \in AttemptsOn(d) :
                  checks'[i].attempt = checks[i].attempt /\ checks'[i].at = checks[i].at
<1>1. /\ Rows \subseteq Rows'
      /\ \A i \in Rows : Stays(checks[i], checks'[i])
      /\ \A i \in Rows' \ Rows : checks'[i].source = "manual"
  BY TableStep
<1>2. AttemptsOn(d)' = {i \in Rows' : checks'[i].source = "automatic" /\ checks'[i].day = d}
  BY DEF AttemptsOn
<1>3. ASSUME NEW i \in Rows, checks[i].source = "automatic"
      PROVE  checks'[i].source = "automatic" /\ checks'[i].day = checks[i].day
  BY <1>1, <1>3 DEF Stays
<1>4. ASSUME NEW i \in Rows', checks'[i].source = "automatic"
      PROVE  i \in Rows /\ checks[i].source = "automatic"
  BY <1>1, <1>4 DEF Stays
<1> QED
  BY <1>1, <1>2, <1>3, <1>4 DEF AttemptsOn, Stays

(* Between the look and the insertion nobody adds an attempt, and no check of *)
(* that day ends with success: this thread would have to end it.              *)
LEMMA DecidingStep ==
    ASSUME CheckInv, Next
    PROVE  Deciding'
<1> USE DEF CheckInv
<1> SUFFICES ASSUME pc' \in {"calendar", "enqueue"}
             PROVE  /\ attempts' = Cardinality(AttemptsOn(Day(now))') /\ attempts' < 3
                    /\ ~HasSuccess(Day(now))' /\ Spaced(Day(now))'
  BY DEF Deciding
<1>1. CASE Decide
  <2>1. Due /\ attempts' = Cardinality(AttemptsOn(Day(now))) /\ UNCHANGED <<checks, now>>
    BY <1>1 DEF Decide, Goto
  <2>2. /\ ~HasSuccess(Day(now)) /\ Cardinality(AttemptsOn(Day(now))) < 3 /\ Spaced(Day(now))
    BY <2>1 DEF Due
  <2>3. Day(now)' = Day(now) /\ Rows' = Rows
    BY <2>1 DEF Day, Rows
  <2>4. AttemptsOn(Day(now))' = AttemptsOn(Day(now))
    BY <2>1, <2>3 DEF AttemptsOn
  <2>5. ~HasSuccess(Day(now))' /\ Spaced(Day(now))'
    BY <2>1, <2>2, <2>3, <2>4 DEF HasSuccess, Spaced
  <2> QED
    BY <2>1, <2>2, <2>4, <2>5
<1>2. ASSUME ~Decide
      PROVE  /\ pc \in {"calendar", "enqueue"} /\ UNCHANGED <<attempts, now>>
             /\ UNCHANGED checks \/ \E c \in Clients : EnqueueManual(c)
  <2>1. CASE WorkerStep
    <3>1. AskCalendar
      BY <1>2, <2>1 DEF WorkerStep, BeginTick, LeaveLoop, LookAtLatest, EnqueueAutomatic, Claim,
         NothingToClaim, SetTarget, NextQuote, Quote, Complete, InterruptCheck, FailCheck, Rescue,
         Woken, ClearWake, Goto, Rest
    <3> QED
      BY <3>1 DEF AskCalendar, At, tickVars
  <2>2. CASE ~WorkerStep
    BY <2>2 DEF Next, ThirtySeconds, StoreRaises, RequestCheck, EnqueueManual, RequestFails, EditPlans,
       SetAutomatic, PassTime, Start, Stop, StopMarket, Exit, Goto, tableVars, tickVars
  <2> QED
    BY <2>1, <2>2
<1>3. CASE ~Decide
  <2>1. /\ pc \in {"calendar", "enqueue"} /\ UNCHANGED <<attempts, now>>
        /\ UNCHANGED checks \/ \E c \in Clients : EnqueueManual(c)
    BY <1>2, <1>3
  <2>2. /\ attempts = Cardinality(AttemptsOn(Day(now))) /\ attempts < 3
        /\ ~HasSuccess(Day(now)) /\ Spaced(Day(now))
    BY <2>1 DEF Deciding
  <2>3. checks \in Seq(Entries) /\ Day(now) \in Nat /\ Day(now)' = Day(now)
    BY <2>1, CalendarFacts DEF Table, Thread, Day
  <2>4. /\ \A i \in Rows : i \in Rows' /\ checks'[i] = checks[i]
        /\ \A i \in Rows' \ Rows : checks'[i].source = "manual" /\ checks'[i].status = "queued"
    <3>1. CASE UNCHANGED checks
      BY <3>1 DEF Rows
    <3>2. CASE \E c \in Clients : EnqueueManual(c)
      <4>1. PICK c \in Clients : Enqueue("manual", 0, 0, asked[c])
        BY <3>2 DEF EnqueueManual
      <4> DEFINE row == [source |-> "manual", day |-> 0, attempt |-> 0, status |-> "queued",
                         at |-> asked[c]]
      <4>2. UNCHANGED checks \/ checks' = Append(checks, row)
        BY <4>1, EnqueueEffect
      <4>3. row.source = "manual" /\ row.status = "queued"
        OBVIOUS
      <4> HIDE DEF row
      <4> QED
        BY <2>3, <3>1, <4>2, <4>3 DEF Rows
    <3> QED
      BY <2>1, <3>1, <3>2
  <2>5. AttemptsOn(Day(now))' = AttemptsOn(Day(now))
    BY <2>3, <2>4 DEF AttemptsOn
  <2>6. ~HasSuccess(Day(now))'
    BY <2>2, <2>3, <2>4 DEF HasSuccess
  <2>7. Spaced(Day(now))'
    <3>1. \A i \in AttemptsOn(Day(now)) : checks'[i] = checks[i]
      BY <2>4 DEF AttemptsOn
    <3> QED
      BY <2>1, <2>2, <2>5, <3>1 DEF Spaced
  <2> QED
    BY <2>1, <2>2, <2>5, <2>6, <2>7
<1> QED
  BY <1>1, <1>3

LEMMA CheckKept == CheckInv /\ [Next]_vars => CheckInv'
<1> SUFFICES ASSUME CheckInv, [Next]_vars PROVE CheckInv'
  OBVIOUS
<1>1. CASE Next
  <2>1. Table'
    BY <1>1, TableStep DEF Table
  <2>2. Thread'
    BY <1>1, ThreadTypes, JudgedRuns DEF Thread
  <2> QED
    BY <1>1, <2>1, <2>2, DecidingStep DEF CheckInv
<1>2. CASE UNCHANGED vars
  <2>1. UNCHANGED <<checks, asked, pc, clock, now, attempts, check, killed, market, stopping, up>>
    BY <1>2 DEF vars, tableVars, tickVars, lifeVars
  <2>2. Table' /\ Thread'
    BY <2>1 DEF CheckInv, Table, Thread, Rows, Waiting
  <2>3. Rows' = Rows /\ Day(now)' = Day(now)
    BY <2>1 DEF Rows, Day
  <2>4. AttemptsOn(Day(now))' = AttemptsOn(Day(now))
    BY <2>1, <2>3 DEF AttemptsOn
  <2>5. Deciding'
    BY <2>1, <2>3, <2>4 DEF CheckInv, Deciding, HasSuccess, Spaced
  <2> QED
    BY <2>2, <2>5 DEF CheckInv
<1> QED
  BY <1>1, <1>2

LEMMA InitCheck == Init => CheckInv
<1> SUFFICES ASSUME Init PROVE CheckInv
  OBVIOUS
<1>1. 0 \in Clocks
  BY CalendarFacts DEF Clocks
<1>2. Table
  BY DEF Init, Table, Rows
<1>3. Thread
  BY <1>1 DEF Init, Thread, Places, Checking
<1>4. Deciding
  BY DEF Init, Deciding
<1> QED
  BY <1>2, <1>3, <1>4 DEF CheckInv

LEMMA CheckIsSound == Spec => []CheckInv
BY InitCheck, CheckKept, PTL DEF Spec

-----------------------------------------------------------------------------
(* No automatic check is made for a day that has been checked with success *)
(* (portfolio/worker.py:68-86).                                            *)
THEOREM SuccessEndsTheDay == Spec => NoneAfterSuccess
<1>1. ASSUME CheckInv, [Next]_vars, vars' # vars,
             NEW i \in 1 .. Len(checks') \ Rows, checks'[i].source = "automatic",
             NEW j \in Rows, checks[j].day = checks'[i].day
      PROVE  checks[j].status # "completed"
  <2>1. Next /\ i \in Rows' \ Rows
    BY <1>1 DEF Rows
  <2>2. Attempted
    BY <1>1, <2>1, TableStep
  <2>3. ~HasSuccess(Day(now))
    BY <1>1, <2>2 DEF CheckInv, Deciding, Attempted, At
  <2> DEFINE row == [source |-> "automatic", day |-> Day(now), attempt |-> attempts + 1,
                     status |-> "queued", at |-> now]
  <2>4. UNCHANGED checks \/ checks' = Append(checks, row)
    BY <2>2, EnqueueEffect DEF Attempted
  <2>5. checks \in Seq(Entries) /\ row.day = Day(now)
    BY <1>1 DEF CheckInv, Table
  <2> HIDE DEF row
  <2>6. checks'[i] = row
    BY <2>1, <2>4, <2>5 DEF Rows
  <2> QED
    BY <1>1, <2>3, <2>5, <2>6 DEF HasSuccess
<1>2. CheckInv /\ [Next]_vars =>
         [\A i \in 1 .. Len(checks') \ Rows :
            checks'[i].source = "automatic" =>
               \A j \in Rows : checks[j].day = checks'[i].day => checks[j].status # "completed"]_vars
  BY <1>1
<1> QED
  BY <1>2, CheckIsSound, PTL DEF Spec, NoneAfterSuccess

(* An automatic check judges its own day or none (portfolio/worker.py:99-101). *)
THEOREM OwnDayOrNone == Spec => AutomaticKeepsItsDay
<1>1. CheckInv /\ [Next]_vars =>
         [\A i \in Rows : checks[i].source = "automatic" => checks'[i].day = checks[i].day]_vars
  BY TableStep DEF Stays
<1> QED
  BY <1>1, CheckIsSound, PTL DEF Spec, AutomaticKeepsItsDay

(* The quotes that a shutdown takes away are never counted as missing ones *)
(* (portfolio/worker.py:41-46, 103-113).                                   *)
THEOREM ShutdownIsNoVerdict == Spec => NoVerdictFromKilledFetches
<1>1. ASSUME CheckInv, Next, pc = "finish", killed
      PROVE  UNCHANGED checks \/ Fail(check)
  <2>1. stopping /\ up /\ check \in Rows /\ checks[check].status = "running"
    BY <1>1 DEF CheckInv, Thread, Checking
  <2>2. CASE WorkerStep
    BY <1>1, <2>1, <2>2 DEF WorkerStep, BeginTick, LeaveLoop, LookAtLatest, Decide, AskCalendar,
       EnqueueAutomatic, Claim, NothingToClaim, SetTarget, NextQuote, Quote, Complete, MayComplete,
       InterruptCheck, FailCheck, Rescue, Woken, ClearWake, At
  <2>3. CASE \E c \in Clients : EnqueueManual(c)
    BY <2>1, <2>3 DEF EnqueueManual, Enqueue, Waiting, Pending
  <2>4. CASE ~WorkerStep /\ ~ \E c \in Clients : EnqueueManual(c)
    BY <1>1, <2>1, <2>4 DEF Next, ThirtySeconds, StoreRaises, RequestCheck, RequestFails, EditPlans,
       SetAutomatic, PassTime, Start, Stop, StopMarket, Exit, tableVars, Around
  <2> QED
    BY <2>2, <2>3, <2>4
<1>2. CheckInv /\ [Next]_vars => [pc = "finish" /\ killed => UNCHANGED checks \/ Fail(check)]_vars
  BY <1>1
<1> QED
  BY <1>2, CheckIsSound, PTL DEF Spec, NoVerdictFromKilledFetches

-----------------------------------------------------------------------------
(* Attempts are numbered from 1 and follow each other in time.  The new one  *)
(* takes the next number because the count of the look is still right, and a *)
(* later time because the last one was at least half an hour ago.            *)
LEMMA PacedStep ==
    ASSUME CheckInv, AttemptsPaced, Next
    PROVE  AttemptsPaced'
<1> SUFFICES ASSUME NEW d \in Days
             PROVE  LET tries == AttemptsOn(d)'
                    IN  /\ {checks'[i].attempt : i \in tries} = 1 .. Cardinality(tries)
                        /\ Cardinality(tries) <= 3
                        /\ \A i, j \in tries :
                              checks'[i].attempt < checks'[j].attempt => checks'[i].at < checks'[j].at
  BY DEF AttemptsPaced
<1> DEFINE old == AttemptsOn(d)
           new == AttemptsOn(d)'
<1>1. /\ {checks[i].attempt : i \in old} = 1 .. Cardinality(old)
      /\ Cardinality(old) <= 3
      /\ \A i, j \in old : checks[i].attempt < checks[j].attempt => checks[i].at < checks[j].at
  BY DEF AttemptsPaced
<1>2. checks \in Seq(Entries) /\ d \in Nat
  BY CalendarFacts DEF CheckInv, Table
<1>3. ASSUME new = old, \A i \in old : checks'[i].attempt = checks[i].attempt /\ checks'[i].at = checks[i].at
      PROVE  /\ {checks'[i].attempt : i \in new} = 1 .. Cardinality(new)
             /\ Cardinality(new) <= 3
             /\ \A i, j \in new : checks'[i].attempt < checks'[j].attempt => checks'[i].at < checks'[j].at
  <2>1. {checks'[i].attempt : i \in new} = {checks[i].attempt : i \in old}
    BY <1>3
  <2> QED
    BY <1>1, <1>3, <2>1
<1>4. CASE ~Attempted
  BY <1>2, <1>3, <1>4, AttemptsKept
<1>5. CASE Attempted
  <2> DEFINE row == [source |-> "automatic", day |-> Day(now), attempt |-> attempts + 1,
                     status |-> "queued", at |-> now]
             n == Len(checks) + 1
  <2>1. /\ UNCHANGED checks \/ checks' = Append(checks, row)
        /\ pc = "enqueue"
    BY <1>5, EnqueueEffect DEF Attempted, At
  <2>2. /\ attempts = Cardinality(AttemptsOn(Day(now))) /\ attempts < 3 /\ Spaced(Day(now))
        /\ now \in Nat
    BY <2>1, CalendarFacts DEF CheckInv, Deciding, Thread
  <2>3. /\ row.source = "automatic" /\ row.day = Day(now) /\ row.attempt = attempts + 1 /\ row.at = now
    OBVIOUS
  <2> HIDE DEF row
  <2>4. CASE UNCHANGED checks
    BY <1>3, <2>4 DEF AttemptsOn, Rows
  <2>5. CASE checks' = Append(checks, row)
    <3>1. /\ Rows' = Rows \cup {n} /\ n \notin Rows /\ checks'[n] = row
          /\ \A i \in Rows : checks'[i] = checks[i]
      BY <1>2, <2>5 DEF Rows
    <3>2. CASE d # Day(now)
      <4>1. new = old
        BY <2>3, <3>1, <3>2 DEF AttemptsOn
      <4> QED
        BY <1>3, <3>1, <4>1 DEF AttemptsOn
    <3>3. CASE d = Day(now)
      <4>1. new = old \cup {n} /\ n \notin old
        BY <2>3, <3>1, <3>3 DEF AttemptsOn
      <4>2. IsFiniteSet(old) /\ Cardinality(old) \in Nat
        BY <1>2, AttemptsAreFinite
      <4>3. Cardinality(new) = Cardinality(old) + 1
        BY <4>1, <4>2, FS_AddElement
      <4>4. /\ \A i \in old : checks'[i] = checks[i]
            /\ checks'[n].attempt = Cardinality(old) + 1 /\ checks'[n].at = now
        BY <2>2, <2>3, <3>1, <3>3 DEF AttemptsOn
      <4>5. {checks'[i].attempt : i \in new} = {checks[i].attempt : i \in old} \cup {Cardinality(old) + 1}
        BY <4>1, <4>4
      <4>6. {checks'[i].attempt : i \in new} = 1 .. Cardinality(new)
        BY <1>1, <4>2, <4>3, <4>5
      <4>7. \A i \in old : checks[i] \in Entries /\ checks[i].attempt \in 1 .. Cardinality(old)
                           /\ checks[i].at \in Nat
        <5> SUFFICES ASSUME NEW i \in old
                     PROVE  /\ checks[i] \in Entries /\ checks[i].attempt \in 1 .. Cardinality(old)
                            /\ checks[i].at \in Nat
          OBVIOUS
        <5>1. checks[i] \in Entries
          BY <1>2 DEF AttemptsOn, Rows
        <5>2. checks[i].at \in Nat
          BY <5>1, CalendarFacts DEF Entries
        <5>3. checks[i].attempt \in 1 .. Cardinality(old)
          <6> HIDE DEF old
          <6> QED
            BY <1>1
        <5> QED
          BY <5>1, <5>2, <5>3
      <4>8. \A i \in old : checks[i].at < now
        <5> SUFFICES ASSUME NEW i \in old PROVE checks[i].at < now
          OBVIOUS
        <5>1. Cardinality(old) \in 1 .. Cardinality(old)
          BY <4>2, <4>7
        <5>2. PICK k \in old : checks[k].attempt = Cardinality(old)
          BY <1>1, <5>1
        <5>3. \A j \in old : checks[j].attempt <= checks[k].attempt
          BY <4>2, <4>7, <5>2
        <5>4. now >= checks[k].at + 1
          BY <2>2, <3>3, <5>2, <5>3 DEF Spaced
        <5>5. CASE i = k \/ checks[i].attempt < checks[k].attempt
          BY <1>1, <2>2, <4>7, <5>2, <5>4, <5>5
        <5>6. CASE checks[i].attempt = checks[k].attempt
          <6>1. now >= checks[i].at + 1
            BY <2>2, <3>3, <5>3, <5>6 DEF Spaced
          <6> QED
            BY <2>2, <4>7, <6>1
        <5> QED
          BY <4>2, <4>7, <5>2, <5>5, <5>6
      <4>9. \A i, j \in new : checks'[i].attempt < checks'[j].attempt => checks'[i].at < checks'[j].at
        <5> SUFFICES ASSUME NEW i \in new, NEW j \in new, checks'[i].attempt < checks'[j].attempt
                     PROVE  checks'[i].at < checks'[j].at
          OBVIOUS
        <5>1. i \in old
          BY <4>1, <4>2, <4>4, <4>7
        <5>2. CASE j = n
          BY <4>4, <4>8, <5>1, <5>2
        <5>3. CASE j \in old
          BY <1>1, <4>4, <5>1, <5>3
        <5> QED
          BY <4>1, <5>2, <5>3
      <4> QED
        BY <2>2, <3>3, <4>2, <4>3, <4>6, <4>9
    <3> QED
      BY <3>2, <3>3
  <2> QED
    BY <2>1, <2>4, <2>5
<1> QED
  BY <1>4, <1>5

(* Automatic checks of a day: at most three, numbered in order, half an hour *)
(* apart (portfolio/worker.py:55-86, portfolio/store.py:238-267).            *)
THEOREM AttemptsArePaced == Spec => []AttemptsPaced
<1>1. Init => AttemptsPaced
  <2> SUFFICES ASSUME Init, NEW d \in Days PROVE AttemptsOn(d) = {}
    BY FS_EmptySet DEF AttemptsPaced
  <2> QED
    BY DEF Init, AttemptsOn, Rows
<1>2. CheckInv /\ AttemptsPaced /\ [Next]_vars => AttemptsPaced'
  <2>1. UNCHANGED vars /\ AttemptsPaced => AttemptsPaced'
    <3> SUFFICES ASSUME UNCHANGED vars, AttemptsPaced PROVE AttemptsPaced'
      OBVIOUS
    <3>1. UNCHANGED checks
      BY DEF vars, tableVars
    <3>2. \A d \in Days : AttemptsOn(d)' = AttemptsOn(d)
      BY <3>1 DEF AttemptsOn, Rows
    <3> QED
      BY <3>1, <3>2 DEF AttemptsPaced
  <2> QED
    BY <2>1, PacedStep
<1> QED
  BY <1>1, <1>2, CheckIsSound, PTL DEF Spec

-----------------------------------------------------------------------------
(* The latest row.  The row that the handler of _run may fail is the one that *)
(* everybody is referred to, and a row that is not the latest never becomes   *)
(* it: stamps do not change and rows are not taken away.                      *)
LEMMA HeldStep ==
    ASSUME CheckInv, LatestIsHeld, Next
    PROVE  LatestIsHeld'
<1> USE DEF CheckInv, Thread, Table
<1> DEFINE Held == Checking \cup {"rescue", "dead"}
<1> SUFFICES ASSUME NEW i \in Rows', up', checks'[i].status = "running", IsLatest(i)',
                    pc' \notin Held
             PROVE  FALSE
  BY DEF LatestIsHeld
<1>1. /\ Rows \subseteq Rows' /\ \A j \in Rows : checks'[j].at = checks[j].at
  BY TableStep DEF Stays
<1>2. ASSUME i \in Rows PROVE IsLatest(i)
  BY <1>1, <1>2 DEF IsLatest
<1>3. /\ checks \in Seq(Entries) /\ i \in Rows' /\ checks'[i].status = "running"
      /\ \A j \in Rows : j \in DOMAIN checks /\ checks[j] \in Entries /\ checks[j].at \in Nat
  <2>1. \A j \in Rows : j \in DOMAIN checks /\ checks[j] \in Entries
    BY DEF Rows
  <2>2. \A row \in Entries : row.at \in Nat
    BY CalendarFacts DEF Entries
  <2> QED
    BY <2>1, <2>2
<1>4. CASE Start
  <2>1. \A j \in Rows : checks'[j] = Interrupted(checks[j])
    BY <1>4 DEF Start, Recover, Rows
  <2>2. Rows' = Rows
    BY <1>4 DEF Start, Recover, Rows
  <2> QED
    BY <1>3, <2>1, <2>2 DEF Interrupted, Entries
<1>5. CASE \E k \in Rows : Claim(k)
  BY <1>5 DEF Claim, Goto, Checking
<1>6. CASE ~Start /\ ~ \E k \in Rows : Claim(k)
  <2>1. up
    BY <1>6 DEF Next, WorkerStep, BeginTick, LeaveLoop, LookAtLatest, Decide, AskCalendar,
       EnqueueAutomatic, NothingToClaim, SetTarget, NextQuote, Quote, Complete, InterruptCheck,
       FailCheck, Rescue, Woken, ClearWake, ThirtySeconds, StoreRaises, RequestCheck, EnqueueManual,
       RequestFails, EditPlans, SetAutomatic, PassTime, Stop, StopMarket, Exit, lifeVars, Around
  <2>2. i \in Rows /\ checks[i].status = "running"
    <3>1. CASE Untouched
      BY <1>3, <3>1 DEF Untouched, Rows
    <3>2. ASSUME NEW row, checks' = Append(checks, row), row.status = "queued"
          PROVE  i \in Rows /\ checks[i].status = "running"
      BY <1>3, <3>2 DEF Rows
    <3>3. CASE Requested
      <4>1. PICK c \in Clients : Enqueue("manual", 0, 0, asked[c])
        BY <3>3 DEF Requested
      <4> DEFINE row == [source |-> "manual", day |-> 0, attempt |-> 0, status |-> "queued",
                         at |-> asked[c]]
      <4>2. UNCHANGED checks \/ checks' = Append(checks, row)
        BY <4>1, EnqueueEffect
      <4>3. row.status = "queued"
        OBVIOUS
      <4> HIDE DEF row
      <4> QED
        BY <3>1, <3>2, <4>2, <4>3 DEF Untouched
    <3>4. CASE Attempted
      <4> DEFINE row == [source |-> "automatic", day |-> Day(now), attempt |-> attempts + 1,
                         status |-> "queued", at |-> now]
      <4>1. UNCHANGED checks \/ checks' = Append(checks, row)
        BY <3>4, EnqueueEffect DEF Attempted
      <4>2. row.status = "queued"
        OBVIOUS
      <4> HIDE DEF row
      <4> QED
        BY <3>1, <3>2, <4>1, <4>2 DEF Untouched
    <3>5. ASSUME NEW k \in Rows, NEW s \in Finished, SetStatus(k, s)
          PROVE  i \in Rows /\ checks[i].status = "running"
      <4>1. checks' = [checks EXCEPT ![k].status = s] /\ k \in DOMAIN checks /\ checks[k] \in Entries
        BY <1>3, <3>5 DEF SetStatus
      <4>2. checks'[k].status = s /\ s # "running"
        BY <4>1 DEF Entries, Finished
      <4>3. i \in Rows /\ i # k
        BY <1>3, <4>1, <4>2 DEF Rows
      <4> QED
        BY <1>3, <4>1, <4>3
    <3>6. CASE Targeted
      <4>1. pc = "target" /\ check \in Rows /\ \E d \in Days : checks' = [checks EXCEPT ![check].day = d]
        BY <3>6 DEF Targeted, Checking
      <4>2. PICK d \in Days : checks' = [checks EXCEPT ![check].day = d]
        BY <4>1
      <4>3. i \in Rows /\ checks'[i] = IF i = check THEN [checks[check] EXCEPT !.day = d] ELSE checks[i]
        BY <1>3, <4>1, <4>2 DEF Rows
      <4>4. [checks[check] EXCEPT !.day = d].status = checks[check].status
        BY <1>3, <4>1 DEF Entries
      <4>5. checks'[i].status = checks[i].status
        BY <4>3, <4>4
      <4> QED
        BY <1>3, <4>3, <4>5
    <3>7. CASE Moved
      BY <3>5, <3>7 DEF Moved, Checking
    <3> QED
      BY <2>1, <3>1, <3>3, <3>4, <3>6, <3>7, StepOnTable
  <2>3. pc \in Held
    BY <1>2, <2>1, <2>2 DEF LatestIsHeld
  <2>4. CASE Complete
    <3>1. check \in Rows /\ i = check
      BY <2>2, <2>4 DEF Complete, At, Checking, Waiting, Pending
    <3>2. checks'[check].status = Verdict
      BY <1>3, <2>4, <3>1 DEF Complete, SetStatus, Entries
    <3> QED
      BY <1>3, <3>1, <3>2 DEF Verdict
  <2>5. CASE FailCheck
    <3>1. check \in Rows /\ i = check
      BY <2>2, <2>5 DEF FailCheck, At, Checking, Waiting, Pending
    <3>2. checks'[check].status = "failed"
      BY <1>3, <2>2, <2>5, <3>1 DEF FailCheck, Fail, SetStatus, Entries
    <3> QED
      BY <1>3, <3>1, <3>2
  <2>6. CASE Rescue
    <3>1. PICK k \in Rows : IsLatest(k) /\ Fail(k)
      BY <2>2, <2>6 DEF Rescue, FailLatest
    <3>2. IsLatest(i)
      BY <1>2, <2>2
    <3>3. k = i
      <4>1. /\ checks[k].at < checks[i].at \/ (checks[k].at = checks[i].at /\ k <= i)
            /\ checks[i].at < checks[k].at \/ (checks[i].at = checks[k].at /\ i <= k)
        BY <2>2, <3>1, <3>2 DEF IsLatest
      <4>2. k \in Nat /\ i \in Nat /\ checks[k].at \in Nat /\ checks[i].at \in Nat
        BY <1>3, <2>2 DEF Rows
      <4> QED
        BY <4>1, <4>2
    <3>4. checks'[i].status = "failed"
      BY <1>3, <2>2, <3>1, <3>3 DEF Fail, SetStatus, Entries
    <3> QED
      BY <1>3, <3>4
  <2> QED
    BY <1>6, <2>3, <2>4, <2>5, <2>6, <2>1 DEF Next, WorkerStep, BeginTick, LeaveLoop, LookAtLatest, Decide,
       AskCalendar, EnqueueAutomatic, NothingToClaim, SetTarget, NextQuote, Quote, InterruptCheck,
       Woken, ClearWake, ThirtySeconds, StoreRaises, RequestCheck, EnqueueManual, RequestFails,
       EditPlans, SetAutomatic, PassTime, Stop, StopMarket, Exit, At, Goto, Checking, lifeVars
<1> QED
  BY <1>4, <1>5, <1>6

(* A check that everybody is referred to is held by the thread, unless the *)
(* thread has died (portfolio/worker.py:97-127).                           *)
THEOREM LatestHasAThread == Spec => []LatestIsHeld
<1>1. Init => LatestIsHeld
  BY DEF Init, LatestIsHeld
<1>2. UNCHANGED vars /\ LatestIsHeld => LatestIsHeld'
  BY DEF vars, tableVars, lifeVars, LatestIsHeld, IsLatest, Rows
<1>3. CheckInv /\ LatestIsHeld /\ [Next]_vars => LatestIsHeld'
  BY <1>2, HeldStep
<1> QED
  BY <1>1, <1>3, CheckIsSound, PTL DEF Spec

-----------------------------------------------------------------------------
(* The day a check judges.                                                    *)
(*                                                                            *)
(* On a Saturday or Sunday completed_date does not ask whether the calendar   *)
(* reaches the last weekdays, so what it finds is the last day that closed    *)
(* only if no calendar ends between a trading day and the weekend after it.   *)
WeekendsAreCovered ==
    \A u \in Coverage, w \in Weekend, d \in TradingDays : u < w /\ u < d => w < d

(* A day is over when its closing slot has passed. *)
LEMMA ClosedIsOver ==
    ASSUME NEW t \in Clocks, NEW d \in Days
    PROVE  Closed(d, t) <=> (d - 1) * SlotsPerDay + Cutoff <= t
<1> DEFINE q == t \div SlotsPerDay
           r == t % SlotsPerDay
           S == SlotsPerDay
<1>1. t \in Nat /\ S \in Nat \ {0} /\ d \in Nat /\ d >= 1
  BY CalendarFacts DEF Days
<1>2. q \in Nat /\ r \in 0 .. S - 1 /\ t = q * S + r
  BY <1>1
<1>3. Closed(d, t) <=> d < q + 1 \/ (d = q + 1 /\ r >= 1)
  BY DEF Closed, Day, Cutoff
<1> HIDE DEF q, r, S
<1>4. CASE d < q + 1
  <2>1. d <= q /\ d - 1 \in Nat
    BY <1>1, <1>2, <1>4
  <2>2. PICK e \in Nat : q = (d - 1) + 1 + e
    <3>1. q - d \in Nat /\ q = (d - 1) + 1 + (q - d)
      BY <1>1, <1>2, <2>1
    <3> QED
      BY <3>1
  <2>3. q * S = (d - 1) * S + S + e * S
    BY <1>1, <2>1, <2>2
  <2>4. e * S >= 0 /\ (d - 1) * S \in Nat /\ e * S \in Nat
    BY <1>1, <2>1
  <2> QED
    BY <1>1, <1>2, <1>3, <1>4, <2>3, <2>4 DEF Cutoff, S
<1>5. CASE d = q + 1
  <2>1. d - 1 = q /\ q * S \in Nat
    BY <1>1, <1>2, <1>5
  <2> QED
    BY <1>1, <1>2, <1>3, <1>5, <2>1 DEF Cutoff, S
<1>6. CASE d > q + 1
  <2>1. PICK e \in Nat : d - 1 = q + 1 + e
    <3>1. d - 1 - (q + 1) \in Nat /\ d - 1 = q + 1 + (d - 1 - (q + 1))
      BY <1>1, <1>2, <1>6
    <3> QED
      BY <3>1
  <2>2. (d - 1) * S = q * S + S + e * S
    BY <1>1, <1>2, <2>1
  <2>3. e * S \in Nat /\ q * S \in Nat
    BY <1>1, <1>2, <2>1
  <2> QED
    BY <1>1, <1>2, <1>3, <1>6, <2>2, <2>3 DEF Cutoff, S
<1> QED
  BY <1>1, <1>2, <1>4, <1>5, <1>6

(* What completed_date finds is the last trading day that is over. *)
LEMMA TargetIsTheLast ==
    ASSUME WeekendsAreCovered, NEW t \in Clocks, NEW days \in Answers, CompletedDate(t, days) # 0
    PROVE  LET over == {d \in TradingDays : (d - 1) * SlotsPerDay + Cutoff <= t}
           IN  CompletedDate(t, days) \in over /\ \A d \in over : d <= CompletedDate(t, days)
<1> DEFINE past == {d \in days : Closed(d, t)}
           over == {d \in TradingDays : (d - 1) * SlotsPerDay + Cutoff <= t}
<1>1. /\ past \subseteq TradingDays /\ past # {}
      /\ CompletedDate(t, days) \in past /\ \A e \in past : e <= CompletedDate(t, days)
  BY TargetIsADay
<1>2. PICK u \in Coverage : days = TradingDays \cap (1 .. u)
  BY <1>1 DEF Answers, Calendars, Calendar
<1>3. TradingDays \subseteq Days /\ Days \subseteq Nat /\ u \in Nat /\ Day(t) \in Nat
  BY CalendarAssumption, CalendarFacts DEF CalendarBounds
<1>4. past \subseteq over
  BY <1>3, ClosedIsOver, <1>1
<1>5. ASSUME NEW d \in over PROVE d \in past
  <2>1. d \in TradingDays /\ d \in Days /\ Closed(d, t) /\ d <= Day(t)
    BY <1>3, ClosedIsOver DEF Closed
  <2>2. CASE Weekday(Day(t))
    <3>1. ~ (Day(t) > Latest(days)) /\ days # {}
      BY <1>1, <2>2 DEF CompletedDate
    <3>2. Latest(days) \in days
      BY <1>2, <1>3, <3>1, HasLatest
    <3> QED
      BY <1>2, <1>3, <2>1, <3>1, <3>2 DEF Days
  <2>3. CASE ~Weekday(Day(t))
    BY <1>2, <1>3, <2>1, <2>3 DEF Weekday, WeekendsAreCovered, Days
  <2> QED
    BY <2>2, <2>3
<1> QED
  BY <1>1, <1>4, <1>5

LEMMA TargetStep ==
    ASSUME WeekendsAreCovered, CheckInv, TargetIsLatest, Next
    PROVE  TargetIsLatest'
<1> USE DEF CheckInv, Thread, Table
<1> SUFFICES ASSUME pc' \in {"quotes", "fetch", "finish"}
             PROVE  TargetIsLatest'
  BY DEF TargetIsLatest
<1>1. CASE SetTarget
  <2>1. /\ UNCHANGED <<now, check>> /\ check \in DOMAIN checks /\ checks[check] \in Entries
    BY <1>1 DEF SetTarget, At, tickVars, Checking, Rows
  <2>2. PICK days \in Answers :
            /\ CompletedDate(now, days) # 0
            /\ checks' = [checks EXCEPT ![check].day = CompletedDate(now, days)]
    BY <1>1 DEF SetTarget, Goto
  <2>3. checks'[check].day = CompletedDate(now, days)
    BY <2>1, <2>2 DEF Entries
  <2>4. LET over == {d \in TradingDays : (d - 1) * SlotsPerDay + Cutoff <= now}
        IN  CompletedDate(now, days) \in over /\ \A d \in over : d <= CompletedDate(now, days)
    BY <2>2, TargetIsTheLast
  <2> QED
    BY <2>1, <2>3, <2>4 DEF TargetIsLatest
<1>2. CASE ~SetTarget
  <2>1. /\ UNCHANGED <<now, check>> /\ pc \in {"quotes", "fetch", "finish"}
        /\ UNCHANGED checks \/ \E c \in Clients : EnqueueManual(c)
    BY <1>2 DEF Next, WorkerStep, BeginTick, LeaveLoop, LookAtLatest, Decide, AskCalendar,
       EnqueueAutomatic, Claim, NothingToClaim, NextQuote, Quote, Complete, InterruptCheck, FailCheck,
       Rescue, Woken, ClearWake, ThirtySeconds, StoreRaises, RequestCheck, EnqueueManual, RequestFails,
       EditPlans, SetAutomatic, PassTime, Start, Stop, StopMarket, Exit, At, Goto, Rest, tickVars,
       tableVars
  <2>2. Waiting(check) /\ check \in Rows
    BY <2>1 DEF Waiting, Pending, Checking
  <2>3. UNCHANGED checks
    BY <2>1, <2>2 DEF EnqueueManual, Enqueue
  <2> QED
    BY <2>1, <2>3 DEF TargetIsLatest
<1> QED
  BY <1>1, <1>2

(* Quotes are asked for the last trading day that has closed                *)
(* (portfolio/worker.py:13-21, 98-101), provided that calendars cover what  *)
(* precedes their weekends: without that the calendar run shows another day. *)
THEOREM TargetHasClosed ==
    ASSUME WeekendsAreCovered
    PROVE  Spec => []TargetIsLatest
<1>1. Init => TargetIsLatest
  BY DEF Init, TargetIsLatest
<1>2. UNCHANGED vars /\ TargetIsLatest => TargetIsLatest'
  BY DEF vars, tableVars, tickVars, TargetIsLatest
<1>3. CheckInv /\ TargetIsLatest /\ [Next]_vars => TargetIsLatest'
  BY <1>2, TargetStep
<1> QED
  BY <1>1, <1>3, CheckIsSound, PTL DEF Spec
=============================================================================
