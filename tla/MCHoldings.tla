----------------------------- MODULE MCHoldings -----------------------------
(* The two sides of a check of holdings: what pages show of plans and       *)
(* results (PortfolioPlans), and how the check is scheduled, timed and      *)
(* ended (CloseCheck).  Each has the check in the detail it needs, so a     *)
(* behaviour moves one of them, chosen at the start.                        *)
EXTENDS PortfolioPlans, TLC

CONSTANTS a,
          Observed,   \* the plans of the other part
          Clients, TradingDays, Weekend, Coverage, LastDay, SlotsPerDay, MaxClock,
          MaxChecks, MaxManual, MaxExits, MaxFaults, MaxEdits,
          MaxTogether

VARIABLES part,
          checks, active, automatic, clock, pc, now, attempts, claimed, left, valid, missed,
          killed, wake, stopping, market, up, asked, exits, faults, edits

Worker == INSTANCE CloseCheck WITH Plans <- Observed, check <- claimed

ASSUME WorkerAssumption == Worker!CalendarBounds

workerVars ==
    <<checks, active, automatic, clock, pc, now, attempts, claimed, left, valid, missed,
      killed, wake, stopping, market, up, asked, exits, faults, edits>>
allvars == <<vars, workerVars, part>>

MCSymbolOf == [p \in Plans |-> a]
MCContents ==
    {[shares |-> 1, lower |-> 1, upper |-> None, review |-> None, pending |-> FALSE],
     [shares |-> 2, lower |-> None, upper |-> 2, review |-> 2, pending |-> FALSE],
     [shares |-> 2, lower |-> None, upper |-> 2, review |-> 2, pending |-> TRUE]}

MCInit ==
    /\ part \in {"plans", "worker"}
    /\ Init
    /\ Worker!Init /\ active = IF part = "worker" THEN Observed ELSE {}

MCNext ==
    \/ part = "plans" /\ Next /\ UNCHANGED <<workerVars, part>>
    \/ part = "worker" /\ Worker!Next /\ UNCHANGED <<vars, part>>

MCSpec == MCInit /\ [][MCNext]_allvars

Symmetry == Permutations(Plans) \cup Permutations(Observed)

\* The target is the last day that has closed (portfolio/worker.py:13-21).
TargetIsLatest == Worker!TargetIsLatest

\* Nobody is referred to a check that no thread holds (portfolio/worker.py:97-127).
LatestIsHeld == Worker!LatestIsHeld

\* An automatic check judges its own day or none (portfolio/worker.py:99-101).
AutomaticKeepsItsDay == Worker!AutomaticKeepsItsDay

\* A shutdown is no missing quote (portfolio/worker.py:103-113).
NoVerdictFromKilledFetches == Worker!NoVerdictFromKilledFetches
=============================================================================
