----------------------------- MODULE MemoryLog -----------------------------
(***************************************************************************)
(* The decision memory: agents/utils/memory.py and its use by a run        *)
(* (graph/trading_graph.py, web/runner.py).  A run first settles the       *)
(* pending decisions of its ticker: it reads the log, fetches prices and   *)
(* asks for reflections (slow), reads the log again and replaces the file. *)
(* Then it draws lessons from the log, works, and appends its decision.    *)
(*                                                                         *)
(* The text of a block is reduced to what the code reads from its tag      *)
(* line.  The log is a set of blocks numbered in file order.  Processes    *)
(* that share the path share the name of the temporary file too; the web   *)
(* process has one run at a time (_RUN_LOCK), so it is one of Procs.       *)
(***************************************************************************)
EXTENDS Naturals, FiniteSets

CONSTANTS Procs,        \* processes that use one log file
          Tickers,
          LastDay,      \* bound: days 1 .. LastDay, all of them trading days
          Window,       \* holding_days
          SameLimit,    \* n_same
          CrossLimit,   \* n_cross
          MaxEntries,   \* memory_log_max_entries, 0 for None
          MaxRuns,      \* bound: runs begun
          None

\* What the constants must satisfy.
Bounds ==
    /\ Tickers # {} /\ LastDay \in Nat \ {0} /\ None \notin 1 .. LastDay
    /\ Window \in Nat \ {0} /\ MaxRuns \in Nat
    /\ SameLimit \in Nat /\ CrossLimit \in Nat /\ MaxEntries \in Nat

Days == 1 .. LastDay
Keys == [ticker : Tickers, date : Days]

(* A block: its place in the file, the decision it is about, the day the     *)
(* outcome was known (0 while pending), and whether that day's price was its *)
(* close.                                                                    *)
Blocks == [at : Nat, key : Keys, known : Nat, final : BOOLEAN]

VARIABLES log,      \* the file
          tmp,      \* the file beside it, or None
          day,      \* today
          closed,   \* has today's session ended?
          pc,       \* where each process's run is
          run,      \* its ticker and date
          todo,     \* pending decisions it read
          updates,  \* those it has an outcome and a reflection for
          text,     \* what it read the second time
          given,    \* the lessons in its prompt
          runs

fileVars == <<log, tmp>>
clock    == <<day, closed>>
local    == <<pc, run, todo, updates, text, given>>
vars     == <<fileVars, clock, local, runs>>

Places == {"idle", "resolve", "settle", "reread", "write", "replace", "context",
           "graph", "append"}

Lessons == [key : Keys, known : Nat, final : BOOLEAN]
NoUpdates == [k \in {} |-> FALSE]

TypeOK ==
    /\ log \in SUBSET Blocks /\ tmp \in (SUBSET Blocks) \cup {None}
    /\ day \in Days /\ closed \in BOOLEAN
    /\ pc \in [Procs -> Places] /\ run \in [Procs -> Keys]
    /\ todo \in [Procs -> SUBSET Keys]
    /\ \A p \in Procs : DOMAIN updates[p] \subseteq Keys
    /\ text \in [Procs -> SUBSET Blocks] /\ given \in [Procs -> SUBSET Lessons]
    /\ runs \in 0 .. MaxRuns

Init ==
    /\ log = {} /\ tmp = None
    /\ day = 1 /\ closed = FALSE
    /\ pc = [p \in Procs |-> "idle"]
    /\ run \in [Procs -> {CHOOSE k \in Keys : TRUE}]
    /\ todo = [p \in Procs |-> {}] /\ updates = [p \in Procs |-> NoUpdates]
    /\ text = [p \in Procs |-> {}] /\ given = [p \in Procs |-> {}]
    /\ runs = 0

-----------------------------------------------------------------------------
(* Reading and rewriting the log. *)

Pending(blocks)  == {b \in blocks : b.known = 0}
Resolved(blocks) == {b \in blocks : b.known # 0}

NextPlace(blocks) == IF blocks = {} THEN 1
                     ELSE 1 + CHOOSE n \in {b.at : b \in blocks} : \A b \in blocks : b.at <= n

(* batch_update_with_outcomes: the first pending block of each decision gets *)
(* its outcome, every other block stays as it is.                            *)
FirstPending(blocks, b) ==
    b.known = 0 /\ \A c \in Pending(blocks) : c.key = b.key => b.at <= c.at

WithOutcomes(blocks, upd) ==
    {IF b.key \in DOMAIN upd /\ FirstPending(blocks, b)
       THEN [b EXCEPT !.known = b.key.date + Window, !.final = upd[b.key]]
       ELSE b : b \in blocks}

(* _apply_rotation: beyond the cap the resolved blocks that come first go.   *)
Rotated_AnyBlock(blocks) ==
    IF MaxEntries = 0 THEN blocks
    ELSE {b \in blocks : Cardinality({c \in blocks : c.at > b.at}) < MaxEntries}

Rotated(blocks) ==
    IF MaxEntries = 0 THEN blocks
    ELSE Pending(blocks) \cup
         {b \in Resolved(blocks) :
             Cardinality({c \in Resolved(blocks) : c.at > b.at}) < MaxEntries}

(* get_past_context: the latest lessons of the ticker and of others, none    *)
(* learnt after the cut-off.                                                 *)
Latest(blocks, n) == {b \in blocks : Cardinality({c \in blocks : c.at > b.at}) < n}

Lesson(b) == [key |-> b.key, known |-> b.known, final |-> b.final]

PastContext(ticker, cutoff) ==
    LET known == {b \in Resolved(log) : cutoff = None \/ b.known <= cutoff}
        same  == {b \in known : b.key.ticker = ticker}
    IN  {Lesson(b) : b \in Latest(same, SameLimit) \cup Latest(known \ same, CrossLimit)}

(* _memory_as_of: a run about an earlier day must not know the later ones.   *)
AsOf_Never(date) == None
AsOf(date) == IF date < day THEN date ELSE None

-----------------------------------------------------------------------------
(* A run. *)

At(p, from, to) == pc[p] = from /\ pc' = [pc EXCEPT ![p] = to]

BeginRun(p, k) ==
    /\ runs < MaxRuns /\ k.date <= day
    /\ At(p, "idle", "resolve")
    /\ run' = [run EXCEPT ![p] = k] /\ runs' = runs + 1
    /\ UNCHANGED <<fileVars, clock, todo, updates, text, given>>

ReadPending(p) ==
    LET mine == {b.key : b \in {c \in Pending(log) : c.key.ticker = run[p].ticker}}
    IN  /\ At(p, "resolve", IF mine = {} THEN "context" ELSE "settle")
        /\ todo' = [todo EXCEPT ![p] = mine]
        /\ UNCHANGED <<fileVars, clock, run, updates, text, given, runs>>

(* _fetch_returns: the window's last bar exists from the start of its        *)
(* session, and is not its close before the end of it.                       *)
Traded(k) == k.date + Window <= day
AtClose(k) == k.date + Window < day \/ closed

(* Any price or reflection may fail; a decision without stays pending.       *)
Settle(p) ==
    \E done \in SUBSET {k \in todo[p] : Traded(k)} :
        /\ At(p, "settle", IF done = {} THEN "context" ELSE "reread")
        /\ updates' = [updates EXCEPT ![p] = [k \in done |-> AtClose(k)]]
        /\ todo' = [todo EXCEPT ![p] = {}]
        /\ UNCHANGED <<fileVars, clock, run, text, given, runs>>

Reread(p) ==
    /\ At(p, "reread", "write")
    /\ text' = [text EXCEPT ![p] = log]
    /\ UNCHANGED <<fileVars, clock, run, todo, updates, given, runs>>

WriteTmp(p) ==
    /\ At(p, "write", "replace")
    /\ tmp' = Rotated(WithOutcomes(text[p], updates[p]))
    /\ text' = [text EXCEPT ![p] = {}] /\ updates' = [updates EXCEPT ![p] = NoUpdates]
    /\ UNCHANGED <<log, clock, run, todo, given, runs>>

Replace(p) ==
    /\ tmp # None
    /\ At(p, "replace", "context")
    /\ log' = tmp /\ tmp' = None
    /\ UNCHANGED <<clock, run, todo, updates, text, given, runs>>

DrawLessons(p) ==
    /\ At(p, "context", "graph")
    /\ given' = [given EXCEPT ![p] = PastContext(run[p].ticker, AsOf(run[p].date))]
    /\ UNCHANGED <<fileVars, clock, run, todo, updates, text, runs>>

Forget(p) ==
    /\ todo' = [todo EXCEPT ![p] = {}] /\ updates' = [updates EXCEPT ![p] = NoUpdates]
    /\ text' = [text EXCEPT ![p] = {}] /\ given' = [given EXCEPT ![p] = {}]

(* store_decision, its guard and its append. *)
IsStored(k) == \E b \in Pending(log) : b.key = k

CheckStored(p) ==
    /\ At(p, "graph", IF IsStored(run[p]) THEN "idle" ELSE "append")
    /\ Forget(p)
    /\ UNCHANGED <<fileVars, clock, run, runs>>

AppendDecision(p) ==
    /\ At(p, "append", "idle")
    /\ log' = log \cup {[at |-> NextPlace(log), key |-> run[p], known |-> 0, final |-> FALSE]}
    /\ UNCHANGED <<tmp, clock, run, todo, updates, text, given, runs>>

(* An exception, the missing temporary file among them, or an exit.          *)
Fail(p) ==
    /\ pc[p] # "idle"
    /\ pc' = [pc EXCEPT ![p] = "idle"]
    /\ Forget(p)
    /\ UNCHANGED <<fileVars, clock, run, runs>>

Tick ==
    /\ IF closed THEN day < LastDay /\ day' = day + 1 ELSE UNCHANGED day
    /\ closed' = ~closed
    /\ UNCHANGED <<fileVars, local, runs>>

RunStep(p) ==
    \/ \E k \in Keys : BeginRun(p, k)
    \/ ReadPending(p) \/ Settle(p) \/ Reread(p) \/ WriteTmp(p) \/ Replace(p)
    \/ DrawLessons(p) \/ CheckStored(p) \/ AppendDecision(p) \/ Fail(p)

Next == Tick \/ \E p \in Procs : RunStep(p)

Spec == Init /\ [][Next]_vars

-----------------------------------------------------------------------------
(* A run never learns from an outcome that was not known on the day it is    *)
(* about, whenever it runs and whatever is settled while it does             *)
(* (memory.py:70-107, trading_graph.py:328-390).                             *)
NoHindsight ==
    \A p \in Procs : pc[p] = "graph" => \A l \in given[p] : l.known <= run[p].date

(* Decisions are stored, become lessons in one step, and are lost to nothing *)
(* but the cap (memory.py:30-49, 177-283, trading_graph.py:328-367).         *)
Promise ==
    INSTANCE DecisionLog WITH
        Decisions <- Keys,
        Capped    <- MaxEntries # 0,
        waiting   <- {b.key : b \in Pending(log)},
        lessons   <- {b.key : b \in Resolved(log)}

KeepsDecisions == Promise!Spec
=============================================================================
