--------------------------- MODULE HoldingsProofs ---------------------------
(* Proofs about the two sides of a check of holdings, for any plans, stocks, *)
(* pages, contents, prices, days and calendars.                              *)
(*                                                                           *)
(* PortfolioPlans: an edit is accepted only over the row its page shows, and *)
(* what the overview shows as current belongs to the plans beside it.  Both  *)
(* rest on the history of each plan: there is one row for each revision it   *)
(* ever had, and every copy of a row, in the running check, in a result or   *)
(* on a page, is the row that the plan had at that revision.                 *)
(*                                                                           *)
(* The worker's side is proved in CloseCheckProofs and carried over to the   *)
(* composition at the end.                                                   *)
EXTENDS MCHoldings, FiniteSetTheorems, TLAPS

Copies == [Plans -> Rows \cup {None}]
Outcomes == {Evaluate(row, quote, target) : row \in Rows, quote \in Quotes, target \in Dates}
Results == [Plans -> Outcomes \cup {None}]

Typed ==
    /\ plans \in Copies
    /\ check \in [status : {"none", "queued", "running", "finished", "ended"},
                  plans : Copies, results : Results]
    /\ page \in [Pages -> [at : {"empty", "plans", "shown"}, plans : Copies, results : Results]]

(* The plan p, of which `present` holds the present rows, had this row before or *)
(* has it now.                                                               *)
Version(history, present, p, row) ==
    /\ row \in Rows /\ row = history[p][row.revision]
    /\ present[p] # None /\ row.revision <= present[p].revision

Copied(history, present, rows) == \A p \in Plans : rows[p] # None => Version(history, present, p, rows[p])

Judged(history, present, results) ==
    \A p \in Plans : results[p] # None =>
        \E row \in Rows, quote \in Quotes, target \in Dates :
            Version(history, present, p, row) /\ results[p] = Evaluate(row, quote, target)

Histories == [Plans -> [Nat -> Rows \cup {None}]]

Told(history) ==
    /\ Copied(history, plans, plans)
    /\ Copied(history, plans, check.plans) /\ Judged(history, plans, check.results)
    /\ \A g \in Pages : Copied(history, plans, page[g].plans) /\ Judged(history, plans, page[g].results)

(* Only the closed row of a plan is numbered above the bound of the model.   *)
Bounded == \A p \in Plans : plans[p] # None /\ plans[p].status = "active" => plans[p].revision <= MaxRevision

HistoryInv == Typed /\ Bounded /\ \E history \in Histories : Told(history)

-----------------------------------------------------------------------------
(* What the operators give. *)

LEMMA NothingType == Nothing \in Copies /\ Nothing \in Results
  BY DEF Nothing, Copies, Results

LEMMA OnlyActiveType ==
  ASSUME NEW rows \in Copies
  PROVE  /\ OnlyActive(rows) \in Copies
         /\ \A p \in Plans : OnlyActive(rows)[p] # None => OnlyActive(rows)[p] = rows[p]
  BY DEF OnlyActive, Active, Copies

LEMMA NothingTold ==
  ASSUME NEW history, NEW present
  PROVE  Copied(history, present, Nothing) /\ Judged(history, present, Nothing)
  BY DEF Copied, Judged, Nothing

LEMMA OnlyActiveTold ==
  ASSUME NEW history, NEW present \in Copies, Copied(history, present, present)
  PROVE  Copied(history, present, OnlyActive(present))
  BY OnlyActiveType DEF Copied

LEMMA EvaluateFields ==
  ASSUME NEW row, NEW quote, NEW target
  PROVE  LET r == Evaluate(row, quote, target)
         IN  /\ r.revision = row.revision /\ r.quote = quote /\ r.target = target
             /\ r.quality = Quality(row.content, quote)
             /\ r.state = State(row.content, quote, target)
             /\ r.value = IF Quality(row.content, quote) = "valid"
                          THEN row.content.shares * quote.close ELSE None
  BY DEF Evaluate

LEMMA RowType ==
  ASSUME NEW row \in Rows
  PROVE  /\ row # None /\ row.content \in Contents /\ Valid(row.content)
         /\ row.revision \in 1 .. MaxRevision + 1 /\ row.revision \in Nat
         /\ row.status \in {"active", "closed"}
<1>1. row.content \in Contents /\ row.revision \in 1 .. MaxRevision + 1 /\ row.status \in {"active", "closed"}
  BY DEF Rows
<1>2. row.revision \in Nat
  BY <1>1, NumbersAssumption
<1>3. QED
  BY <1>1, <1>2, NoneAssumption, ContentsAssumption

LEMMA FirstHistory == Init => HistoryInv
<1> SUFFICES ASSUME Init PROVE HistoryInv
  OBVIOUS
<1>1. /\ plans = Nothing
      /\ check = [status |-> "none", plans |-> Nothing, results |-> Nothing]
      /\ page = [g \in Pages |-> [at |-> "empty", plans |-> Nothing, results |-> Nothing]]
  BY DEF Init
<1>2. Typed
  BY <1>1, NothingType DEF Typed
<1>3. Bounded
  BY <1>1 DEF Bounded, Nothing
<1> DEFINE history == [p \in Plans |-> [n \in Nat |-> None]]
<1>4. history \in Histories
  BY DEF Histories
<1>5. Told(history)
  <2> HIDE DEF history
  <2> QED
    BY <1>1, NothingTold DEF Told
<1>6. QED
  BY <1>2, <1>3, <1>4, <1>5 DEF HistoryInv

-----------------------------------------------------------------------------
(* Steps that leave the plans alone. *)

LEMMA ClaimTold ==
  ASSUME HistoryInv, Claim
  PROVE  HistoryInv'
<1>1. PICK history \in Histories : Told(history)
  BY DEF HistoryInv
<1>2. /\ check' = [status |-> "running", plans |-> OnlyActive(plans), results |-> check.results]
      /\ UNCHANGED <<plans, page>>
  BY DEF Claim, HistoryInv, Typed
<1>3. plans \in Copies /\ check.results \in Results
  BY DEF HistoryInv, Typed
<1>4. Typed'
  BY <1>2, <1>3, OnlyActiveType DEF HistoryInv, Typed
<1>5. Told(history)'
  BY <1>1, <1>2, <1>3, OnlyActiveTold DEF Told
<1>6. QED
  BY <1>1, <1>2, <1>4, <1>5 DEF HistoryInv, Bounded

LEMMA CheckEndTold ==
  ASSUME HistoryInv, Enqueue \/ EndCheck
  PROVE  HistoryInv'
<1>1. PICK history \in Histories : Told(history)
  BY DEF HistoryInv
<1>2. PICK status \in {"queued", "ended"}, results \in {Nothing, check.results} :
         check' = [status |-> status, plans |-> Nothing, results |-> results]
  BY DEF Enqueue, EndCheck, HistoryInv, Typed
<1>3. UNCHANGED <<plans, page>>
  BY DEF Enqueue, EndCheck
<1>4. Typed'
  BY <1>2, <1>3, NothingType DEF HistoryInv, Typed
<1>5. Told(history)'
  BY <1>1, <1>2, <1>3, NothingTold DEF Told
<1>6. QED
  BY <1>1, <1>3, <1>4, <1>5 DEF HistoryInv, Bounded

LEMMA CompleteTold ==
  ASSUME HistoryInv, NEW quotes \in [Held -> Quotes], NEW target \in Dates, Complete(quotes, target)
  PROVE  HistoryInv'
<1>1. PICK history \in Histories : Told(history)
  BY DEF HistoryInv
<1> DEFINE result(p) == IF check.plans[p] = None THEN None
                        ELSE Evaluate(check.plans[p], quotes[SymbolOf[p]], target)
           results == [p \in Plans |-> result(p)]
<1>2. check' = [status |-> "finished", plans |-> Nothing, results |-> results]
  BY DEF Complete, HistoryInv, Typed
<1>3. UNCHANGED <<plans, page>>
  BY DEF Complete
<1>4. ASSUME NEW p \in Plans, check.plans[p] # None
      PROVE  /\ check.plans[p] \in Rows /\ quotes[SymbolOf[p]] \in Quotes
             /\ Version(history, plans, p, check.plans[p])
  <2>1. check.plans \in Copies
    BY DEF HistoryInv, Typed
  <2>2. SymbolOf[p] \in Held
    BY DEF Held
  <2>3. QED
    BY <1>1, <1>4, <2>1, <2>2 DEF Copies, Told, Copied
<1>5. results \in Results
  <2>1. \A p \in Plans : result(p) \in Outcomes \cup {None}
    BY <1>4 DEF Outcomes
  <2>2. QED
    BY <2>1 DEF Results
<1>6. Judged(history, plans, results)
  <2>1. ASSUME NEW p \in Plans, results[p] # None
        PROVE  \E row \in Rows, quote \in Quotes, day \in Dates :
                  Version(history, plans, p, row) /\ results[p] = Evaluate(row, quote, day)
    <3>1. check.plans[p] # None /\ results[p] = Evaluate(check.plans[p], quotes[SymbolOf[p]], target)
      BY <2>1
    <3>2. QED
      BY <1>4, <3>1
  <2> HIDE DEF results
  <2>2. QED
    BY <2>1 DEF Judged
<1> HIDE DEF results
<1>7. Typed'
  BY <1>2, <1>3, <1>5, NothingType DEF HistoryInv, Typed
<1>8. Told(history)'
  BY <1>1, <1>2, <1>3, <1>6, NothingTold DEF Told
<1>9. QED
  BY <1>1, <1>3, <1>7, <1>8 DEF HistoryInv, Bounded

LEMMA OverviewTold ==
  ASSUME HistoryInv, NEW g \in Pages, ReadPlans(g) \/ ReadCheck(g)
  PROVE  HistoryInv'
<1>1. PICK history \in Histories : Told(history)
  BY DEF HistoryInv
<1>2. /\ plans \in Copies /\ check.results \in Results
      /\ page \in [Pages -> [at : {"empty", "plans", "shown"}, plans : Copies, results : Results]]
  BY DEF HistoryInv, Typed
<1>3. PICK at \in {"plans", "shown"}, rows \in {OnlyActive(plans), page[g].plans},
           results \in {Nothing, check.results} :
         page' = [page EXCEPT ![g] = [at |-> at, plans |-> rows, results |-> results]]
  <2>1. CASE ReadPlans(g)
    BY <2>1 DEF ReadPlans
  <2>2. CASE ReadCheck(g)
    <3> DEFINE results == IF check.status = "finished" THEN check.results ELSE Nothing
    <3>1. page' = [page EXCEPT ![g] = [at |-> "shown", plans |-> page[g].plans, results |-> results]]
      BY <2>2 DEF ReadCheck
    <3>2. results \in {Nothing, check.results}
      OBVIOUS
    <3>3. QED
      BY <3>1, <3>2
  <2>3. QED
    BY <2>1, <2>2
<1>4. UNCHANGED <<plans, check>>
  BY DEF ReadPlans, ReadCheck
<1>5. rows \in Copies /\ results \in Results
  BY <1>2, OnlyActiveType, NothingType
<1>6. Copied(history, plans, rows) /\ Judged(history, plans, results)
  BY <1>1, <1>2, OnlyActiveTold, NothingTold DEF Told
<1>7. Typed'
  BY <1>2, <1>3, <1>4, <1>5 DEF HistoryInv, Typed
<1>8. \A h \in Pages : page'[h] = IF h = g THEN [at |-> at, plans |-> rows, results |-> results] ELSE page[h]
  BY <1>2, <1>3
<1>9. Told(history)'
  BY <1>1, <1>4, <1>6, <1>8 DEF Told
<1>10. QED
  BY <1>1, <1>4, <1>7, <1>9 DEF HistoryInv, Bounded

-----------------------------------------------------------------------------
(* Steps that give a plan its next row. *)

LEMMA NextRow ==
  ASSUME NEW history \in Histories, NEW present \in Copies, Copied(history, present, present),
         NEW q \in Plans, NEW row \in Rows,
         present[q] # None => present[q].revision < row.revision
  PROVE  LET longer == [history EXCEPT ![q] = [history[q] EXCEPT ![row.revision] = row]]
             later  == [present EXCEPT ![q] = row]
         IN  /\ longer \in Histories /\ later \in Copies
             /\ Copied(longer, later, later)
             /\ \A p \in Plans, old \in Rows :
                   Version(history, present, p, old) => Version(longer, later, p, old)
<1> DEFINE longer == [history EXCEPT ![q] = [history[q] EXCEPT ![row.revision] = row]]
           later  == [present EXCEPT ![q] = row]
<1>1. row.revision \in Nat /\ row # None
  BY RowType
<1>2. longer \in Histories /\ later \in Copies
  BY <1>1 DEF Histories, Copies
<1>3. /\ later[q] = row /\ longer[q][row.revision] = row
      /\ \A p \in Plans : p # q => later[p] = present[p] /\ longer[p] = history[p]
      /\ \A n \in Nat : n # row.revision => longer[q][n] = history[q][n]
  BY <1>1 DEF Histories, Copies
<1> HIDE DEF longer, later
<1>4. ASSUME NEW p \in Plans, NEW old \in Rows, Version(history, present, p, old)
      PROVE  Version(longer, later, p, old)
  <2>1. CASE p # q
    BY <1>3, <1>4, <2>1 DEF Version
  <2>2. CASE p = q
    <3>1. present[q] \in Rows /\ present[q] # None /\ old.revision <= present[q].revision
      BY <1>4, <2>2 DEF Version, Copies
    <3>2. old.revision \in Nat /\ present[q].revision \in Nat
      BY <3>1, RowType
    <3>3. old.revision < row.revision
      BY <1>1, <3>1, <3>2
    <3>4. longer[q][old.revision] = old
      BY <1>1, <1>3, <1>4, <2>2, <3>2, <3>3 DEF Version
    <3>5. old.revision <= later[q].revision
      BY <1>1, <1>3, <3>2, <3>3
    <3>6. QED
      BY <1>1, <1>3, <2>2, <3>4, <3>5 DEF Version
  <2>3. QED
    BY <2>1, <2>2
<1>5. Copied(longer, later, later)
  <2>1. ASSUME NEW p \in Plans, later[p] # None
        PROVE  Version(longer, later, p, later[p])
    <3>1. CASE p = q
      BY <1>1, <1>3, <3>1 DEF Version
    <3>2. CASE p # q
      <4>1. Version(history, present, p, present[p]) /\ present[p] \in Rows
        BY <1>3, <2>1, <3>2 DEF Copied, Copies
      <4>2. QED
        BY <1>3, <1>4, <3>2, <4>1
    <3>3. QED
      BY <3>1, <3>2
  <2>2. QED
    BY <2>1 DEF Copied
<1>6. QED
  BY <1>2, <1>4, <1>5 DEF longer, later

LEMMA PlansTold ==
  ASSUME HistoryInv, NEW q \in Plans, NEW row \in Rows,
         plans[q] # None => plans[q].revision < row.revision,
         row.status = "active" => row.revision <= MaxRevision,
         plans' = [plans EXCEPT ![q] = row], UNCHANGED <<check, page>>
  PROVE  HistoryInv'
<1>1. PICK history \in Histories : Told(history)
  BY DEF HistoryInv
<1>2. plans \in Copies /\ Copied(history, plans, plans)
  BY <1>1 DEF HistoryInv, Typed, Told
<1>3. PICK longer \in Histories :
         /\ plans' \in Copies /\ Copied(longer, plans', plans')
         /\ \A p \in Plans, old \in Rows :
               Version(history, plans, p, old) => Version(longer, plans', p, old)
  BY <1>2, NextRow
<1>4. ASSUME NEW rows, Copied(history, plans, rows)
      PROVE  Copied(longer, plans', rows)
  <2>1. \A p \in Plans : rows[p] # None => rows[p] \in Rows /\ Version(history, plans, p, rows[p])
    BY <1>4 DEF Copied, Version
  <2>2. QED
    BY <1>3, <2>1 DEF Copied
<1>5. ASSUME NEW results, Judged(history, plans, results)
      PROVE  Judged(longer, plans', results)
  BY <1>3, <1>5 DEF Judged
<1>6. Told(longer)'
  <2>1. Copied(longer, plans', check.plans) /\ Judged(longer, plans', check.results)
    BY <1>1, <1>4, <1>5 DEF Told
  <2>2. \A g \in Pages : Copied(longer, plans', page[g].plans) /\ Judged(longer, plans', page[g].results)
    BY <1>1, <1>4, <1>5 DEF Told
  <2>3. QED
    BY <1>3, <2>1, <2>2 DEF Told
<1>7. Typed'
  BY <1>3 DEF HistoryInv, Typed
<1>8. Bounded'
  BY <1>2 DEF HistoryInv, Bounded, Copies
<1>9. QED
  BY <1>3, <1>6, <1>7, <1>8 DEF HistoryInv

(* A request that passes the guard has a page with the present row.          *)
LEMMA RowOfPage ==
  ASSUME HistoryInv, NEW g \in Pages, NEW p \in Plans, Guarded(g, p)
  PROVE  plans[p] # None /\ page[g].plans[p] = plans[p] /\ plans[p].status = "active"
<1>1. PICK history \in Histories : Told(history)
  BY DEF HistoryInv
<1>2. page[g].plans[p] # None /\ plans[p].revision = page[g].plans[p].revision /\ plans[p].status = "active"
  BY DEF Guarded
<1>3. plans[p] # None /\ page[g].plans[p] = history[p][plans[p].revision]
  BY <1>1, <1>2 DEF Told, Copied, Version
<1>4. plans[p] = history[p][plans[p].revision]
  BY <1>1, <1>3 DEF Told, Copied, Version
<1>5. QED
  BY <1>2, <1>3, <1>4

LEMMA HistoryNext == HistoryInv /\ [Next]_vars => HistoryInv'
<1> SUFFICES ASSUME HistoryInv, [Next]_vars PROVE HistoryInv'
  OBVIOUS
<1>1. /\ \A p \in Plans : plans[p] # None => plans[p] \in Rows
      /\ plans \in Copies
  BY DEF HistoryInv, Typed, Copies
<1>2. CASE UNCHANGED <<plans, check, page>>
  BY <1>2 DEF HistoryInv, Typed, Bounded, Told
<1>3. CASE \E s \in Symbols : AddWatch(s) \/ RemoveWatch(s)
  BY <1>2, <1>3 DEF AddWatch, RemoveWatch
<1>4. ASSUME NEW p \in Plans, NEW c \in Contents, CreatePlan(p, c) PROVE HistoryInv'
  <2> DEFINE row == [content |-> c, revision |-> 1, status |-> "active"]
  <2>1. row \in Rows /\ row.revision = 1 /\ 1 <= MaxRevision
    BY NumbersAssumption DEF Rows
  <2>2. plans[p] = None /\ plans' = [plans EXCEPT ![p] = row] /\ UNCHANGED <<check, page>>
    BY <1>4 DEF CreatePlan
  <2> HIDE DEF row
  <2>3. QED
    BY <2>1, <2>2, PlansTold
<1>5. ASSUME NEW g \in Pages, NEW p \in Plans, NEW c \in Contents, UpdatePlan(g, p, c) PROVE HistoryInv'
  <2> DEFINE row == [content |-> c, revision |-> Revised(p), status |-> plans[p].status]
  <2>1. plans[p] \in Rows /\ plans[p].status = "active" /\ plans[p].revision < MaxRevision
    BY <1>1, <1>5, RowOfPage DEF UpdatePlan
  <2>2. plans[p].revision \in Nat /\ Revised(p) \in 1 .. MaxRevision /\ plans[p].revision < Revised(p)
    BY <2>1, RowType, NumbersAssumption DEF Revised
  <2>3. row \in Rows /\ row.revision = Revised(p)
    BY <2>1, <2>2, NumbersAssumption DEF Rows
  <2>4. plans' = [plans EXCEPT ![p] = row] /\ UNCHANGED <<check, page>>
    BY <1>5 DEF UpdatePlan
  <2> HIDE DEF row
  <2>5. row.revision <= MaxRevision
    BY <2>2, <2>3, NumbersAssumption
  <2>6. QED
    BY <2>2, <2>3, <2>4, <2>5, PlansTold
<1>6. ASSUME NEW g \in Pages, NEW p \in Plans, ClosePlan(g, p) PROVE HistoryInv'
  <2> DEFINE row == [content |-> plans[p].content, revision |-> Revised(p), status |-> "closed"]
  <2>1. plans[p] \in Rows /\ plans[p] # None /\ plans[p].status = "active"
    BY <1>1, <1>6, RowOfPage DEF ClosePlan
  <2>2. plans[p].revision <= MaxRevision
    BY <2>1 DEF HistoryInv, Bounded
  <2>3. plans[p].revision \in Nat /\ Revised(p) \in 1 .. MaxRevision + 1 /\ plans[p].revision < Revised(p)
    BY <2>1, <2>2, RowType, NumbersAssumption DEF Revised
  <2>4. row \in Rows /\ row.revision = Revised(p) /\ row.status # "active"
    BY <2>1, <2>3, RowType DEF Rows
  <2>5. plans' = [plans EXCEPT ![p] = row] /\ UNCHANGED <<check, page>>
    BY <1>6 DEF ClosePlan
  <2> HIDE DEF row
  <2>6. QED
    BY <2>3, <2>4, <2>5, PlansTold
<1>7. CASE UNCHANGED vars
  BY <1>2, <1>7 DEF vars
<1>8. QED
  BY <1>3, <1>4, <1>5, <1>6, <1>7, ClaimTold, CheckEndTold, CompleteTold, OverviewTold DEF Next, Edit

-----------------------------------------------------------------------------
\* Whatever is edited and checked between the reading of a page and its edit,
\* an accepted edit is made over the row the page shows (store.py:165-199).
THEOREM EditsAreOverWhatIsShown == Spec => EditsBuildOnWhatWasSeen
<1>1. HistoryInv /\ [Next]_vars =>
        [\A g \in Pages, p \in Plans :
           ClosePlan(g, p) \/ (\E c \in Contents : UpdatePlan(g, p, c)) => page[g].plans[p] = plans[p]]_vars
  BY RowOfPage DEF ClosePlan, UpdatePlan
<1>2. QED
  BY <1>1, FirstHistory, HistoryNext, PTL DEF Spec, EditsBuildOnWhatWasSeen

-----------------------------------------------------------------------------
(* The overview. *)

(* A result that is of a row on its page was made from that row.             *)
LEMMA ResultOfRow ==
  ASSUME HistoryInv, NEW g \in Pages, NEW p \in Active(page[g].plans),
         IsOf(page[g].results[p], page[g].plans[p])
  PROVE  /\ p \in Plans /\ page[g].plans[p] \in Rows
         /\ \E quote \in Quotes, target \in Dates :
               page[g].results[p] = Evaluate(page[g].plans[p], quote, target)
<1>1. PICK history \in Histories : Told(history)
  BY DEF HistoryInv
<1>2. p \in Plans /\ page[g].plans[p] # None
  BY DEF Active
<1>3. page[g].plans[p] \in Rows /\ page[g].plans[p] = history[p][page[g].plans[p].revision]
  BY <1>1, <1>2 DEF Told, Copied, Version
<1>4. PICK row \in Rows, quote \in Quotes, target \in Dates :
         row = history[p][row.revision] /\ page[g].results[p] = Evaluate(row, quote, target)
  BY <1>1, <1>2 DEF Told, Judged, Version, IsOf
<1>5. row.revision = page[g].plans[p].revision
  BY <1>4, EvaluateFields DEF IsOf
<1>6. QED
  BY <1>2, <1>3, <1>4, <1>5

(* What a quiet result and a valid one say of the row they were made from.   *)
LEMMA JudgedQuiet ==
  ASSUME NEW c \in Contents, NEW quote \in Quotes, NEW target \in Dates,
         Quality(c, quote) = "valid"
  PROVE  /\ ~c.pending /\ quote.error = None /\ quote.close \in Prices
         /\ State(c, quote, target) = "not_triggered" =>
               /\ c.lower = None \/ quote.close > c.lower
               /\ c.upper = None \/ quote.close < c.upper
               /\ c.review = None \/ target < c.review
<1>1. Valid(c)
  BY ContentsAssumption
<1>2. ~c.pending /\ quote.error \notin Errors
  <2>1. "cost_pending" # "valid"
    OBVIOUS
  <2>2. ~c.pending
    BY <2>1 DEF Quality
  <2>3. quote.error = None \/ quote.error = "valid"
    BY <2>2 DEF Quality
  <2>4. QED
    BY <2>2, <2>3, NoneAssumption
<1>3. quote.error = None /\ quote.close \in Prices
  BY <1>2 DEF Quotes
<1>4. quote.close \in Nat /\ target \in Nat
  BY <1>3, NumbersAssumption
<1>5. ASSUME State(c, quote, target) = "not_triggered"
      PROVE  /\ c.lower = None \/ quote.close > c.lower
             /\ c.upper = None \/ quote.close < c.upper
             /\ c.review = None \/ target < c.review
  <2>1. Signals(c, quote, target) = {}
    BY <1>5 DEF State
  <2>2. /\ ~(c.lower # None /\ quote.close <= c.lower)
        /\ ~(c.upper # None /\ quote.close >= c.upper)
        /\ ~(c.review # None /\ target >= c.review)
    <3>1. c.lower # None /\ quote.close <= c.lower => "lower" \in Signals(c, quote, target)
      BY DEF Signals, AtOrBelow
    <3>2. c.upper # None /\ quote.close >= c.upper => "upper" \in Signals(c, quote, target)
      BY DEF Signals
    <3>3. c.review # None /\ target >= c.review => "review_date" \in Signals(c, quote, target)
      BY DEF Signals
    <3>4. QED
      BY <2>1, <3>1, <3>2, <3>3
  <2>3. /\ c.lower # None => c.lower \in Nat
        /\ c.upper # None => c.upper \in Nat
        /\ c.review # None => c.review \in Nat
    BY <1>1, NumbersAssumption DEF Valid, Bounds
  <2>4. QED
    BY <1>4, <2>2, <2>3
<1>6. QED
  BY <1>2, <1>3, <1>5

LEMMA QuietIsQuiet ==
  ASSUME HistoryInv, NEW g \in Pages
  PROVE  QuietMeansQuiet(g)
<1> SUFFICES ASSUME NEW p \in Active(page[g].plans),
                    IsOf(page[g].results[p], page[g].plans[p]),
                    page[g].results[p].state = "not_triggered"
             PROVE  LET c == page[g].plans[p].content
                        r == page[g].results[p]
                    IN  /\ ~c.pending /\ r.quote.error = None
                        /\ c.lower = None \/ r.quote.close > c.lower
                        /\ c.upper = None \/ r.quote.close < c.upper
                        /\ c.review = None \/ r.target < c.review
  BY DEF QuietMeansQuiet
<1> DEFINE c == page[g].plans[p].content
           r == page[g].results[p]
<1>1. PICK quote \in Quotes, target \in Dates : r = Evaluate(page[g].plans[p], quote, target)
  BY ResultOfRow
<1>2. c \in Contents
  BY ResultOfRow, RowType
<1>3. r.quote = quote /\ r.target = target /\ State(c, quote, target) = "not_triggered"
  BY <1>1, EvaluateFields
<1>4. Quality(c, quote) = "valid"
  BY <1>3 DEF State
<1> HIDE DEF c, r
<1>5. QED
  BY <1>2, <1>3, <1>4, JudgedQuiet DEF c, r

LEMMA OneTarget ==
  ASSUME NEW S, IsFiniteSet(S), Cardinality(S) <= 1, NEW x \in S, NEW y \in S
  PROVE  x = y
<1>1. Cardinality(S) \in Nat
  BY FS_CardinalityType
<1>2. S # {}
  OBVIOUS
<1>3. Cardinality(S) # 0
  BY <1>2, FS_EmptySet
<1>4. Cardinality(S) = 1
  BY <1>1, <1>3
<1>5. \E z : S = {z}
  BY <1>4, FS_Singleton
<1>6. QED
  BY <1>5

LEMMA SummaryIsRight ==
  ASSUME HistoryInv, NEW g \in Pages
  PROVE  SummaryIsOfThesePlans(g)
<1> DEFINE rows == page[g].plans
           results == page[g].results
           targets == {results[p].target : p \in Active(rows)}
<1> SUFFICES ASSUME Summary(g).complete
             PROVE  /\ \A p, q \in Active(rows) : results[p].target = results[q].target
                    /\ \A p \in Active(rows) : ~rows[p].content.pending
                    /\ Summary(g).value =
                         Total([p \in Active(rows) |-> rows[p].content.shares * results[p].quote.close])
  BY DEF SummaryIsOfThesePlans
<1>1. /\ \A p \in Active(rows) : IsOf(results[p], rows[p]) /\ results[p].quality = "valid"
      /\ Cardinality(targets) <= 1
      /\ Summary(g) = [complete |-> TRUE, value |-> Total([p \in Active(rows) |-> results[p].value])]
  BY DEF Summary
<1>2. ASSUME NEW p \in Active(rows)
      PROVE  /\ ~rows[p].content.pending
             /\ results[p].value = rows[p].content.shares * results[p].quote.close
  <2>1. IsOf(results[p], rows[p])
    BY <1>1
  <2>2. PICK quote \in Quotes, target \in Dates : results[p] = Evaluate(rows[p], quote, target)
    BY <2>1, ResultOfRow
  <2>3. rows[p].content \in Contents
    BY <2>1, ResultOfRow, RowType
  <2>4. /\ results[p].quote = quote /\ Quality(rows[p].content, quote) = "valid"
        /\ results[p].value = rows[p].content.shares * quote.close
    BY <1>1, <2>2, EvaluateFields
  <2>5. QED
    BY <2>3, <2>4, JudgedQuiet
<1>3. \A p, q \in Active(rows) : results[p].target = results[q].target
  <2>1. IsFiniteSet(Active(rows))
    <3>1. Active(rows) \subseteq Plans
      BY DEF Active
    <3>2. QED
      BY <3>1, PlansAssumption, FS_Subset
  <2>2. IsFiniteSet(targets)
    <3> DEFINE target == [p \in Active(rows) |-> results[p].target]
    <3>1. target \in Surjection(Active(rows), targets)
      BY DEF Surjection
    <3>2. QED
      BY <2>1, <3>1, FS_Surjection
  <2>3. \A p \in Active(rows) : results[p].target \in targets
    OBVIOUS
  <2> HIDE DEF targets
  <2>4. \A x, y \in targets : x = y
    BY <1>1, <2>2, OneTarget
  <2>5. QED
    BY <2>3, <2>4
<1>4. [p \in Active(rows) |-> results[p].value]
        = [p \in Active(rows) |-> rows[p].content.shares * results[p].quote.close]
  BY <1>2
<1>5. QED
  BY <1>1, <1>2, <1>3, <1>4

\* The two reads of an overview may be as far apart as they like, with edits
\* and checks between them: what is shown as current, and what is added up,
\* belongs to the plans on the page (api.py:168-210, domain.py:79-158).
THEOREM OverviewBelongs == Spec => []OverviewIsOfItsPlans
<1>1. HistoryInv => OverviewIsOfItsPlans
  BY QuietIsQuiet, SummaryIsRight DEF OverviewIsOfItsPlans
<1>2. QED
  BY <1>1, FirstHistory, HistoryNext, PTL DEF Spec
-----------------------------------------------------------------------------
(* The worker's side. *)
Thread == INSTANCE CloseCheckProofs WITH Plans <- Observed, check <- claimed

LEMMA SameStart == MCInit => Thread!Init
BY DEF MCInit, Worker!Init, Thread!Init

(* The two instances of CloseCheck are the same formulas. *)
LEMMA SameStep == Worker!Next => Thread!Next
<1>1. Worker!BeginTick => Thread!BeginTick
  BY DEF Worker!BeginTick, Worker!At, Worker!Goto, Worker!Around, Worker!bounds,
         Worker!lifeVars, Thread!BeginTick, Thread!At, Thread!Goto, Thread!Around,
         Thread!bounds, Thread!lifeVars
<1>2. Worker!LeaveLoop => Thread!LeaveLoop
  BY DEF Worker!LeaveLoop, Worker!At, Worker!Goto, Worker!tickVars, Worker!Around,
         Worker!bounds, Worker!lifeVars, Thread!LeaveLoop, Thread!At, Thread!Goto,
         Thread!tickVars, Thread!Around, Thread!bounds, Thread!lifeVars
<1>3. Worker!LookAtLatest => Thread!LookAtLatest
  BY DEF Worker!LookAtLatest, Worker!At, Worker!Goto, Worker!Rows, Worker!IsLatest,
         Worker!Waiting, Worker!Pending, Worker!tickVars, Worker!Around, Worker!bounds,
         Worker!lifeVars, Thread!LookAtLatest, Thread!At, Thread!Goto, Thread!Rows,
         Thread!IsLatest, Thread!Waiting, Thread!Pending, Thread!tickVars,
         Thread!Around, Thread!bounds, Thread!lifeVars
<1>4. Worker!Decide => Thread!Decide
  BY DEF Worker!Decide, Worker!At, Worker!Goto, Worker!Due, Worker!Day, Worker!Cutoff,
         Worker!Weekday, Worker!HasSuccess, Worker!AttemptsOn, Worker!Rows,
         Worker!Spaced, Worker!Cardinality, Worker!Around, Worker!bounds,
         Worker!lifeVars, Thread!Decide, Thread!At, Thread!Goto, Thread!Due, Thread!Day,
         Thread!Cutoff, Thread!Weekday, Thread!HasSuccess, Thread!AttemptsOn,
         Thread!Rows, Thread!Spaced, Thread!Cardinality, Thread!Around, Thread!bounds,
         Thread!lifeVars
<1>5. Worker!AskCalendar => Thread!AskCalendar
  BY DEF Worker!AskCalendar, Worker!At, Worker!Goto, Worker!Answers, Worker!Calendars,
         Worker!Calendar, Worker!CompletedDate, Worker!Closed, Worker!Day,
         Worker!Cutoff, Worker!Weekday, Worker!Latest, Worker!Cardinality,
         Worker!tickVars, Worker!Around, Worker!bounds, Worker!lifeVars,
         Thread!AskCalendar, Thread!At, Thread!Goto, Thread!Answers, Thread!Calendars,
         Thread!Calendar, Thread!CompletedDate, Thread!Closed, Thread!Day,
         Thread!Cutoff, Thread!Weekday, Thread!Latest, Thread!Cardinality,
         Thread!tickVars, Thread!Around, Thread!bounds, Thread!lifeVars
<1>6. Worker!EnqueueAutomatic => Thread!EnqueueAutomatic
  BY DEF Worker!EnqueueAutomatic, Worker!At, Worker!Goto, Worker!Enqueue, Worker!Rows,
         Worker!Waiting, Worker!Pending, Worker!AttemptsOn, Worker!Day, Worker!Around,
         Worker!bounds, Worker!lifeVars, Thread!EnqueueAutomatic, Thread!At,
         Thread!Goto, Thread!Enqueue, Thread!Rows, Thread!Waiting, Thread!Pending,
         Thread!AttemptsOn, Thread!Day, Thread!Around, Thread!bounds, Thread!lifeVars
<1>7. Worker!NothingToClaim => Thread!NothingToClaim
  BY DEF Worker!NothingToClaim, Worker!At, Worker!Goto, Worker!Rest, Worker!Rows,
         Worker!Around, Worker!bounds, Worker!lifeVars, Thread!NothingToClaim,
         Thread!At, Thread!Goto, Thread!Rest, Thread!Rows, Thread!Around, Thread!bounds,
         Thread!lifeVars
<1>8. Worker!SetTarget => Thread!SetTarget
  BY DEF Worker!SetTarget, Worker!At, Worker!Goto, Worker!Answers, Worker!Calendars,
         Worker!Calendar, Worker!CompletedDate, Worker!Closed, Worker!Day,
         Worker!Cutoff, Worker!Weekday, Worker!Latest, Worker!Expired,
         Worker!Cardinality, Worker!tickVars, Worker!Around, Worker!bounds,
         Worker!lifeVars, Thread!SetTarget, Thread!At, Thread!Goto, Thread!Answers,
         Thread!Calendars, Thread!Calendar, Thread!CompletedDate, Thread!Closed,
         Thread!Day, Thread!Cutoff, Thread!Weekday, Thread!Latest, Thread!Expired,
         Thread!Cardinality, Thread!tickVars, Thread!Around, Thread!bounds,
         Thread!lifeVars
<1>9. Worker!NextQuote => Thread!NextQuote
  BY DEF Worker!NextQuote, Worker!At, Worker!Goto, Worker!tickVars, Worker!Around,
         Worker!bounds, Worker!lifeVars, Thread!NextQuote, Thread!At, Thread!Goto,
         Thread!tickVars, Thread!Around, Thread!bounds, Thread!lifeVars
<1>10. Worker!Complete => Thread!Complete
  BY DEF Worker!Complete, Worker!At, Worker!Goto, Worker!MayComplete, Worker!SetStatus,
         Worker!Verdict, Worker!Rest, Worker!NoCheck, Worker!Around, Worker!bounds,
         Worker!lifeVars, Thread!Complete, Thread!At, Thread!Goto, Thread!MayComplete,
         Thread!SetStatus, Thread!Verdict, Thread!Rest, Thread!NoCheck, Thread!Around,
         Thread!bounds, Thread!lifeVars
<1>11. Worker!InterruptCheck => Thread!InterruptCheck
  BY DEF Worker!InterruptCheck, Worker!At, Worker!Goto, Worker!MayComplete,
         Worker!tickVars, Worker!Around, Worker!bounds, Worker!lifeVars,
         Thread!InterruptCheck, Thread!At, Thread!Goto, Thread!MayComplete,
         Thread!tickVars, Thread!Around, Thread!bounds, Thread!lifeVars
<1>12. Worker!FailCheck => Thread!FailCheck
  BY DEF Worker!FailCheck, Worker!At, Worker!Goto, Worker!Fail, Worker!SetStatus,
         Worker!Rest, Worker!NoCheck, Worker!Around, Worker!bounds, Worker!lifeVars,
         Thread!FailCheck, Thread!At, Thread!Goto, Thread!Fail, Thread!SetStatus,
         Thread!Rest, Thread!NoCheck, Thread!Around, Thread!bounds, Thread!lifeVars
<1>13. Worker!Rescue => Thread!Rescue
  BY DEF Worker!Rescue, Worker!At, Worker!Goto, Worker!FailLatest, Worker!Rows,
         Worker!IsLatest, Worker!Fail, Worker!SetStatus, Worker!Rest, Worker!NoCheck,
         Worker!Around, Worker!bounds, Worker!lifeVars, Thread!Rescue, Thread!At,
         Thread!Goto, Thread!FailLatest, Thread!Rows, Thread!IsLatest, Thread!Fail,
         Thread!SetStatus, Thread!Rest, Thread!NoCheck, Thread!Around, Thread!bounds,
         Thread!lifeVars
<1>14. Worker!Woken => Thread!Woken
  BY DEF Worker!Woken, Worker!At, Worker!Goto, Worker!tickVars, Worker!Around,
         Worker!bounds, Worker!lifeVars, Thread!Woken, Thread!At, Thread!Goto,
         Thread!tickVars, Thread!Around, Thread!bounds, Thread!lifeVars
<1>15. Worker!ClearWake => Thread!ClearWake
  BY DEF Worker!ClearWake, Worker!At, Worker!Goto, Worker!tickVars, Worker!Around,
         Worker!bounds, Worker!lifeVars, Thread!ClearWake, Thread!At, Thread!Goto,
         Thread!tickVars, Thread!Around, Thread!bounds, Thread!lifeVars
<1>16. Worker!ThirtySeconds => Thread!ThirtySeconds
  BY DEF Worker!ThirtySeconds, Worker!At, Worker!Goto, Worker!tickVars, Worker!Around,
         Worker!bounds, Worker!lifeVars, Thread!ThirtySeconds, Thread!At, Thread!Goto,
         Thread!tickVars, Thread!Around, Thread!bounds, Thread!lifeVars
<1>17. Worker!StoreRaises => Thread!StoreRaises
  BY DEF Worker!StoreRaises, Worker!At, Worker!Goto, Worker!Room, Worker!tableVars,
         Worker!lifeVars, Thread!StoreRaises, Thread!At, Thread!Goto, Thread!Room,
         Thread!tableVars, Thread!lifeVars
<1>18. Worker!PassTime => Thread!PassTime
  BY DEF Worker!PassTime, Worker!Clocks, Worker!tableVars, Worker!tickVars,
         Worker!lifeVars, Worker!bounds, Thread!PassTime, Thread!Clocks,
         Thread!tableVars, Thread!tickVars, Thread!lifeVars, Thread!bounds
<1>19. Worker!Start => Thread!Start
  BY DEF Worker!Start, Worker!Recover, Worker!Rows, Worker!Interrupted, Worker!Goto,
         Worker!tickVars, Worker!bounds, Thread!Start, Thread!Recover, Thread!Rows,
         Thread!Interrupted, Thread!Goto, Thread!tickVars, Thread!bounds
<1>20. Worker!Stop => Thread!Stop
  BY DEF Worker!Stop, Worker!Room, Worker!tableVars, Worker!tickVars, Worker!bounds,
         Thread!Stop, Thread!Room, Thread!tableVars, Thread!tickVars, Thread!bounds
<1>21. Worker!StopMarket => Thread!StopMarket
  BY DEF Worker!StopMarket, Worker!tableVars, Worker!tickVars, Worker!bounds,
         Thread!StopMarket, Thread!tableVars, Thread!tickVars, Thread!bounds
<1>22. Worker!Exit => Thread!Exit
  BY DEF Worker!Exit, Worker!Room, Worker!Goto, Worker!NoCheck, Worker!tableVars,
         Thread!Exit, Thread!Room, Thread!Goto, Thread!NoCheck, Thread!tableVars
<1>23. \A i \in Worker!Rows : Worker!Claim(i) => Thread!Claim(i)
  BY DEF Worker!Claim, Worker!At, Worker!Goto, Worker!SetStatus, Worker!Around,
         Worker!bounds, Worker!lifeVars, Thread!Claim, Thread!At, Thread!Goto,
         Thread!SetStatus, Thread!Around, Thread!bounds, Thread!lifeVars
<1>24. \A p \in Observed : Worker!Quote(p) => Thread!Quote(p)
  BY DEF Worker!Quote, Worker!At, Worker!Goto, Worker!Around, Worker!bounds,
         Worker!lifeVars, Thread!Quote, Thread!At, Thread!Goto, Thread!Around,
         Thread!bounds, Thread!lifeVars
<1>25. \A c \in Clients : Worker!RequestCheck(c) => Thread!RequestCheck(c)
  BY DEF Worker!RequestCheck, Worker!Rows, Worker!Cardinality, Worker!tableVars,
         Worker!tickVars, Worker!lifeVars, Worker!bounds, Thread!RequestCheck,
         Thread!Rows, Thread!Cardinality, Thread!tableVars, Thread!tickVars,
         Thread!lifeVars, Thread!bounds
<1>26. \A c \in Clients : Worker!EnqueueManual(c) => Thread!EnqueueManual(c)
  BY DEF Worker!EnqueueManual, Worker!Enqueue, Worker!Rows, Worker!Waiting,
         Worker!Pending, Worker!AttemptsOn, Worker!SetWake, Worker!Answered,
         Worker!tickVars, Worker!lifeVars, Worker!bounds, Thread!EnqueueManual,
         Thread!Enqueue, Thread!Rows, Thread!Waiting, Thread!Pending, Thread!AttemptsOn,
         Thread!SetWake, Thread!Answered, Thread!tickVars, Thread!lifeVars,
         Thread!bounds
<1>27. \A c \in Clients : Worker!RequestFails(c) => Thread!RequestFails(c)
  BY DEF Worker!RequestFails, Worker!Room, Worker!Answered, Worker!tableVars,
         Worker!tickVars, Worker!lifeVars, Thread!RequestFails, Thread!Room,
         Thread!Answered, Thread!tableVars, Thread!tickVars, Thread!lifeVars
<1>28. \A p \in Observed : Worker!EditPlans(p) => Thread!EditPlans(p)
  BY DEF Worker!EditPlans, Worker!Room, Worker!tickVars, Worker!lifeVars,
         Thread!EditPlans, Thread!Room, Thread!tickVars, Thread!lifeVars
<1>29. \A b \in BOOLEAN : Worker!SetAutomatic(b) => Thread!SetAutomatic(b)
  BY DEF Worker!SetAutomatic, Worker!Room, Worker!tickVars, Worker!lifeVars,
         Thread!SetAutomatic, Thread!Room, Thread!tickVars, Thread!lifeVars
<1> QED
  BY <1>1, <1>2, <1>3, <1>4, <1>5, <1>6, <1>7, <1>8, <1>9, <1>10, <1>11, <1>12,
     <1>13, <1>14, <1>15, <1>16, <1>17, <1>18, <1>19, <1>20, <1>21, <1>22, <1>23,
     <1>24, <1>25, <1>26, <1>27, <1>28, <1>29
     DEF Worker!Next, Thread!Next, Worker!WorkerStep, Thread!WorkerStep, Worker!Rows, Thread!Rows

(* A behaviour of the composition is one of the worker, which stands still *)
(* where the other side moves.                                             *)
LEMMA WorkerRuns == MCSpec => Thread!Spec
<1>1. [MCNext]_allvars => [Thread!Next]_(Thread!vars)
  <2>1. CASE Worker!Next
    BY <2>1, SameStep
  <2>2. CASE UNCHANGED workerVars
    BY <2>2 DEF workerVars, Thread!vars, Thread!tableVars, Thread!tickVars, Thread!lifeVars, Thread!bounds
  <2> QED
    BY <2>1, <2>2 DEF MCNext, allvars
<1> QED
  BY <1>1, SameStart, PTL DEF MCSpec, Thread!Spec

LEMMA WorkerBounds == Thread!CalendarBounds
BY WorkerAssumption DEF Worker!CalendarBounds, Thread!CalendarBounds, Worker!Days, Thread!Days,
   Worker!Clocks, Thread!Clocks

(* A check that everybody is referred to is held by the thread, unless the *)
(* thread has died (portfolio/worker.py:97-127).                           *)
THEOREM NobodyWaitsInVain == MCSpec => []LatestIsHeld
<1>1. Thread!Spec => []Thread!LatestIsHeld
  BY WorkerBounds, Thread!LatestHasAThread
<1>2. Thread!LatestIsHeld => LatestIsHeld
  BY DEF LatestIsHeld, Worker!LatestIsHeld, Thread!LatestIsHeld, Worker!Rows, Thread!Rows,
     Worker!IsLatest, Thread!IsLatest, Worker!Checking, Thread!Checking
<1> QED
  BY <1>1, <1>2, WorkerRuns, PTL

(* The day a check judges is the last trading day that has closed            *)
(* (portfolio/worker.py:13-21, 98-101), if no calendar ends between a        *)
(* trading day and the weekend after it.  The hypothesis is what the code    *)
(* does not look at on weekends; without it the calendar run finds another   *)
(* day.                                                                      *)
THEOREM LastClosedDayIsJudged ==
    ASSUME Thread!WeekendsAreCovered
    PROVE  MCSpec => []TargetIsLatest
<1>1. Thread!Spec => []Thread!TargetIsLatest
  BY WorkerBounds, Thread!TargetHasClosed
<1>2. Thread!TargetIsLatest => TargetIsLatest
  BY DEF TargetIsLatest, Worker!TargetIsLatest, Thread!TargetIsLatest, Worker!Cutoff, Thread!Cutoff
<1> QED
  BY <1>1, <1>2, WorkerRuns, PTL

(* An automatic check judges its own day or none (portfolio/worker.py:99-101). *)
THEOREM AutomaticChecksKeepTheirDay == MCSpec => AutomaticKeepsItsDay
<1>1. Thread!Spec => Thread!AutomaticKeepsItsDay
  BY WorkerBounds, Thread!OwnDayOrNone
<1> QED
  BY <1>1, WorkerRuns, PTL DEF AutomaticKeepsItsDay, Worker!AutomaticKeepsItsDay,
     Thread!AutomaticKeepsItsDay, Worker!Rows, Thread!Rows, Worker!vars, Thread!vars, Worker!tableVars, Thread!tableVars, Worker!tickVars,
     Thread!tickVars, Worker!lifeVars, Thread!lifeVars, Worker!bounds, Thread!bounds

(* A shutdown is no missing quote (portfolio/worker.py:103-113). *)
THEOREM ShutdownIsNotAQuote == MCSpec => NoVerdictFromKilledFetches
<1>1. Thread!Spec => Thread!NoVerdictFromKilledFetches
  BY WorkerBounds, Thread!ShutdownIsNoVerdict
<1> QED
  BY <1>1, WorkerRuns, PTL DEF NoVerdictFromKilledFetches, Worker!NoVerdictFromKilledFetches,
     Thread!NoVerdictFromKilledFetches, Worker!Fail, Thread!Fail, Worker!SetStatus, Thread!SetStatus,
     Worker!vars, Thread!vars, Worker!tableVars, Thread!tableVars, Worker!tickVars,
     Thread!tickVars, Worker!lifeVars, Thread!lifeVars, Worker!bounds, Thread!bounds

=============================================================================
