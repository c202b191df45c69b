--------------------------- MODULE PortfolioPlans ---------------------------
(***************************************************************************)
(* web/portfolio/store.py, api.py and domain.py: plans of holdings, the    *)
(* watchlist beside them, the check that observes the plans, and the       *)
(* overview that pages show and edit from.                                 *)
(*                                                                         *)
(* Every request is a transaction, except the overview: it reads plans,    *)
(* then the latest check, in one each.  A check is claimed with a copy of  *)
(* the active plans and completed later; what its other states mean is the *)
(* subject of CloseCheck.  Decimals are small naturals.                    *)
(***************************************************************************)
EXTENDS Naturals, FiniteSets, Functions

CONSTANTS Plans, Symbols, Pages,
          SymbolOf,      \* the stock of each plan
          Contents,      \* what the editable fields of a plan may be
          Prices, Dates,
          Errors,        \* why there may be no price of the day
          StockLimit,    \* the one hundred of _limit
          MaxRevision,   \* bound: revisions of a plan before it is closed
          None

ASSUME SymbolsAssumption == SymbolOf \in [Plans -> Symbols]
ASSUME NumbersAssumption ==
    Prices \subseteq Nat \ {0} /\ Dates \subseteq Nat /\ StockLimit \in Nat /\ MaxRevision \in Nat \ {0}

Held == {SymbolOf[p] : p \in Plans}
Bounds == Prices \cup {None}

(* validate_plan: what it accepts. *)
Valid(c) ==
    /\ c.shares \in Nat \ {0} /\ c.lower \in Bounds /\ c.upper \in Bounds
    /\ c.lower # None /\ c.upper # None => c.lower < c.upper
    /\ c.review \in Dates \cup {None} /\ c.pending \in BOOLEAN

ASSUME ContentsAssumption == \A c \in Contents : Valid(c)

VARIABLES watch,   \* portfolio_watchlist
          plans,   \* portfolio_plans
          check,   \* the latest row of portfolio_checks; its copy of the plans while it runs
          page     \* what each page has been given

vars == <<watch, plans, check, page>>

Rows == [content : Contents, revision : 1 .. MaxRevision + 1, status : {"active", "closed"}]

ASSUME PlansAssumption == IsFiniteSet(Plans)
ASSUME NoneAssumption == None \notin Rows /\ None \notin Errors /\ "valid" \notin Errors

Nothing == [p \in Plans |-> None]
Active(rows) == {p \in Plans : rows[p] # None /\ rows[p].status = "active"}
OnlyActive(rows) == [p \in Plans |-> IF p \in Active(rows) THEN rows[p] ELSE None]

TypeOK ==
    /\ watch \subseteq Symbols
    /\ plans \in [Plans -> Rows \cup {None}]
    /\ check.status \in {"none", "queued", "running", "finished", "ended"}
    /\ DOMAIN check.plans = Plans /\ DOMAIN check.results = Plans
    /\ \A g \in Pages : page[g].at \in {"empty", "plans", "shown"}

Init ==
    /\ watch = {} /\ plans = Nothing
    /\ check = [status |-> "none", plans |-> Nothing, results |-> Nothing]
    /\ page = [g \in Pages |-> [at |-> "empty", plans |-> Nothing, results |-> Nothing]]

-----------------------------------------------------------------------------
(* Watchlist and plans. *)

Followed == watch \cup {SymbolOf[p] : p \in Active(plans)}

WithinLimit(s) == s \in Followed \/ Cardinality(Followed) < StockLimit

AddWatch(s) ==
    /\ s \notin watch /\ WithinLimit(s)
    /\ watch' = watch \cup {s}
    /\ UNCHANGED <<plans, check, page>>

RemoveWatch(s) ==
    /\ s \in watch
    /\ watch' = watch \ {s}
    /\ UNCHANGED <<plans, check, page>>

CreatePlan(p, c) ==
    /\ plans[p] = None /\ Valid(c) /\ WithinLimit(SymbolOf[p])
    /\ plans' = [plans EXCEPT ![p] = [content |-> c, revision |-> 1, status |-> "active"]]
    /\ UNCHANGED <<watch, check, page>>

(* _guard: the request names the revision its page was given. *)
Guarded_Open(g, p) ==
    /\ page[g].at # "empty" /\ page[g].plans[p] # None
    /\ plans[p].status = "active"
Guarded(g, p) ==
    /\ page[g].at # "empty" /\ page[g].plans[p] # None
    /\ plans[p].revision = page[g].plans[p].revision
    /\ plans[p].status = "active"

Revised(p) == plans[p].revision + 1

UpdatePlan(g, p, c) ==
    /\ Guarded(g, p) /\ Valid(c)
    /\ plans[p].revision < MaxRevision
    /\ plans' = [plans EXCEPT ![p] = [content |-> c, revision |-> Revised(p), status |-> @.status]]
    /\ UNCHANGED <<watch, check, page>>

ClosePlan(g, p) ==
    /\ Guarded(g, p)
    /\ plans' = [plans EXCEPT ![p] = [content |-> @.content, revision |-> Revised(p), status |-> "closed"]]
    /\ UNCHANGED <<watch, check, page>>

-----------------------------------------------------------------------------
(* evaluate: what is observed of a plan. *)

Quotes == [error : {None}, close : Prices] \cup [error : Errors, close : {None}]

Quality(c, quote) ==
    IF c.pending THEN "cost_pending" ELSE IF quote.error = None THEN "valid" ELSE quote.error

AtOrBelow(close, bound) == close <= bound

Signals(c, quote, target) ==
    LET valid == Quality(c, quote) = "valid"
    IN  (IF valid /\ c.lower # None /\ AtOrBelow(quote.close, c.lower) THEN {"lower"} ELSE {})
        \cup (IF valid /\ c.upper # None /\ quote.close >= c.upper THEN {"upper"} ELSE {})
        \cup (IF c.review # None /\ target >= c.review THEN {"review_date"} ELSE {})

State(c, quote, target) ==
    IF Signals(c, quote, target) # {} THEN "review"
    ELSE IF Quality(c, quote) # "valid" THEN "unavailable"
    ELSE IF {c.lower, c.upper, c.review} # {None} THEN "not_triggered" ELSE "no_conditions"

Evaluate(row, quote, target) ==
    [revision |-> row.revision, quote |-> quote, target |-> target,
     quality  |-> Quality(row.content, quote), state |-> State(row.content, quote, target),
     value    |-> IF Quality(row.content, quote) = "valid" THEN row.content.shares * quote.close ELSE None]

-----------------------------------------------------------------------------
(* The check. *)

Enqueue ==
    /\ check.status \notin {"queued", "running"}
    /\ check' = [status |-> "queued", plans |-> Nothing, results |-> Nothing]
    /\ UNCHANGED <<watch, plans, page>>

Claim ==
    /\ check.status = "queued"
    /\ check' = [check EXCEPT !.status = "running", !.plans = OnlyActive(plans)]
    /\ UNCHANGED <<watch, plans, page>>

(* One quote for each stock, one target day, a result for each plan claimed. *)
Complete(quotes, target) ==
    /\ check.status = "running"
    /\ check' = [check EXCEPT !.status = "finished", !.plans = Nothing,
          !.results = [p \in Plans |-> IF check.plans[p] = None THEN None
                                       ELSE Evaluate(check.plans[p], quotes[SymbolOf[p]], target)]]
    /\ UNCHANGED <<watch, plans, page>>

(* fail and recover: the check ends without results. *)
EndCheck ==
    /\ check.status = "running"
    /\ check' = [check EXCEPT !.status = "ended", !.plans = Nothing]
    /\ UNCHANGED <<watch, plans, page>>

-----------------------------------------------------------------------------
(* The overview. *)

ReadPlans(g) ==
    /\ page' = [page EXCEPT ![g] = [at |-> "plans", plans |-> OnlyActive(plans), results |-> Nothing]]
    /\ UNCHANGED <<watch, plans, check>>

ReadCheck(g) ==
    /\ page[g].at = "plans"
    /\ page' = [page EXCEPT ![g] = [at |-> "shown", plans |-> @.plans,
                   results |-> IF check.status = "finished" THEN check.results ELSE Nothing]]
    /\ UNCHANGED <<watch, plans, check>>

(* result_obsolete, and the same question in summarize. *)
IsOf_Any(result, row) == result # None
IsOf(result, row) == result # None /\ result.revision = row.revision

Total(value) == FoldFunction(LAMBDA x, y : x + y, 0, value)

Summary(g) ==
    LET result(p) == page[g].results[p]
    IN  IF /\ \A p \in Active(page[g].plans) :
                 IsOf(result(p), page[g].plans[p]) /\ result(p).quality = "valid"
           /\ Cardinality({result(p).target : p \in Active(page[g].plans)}) <= 1
        THEN [complete |-> TRUE,
              value |-> Total([p \in Active(page[g].plans) |-> result(p).value])]
        ELSE [complete |-> FALSE, value |-> None]

-----------------------------------------------------------------------------
Edit(g) ==
    \/ \E p \in Plans, c \in Contents : UpdatePlan(g, p, c)
    \/ \E p \in Plans : ClosePlan(g, p)
    \/ ReadPlans(g) \/ ReadCheck(g)

Next ==
    \/ \E s \in Symbols : AddWatch(s) \/ RemoveWatch(s)
    \/ \E p \in Plans, c \in Contents : CreatePlan(p, c)
    \/ \E g \in Pages : Edit(g)
    \/ Enqueue \/ Claim \/ EndCheck
    \/ \E quotes \in [Held -> Quotes], target \in Dates : Complete(quotes, target)

Spec == Init /\ [][Next]_vars

-----------------------------------------------------------------------------
(* An edit is accepted only over the plan its page shows: what another page  *)
(* has changed meanwhile is not overwritten (store.py:165-199).              *)
EditsBuildOnWhatWasSeen ==
    [][\A g \in Pages, p \in Plans :
          ClosePlan(g, p) \/ (\E c \in Contents : UpdatePlan(g, p, c)) =>
              page[g].plans[p] = plans[p]]_vars

(* What is shown as current belongs to what is shown beside it, although     *)
(* plans may be edited and checked between the two reads: a quiet result was *)
(* made from a price strictly within the bounds on the page, before the      *)
(* review date on the page (api.py:168-186, domain.py:79-116).               *)
QuietMeansQuiet(g) ==
    \A p \in Active(page[g].plans) :
        LET c == page[g].plans[p].content
            r == page[g].results[p]
        IN  IsOf(r, page[g].plans[p]) /\ r.state = "not_triggered" =>
                /\ ~c.pending /\ r.quote.error = None
                /\ c.lower = None \/ r.quote.close > c.lower
                /\ c.upper = None \/ r.quote.close < c.upper
                /\ c.review = None \/ r.target < c.review

(* And a complete summary adds up the holdings on the page, all at prices of *)
(* one day (domain.py:136-158).                                              *)
SummaryIsOfThesePlans(g) ==
    LET rows == page[g].plans
        results == page[g].results
    IN  page[g].at = "shown" /\ Summary(g).complete =>
            /\ \A p, q \in Active(rows) : results[p].target = results[q].target
            /\ \A p \in Active(rows) : ~rows[p].content.pending
            /\ Summary(g).value =
                 Total([p \in Active(rows) |-> rows[p].content.shares * results[p].quote.close])

(* The overview shows results and totals of the plans it shows, at every     *)
(* page (api.py:168-210).                                                    *)
OverviewIsOfItsPlans == \A g \in Pages : QuietMeansQuiet(g) /\ SummaryIsOfThesePlans(g)
=============================================================================
