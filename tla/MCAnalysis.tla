----------------------------- MODULE MCAnalysis -----------------------------
(* One analysis from its two sides: the graph that takes it from node to    *)
(* node, and the evidence that its tool calls bring.  The graph asks        *)
(* nothing of the evidence but that a call returns, so a behaviour moves    *)
(* one side, chosen at the start.                                           *)
EXTENDS AgentGraph

CONSTANTS Days, Today, MaxStale, BrowserFallback, VendorReplies, Feeds, AsofDays, CacheLimit,
          None, Chains, Spans, Primary, Fallbacks, MaxWindow, Posts

VARIABLES part,
          enabled, call, chain, log, noData, firstError, outcome, domestic, told, cache,
          phase, about, window, social, tried

Evidence == INSTANCE SentimentEvidence

ASSUME EvidenceBounds == Evidence!Bounds

evidenceVars ==
    <<enabled, call, chain, log, noData, firstError, outcome, domestic, told, cache,
      phase, about, window, social, tried>>
allvars == <<vars, evidenceVars, part>>

\* A plan of one analyst with tools, and one where the analyst without tools comes first.
MCPlans == {<<"market">>, <<"social", "news">>}

FirstShape == [plan |-> <<"market">>, debate |-> 1, risk |-> 1]

MCInit ==
    /\ part \in {"graph", "evidence"}
    /\ Init /\ (part = "graph" \/ shape = FirstShape)
    /\ Evidence!Start /\ (part = "evidence" \/ enabled = TRUE)

MCNext ==
    \/ part = "graph" /\ Next /\ UNCHANGED <<evidenceVars, part>>
    \/ part = "evidence" /\ Evidence!Next /\ UNCHANGED <<vars, part>>

MCSpec == MCInit /\ [][MCNext]_allvars

-----------------------------------------------------------------------------
(* Two vendors at most in a chain, three days, feeds of one page or two.    *)
(* Names of vendors and sources are spelled out: the values of constants    *)
(* cannot use an instance that those constants parameterise.                *)

MCVendors == {"yfinance", "alpha_vantage", "china", "fred", "polymarket"}
MCSources == {"eastmoney", "cninfo", "sina", "wallstreetcn", "cls"}

MCChains == {<<"default">>, <<"yfinance", "alpha_vantage">>, <<"china", "alpha_vantage">>, <<"fred">>,
             <<"polymarket">>}

One(day, blank) == {[day |-> day, blank |-> blank, linked |-> TRUE]}
Bare(day) == {[day |-> day, blank |-> FALSE, linked |-> FALSE]}
Payloads == {{}, One(Today, TRUE), One(1, FALSE) \cup One(Today, FALSE), Bare(2)}
            \cup {One(d, FALSE) : d \in Days}
Failing(kind) == [kind |-> kind, items |-> {}]
Serving(payloads) == {[kind |-> "payload", items |-> items] : items \in payloads}

MCVendorReplies ==
    [vendor \in MCVendors |->
        CASE vendor = "yfinance" -> Serving(Payloads) \cup {Failing("down"), Failing("throttled")}
          [] vendor = "alpha_vantage" ->
               Serving(Payloads) \cup {[kind |-> "garbled", items |-> One(Today, FALSE)]}
               \cup {Failing(kind) : kind \in {"down", "throttled", "nokey"}}
          [] vendor = "fred" -> Serving(Payloads) \cup {Failing(kind) : kind \in {"down", "garbled", "nokey"}}
          [] vendor = "polymarket" -> Serving(Payloads) \cup {Failing("down")}
          [] OTHER -> {}]

MCPosts == Serving({One(2, FALSE), One(Today, FALSE), One(Today, TRUE)}) \cup {Failing("down")}

Page(items, full) == [kind |-> "payload", items |-> items, full |-> full]
NoPage == [kind |-> "down", items |-> {}, full |-> FALSE]
Feed(main, other, browser) ==
    [pages |-> [name \in MCSources |-> IF name \in {"eastmoney", "sina"} THEN main ELSE other],
     browser |-> [name \in MCSources |-> browser]]
MCFeeds ==
    {Feed(main, <<Page({}, FALSE)>>, Failing("down")) :
        main \in {<<Page({}, FALSE)>>, <<NoPage>>, <<Page(One(Today, FALSE), TRUE), NoPage>>,
                  <<Page(One(Today, FALSE), TRUE), Page(One(2, FALSE), FALSE)>>}}
    \cup {Feed(<<NoPage>>, <<Page(One(1, FALSE), FALSE)>>, [kind |-> "payload", items |-> One(2, FALSE)])}

-----------------------------------------------------------------------------
\* The outcome of a call is that of its chain (interface.py:169-266).
VerdictIsOfTheChain == Evidence!VerdictIsOfTheChain

\* No call about a day is told of the days after it (date_window.py:16-30).
NothingFromTheFuture == Evidence!NothingFromTheFuture

\* The sentiment analyst abstains for want of evidence only, after its widest
\* window (sentiment_analyst.py).
AbstainsForWantOfEvidence == Evidence!AbstainsForWantOfEvidence
=============================================================================
