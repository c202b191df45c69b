---------------------------- MODULE VendorRouting ---------------------------
(***************************************************************************)
(* A tool call of an analyst: interface.route_to_vendor walks the chain of *)
(* configured vendors, and the news tools add what domestic sources say.   *)
(***************************************************************************)
EXTENDS VendorFunctions, Sequences, SequencesExt

CONSTANTS VendorReplies, \* what a vendor may answer: [vendor -> SUBSET Reply]
          Feeds,        \* what the domestic sources may serve
          AsofDays,     \* days calls are made about
          CacheLimit,   \* entries kept of domestic news, at least 1: 64
          None

VARIABLES enabled,     \* china_news_enabled
          call,        \* the tool call under way, or None
          chain,       \* vendors still to ask
          log,         \* results of those asked
          noData, firstError,   \* last_no_data, first_error
          outcome,     \* what routing returned or raised
          domestic,    \* the domestic block, or None
          told,        \* what the tool returned or raised
          cache        \* china_news._cache

route == <<chain, log, noData, firstError, outcome>>
vars == <<enabled, call, route, domestic, told, cache>>

Category ==
    [get_stock_data |-> "core_stock_apis", get_indicators |-> "technical_indicators",
     get_fundamentals |-> "fundamental_data", get_statements |-> "fundamental_data",
     get_news |-> "news_data", get_global_news |-> "news_data",
     get_insider_transactions |-> "news_data", get_macro_indicators |-> "macro_data",
     get_prediction_markets |-> "prediction_markets"]
RoutedTools == DOMAIN Category
Tools == RoutedTools \cup {"get_china_market_news"}
OptionalCategories == {"macro_data", "prediction_markets"}

\* in the order of VENDOR_METHODS; the three statements are one tool here
VendorMethods ==
    [tool \in RoutedTools |->
        CASE tool = "get_news" -> <<"alpha_vantage", "yfinance", "china">>
          [] tool = "get_global_news" -> <<"yfinance", "alpha_vantage", "china">>
          [] tool = "get_macro_indicators" -> <<"fred">>
          [] tool = "get_prediction_markets" -> <<"polymarket">>
          [] OTHER -> <<"alpha_vantage", "yfinance">>]

Vendors == {"china", "yfinance", "fred", "polymarket", "alpha_vantage"}

NewsTools == {"get_news", "get_global_news", "get_china_market_news"}

\* tools whose answer is cut at the day the call is about
Windowed == Tools \ {"get_fundamentals", "get_insider_transactions", "get_prediction_markets"}

Request == [tool : Tools, first : Int, asof : AsofDays, dated : BOOLEAN, mainland : BOOLEAN]
Verdicts == {"answer", "text", "raw", "no_data", "rate_limit", "not_configured", "error",
             "unavailable", "no_vendor", "throttled_out"}
Result == [verdict : Verdicts, items : SUBSET Item]
Block == [items : SUBSET Item, lost : BOOLEAN]

TypeOK ==
    /\ enabled \in BOOLEAN /\ call \in Request \cup {None}
    /\ chain \in Seq(Vendors)
    /\ log \in Seq(Result) /\ noData \in BOOLEAN
    /\ firstError \in {None, "not_configured", "error"}
    /\ outcome \in Result \cup {None} /\ domestic \in Block \cup {None}
    /\ told \in Result \cup {None}
    /\ Len(cache) <= CacheLimit /\ \A i \in DOMAIN cache : cache[i].block \in Block

-----------------------------------------------------------------------------
(* Which vendors, and what they answer.                                    *)

\* a vendor configured for the tool goes before those of its category
Configured(own, ofCategory) == IF own # None THEN own ELSE ofCategory

IsExplicit(configured) == \E i \in DOMAIN configured : configured[i] # "default"

VendorChain(tool, configured) ==
    IF IsExplicit(configured)
    THEN SelectSeq(configured, LAMBDA v : v \in ToSet(VendorMethods[tool]))
    ELSE VendorMethods[tool]

\* What the constants must satisfy.  Calls are about days that have come.
ReplyBounds ==
    /\ Calendar /\ AsofDays \subseteq 1 .. Today /\ CacheLimit \in Nat \ {0}
    /\ VendorReplies \in [Vendors -> SUBSET Reply]
    /\ \A feed \in Feeds : \A name \in Sources :
         /\ \A i \in DOMAIN feed.pages[name] : feed.pages[name][i].items \subseteq Item
         /\ feed.browser[name].items \subseteq Item
    /\ None \notin Result \cup Verdicts /\ None \notin Request

Yahoo(q, reply, again) ==
    CASE q.tool = "get_stock_data"   -> YahooPrices(q, reply)
      [] q.tool = "get_indicators"   -> YahooIndicators(q, reply, again)
      [] q.tool = "get_fundamentals" -> YahooFundamentals(q, reply)
      [] q.tool = "get_statements"   -> YahooStatements(q, reply)
      [] q.tool = "get_news"         -> YahooNews(q, reply)
      [] q.tool = "get_global_news"  -> YahooGlobalNews(q, reply, again)
      [] OTHER                       -> YahooInsider(q, reply)

AlphaVantage(q, reply) ==
    CASE q.tool = "get_stock_data"   -> AlphaVantagePrices(q, reply)
      [] q.tool = "get_indicators"   -> AlphaVantageIndicators(q, reply)
      [] q.tool = "get_fundamentals" -> AlphaVantageFundamentals(q, reply)
      [] q.tool = "get_statements"   -> AlphaVantageStatements(q, reply)
      [] q.tool \in NewsTools        -> AlphaVantageNews(q, reply)
      [] OTHER                       -> AlphaVantageInsider(q, reply)

\* what vendor v, one of its tool's, may do, domestic sources aside
Results(v, q) ==
    {CASE v = "yfinance"      -> Yahoo(q, reply, again)
       [] v = "alpha_vantage" -> AlphaVantage(q, reply)
       [] v = "fred"          -> FredMacro(q, reply, again.kind = "payload")
       [] OTHER               -> PolymarketOdds(q, reply)
     : reply, again \in VendorReplies[v]}

DomesticNews(q, feed) ==
    IF q.tool = "get_news" THEN DomesticCompanyNews(q, feed) ELSE DomesticMarketNews(q, feed)

\* an outage and an empty window are looked up again next time
MayCache(block) == ~block.lost /\ block.items # {}

\* both tools that read the market feeds share what was read
Key(q) == IF q.tool = "get_news" THEN <<"stock", q.first, q.asof, q.mainland>>
                                 ELSE <<"market", q.first, q.asof>>
Cached(q) == {cache[i].block : i \in {j \in DOMAIN cache : cache[j].key = Key(q)}}

\* The oldest entry makes room for a new one.  None has its key: one that is
\* no longer used has expired.
Kept(key, block) ==
    LET entries == Append(cache, [key |-> key, block |-> block])
    IN  IF Len(entries) > CacheLimit THEN Tail(entries) ELSE entries

\* the block the domestic sources, or the cache, give for q
Domestic(q, block) ==
    \/ block \in Cached(q) /\ UNCHANGED cache
    \/ /\ Cached(q) = {}
       /\ \E feed \in Feeds : block = DomesticNews(q, feed)
       /\ cache' = IF MayCache(block) THEN Kept(Key(q), block) ELSE cache

Blocks(q) == {DomesticNews(q, feed) : feed \in Feeds} \cup Cached(q)

-----------------------------------------------------------------------------
Init ==
    /\ enabled \in BOOLEAN
    /\ call = None /\ chain = <<>> /\ log = <<>>
    /\ noData = FALSE /\ firstError = None /\ outcome = None
    /\ domestic = None /\ told = None
    /\ cache = <<>>

\* what domestic sources alone answer, and what they add to
DomesticOnly(q) == \/ enabled /\ q.tool = "get_news" /\ q.mainland
                   \/ q.tool = "get_china_market_news"
Supplemented(q) == \/ enabled /\ q.tool \in NewsTools
                   \/ q.tool = "get_china_market_news"

Ask(q, configured) ==
    /\ call' = q
    /\ told' = None /\ domestic' = None /\ log' = <<>> /\ noData' = FALSE /\ firstError' = None
    /\ IF DomesticOnly(q)
       THEN chain' = <<>> /\ outcome' = Text
       ELSE /\ chain' = VendorChain(q.tool, configured)
            /\ outcome' = IF chain' = <<>> THEN Raise("no_vendor") ELSE None
    /\ UNCHANGED <<enabled, cache>>

\* Mutation: the last failure is kept, not the first.
Noted_Last(result) ==
    /\ noData' = (noData \/ result.verdict = "no_data")
    /\ firstError' = IF result.verdict \in {"not_configured", "error"} THEN result.verdict
                                                                     ELSE firstError

\* what a failed vendor leaves behind
Noted(result) ==
    /\ noData' = (noData \/ result.verdict = "no_data")
    /\ firstError' = IF firstError = None /\ result.verdict \in {"not_configured", "error"}
                     THEN result.verdict ELSE firstError

Took(result) ==
    /\ log' = Append(log, result)
    /\ chain' = Tail(chain)
    /\ IF Returned(result)
       THEN outcome' = result /\ UNCHANGED <<noData, firstError>>
       ELSE Noted(result) /\ UNCHANGED outcome

Consult ==
    /\ call # None /\ outcome = None /\ chain # <<>>
    /\ IF Head(chain) = "china"
       THEN \E block \in Blocks(call) : Domestic(call, block) /\ Took(Report(block.items))
       ELSE /\ \E result \in Results(Head(chain), call) : Took(result)
            /\ UNCHANGED cache
    /\ UNCHANGED <<enabled, call, domestic, told>>

\* no vendor returned: no data goes before an error, an error before nothing
Exhausted ==
    IF noData THEN Raise("no_data")
    ELSE IF firstError = None THEN Raise("throttled_out")
    ELSE IF Category[call.tool] \in OptionalCategories THEN Raise("unavailable")
    ELSE Raise(firstError)

Conclude ==
    /\ call # None /\ outcome = None /\ chain = <<>>
    /\ outcome' = Exhausted
    /\ UNCHANGED <<enabled, call, chain, log, noData, firstError, domestic, told, cache>>

Supplement ==
    /\ call # None /\ outcome # None /\ domestic = None /\ Supplemented(call)
    /\ \E block \in Blocks(call) : Domestic(call, block) /\ domestic' = block
    /\ UNCHANGED <<enabled, call, route, told>>

\* get_indicators turns a ValueError into a sentence, and a vendor's error may
\* be one; _supplement does so with any error.
ValueErrors == {"not_configured", "no_vendor"}

Told ==
    IF Supplemented(call)
    THEN {Report(domestic.items \cup (IF Returned(outcome) THEN outcome.items ELSE {}))}
    ELSE IF call.tool = "get_indicators" /\ outcome.verdict \in ValueErrors THEN {Text}
    ELSE IF call.tool = "get_indicators" /\ outcome.verdict = "error" THEN {Text, outcome}
    ELSE {outcome}

Tell ==
    /\ call # None /\ outcome # None /\ told = None
    /\ Supplemented(call) => domestic # None
    /\ told' \in Told
    /\ UNCHANGED <<enabled, call, route, domestic, cache>>

\* china_news_cache_ttl has passed for an entry
Expire ==
    /\ \E i \in DOMAIN cache : cache' = RemoveAt(cache, i)
    /\ UNCHANGED <<enabled, call, route, domestic, told>>

Routing == Consult \/ Conclude \/ Supplement \/ Tell \/ Expire

-----------------------------------------------------------------------------
(* Properties.                                                             *)

Positions(verdicts) == {i \in DOMAIN log : log[i].verdict \in verdicts}

\* The outcome is what the chain as a whole says, whichever order its vendors
\* fail in: the answer of the one vendor that returned, every vendor before
\* it having failed; else that there is no data, if any vendor said so; else
\* the first failure that was not a throttle, which only optional data hides.
VerdictIsOfTheChain ==
    outcome # None /\ log # <<>> =>
        LET returned == Positions({"answer", "text", "raw"})
            failed == Positions({"not_configured", "error"})
        IN  /\ returned # {} => returned = {Len(log)} /\ outcome = log[Len(log)]
            /\ returned = {} =>
                 /\ chain = <<>>
                 /\ (outcome.verdict = "no_data") <=> (Positions({"no_data"}) # {})
                 /\ outcome.verdict \in {"not_configured", "error"} =>
                      /\ Category[call.tool] \notin OptionalCategories
                      /\ outcome.verdict = log[Min(failed)].verdict
                 /\ outcome.verdict = "throttled_out" <=>
                      \A i \in DOMAIN log : log[i].verdict = "rate_limit"

\* A call that gives a past day is told nothing of the days after it, by
\* whichever vendor, fallback, domestic source or cached page it was served; an
\* undated article is told only when the day is today.  Nothing is said of a
\* call for statements that gives no day, which is told of every period, nor of
\* a report that does not say its period.
NothingFromTheFuture ==
    told # None /\ call.tool \in Windowed /\ call.dated /\ told.verdict = "answer" =>
        \A item \in told.items :
            \/ item.blank /\ call.tool \in NewsTools /\ call.asof = Today
            \/ item.blank /\ call.tool = "get_statements"
            \/ ~(item.blank /\ call.tool \in NewsTools) /\ item.day <= call.asof
=============================================================================
