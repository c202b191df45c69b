--------------------------- MODULE VendorFunctions --------------------------
(***************************************************************************)
(* The vendor functions of tradingagents/dataflows: what each returns or   *)
(* raises for what the network answers, and which items of the answer it   *)
(* keeps for a request about one day.                                      *)
(*                                                                         *)
(* A request has a tool, the first day it asks for, the day it is made     *)
(* about (asof) and whether it says so: the tools for statements may be    *)
(* called without a day.  An item (price row, report, article, post) has   *)
(* the day it is of; a blank item lacks what it should carry: an article   *)
(* or a report its date, a price row its close.  A linked article carries  *)
(* what it is recognised by: a link, or the title, URL and time of a feed  *)
(* row.  Text, numbers and symbols are left out.                           *)
(***************************************************************************)
EXTENDS Integers, FiniteSetsExt

CONSTANTS Days,      \* days an item can be of
          Today,     \* the day the calls are made
          MaxStale,  \* MAX_OHLCV_STALE_DAYS
          BrowserFallback   \* china_news_browser_fallback

\* What the constants must satisfy.
Calendar == Days \subseteq 1 .. Today /\ Today \in Days /\ MaxStale \in Nat

Item == [day : Days, blank : BOOLEAN, linked : BOOLEAN]

\* What a vendor's server answers.  A garbled body is not in the expected
\* format; "throttled" is still so after yf_retry gave up.
Reply == [kind : {"payload", "garbled", "throttled", "down", "nokey"}, items : SUBSET Item]

\* What a vendor function does: returns data, returns a sentence, returns a
\* body it could not filter, or raises.
Answer(items) == [verdict |-> "answer", items |-> items]
Text == [verdict |-> "text", items |-> {}]
Unfiltered(items) == [verdict |-> "raw", items |-> items]
Raise(error) == [verdict |-> error, items |-> {}]
Report(items) == IF items = {} THEN Text ELSE Answer(items)
Returned(result) == result.verdict \in {"answer", "text", "raw"}

\* Mutation: what has no date is always kept.
InWindow_Undated(item, first, asof) == item.blank \/ (first <= item.day /\ item.day < asof + 1)

InWindow(item, first, asof) ==
    IF item.blank THEN asof >= Today ELSE first <= item.day /\ item.day < asof + 1
UpTo(asof, items) == {item \in items : item.day <= asof}

-----------------------------------------------------------------------------
(* Yahoo: prices, indicators, fundamentals, news.                          *)

Stale(rows, asof) == rows # {} /\ asof - Max({row.day : row \in rows}) > MaxStale

LoadRows(asof, reply) ==
    LET rows == UpTo(asof, reply.items)
        latest == {row \in rows : \A other \in rows : other.day <= row.day}
        closed == {row \in rows : ~row.blank}
    IN  IF reply.kind # "payload" THEN Raise("error")
        ELSE IF \/ reply.items = {}
                \/ \E row \in latest : row.blank
                \/ Stale(closed, asof)
             THEN Raise("no_data")
             ELSE Answer(closed)

YahooPrices(q, reply) ==
    LET rows == {row \in reply.items : q.first <= row.day /\ row.day < q.asof + 1}
    IN  IF reply.kind # "payload" THEN Raise("error")
        ELSE IF rows = {} \/ Stale(rows, q.asof) THEN Raise("no_data")
        ELSE Answer(rows)

\* One day of the fallback: its own download; a failure leaves the day blank.
DayValue(day, reply) ==
    LET loaded == LoadRows(day, reply)
    IN  IF loaded.verdict = "error" THEN Text
        ELSE [loaded EXCEPT !.items = {row \in @ : row.day = day}]

\* all days at once; when that fails, each day by itself
YahooIndicators(q, reply, again) ==
    LET bulk == LoadRows(q.asof, reply)
        days == {day \in Days : q.first <= day /\ day <= q.asof}
    IN  IF bulk.verdict = "no_data" THEN bulk
        ELSE IF bulk.verdict = "answer"
             THEN Report({row \in bulk.items : q.first <= row.day})
        ELSE IF \E day \in days : DayValue(day, again).verdict = "no_data" THEN Raise("no_data")
        ELSE Report(UNION {DayValue(day, again).items : day \in days})

\* the company as it is now, whatever day the request is about
YahooFundamentals(q, reply) ==
    IF reply.kind # "payload" THEN Text
    ELSE IF reply.items = {} THEN Raise("no_data")
    ELSE Answer(reply.items)

\* without a day, every period there is
YahooStatements(q, reply) ==
    LET dated == {report \in UpTo(q.asof, reply.items) : ~report.blank}
        reports == IF q.dated THEN dated ELSE reply.items
    IN  IF reply.kind # "payload" THEN Text
        ELSE IF reports = {} THEN Raise("no_data")
        ELSE Answer(reports)

YahooInsider(q, reply) == IF reply.kind # "payload" THEN Text ELSE Report(reply.items)

YahooNews(q, reply) ==
    IF reply.kind # "payload" THEN Text
    ELSE Report({article \in reply.items : InWindow(article, q.first, q.asof)})

\* a failing query fails all of them
YahooGlobalNews(q, reply, again) ==
    IF reply.kind # "payload" \/ again.kind # "payload" THEN Text
    ELSE Report({article \in reply.items \cup again.items : InWindow(article, q.first, q.asof)})

-----------------------------------------------------------------------------
(* Alpha Vantage.                                                          *)

\* A body in another format holds no row of a feed.
AlphaVantageRequest(reply) ==
    CASE reply.kind = "nokey"     -> Raise("not_configured")
      [] reply.kind = "throttled" -> Raise("rate_limit")
      [] reply.kind = "down"      -> Raise("error")
      [] reply.kind = "garbled"   -> Unfiltered({[item EXCEPT !.linked = FALSE] : item \in reply.items})
      [] OTHER                    -> Report(reply.items)

\* a body that cannot be filtered is passed on as it came
AlphaVantagePrices(q, reply) ==
    LET body == AlphaVantageRequest(reply)
    IN  IF body.verdict = "answer"
        THEN Report({row \in body.items : q.first <= row.day /\ row.day <= q.asof})
        ELSE body

\* every failure but a missing key becomes a sentence
AlphaVantageIndicators(q, reply) ==
    LET body == AlphaVantageRequest(reply)
    IN  IF body.verdict = "not_configured" THEN body
        ELSE IF body.verdict # "answer" THEN Text
        ELSE Report({row \in body.items : q.first <= row.day /\ row.day <= q.asof})

AlphaVantageFundamentals(q, reply) == AlphaVantageRequest(reply)

\* a report without fiscalDateEnding is kept, and without a day every report
AlphaVantageStatements(q, reply) ==
    LET body == AlphaVantageRequest(reply)
    IN  IF body.verdict = "answer" /\ q.dated
        THEN Report({report \in body.items : report.blank \/ report.day <= q.asof})
        ELSE body

\* The server selects by time; time_from and time_to are midnights, so that it
\* leaves the last day out.
AlphaVantageNews(q, reply) ==
    AlphaVantageRequest([reply EXCEPT !.items =
        {a \in @ : ~a.blank /\ q.first <= a.day /\ a.day < q.asof}])

AlphaVantageInsider(q, reply) == AlphaVantageRequest(reply)

-----------------------------------------------------------------------------
(* FRED, where a garbled reply is the refusal of a series, and Polymarket. *)

FredRequest(reply) ==
    CASE reply.kind = "nokey" -> Raise("not_configured")
      [] reply.kind = "payload" -> Answer(reply.items)
      [] OTHER -> Raise("error")

\* known: the indicator is an alias or looks like a series.  The values are
\* those published by the day the request is about.
FredMacro(q, reply, known) ==
    LET body == FredRequest(reply)
    IN  IF ~known THEN Text
        ELSE IF body.verdict = "answer"
             THEN Report({o \in body.items : q.first <= o.day /\ o.day <= q.asof /\ ~o.blank})
        ELSE body

PolymarketOdds(q, reply) == IF reply.kind # "payload" THEN Text ELSE Report(reply.items)

-----------------------------------------------------------------------------
(* Domestic Chinese news: public sources read page by page.                *)

Sources == {"eastmoney", "cninfo", "sina", "wallstreetcn", "cls"}

\* A source asks for the next page while pages are full; one failed page
\* fails the source.
PagesRead(pages) ==
    LET short == {i \in DOMAIN pages : ~pages[i].full \/ pages[i].kind # "payload"}
        read == {i \in DOMAIN pages : \A s \in short : i <= s}
    IN  IF \E i \in read : pages[i].kind # "payload" THEN [items |-> {}, lost |-> TRUE]
        ELSE [items |-> UNION {pages[i].items : i \in read}, lost |-> FALSE]

\* A feed is what each source serves, and the page of it a browser renders.
Source(feed, name, rendered) ==
    LET direct == PagesRead(feed.pages[name])
    IN  IF ~direct.lost THEN direct
        ELSE IF rendered /\ BrowserFallback /\ feed.browser[name].kind = "payload"
             THEN [items |-> feed.browser[name].items, lost |-> FALSE]
        ELSE [items |-> {}, lost |-> TRUE]

RenderNews(q, items) ==
    {item \in items : ~item.blank /\ item.linked /\ q.first <= item.day /\ item.day < q.asof + 1}

\* the text that the sources read give, and whether it says that one failed
DomesticReport(q, sources) ==
    [items |-> RenderNews(q, UNION {source.items : source \in sources}),
     lost  |-> \E source \in sources : source.lost]

\* announcements exist for mainland stocks only
DomesticCompanyNews(q, feed) ==
    DomesticReport(q, {Source(feed, "eastmoney", TRUE)} \cup
                      (IF q.mainland THEN {Source(feed, "cninfo", FALSE)} ELSE {}))

DomesticMarketNews(q, feed) ==
    DomesticReport(q, {Source(feed, "sina", TRUE), Source(feed, "wallstreetcn", TRUE)} \cup
                      (IF BrowserFallback THEN {Source(feed, "cls", TRUE)} ELSE {}))

-----------------------------------------------------------------------------
(* Social posts around the company: StockTwits and Reddit.                 *)

\* an undated post is kept in a live run, and shown without a date
SocialPosts(first, asof, reply) ==
    IF reply.kind # "payload" THEN {}
    ELSE {post \in reply.items : InWindow(post, first, asof)}
=============================================================================
