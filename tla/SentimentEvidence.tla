-------------------------- MODULE SentimentEvidence -------------------------
(***************************************************************************)
(* The calls of one analysis: tools the models call as they like, and the  *)
(* sentiment analyst, which collects its evidence before it asks a model   *)
(* and widens the news window while there is none.                         *)
(***************************************************************************)
EXTENDS VendorRouting

CONSTANTS Chains,       \* what data_vendors and tool_vendors may hold
          Spans,        \* days the models' calls look back
          Primary,      \* sentiment_window_days
          Fallbacks,    \* sentiment_window_fallback_days
          MaxWindow,    \* the widest window that is taken
          Posts         \* what a social source may answer

VARIABLES phase,     \* of the analyst
          about,     \* the day and the market it analyses
          window,    \* which of its windows it reads
          social,    \* posts collected
          tried      \* what each window gave so far

analyst == <<phase, about, window, social, tried>>
allvars == <<vars, analyst>>

Subject == [asof : AsofDays, mainland : BOOLEAN]

TypesOK ==
    /\ TypeOK
    /\ phase \in {"idle", "reading", "analysed", "abstained", "failed"}
    /\ about \in Subject \cup {None} /\ window \in Nat /\ social \subseteq Item
    /\ tried \in Seq(SUBSET Item)

\* the primary window, then the wider ones in order
Windows == SetToSortSeq({Primary} \cup {w \in Fallbacks : Primary < w /\ w <= MaxWindow},
                        LAMBDA a, b : a < b)

\* What the constants must satisfy.  The last two say of their values what
\* sorting and selecting a sequence give for any.
Bounds ==
    /\ ReplyBounds
    /\ Spans \subseteq Nat /\ Posts \subseteq Reply
    /\ Windows \in Seq(Nat) \ {<<>>}
    /\ \A tool \in RoutedTools : \A configured \in Chains :
         VendorChain(tool, configured) \in Seq(ToSet(VendorMethods[tool]))

Start ==
    /\ Init
    /\ phase = "idle" /\ about = None /\ window = 1 /\ social = {} /\ tried = <<>>

\* A model calls a tool with dates of its choice, and those for statements with
\* none if it likes.
ToolCall ==
    /\ phase = "idle" /\ call = None
    /\ \E tool \in Tools, asof \in AsofDays, span \in Spans, own \in Chains \cup {None}, ofCategory \in Chains :
         \E mainland \in IF tool = "get_news" THEN BOOLEAN ELSE {FALSE} :
         \E dated \in IF tool = "get_statements" THEN BOOLEAN ELSE {TRUE} :
           Ask([tool |-> tool, first |-> asof - span, asof |-> asof, dated |-> dated,
                mainland |-> mainland],
               Configured(own, ofCategory))
    /\ UNCHANGED analyst

\* the model has what the tool told, or the analyst's node has ended
Done ==
    /\ call # None /\ told # None /\ phase # "reading"
    /\ call' = None /\ told' = None /\ outcome' = None /\ domestic' = None
    /\ chain' = <<>> /\ log' = <<>> /\ noData' = FALSE /\ firstError' = None
    /\ phase' = "idle" /\ about' = None /\ window' = 1 /\ social' = {} /\ tried' = <<>>
    /\ UNCHANGED <<enabled, cache>>

NewsOf(subject, w) ==
    [tool |-> "get_news", first |-> subject.asof - Windows[w], asof |-> subject.asof,
     dated |-> TRUE, mainland |-> subject.mainland]

\* a mainland stock has no posts to collect while domestic news are enabled
Collect(subject) ==
    /\ phase = "idle" /\ call = None
    /\ phase' = "reading" /\ about' = subject /\ window' = 1 /\ tried' = <<>>
    /\ IF subject.mainland /\ enabled
       THEN social' = {}
       ELSE \E stocktwits, reddit \in Posts :
              social' = SocialPosts(subject.asof - Primary, subject.asof, stocktwits)
                        \cup SocialPosts(subject.asof - Primary, subject.asof, reddit)
    /\ \E configured \in Chains : Ask(NewsOf(subject, 1), configured)

\* Mutation: an article counts without a link.
HasEvidence_AnyArticle(news, posts) == news # {} \/ \E post \in posts : ~post.blank

\* Articles count by their link (a domestic one has both a date and a link), rows
\* of a feed by title, URL and time, and posts by a date they show; sentences
\* and bodies in another format do not.  An undated article with a link counts.
HasEvidence(news, posts) ==
    (\E article \in news : article.linked) \/ \E post \in posts : ~post.blank

Widen ==
    /\ phase = "reading" /\ told # None /\ Returned(told)
    /\ ~HasEvidence(told.items, social)
    /\ window < Len(Windows)
    /\ window' = window + 1
    /\ tried' = Append(tried, told.items)
    /\ \E configured \in Chains : Ask(NewsOf(about, window + 1), configured)
    /\ UNCHANGED <<phase, about, social>>

Judge ==
    /\ phase = "reading" /\ told # None /\ Returned(told)
    /\ HasEvidence(told.items, social) \/ window = Len(Windows)
    /\ phase' = IF HasEvidence(told.items, social) THEN "analysed" ELSE "abstained"
    /\ tried' = Append(tried, told.items)
    /\ UNCHANGED <<vars, about, window, social>>

\* an error of the news tool ends the run
Broken ==
    /\ phase = "reading" /\ told # None /\ ~Returned(told)
    /\ phase' = "failed"
    /\ UNCHANGED <<vars, about, window, social, tried>>

Next ==
    \/ ToolCall \/ Done
    \/ \E subject \in Subject : Collect(subject)
    \/ Widen \/ Judge \/ Broken
    \/ Routing /\ UNCHANGED analyst

Spec == Start /\ [][Next]_allvars

-----------------------------------------------------------------------------
(* Properties.                                                             *)

\* The analyst abstains when no window it may use held an article that can be
\* recognised and no post was dated, and only then; otherwise the window it
\* reads is the narrowest that held one, and nothing it reads is from after
\* the day analysed (sentiment_analyst.py:109-208).
AbstainsForWantOfEvidence ==
    phase \in {"analysed", "abstained"} =>
        LET dated == {post \in social : ~post.blank}
            records(w) == {article \in tried[w] : article.linked}
            known == dated \cup tried[Len(tried)]
        IN  /\ (phase = "abstained") <=> (dated = {} /\ records(Len(tried)) = {})
            /\ phase = "abstained" => Len(tried) = Len(Windows)
            /\ \A w \in 1 .. Len(tried) - 1 : records(w) = {} /\ dated = {}
            /\ \A item \in known : item.day <= about.asof \/ (item.blank /\ about.asof = Today)
            /\ \A item \in tried[Len(tried)] :
                 item.blank \/ item.day >= about.asof - Windows[Len(tried)]
=============================================================================
