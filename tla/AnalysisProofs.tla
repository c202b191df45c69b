--------------------------- MODULE AnalysisProofs ---------------------------
(***************************************************************************)
(* Theorems about one analysis: its graph, and the evidence its tool calls  *)
(* bring.                                                                   *)
(*                                                                          *)
(* AgentGraph, for every selection of analysts, every number of rounds and  *)
(* every recursion limit. The invariant is one of graph states: each node   *)
(* takes a sound one to a sound one, so a checkpoint is sound whenever it   *)
(* was taken and whatever run goes on from it.                              *)
(*                                                                          *)
(* SentimentEvidence, for everything the vendors, feeds and sources may     *)
(* answer and every chain they are configured in. Each vendor function is   *)
(* shown to give what fits the call; the invariant says that what a call    *)
(* holds fits it, and what is kept fits the days it is kept under.          *)
(***************************************************************************)
EXTENDS MCAnalysis, TLAPS

(* What each place in the graph implies for the counters that route it.     *)
Placed(s) ==
    /\ s.next \in AnalystNodes => s.debate.count = 0
    /\ s.next \notin AfterDebate =>
         s.debate.current = IF s.debate.count = 0 THEN "none" ELSE DebateSpeaker(s.debate.count)
    /\ s.next \in Researchers => s.next = DebateSpeaker(s.debate.count + 1)
    /\ s.next \notin RiskNodes \cup AfterRisk => s.risk.count = 0
    /\ s.next \notin AfterRisk =>
         s.risk.latest = IF s.risk.count = 0 THEN "none" ELSE RiskSpeaker(s.risk.count)
    /\ s.next \in RiskNodes => s.next = RiskSpeaker(s.risk.count + 1)

(* The nodes other than tool loops that lie behind a state.                 *)
Passed(s) ==
    2 * (s.turn - 1) + s.debate.count + s.risk.count
      + (IF s.next = "MsgClear" THEN 1 ELSE 0)
      + (IF s.next \in AfterDebate \ {"ResearchManager"} THEN 1 ELSE 0)
      + (IF s.next \in RiskNodes \cup AfterRisk THEN 1 ELSE 0)
      + (IF s.next = "END" THEN 1 ELSE 0)

Sound(s) ==
    /\ s \in AgentStates
    /\ InTurn(s)
    /\ DebateWhole(s)
    /\ RiskWhole(s)
    /\ Placed(s)

Budget ==
    steps <= 1 + 2 * rounds + Passed(state) - (IF state.next = "tools" THEN 1 ELSE 0)

IInv ==
    /\ TypeOK
    /\ \A s \in Held : Sound(s)
    /\ Budget

USE DEF Researchers, RiskAnalysts, RiskNodes, AnalystNodes, AfterRisk, AfterDebate

LEMMA PlanFacts ==
    ASSUME shape \in Shapes
    PROVE  /\ shape.plan \in Seq(Analysts) /\ Len(shape.plan) \in Nat \ {0}
           /\ \A i \in 1..Len(shape.plan) : shape.plan[i] \in Analysts
           /\ \A i, j \in 1..Len(shape.plan) : shape.plan[i] = shape.plan[j] => i = j
           /\ shape.debate \in Nat \ {0} /\ shape.risk \in Nat \ {0}
BY PlansAreSelections, MaxRoundsIsPositive DEF Shapes

(* Sums over integers, for the counting of steps below.                     *)
LEMMA Sums ==
    /\ \A p, d, r \in Nat : 2 * p + 2 * d + 3 * r + 3 \in Nat
    /\ \A p, d, r, u, x \in Nat :
         x <= 2 * (u - 1) + 1 /\ u <= p => x <= 2 * p + 2 * d + 3 * r + 3
    /\ \A p, d, r, b, c, x \in Nat :
         x <= 2 * p + b + c + 3 /\ b <= 2 * d /\ c <= 3 * r => x <= 2 * p + 2 * d + 3 * r + 3
OBVIOUS

-----------------------------------------------------------------------------
(* The analysts.                                                            *)

LEMMA AnalystSound ==
    ASSUME shape \in Shapes, NEW s, Sound(s), s.next = "Analyst", NEW answer \in {"call", "answer"},
           NEW t, t = AnalystNode(s, answer)
    PROVE  /\ Sound(t)
           /\ t.next = IF answer = "call" THEN "tools" ELSE "MsgClear"
           /\ Passed(t) = Passed(s) + (IF answer = "call" THEN 0 ELSE 1)
<1>a. s \in AgentStates /\ InTurn(s) /\ DebateWhole(s) /\ RiskWhole(s) /\ Placed(s)
  BY DEF Sound
<1>0. AnalystAt(s) \in Analysts
  BY <1>a, PlanFacts DEF InTurn, AnalystAt
<1>1. t \in AgentStates
  BY <1>a, <1>0 DEF AnalystNode, ShouldContinueAnalyst, AgentStates, Messages, Nodes
<1>3. /\ t.next = IF answer = "call" THEN "tools" ELSE "MsgClear"
      /\ t.turn = s.turn /\ t.debate = s.debate /\ t.risk = s.risk
      /\ t.messages.openings = s.messages.openings
      /\ t.messages.last = answer
      /\ t.messages.authors = s.messages.authors \cup {AnalystAt(s)}
      /\ t.reports = IF answer = "call" THEN s.reports \ {AnalystAt(s)}
                     ELSE s.reports \cup {AnalystAt(s)}
  BY <1>a DEF AnalystNode, ShouldContinueAnalyst, AgentStates, Messages
<1>4. InTurn(t)
  BY <1>a, <1>3, PlanFacts DEF InTurn, AnalystAt
<1>5. DebateWhole(t) /\ RiskWhole(t) /\ Placed(t)
  BY <1>a, <1>3 DEF DebateWhole, RiskWhole, Placed
<1>6. Passed(t) = Passed(s) + (IF answer = "call" THEN 0 ELSE 1)
  BY <1>a, <1>3 DEF Passed, AgentStates, DebateState, RiskState
<1> QED
  BY <1>1, <1>3, <1>4, <1>5, <1>6 DEF Sound

LEMMA ToolsSound ==
    ASSUME shape \in Shapes, NEW s, Sound(s), s.next = "tools",
           NEW t, t = ToolNode(s)
    PROVE  Sound(t) /\ t.next = "Analyst" /\ Passed(t) = Passed(s)
<1>a. s \in AgentStates /\ InTurn(s) /\ DebateWhole(s) /\ RiskWhole(s) /\ Placed(s)
  BY DEF Sound
<1>1. t \in AgentStates
  BY <1>a DEF ToolNode, AgentStates, Messages, Nodes
<1>2. /\ t.next = "Analyst" /\ t.turn = s.turn /\ t.reports = s.reports
      /\ t.debate = s.debate /\ t.risk = s.risk
      /\ t.messages.openings = s.messages.openings /\ t.messages.last = "results"
      /\ t.messages.authors = s.messages.authors
  BY <1>a DEF ToolNode, AgentStates, Messages
<1>3. InTurn(t)
  BY <1>a, <1>2 DEF InTurn, AnalystAt
<1>4. DebateWhole(t) /\ RiskWhole(t) /\ Placed(t)
  BY <1>a, <1>2 DEF DebateWhole, RiskWhole, Placed
<1>5. Passed(t) = Passed(s)
  BY <1>a, <1>2 DEF Passed, AgentStates, DebateState, RiskState
<1> QED
  BY <1>1, <1>2, <1>3, <1>4, <1>5 DEF Sound

LEMMA MsgClearSound ==
    ASSUME shape \in Shapes, NEW s, Sound(s), s.next = "MsgClear",
           NEW t, t = MsgClear(s)
    PROVE  Sound(t) /\ t.next # "tools" /\ Passed(t) = Passed(s) + 1
<1>a. s \in AgentStates /\ InTurn(s) /\ DebateWhole(s) /\ RiskWhole(s) /\ Placed(s)
  BY DEF Sound
<1>1. t \in AgentStates
  <2>1. [openings |-> 1, last |-> "human", authors |-> {}] \in Messages
    BY DEF Messages
  <2>2. s.turn + 1 \in Nat \ {0}
    BY <1>a DEF AgentStates
  <2>3. (IF s.turn < Len(shape.plan) THEN "Analyst" ELSE "Bull") \in Nodes
    BY DEF Nodes
  <2> QED
    BY <1>a, <2>1, <2>2, <2>3 DEF MsgClear, AgentStates
<1>2. /\ t.next = IF s.turn < Len(shape.plan) THEN "Analyst" ELSE "Bull"
      /\ t.turn = s.turn + 1 /\ t.reports = s.reports
      /\ t.debate = s.debate /\ t.risk = s.risk
      /\ t.messages.openings = 1 /\ t.messages.last = "human" /\ t.messages.authors = {}
  BY <1>a DEF MsgClear, AgentStates
<1>3. InTurn(t)
  <2>1. /\ s.turn \in 1..Len(shape.plan)
        /\ shape.plan[s.turn] \in s.reports
        /\ \A i \in 1..Len(shape.plan) :
             (i < s.turn => shape.plan[i] \in s.reports) /\ (i > s.turn => shape.plan[i] \notin s.reports)
    BY <1>a DEF InTurn, AnalystAt
  <2>2. \A i \in 1..Len(shape.plan) :
          (i < t.turn => shape.plan[i] \in t.reports) /\ (i > t.turn => shape.plan[i] \notin t.reports)
    BY <1>2, <2>1
  <2>3. CASE s.turn < Len(shape.plan)
    BY <1>2, <2>1, <2>2, <2>3, PlanFacts DEF InTurn, AnalystAt
  <2>4. CASE s.turn = Len(shape.plan)
    BY <1>2, <2>1, <2>2, <2>4, PlanFacts DEF InTurn, AnalystAt
  <2> QED
    BY <2>1, <2>3, <2>4, PlanFacts
<1>4. DebateWhole(t) /\ RiskWhole(t)
  BY <1>a, <1>2 DEF DebateWhole, RiskWhole
<1>5. Placed(t)
  BY <1>a, <1>2 DEF Placed, DebateSpeaker
<1>6. Passed(t) = Passed(s) + 1
  BY <1>a, <1>2 DEF Passed, AgentStates, DebateState, RiskState
<1> QED
  BY <1>1, <1>2, <1>3, <1>4, <1>5, <1>6 DEF Sound

-----------------------------------------------------------------------------
(* The debate of the researchers.                                           *)

LEMMA ResearcherSound ==
    ASSUME shape \in Shapes, NEW s, Sound(s), NEW who \in Researchers, s.next = who,
           NEW t, t = Researcher(s, who)
    PROVE  Sound(t) /\ t.next # "tools" /\ Passed(t) = Passed(s) + 1
<1> DEFINE n == s.debate.count
           h == s.debate.history
<1>a. s \in AgentStates /\ InTurn(s) /\ DebateWhole(s) /\ RiskWhole(s) /\ Placed(s)
  BY DEF Sound
<1>b. /\ n \in Nat /\ h \in Seq({"Bull", "Bear"}) /\ Len(h) = n
      /\ s.debate.own \in [{"Bull", "Bear"} -> SUBSET Nat]
  BY <1>a DEF AgentStates, DebateState, DebateWhole
<1>c. who = DebateSpeaker(n + 1) /\ n < 2 * shape.debate /\ shape.debate \in Nat
  BY <1>a, PlanFacts DEF DebateWhole, Placed
<1>1. /\ t.next = IF n + 1 >= 2 * shape.debate THEN "ResearchManager"
                  ELSE IF who = "Bull" THEN "Bear" ELSE "Bull"
      /\ t.turn = s.turn /\ t.reports = s.reports /\ t.messages = s.messages
      /\ t.risk = s.risk /\ t.decision = s.decision
  BY <1>a DEF Researcher, ShouldContinueDebate, AgentStates
<1>2. t.debate = [count |-> n + 1, current |-> who, history |-> Append(h, who),
                  own |-> [s.debate.own EXCEPT ![who] = s.debate.own[who] \cup {n + 1}]]
  BY <1>a DEF Researcher, ShouldContinueDebate, AgentStates
<1>3. /\ t.debate.count = n + 1 /\ t.debate.current = who
      /\ t.debate.history = Append(h, who)
      /\ t.debate.own[who] = s.debate.own[who] \cup {n + 1}
      /\ \A r \in {"Bull", "Bear"} : r # who => t.debate.own[r] = s.debate.own[r]
  BY <1>b, <1>2
<1>4. /\ Append(h, who) \in Seq({"Bull", "Bear"}) /\ Len(Append(h, who)) = n + 1
      /\ \A i \in 1..n : Append(h, who)[i] = h[i]
      /\ Append(h, who)[n + 1] = who
  BY <1>b
<1> HIDE DEF n, h
<1>5. t \in AgentStates
  <2>1. [s.debate.own EXCEPT ![who] = s.debate.own[who] \cup {n + 1}]
          \in [{"Bull", "Bear"} -> SUBSET Nat]
    BY <1>b
  <2>2. t.debate \in DebateState
    BY <1>b, <1>2, <1>4, <2>1 DEF DebateState
  <2>3. t.next \in Nodes
    BY <1>1 DEF Nodes
  <2>4. t = [s EXCEPT !.debate = t.debate, !.next = t.next]
    BY <1>a, <1>1 DEF Researcher, ShouldContinueDebate, AgentStates
  <2> QED
    BY <1>a, <2>2, <2>3, <2>4 DEF AgentStates
<1>6. InTurn(t)
  BY <1>a, <1>1 DEF InTurn
<1>7. DebateWhole(t)
  <2>1. \A i \in 1..n : h[i] = DebateSpeaker(i)
    BY <1>a DEF DebateWhole, n, h
  <2>2. \A i \in 1..n + 1 : Append(h, who)[i] = DebateSpeaker(i)
    BY <1>b, <1>c, <1>4, <2>1
  <2>3. ASSUME NEW r \in {"Bull", "Bear"}
        PROVE  t.debate.own[r] = {i \in 1..n + 1 : DebateSpeaker(i) = r}
    <3>1. s.debate.own[r] = {i \in 1..n : DebateSpeaker(i) = r}
      BY <1>a DEF DebateWhole, n
    <3> QED
      BY <1>b, <1>c, <1>3, <3>1
  <2>4. IF t.next \in AfterDebate THEN n + 1 = 2 * shape.debate ELSE n + 1 < 2 * shape.debate
    BY <1>b, <1>c, <1>1
  <2> QED
    BY <1>3, <1>4, <2>2, <2>3, <2>4 DEF DebateWhole
<1>8. RiskWhole(t)
  BY <1>a, <1>1 DEF RiskWhole
<1>9. Placed(t)
  <2>1. (who = "Bull" => DebateSpeaker(n + 1 + 1) = "Bear")
        /\ (who = "Bear" => DebateSpeaker(n + 1 + 1) = "Bull")
    BY <1>b, <1>c DEF DebateSpeaker
  <2> QED
    BY <1>a, <1>b, <1>c, <1>1, <1>3, <2>1 DEF Placed
<1>10. Passed(t) = Passed(s) + 1
  <2>1. s.turn \in Nat /\ s.risk.count \in Nat
    BY <1>a DEF AgentStates, RiskState
  <2> DEFINE others == 2 * (s.turn - 1) + s.risk.count
  <2>2. Passed(s) = others + n
    BY <1>b, <2>1 DEF Passed, n
  <2>3. t.next \in {"ResearchManager", "Bull", "Bear"}
    BY <1>1
  <2>4. Passed(t) = others + (n + 1)
    <3>1. /\ t.next \notin AfterDebate \ {"ResearchManager"}
          /\ t.next \notin RiskNodes \cup AfterRisk
          /\ t.next # "MsgClear" /\ t.next # "END"
      BY <2>3
    <3>2. Passed(t) = 2 * (t.turn - 1) + t.debate.count + t.risk.count + 0 + 0 + 0 + 0
      BY <3>1 DEF Passed
    <3> QED
      BY <1>b, <1>1, <1>3, <2>1, <3>2
  <2>5. others \in Int
    BY <2>1
  <2> HIDE DEF others
  <2> QED
    BY <1>b, <2>2, <2>4, <2>5
<1> QED
  BY <1>1, <1>5, <1>6, <1>7, <1>8, <1>9, <1>10 DEF Sound

LEMMA ResearchManagerSound ==
    ASSUME shape \in Shapes, NEW s, Sound(s), s.next = "ResearchManager",
           NEW t, t = ResearchManager(s)
    PROVE  Sound(t) /\ t.next # "tools" /\ Passed(t) = Passed(s) + 1
<1>a. s \in AgentStates /\ InTurn(s) /\ DebateWhole(s) /\ RiskWhole(s) /\ Placed(s)
  BY DEF Sound
<1>1. t \in AgentStates
  BY <1>a DEF ResearchManager, AgentStates, DebateState, Nodes
<1>2. /\ t.next = "Trader" /\ t.turn = s.turn /\ t.reports = s.reports
      /\ t.messages = s.messages /\ t.risk = s.risk
      /\ t.debate.count = s.debate.count /\ t.debate.history = s.debate.history
      /\ t.debate.own = s.debate.own
  BY <1>a DEF ResearchManager, AgentStates, DebateState
<1>3. InTurn(t)
  BY <1>a, <1>2 DEF InTurn
<1>4. DebateWhole(t) /\ RiskWhole(t) /\ Placed(t)
  BY <1>a, <1>2 DEF DebateWhole, RiskWhole, Placed
<1>5. Passed(t) = Passed(s) + 1
  BY <1>a, <1>2 DEF Passed, AgentStates, DebateState, RiskState
<1> QED
  BY <1>1, <1>2, <1>3, <1>4, <1>5 DEF Sound

-----------------------------------------------------------------------------
(* The trader, the risk debate and the decision.                            *)

LEMMA TraderSound ==
    ASSUME shape \in Shapes, NEW s, Sound(s), s.next = "Trader",
           NEW t, t = Trader(s)
    PROVE  Sound(t) /\ t.next # "tools" /\ Passed(t) = Passed(s) + 1
<1>a. s \in AgentStates /\ InTurn(s) /\ DebateWhole(s) /\ RiskWhole(s) /\ Placed(s)
  BY DEF Sound
<1>1. t \in AgentStates
  BY <1>a DEF Trader, AgentStates, Messages, Nodes
<1>2. /\ t.next = "Aggressive" /\ t.turn = s.turn /\ t.reports = s.reports
      /\ t.debate = s.debate /\ t.risk = s.risk
  BY <1>a DEF Trader, AgentStates
<1>3. InTurn(t)
  BY <1>a, <1>2 DEF InTurn
<1>4. DebateWhole(t) /\ RiskWhole(t)
  BY <1>a, <1>2 DEF DebateWhole, RiskWhole
<1>5. Placed(t)
  BY <1>a, <1>2 DEF Placed, RiskSpeaker
<1>6. Passed(t) = Passed(s) + 1
  BY <1>a, <1>2 DEF Passed, AgentStates, DebateState, RiskState
<1> QED
  BY <1>1, <1>2, <1>3, <1>4, <1>5, <1>6 DEF Sound

LEMMA DebatorSound ==
    ASSUME shape \in Shapes, NEW s, Sound(s), NEW who \in RiskAnalysts, s.next = who,
           NEW t, t = Debator(s, who)
    PROVE  Sound(t) /\ t.next # "tools" /\ Passed(t) = Passed(s) + 1
<1> DEFINE n == s.risk.count
           h == s.risk.history
<1>a. s \in AgentStates /\ InTurn(s) /\ DebateWhole(s) /\ RiskWhole(s) /\ Placed(s)
  BY DEF Sound
<1>b. /\ n \in Nat /\ h \in Seq(RiskAnalysts) /\ Len(h) = n
      /\ s.risk.own \in [RiskAnalysts -> SUBSET Nat]
      /\ s.risk.current \in [RiskAnalysts -> Nat]
  BY <1>a DEF AgentStates, RiskState, RiskWhole
<1>c. who = RiskSpeaker(n + 1) /\ n < 3 * shape.risk /\ shape.risk \in Nat
  BY <1>a, PlanFacts DEF RiskWhole, Placed
<1>1. /\ t.next = IF n + 1 >= 3 * shape.risk THEN "PortfolioManager"
                  ELSE IF who = "Aggressive" THEN "Conservative"
                  ELSE IF who = "Conservative" THEN "Neutral" ELSE "Aggressive"
      /\ t.turn = s.turn /\ t.reports = s.reports /\ t.messages = s.messages
      /\ t.debate = s.debate /\ t.decision = s.decision
  BY <1>a DEF Debator, ShouldContinueRisk, AgentStates
<1>2. t.risk = [count |-> n + 1, latest |-> who, history |-> Append(h, who),
                own |-> [s.risk.own EXCEPT ![who] = s.risk.own[who] \cup {n + 1}],
                current |-> [s.risk.current EXCEPT ![who] = n + 1]]
  BY <1>a DEF Debator, ShouldContinueRisk, AgentStates
<1>3. /\ t.risk.count = n + 1 /\ t.risk.latest = who
      /\ t.risk.history = Append(h, who)
      /\ t.risk.own[who] = s.risk.own[who] \cup {n + 1}
      /\ t.risk.current[who] = n + 1
      /\ \A r \in RiskAnalysts :
           r # who => t.risk.own[r] = s.risk.own[r] /\ t.risk.current[r] = s.risk.current[r]
  <2>1. /\ t.risk.count = n + 1 /\ t.risk.latest = who
        /\ t.risk.history = Append(h, who)
        /\ t.risk.own = [s.risk.own EXCEPT ![who] = s.risk.own[who] \cup {n + 1}]
        /\ t.risk.current = [s.risk.current EXCEPT ![who] = n + 1]
    BY <1>2
  <2> QED
    BY <1>b, <2>1
<1>4. /\ Append(h, who) \in Seq(RiskAnalysts) /\ Len(Append(h, who)) = n + 1
      /\ \A i \in 1..n : Append(h, who)[i] = h[i]
      /\ Append(h, who)[n + 1] = who
  BY <1>b
<1> HIDE DEF n, h
<1>5. t \in AgentStates
  <2>1. /\ [s.risk.own EXCEPT ![who] = s.risk.own[who] \cup {n + 1}]
             \in [RiskAnalysts -> SUBSET Nat]
        /\ [s.risk.current EXCEPT ![who] = n + 1] \in [RiskAnalysts -> Nat]
    BY <1>b
  <2>2. t.risk \in RiskState
    BY <1>b, <1>2, <1>4, <2>1 DEF RiskState
  <2>3. t.next \in Nodes
    BY <1>1 DEF Nodes
  <2>4. t = [s EXCEPT !.risk = t.risk, !.next = t.next]
    BY <1>a, <1>1 DEF Debator, ShouldContinueRisk, AgentStates
  <2> QED
    BY <1>a, <2>2, <2>3, <2>4 DEF AgentStates
<1>6. InTurn(t)
  BY <1>a, <1>1 DEF InTurn
<1>7. DebateWhole(t)
  BY <1>a, <1>1 DEF DebateWhole
<1>8. RiskWhole(t)
  <2>1. \A i \in 1..n : h[i] = RiskSpeaker(i)
    BY <1>a DEF RiskWhole, n, h
  <2>2. \A i \in 1..n + 1 : Append(h, who)[i] = RiskSpeaker(i)
    BY <1>b, <1>c, <1>4, <2>1
  <2>3. ASSUME NEW r \in RiskAnalysts
        PROVE  /\ t.risk.own[r] = {i \in 1..n + 1 : RiskSpeaker(i) = r}
               /\ \A i \in t.risk.own[r] : i <= t.risk.current[r]
               /\ t.risk.current[r] \in t.risk.own[r] \cup {0}
    <3>1. /\ s.risk.own[r] = {i \in 1..n : RiskSpeaker(i) = r}
          /\ \A i \in s.risk.own[r] : i <= s.risk.current[r]
          /\ s.risk.current[r] \in s.risk.own[r] \cup {0}
      BY <1>a DEF RiskWhole, n
    <3>2. CASE r = who
      <4>1. t.risk.own[r] = s.risk.own[r] \cup {n + 1} /\ t.risk.current[r] = n + 1
        BY <1>3, <3>2
      <4>2. RiskSpeaker(n + 1) = r
        BY <1>c, <3>2
      <4>3. t.risk.own[r] = {i \in 1..n + 1 : RiskSpeaker(i) = r}
        BY <1>b, <3>1, <4>1, <4>2
      <4>4. \A i \in t.risk.own[r] : i <= n + 1
        BY <1>b, <4>3
      <4> QED
        BY <4>1, <4>3, <4>4
    <3>3. CASE r # who
      <4>1. t.risk.own[r] = s.risk.own[r] /\ t.risk.current[r] = s.risk.current[r]
        BY <1>3, <3>3
      <4>2. RiskSpeaker(n + 1) # r
        BY <1>c, <3>3
      <4> QED
        BY <1>b, <3>1, <4>1, <4>2
    <3> QED
      BY <3>2, <3>3
  <2>4. IF t.next \in AfterRisk THEN n + 1 = 3 * shape.risk ELSE n + 1 < 3 * shape.risk
    BY <1>b, <1>c, <1>1
  <2> QED
    BY <1>3, <1>4, <2>2, <2>3, <2>4 DEF RiskWhole
<1>9. Placed(t)
  <2>1. /\ who = "Aggressive" => RiskSpeaker(n + 1 + 1) = "Conservative"
        /\ who = "Conservative" => RiskSpeaker(n + 1 + 1) = "Neutral"
        /\ who = "Neutral" => RiskSpeaker(n + 1 + 1) = "Aggressive"
    <3>1. who = "Aggressive" => (n + 1) % 3 = 1
      BY <1>b, <1>c DEF RiskSpeaker
    <3>2. who = "Conservative" => (n + 1) % 3 = 2
      BY <1>b, <1>c DEF RiskSpeaker
    <3>3. who = "Neutral" => (n + 1) % 3 = 0
      BY <1>b, <1>c DEF RiskSpeaker
    <3>4. /\ (n + 1) % 3 = 1 => (n + 1 + 1) % 3 = 2
          /\ (n + 1) % 3 = 2 => (n + 1 + 1) % 3 = 0
          /\ (n + 1) % 3 = 0 => (n + 1 + 1) % 3 = 1
      BY <1>b
    <3> QED
      BY <3>1, <3>2, <3>3, <3>4 DEF RiskSpeaker
  <2>2. t.next \in RiskNodes => t.next = RiskSpeaker(t.risk.count + 1)
    <3>1. t.risk.count = n + 1
      BY <1>3
    <3>2. t.next \in RiskNodes =>
            t.next = IF who = "Aggressive" THEN "Conservative"
                     ELSE IF who = "Conservative" THEN "Neutral" ELSE "Aggressive"
      BY <1>1
    <3> QED
      BY <2>1, <3>1, <3>2
  <2>3. t.next \in RiskNodes \cup AfterRisk
    BY <1>1
  <2>4. t.risk.count # 0 /\ t.risk.latest = RiskSpeaker(t.risk.count)
    BY <1>b, <1>c, <1>3
  <2>5. t.next \in AfterDebate /\ t.next \notin AnalystNodes \cup Researchers
    BY <2>3
  <2>6. /\ t.next \in AnalystNodes => t.debate.count = 0
        /\ t.next \notin AfterDebate =>
             t.debate.current =
               IF t.debate.count = 0 THEN "none" ELSE DebateSpeaker(t.debate.count)
        /\ t.next \in Researchers => t.next = DebateSpeaker(t.debate.count + 1)
    BY <2>5
  <2>7. /\ t.next \notin RiskNodes \cup AfterRisk => t.risk.count = 0
        /\ t.next \notin AfterRisk =>
             t.risk.latest = IF t.risk.count = 0 THEN "none" ELSE RiskSpeaker(t.risk.count)
    BY <2>3, <2>4
  <2> HIDE DEF Researchers, RiskAnalysts, RiskNodes, AnalystNodes, AfterRisk, AfterDebate
  <2> QED
    BY <2>2, <2>6, <2>7 DEF Placed
<1>10. Passed(t) = Passed(s) + 1
  <2>1. s.turn \in Nat /\ s.debate.count \in Nat
    BY <1>a DEF AgentStates, DebateState
  <2>2. Passed(s) = 2 * (s.turn - 1) + s.debate.count + n + 2
    BY <1>b, <2>1 DEF Passed, n
  <2>3. Passed(t) = 2 * (s.turn - 1) + s.debate.count + (n + 1) + 2
    BY <1>b, <1>1, <1>3, <2>1 DEF Passed
  <2> QED
    BY <1>b, <2>1, <2>2, <2>3
<1> QED
  BY <1>1, <1>5, <1>6, <1>7, <1>8, <1>9, <1>10 DEF Sound

LEMMA PortfolioManagerSound ==
    ASSUME shape \in Shapes, NEW s, Sound(s), s.next = "PortfolioManager",
           NEW answer \in {"blank", "text"},
           NEW t, t = PortfolioManager(s, answer)
    PROVE  Sound(t) /\ t.next # "tools" /\ Passed(t) = Passed(s) + 1
<1>a. s \in AgentStates /\ InTurn(s) /\ DebateWhole(s) /\ RiskWhole(s) /\ Placed(s)
  BY DEF Sound
<1>1. t \in AgentStates
  BY <1>a DEF PortfolioManager, AgentStates, RiskState, Nodes
<1>2. /\ t.next = "END" /\ t.turn = s.turn /\ t.reports = s.reports
      /\ t.messages = s.messages /\ t.debate = s.debate
      /\ t.risk.count = s.risk.count /\ t.risk.history = s.risk.history
      /\ t.risk.own = s.risk.own /\ t.risk.current = s.risk.current
  BY <1>a DEF PortfolioManager, AgentStates, RiskState
<1>3. InTurn(t)
  BY <1>a, <1>2 DEF InTurn
<1>4. DebateWhole(t) /\ RiskWhole(t) /\ Placed(t)
  BY <1>a, <1>2 DEF DebateWhole, RiskWhole, Placed
<1>5. Passed(t) = Passed(s) + 1
  BY <1>a, <1>2 DEF Passed, AgentStates, DebateState, RiskState
<1> QED
  BY <1>1, <1>2, <1>3, <1>4, <1>5 DEF Sound

-----------------------------------------------------------------------------
(* The invocation.                                                          *)

LEMMA InitialSound == shape \in Shapes => Sound(InitialState) /\ Passed(InitialState) = 0
<1> SUFFICES ASSUME shape \in Shapes PROVE Sound(InitialState) /\ Passed(InitialState) = 0
  OBVIOUS
<1>1. InitialState \in AgentStates
  BY DEF InitialState, AgentStates, Messages, DebateState, RiskState, Nodes
<1>2. InTurn(InitialState)
  BY PlanFacts DEF InitialState, InTurn, AnalystAt
<1>3. DebateWhole(InitialState)
  BY PlanFacts DEF InitialState, DebateWhole
<1>4. RiskWhole(InitialState)
  BY PlanFacts DEF InitialState, RiskWhole
<1>5. Placed(InitialState)
  BY DEF InitialState, Placed
<1>6. Passed(InitialState) = 0
  BY DEF InitialState, Passed
<1> QED
  BY <1>1, <1>2, <1>3, <1>4, <1>5, <1>6 DEF Sound

(* A sound state has passed at least no node and at most all of them.       *)
LEMMA PassedBounds ==
    ASSUME shape \in Shapes, NEW s, Sound(s)
    PROVE  Passed(s) \in Nat /\ Passed(s) <= PlainSteps
<1>1. /\ s.turn \in Nat \ {0} /\ s.debate.count \in Nat /\ s.risk.count \in Nat
      /\ s.next \in AnalystNodes \cup Researchers \cup AfterDebate
  BY DEF Sound, AgentStates, DebateState, RiskState, Nodes
<1>2. /\ Len(shape.plan) \in Nat /\ shape.debate \in Nat /\ shape.risk \in Nat
  BY PlanFacts
<1>3. Passed(s) \in Nat
  BY <1>1 DEF Passed
<1>4. /\ s.next \in AnalystNodes => s.turn <= Len(shape.plan)
      /\ s.next \notin AnalystNodes => s.turn = Len(shape.plan) + 1
  BY <1>1, <1>2 DEF Sound, InTurn
<1>5. s.debate.count <= 2 * shape.debate /\ s.risk.count <= 3 * shape.risk
  <2>1. DebateWhole(s) /\ RiskWhole(s)
    BY DEF Sound
  <2>2. s.debate.count = 2 * shape.debate \/ s.debate.count < 2 * shape.debate
    BY <2>1 DEF DebateWhole
  <2>3. s.risk.count = 3 * shape.risk \/ s.risk.count < 3 * shape.risk
    BY <2>1 DEF RiskWhole
  <2> QED
    BY <1>1, <1>2, <2>2, <2>3
<1>6. CASE s.next \in AnalystNodes
  <2>1. s.debate.count = 0 /\ s.risk.count = 0
    BY <1>6 DEF Sound, Placed
  <2>2. Passed(s) <= 2 * (s.turn - 1) + 1
    BY <1>1, <1>6, <2>1 DEF Passed
  <2> QED
    BY <1>1, <1>2, <1>3, <1>4, <1>6, <2>2, Sums DEF PlainSteps
<1>7. CASE s.next \notin AnalystNodes
  <2>1. Passed(s) <= 2 * (s.turn - 1) + s.debate.count + s.risk.count + 3
    BY <1>1, <1>7 DEF Passed
  <2>2. s.turn - 1 = Len(shape.plan)
    BY <1>1, <1>2, <1>4, <1>7
  <2> QED
    BY <1>1, <1>2, <1>3, <1>5, <2>1, <2>2, Sums DEF PlainSteps
<1> QED
  BY <1>6, <1>7

(* Where a state is sound does not depend on anything but the shape.        *)
LEMMA SoundKept ==
    ASSUME shape' = shape, \A s \in Held' : Sound(s)
    PROVE  (\A s \in Held : Sound(s))'
BY DEF Sound, InTurn, DebateWhole, RiskWhole, Placed, AnalystAt

LEMMA InitIInv == Init => IInv
<1> SUFFICES ASSUME Init PROVE IInv
  OBVIOUS
<1>1. Held = {InitialState} /\ Sound(InitialState) /\ Passed(InitialState) = 0
  BY InitialSound DEF Init, Held
<1>2. TypeOK
  BY <1>1 DEF Init, TypeOK, Sound
<1>3. Budget
  BY <1>1 DEF Init, Budget, InitialState
<1> QED
  BY <1>1, <1>2, <1>3 DEF IInv

(* A step of the graph takes the state to t.                                *)
LEMMA BecomesIInv ==
    ASSUME IInv, NEW t, Becomes(t), Sound(t),
           \/ rounds' = rounds /\ t.next # "tools" /\ Passed(t) = Passed(state) + 1
           \/ rounds' = rounds + 1 /\ t.next = "tools" /\ Passed(t) = Passed(state)
           \/ /\ state.next = "tools" /\ rounds' = rounds
              /\ t.next = "Analyst" /\ Passed(t) = Passed(state)
    PROVE  IInv'
<1>1. /\ shape' = shape /\ saved' = saved /\ status' = status
      /\ state' = t /\ steps' = steps + 1
  BY DEF Becomes
<1>2. TypeOK'
  BY <1>1 DEF IInv, TypeOK, Sound
<1>3. (\A s \in Held : Sound(s))'
  <2>1. \A s \in Held' : Sound(s)
    BY <1>1 DEF IInv, Held
  <2> QED
    BY <1>1, <2>1, SoundKept
<1>4. Budget'
  <2>1. Passed(state) \in Nat /\ Passed(t) \in Nat
    BY PassedBounds DEF IInv, TypeOK, Held
  <2>2. Passed(state)' = Passed(t)
    BY <1>1 DEF Passed
  <2>3. steps <= 1 + 2 * rounds + Passed(state) - (IF state.next = "tools" THEN 1 ELSE 0)
    BY DEF IInv, Budget
  <2>4. steps \in Nat /\ rounds \in Nat
    BY DEF IInv, TypeOK
  <2>5. steps' <= 1 + 2 * rounds' + Passed(t) - (IF t.next = "tools" THEN 1 ELSE 0)
    BY <1>1, <2>1, <2>3, <2>4
  <2> QED
    BY <1>1, <2>2, <2>5 DEF Budget
<1> QED
  BY <1>2, <1>3, <1>4 DEF IInv

LEMMA NextIInv == IInv /\ [Next]_vars => IInv'
<1> SUFFICES ASSUME IInv, [Next]_vars PROVE IInv'
  OBVIOUS
<1>0. shape \in Shapes /\ state \in Held /\ Sound(state)
  BY DEF IInv, TypeOK, Held
<1>1. CASE CallTools
  <2> DEFINE t == AnalystNode(state, "call")
  <2>1. Sound(t) /\ t.next = "tools" /\ Passed(t) = Passed(state) + 0
    BY <1>0, <1>1, AnalystSound DEF CallTools, Runs
  <2>2. Passed(state) \in Nat /\ Becomes(t) /\ rounds' = rounds + 1
    BY <1>0, <1>1, PassedBounds DEF CallTools
  <2> HIDE DEF t
  <2> QED
    BY <2>1, <2>2, BecomesIInv
<1>2. CASE Report
  BY <1>0, <1>2, AnalystSound, BecomesIInv DEF Report, Runs
<1>3. CASE RunTools
  BY <1>0, <1>3, ToolsSound, BecomesIInv DEF RunTools, Runs
<1>4. CASE ClearMessages
  BY <1>0, <1>4, MsgClearSound, BecomesIInv DEF ClearMessages, Runs
<1>5. CASE Debate
  BY <1>0, <1>5, ResearcherSound, BecomesIInv DEF Debate, Runs
<1>6. CASE JudgeDebate
  BY <1>0, <1>6, ResearchManagerSound, BecomesIInv DEF JudgeDebate, Runs
<1>7. CASE Propose
  BY <1>0, <1>7, TraderSound, BecomesIInv DEF Propose, Runs
<1>8. CASE DebateRisk
  BY <1>0, <1>8, DebatorSound, BecomesIInv DEF DebateRisk, Runs
<1>9. CASE Decide
  BY <1>0, <1>9, PortfolioManagerSound, BecomesIInv DEF Decide, Runs
<1>10. ASSUME shape' = shape, state' = state, saved' \subseteq Held,
              status' \in {"off", "running", "done", "failed", "exceeded"},
              UNCHANGED <<steps, rounds>>
       PROVE  IInv'
  <2>1. TypeOK'
    BY <1>10 DEF IInv, TypeOK, Held
  <2>2. (\A s \in Held : Sound(s))'
    <3>1. \A s \in Held' : Sound(s)
      BY <1>10 DEF IInv, Held
    <3> QED
      BY <1>10, <3>1, SoundKept
  <2>3. Budget'
    BY <1>10 DEF IInv, Budget, Passed
  <2> QED
    BY <2>1, <2>2, <2>3 DEF IInv
<1>11. CASE Exceed
  BY <1>10, <1>11 DEF Exceed, Held
<1>12. CASE Finish
  BY <1>10, <1>12 DEF Finish, Runs, Held
<1>13. CASE Checkpoint
  BY <1>10, <1>13 DEF Checkpoint, Held, IInv, TypeOK
<1>14. CASE Crash
  BY <1>10, <1>14 DEF Crash, Held
<1>15. ASSUME shape' = shape, status' = "running", saved' \subseteq saved,
              NEW t, Sound(t), state' = t, steps' \in {0, 1}, rounds' = 0,
              t.next = "tools" => steps' = 0
       PROVE  IInv'
  <2>1. TypeOK'
    BY <1>15 DEF IInv, TypeOK, Sound
  <2>2. (\A s \in Held : Sound(s))'
    <3>1. \A s \in Held' : Sound(s)
      BY <1>15 DEF IInv, Held
    <3> QED
      BY <1>15, <3>1, SoundKept
  <2>3. Budget'
    <3>1. Passed(t) \in Nat
      BY <1>0, <1>15, PassedBounds
    <3>2. Passed(state)' = Passed(t)
      BY <1>15 DEF Passed
    <3> QED
      BY <1>15, <3>1, <3>2 DEF Budget
  <2> QED
    BY <2>1, <2>2, <2>3 DEF IInv
<1>16. CASE Start
  <2>1. Sound(InitialState) /\ InitialState.next = "Analyst"
    BY <1>0, InitialSound DEF InitialState
  <2> QED
    BY <1>15, <1>16, <2>1 DEF Start
<1>17. CASE Resume
  <2>1. PICK s \in saved : state' = s
    BY <1>17 DEF Resume
  <2>2. Sound(s)
    BY <2>1 DEF IInv, Held
  <2> QED
    BY <1>15, <1>17, <2>1, <2>2 DEF Resume
<1>18. CASE UNCHANGED vars
  BY <1>10, <1>18 DEF vars, Held, IInv, TypeOK
<1> QED
  BY <1>1, <1>2, <1>3, <1>4, <1>5, <1>6, <1>7, <1>8, <1>9, <1>11, <1>12, <1>13, <1>14,
     <1>16, <1>17, <1>18 DEF Next

(* Every state a run is in, or may be resumed from, is sound, and its steps  *)
(* are paid for by the nodes it has passed and the tools it has called.      *)
THEOREM Invariance == Spec => []IInv
<1> QED
  BY InitIInv, NextIInv, PTL DEF Spec

(* The variables keep their types. *)
THEOREM TypeCorrect == Spec => []TypeOK
<1>1. IInv => TypeOK
  BY DEF IInv
<1> QED
  BY <1>1, Invariance, PTL

(* Analysts work one after the other, each from a single opening message,   *)
(* and the debate finds the reports of all of them, through any tool calls, *)
(* crashes and resumptions (setup.py, propagation.py, checkpoint_input).    *)
THEOREM AnalystsTakeTurns == Spec => []AnalystsInTurn
<1>1. IInv => AnalystsInTurn
  BY DEF IInv, AnalystsInTurn, Sound
<1> QED
  BY <1>1, Invariance, PTL

(* Whatever the numbers of rounds, both debates go round in order, end when *)
(* everybody has spoken in each round, and lose no argument                 *)
(* (conditional_logic.py, the researchers and the risk analysts).           *)
THEOREM DebatesEndWhole == Spec => []DebatesAreWhole
<1>1. IInv => DebatesAreWhole
  BY DEF IInv, DebatesAreWhole, Sound
<1> QED
  BY <1>1, Invariance, PTL

(* A run that meets the recursion limit has called tools in at least half   *)
(* of the steps that the plan leaves over (max_recur_limit, propagation.py).*)
THEOREM LimitMeansTools == Spec => []LimitIsForTools
<1> DEFINE Over == status = "exceeded" => steps > RecursionLimit
<1>1. Init => Over
  BY DEF Init
<1>2. IInv /\ Over /\ [Next]_vars => Over'
  BY DEF Next, vars, CallTools, Report, RunTools, ClearMessages, Debate, JudgeDebate, Propose,
         DebateRisk, Decide, Exceed, Finish, Checkpoint, Crash, Start, Resume, Becomes, Runs
<1>3. IInv /\ Over => LimitIsForTools
  <2> SUFFICES ASSUME IInv, steps > RecursionLimit PROVE 2 * rounds + PlainSteps >= RecursionLimit
    BY DEF LimitIsForTools
  <2>1. Passed(state) \in Nat /\ Passed(state) <= PlainSteps
    BY PassedBounds DEF IInv, TypeOK, Held
  <2>2. steps \in Nat /\ rounds \in Nat /\ steps <= 1 + 2 * rounds + Passed(state)
    BY <2>1 DEF IInv, TypeOK, Budget
  <2>3. PlainSteps \in Nat
    <3>1. Len(shape.plan) \in Nat /\ shape.debate \in Nat /\ shape.risk \in Nat
      BY PlanFacts DEF IInv, TypeOK
    <3> QED
      BY <3>1, Sums DEF PlainSteps
  <2> QED
    BY <2>1, <2>2, <2>3, LimitIsNatural
<1> QED
  BY <1>1, <1>2, <1>3, Invariance, PTL DEF Spec

(* The graph of a composed run is the graph.                                *)
LEMMA GraphRuns == MCSpec => Spec
<1>1. MCInit => Init
  BY DEF MCInit
<1>2. [MCNext]_allvars => [Next]_vars
  BY DEF MCNext, allvars
<1> QED
  BY <1>1, <1>2, PTL DEF MCSpec, Spec

HIDE DEF Researchers, RiskAnalysts, RiskNodes, AnalystNodes, AfterRisk, AfterDebate

-----------------------------------------------------------------------------
(* Evidence. What the functions of the vendors may give a call.             *)

VendorVerdicts == {"answer", "text", "raw", "no_data", "rate_limit", "not_configured", "error"}

(* What a call that gives its day may be told: nothing later than that day, *)
(* no undated article but today, and of news nothing from before its window. *)
Fits(q, item) ==
    \/ ~q.dated
    \/ item.blank /\ q.tool \in Evidence!NewsTools /\ q.asof = Today
    \/ item.blank /\ q.tool = "get_statements"
    \/ /\ ~(item.blank /\ q.tool \in Evidence!NewsTools)
       /\ item.day <= q.asof
       /\ q.tool \in Evidence!NewsTools => q.first <= item.day

(* Only a body that could not be filtered may hold more, and of news not    *)
(* even that.                                                               *)
FitResult(q, r) ==
    q.tool \in Evidence!Windowed /\ (r.verdict # "raw" \/ q.tool \in Evidence!NewsTools) =>
        \A item \in r.items : Fits(q, item)

Answers(q) ==
    {r \in [verdict : VendorVerdicts, items : SUBSET Evidence!Item] : FitResult(q, r)}

VendorsOf(tool) == Evidence!ToSet(Evidence!VendorMethods[tool])

-----------------------------------------------------------------------------

LEMMA Bounds ==
    /\ Days \subseteq Int /\ Today \in Int
    /\ \A asof \in AsofDays : asof \in Int /\ asof <= Today
    /\ \A v \in Evidence!Vendors : VendorReplies[v] \subseteq Evidence!Reply
    /\ None \notin Evidence!Result /\ None \notin Evidence!Verdicts /\ None \notin Evidence!Request
    /\ Evidence!Windows \in Seq(Nat) /\ Evidence!Windows # <<>>
BY EvidenceBounds
   DEF Evidence!Bounds, Evidence!ReplyBounds, Evidence!Calendar

LEMMA ItemFacts ==
    /\ \A item \in Evidence!Item : item.day \in Int /\ item.blank \in BOOLEAN
    /\ \A reply \in Evidence!Reply : reply.items \subseteq Evidence!Item
BY Bounds DEF Evidence!Item, Evidence!Reply

LEMMA RequestFacts ==
    \A q \in Evidence!Request : q.first \in Int /\ q.asof \in AsofDays /\ q.asof \in Int /\ q.asof <= Today
BY Bounds DEF Evidence!Request

(* The answers that a vendor function may be put together from.             *)
LEMMA Plain ==
    ASSUME NEW q, NEW items \in SUBSET Evidence!Item
    PROVE  /\ Evidence!Text \in Answers(q)
           /\ \A error \in {"no_data", "rate_limit", "not_configured", "error"} :
                Evidence!Raise(error) \in Answers(q)
           /\ (q.tool \in Evidence!Windowed => \A item \in items : Fits(q, item)) =>
                Evidence!Answer(items) \in Answers(q) /\ Evidence!Report(items) \in Answers(q)
           /\ (q.tool \in Evidence!NewsTools => \A item \in items : Fits(q, item)) =>
                Evidence!Unfiltered(items) \in Answers(q)
BY DEF Evidence!Text, Evidence!Raise, Evidence!Answer, Evidence!Report, Evidence!Unfiltered,
       Answers, FitResult, VendorVerdicts

LEMMA MethodFacts ==
    /\ VendorsOf("get_news") = {"alpha_vantage", "yfinance", "china"}
    /\ VendorsOf("get_global_news") = {"alpha_vantage", "yfinance", "china"}
    /\ VendorsOf("get_macro_indicators") = {"fred"}
    /\ VendorsOf("get_prediction_markets") = {"polymarket"}
    /\ \A tool \in {"get_stock_data", "get_indicators", "get_fundamentals", "get_statements",
                    "get_insider_transactions"} : VendorsOf(tool) = {"alpha_vantage", "yfinance"}
    /\ Evidence!RoutedTools = {"get_stock_data", "get_indicators", "get_fundamentals", "get_statements",
                       "get_insider_transactions", "get_news", "get_global_news",
                       "get_macro_indicators", "get_prediction_markets"}
<1>1. Evidence!RoutedTools = {"get_stock_data", "get_indicators", "get_fundamentals", "get_statements",
                       "get_insider_transactions", "get_news", "get_global_news",
                       "get_macro_indicators", "get_prediction_markets"}
  BY DEF Evidence!RoutedTools, Evidence!Category
<1>2. /\ Evidence!VendorMethods["get_news"] = <<"alpha_vantage", "yfinance", "china">>
      /\ Evidence!VendorMethods["get_global_news"] = <<"yfinance", "alpha_vantage", "china">>
      /\ Evidence!VendorMethods["get_macro_indicators"] = <<"fred">>
      /\ Evidence!VendorMethods["get_prediction_markets"] = <<"polymarket">>
      /\ \A tool \in {"get_stock_data", "get_indicators", "get_fundamentals", "get_statements",
                      "get_insider_transactions"} :
           Evidence!VendorMethods[tool] = <<"alpha_vantage", "yfinance">>
  BY <1>1 DEF Evidence!VendorMethods
<1>3. /\ \A a : Evidence!ToSet(<<a>>) = {a}
      /\ \A a, b : Evidence!ToSet(<<a, b>>) = {a, b}
      /\ \A a, b, c : Evidence!ToSet(<<a, b, c>>) = {a, b, c}
  <2>1. /\ \A a : DOMAIN <<a>> = {1}
        /\ \A a, b : DOMAIN <<a, b>> = {1, 2}
        /\ \A a, b, c : DOMAIN <<a, b, c>> = {1, 2, 3}
    OBVIOUS
  <2> QED
    BY <2>1 DEF Evidence!ToSet
<1>4. \A tool \in {"get_stock_data", "get_indicators", "get_fundamentals", "get_statements",
                    "get_insider_transactions"} : VendorsOf(tool) = {"alpha_vantage", "yfinance"}
  BY <1>2, <1>3 DEF VendorsOf
<1>5. /\ VendorsOf("get_macro_indicators") = {"fred"}
      /\ VendorsOf("get_prediction_markets") = {"polymarket"}
  BY <1>2, <1>3 DEF VendorsOf
<1>6. /\ VendorsOf("get_news") = {"alpha_vantage", "yfinance", "china"}
      /\ VendorsOf("get_global_news") = {"yfinance", "alpha_vantage", "china"}
  BY <1>2, <1>3 DEF VendorsOf
<1> QED
  BY <1>1, <1>4, <1>5, <1>6

-----------------------------------------------------------------------------
(* Yahoo.                                                                   *)

LEMMA LoadFits ==
    ASSUME NEW asof \in Int, NEW reply \in Evidence!Reply, NEW r, r = Evidence!LoadRows(asof, reply)
    PROVE  \/ r = Evidence!Raise("error") \/ r = Evidence!Raise("no_data")
           \/ \E items \in SUBSET Evidence!Item :
                r = Evidence!Answer(items) /\ \A item \in items : item.day <= asof
<1> DEFINE rows == Evidence!UpTo(asof, reply.items)
           closed == {row \in rows : ~row.blank}
<1>1. closed \in SUBSET Evidence!Item /\ \A item \in closed : item.day <= asof
  BY ItemFacts DEF Evidence!UpTo
<1>2. \/ Evidence!LoadRows(asof, reply) = Evidence!Raise("error")
      \/ Evidence!LoadRows(asof, reply) = Evidence!Raise("no_data")
      \/ Evidence!LoadRows(asof, reply) = Evidence!Answer(closed)
  BY DEF Evidence!LoadRows
<1> HIDE DEF closed
<1> QED
  BY <1>1, <1>2

LEMMA YahooFits ==
    ASSUME NEW q \in Evidence!Request, "yfinance" \in VendorsOf(q.tool), q.tool \in Evidence!RoutedTools,
           NEW reply \in Evidence!Reply, NEW again \in Evidence!Reply
    PROVE  Evidence!Yahoo(q, reply, again) \in Answers(q)
<1>1. q.asof \in Int /\ q.first \in Int /\ q.asof <= Today /\ Today \in Int
  BY RequestFacts, Bounds
<1>2. reply.items \subseteq Evidence!Item /\ again.items \subseteq Evidence!Item
  BY ItemFacts
<1>3. CASE q.tool = "get_stock_data"
  <2> DEFINE rows == {row \in reply.items : q.first <= row.day /\ row.day < q.asof + 1}
  <2>1. \A item \in rows : Fits(q, item)
    BY <1>1, <1>2, <1>3, ItemFacts DEF Fits, Evidence!NewsTools
  <2>2. Evidence!Yahoo(q, reply, again) = Evidence!YahooPrices(q, reply)
    BY <1>3 DEF Evidence!Yahoo
  <2> QED
    BY <1>2, <2>1, <2>2, Plain DEF Evidence!YahooPrices
<1>4. CASE q.tool = "get_indicators"
  <2>1. Evidence!Yahoo(q, reply, again) = Evidence!YahooIndicators(q, reply, again)
    BY <1>4 DEF Evidence!Yahoo
  <2> DEFINE bulk == Evidence!LoadRows(q.asof, reply)
             days == {day \in Days : q.first <= day /\ day <= q.asof}
             each == UNION {Evidence!DayValue(day, again).items : day \in days}
             late == {row \in bulk.items : q.first <= row.day}
  <2>2. q.tool \notin Evidence!NewsTools
    BY <1>4 DEF Evidence!NewsTools
  <2>3. each \in SUBSET Evidence!Item /\ \A item \in each : Fits(q, item)
    <3> SUFFICES ASSUME NEW day \in days, NEW item \in Evidence!DayValue(day, again).items
                 PROVE  item \in Evidence!Item /\ Fits(q, item)
      OBVIOUS
    <3>1. day \in Int /\ day <= q.asof
      BY Bounds
    <3>2. PICK loaded : loaded = Evidence!LoadRows(day, again)
      OBVIOUS
    <3>3. item \in loaded.items /\ loaded.verdict # "error"
      BY <3>2 DEF Evidence!DayValue, Evidence!Text
    <3>4. PICK items \in SUBSET Evidence!Item :
            loaded = Evidence!Answer(items) /\ \A i \in items : i.day <= day
      <4>1. loaded # Evidence!Raise("error") /\ loaded # Evidence!Raise("no_data")
        BY <3>3 DEF Evidence!Raise
      <4> QED
        BY <3>1, <3>2, <4>1, LoadFits
    <3> QED
      BY <1>1, <2>2, <3>1, <3>3, <3>4, ItemFacts DEF Evidence!Answer, Fits
  <2>b. \/ bulk = Evidence!Raise("error") \/ bulk = Evidence!Raise("no_data")
        \/ \E items \in SUBSET Evidence!Item :
             bulk = Evidence!Answer(items) /\ \A item \in items : item.day <= q.asof
    BY <1>1, LoadFits
  <2>4. CASE bulk.verdict = "no_data"
    <3>1. bulk = Evidence!Raise("no_data")
      <4> HIDE DEF bulk
      <4>1. Evidence!Raise("error").verdict = "error"
        BY DEF Evidence!Raise
      <4>2. \A items : Evidence!Answer(items).verdict = "answer"
        BY DEF Evidence!Answer
      <4> QED
        BY <2>b, <2>4, <4>1, <4>2
    <3>2. Evidence!YahooIndicators(q, reply, again) = bulk
      BY <2>4 DEF Evidence!YahooIndicators
    <3> QED
      BY <2>1, <3>1, <3>2, Plain
  <2>5. CASE bulk.verdict = "answer"
    <3>1. late \in SUBSET Evidence!Item /\ \A item \in late : Fits(q, item)
      <4> HIDE DEF bulk
      <4>1. Evidence!Raise("error").verdict = "error" /\ Evidence!Raise("no_data").verdict = "no_data"
        BY DEF Evidence!Raise
      <4>2. PICK items \in SUBSET Evidence!Item :
              bulk = Evidence!Answer(items) /\ \A item \in items : item.day <= q.asof
        BY <2>b, <2>5, <4>1
      <4>3. bulk.items = items
        BY <4>2 DEF Evidence!Answer
      <4> QED
        BY <2>2, <4>2, <4>3 DEF Fits
    <3>2. Evidence!YahooIndicators(q, reply, again) = Evidence!Report(late)
      BY <2>5 DEF Evidence!YahooIndicators
    <3> HIDE DEF late
    <3> QED
      BY <2>1, <3>1, <3>2, Plain
  <2>6. CASE bulk.verdict \notin {"no_data", "answer"}
    <3>1. \/ Evidence!YahooIndicators(q, reply, again) = Evidence!Raise("no_data")
          \/ Evidence!YahooIndicators(q, reply, again) = Evidence!Report(each)
      BY <2>6 DEF Evidence!YahooIndicators
    <3> HIDE DEF each
    <3> QED
      BY <2>1, <2>3, <3>1, Plain
  <2> QED
    BY <2>4, <2>5, <2>6
<1>5. CASE q.tool \in {"get_fundamentals", "get_insider_transactions"}
  <2>1. q.tool \notin Evidence!Windowed
    BY <1>5 DEF Evidence!Windowed
  <2>2. \/ Evidence!Yahoo(q, reply, again) = Evidence!YahooFundamentals(q, reply)
        \/ Evidence!Yahoo(q, reply, again) = Evidence!YahooInsider(q, reply)
    BY <1>5 DEF Evidence!Yahoo
  <2> QED
    BY <1>2, <2>1, <2>2, Plain DEF Evidence!YahooFundamentals, Evidence!YahooInsider
<1>6. CASE q.tool = "get_statements"
  <2> DEFINE dated == {report \in Evidence!UpTo(q.asof, reply.items) : ~report.blank}
             reports == IF q.dated THEN dated ELSE reply.items
  <2>1. reports \in SUBSET Evidence!Item /\ \A item \in reports : Fits(q, item)
    BY <1>2, <1>6 DEF Fits, Evidence!NewsTools, Evidence!UpTo
  <2>2. Evidence!Yahoo(q, reply, again) = Evidence!YahooStatements(q, reply)
    BY <1>6 DEF Evidence!Yahoo
  <2>3. Evidence!YahooStatements(q, reply) \in
          {Evidence!Text, Evidence!Raise("no_data"), Evidence!Answer(reports)}
    BY DEF Evidence!YahooStatements
  <2> HIDE DEF reports
  <2> QED
    BY <2>1, <2>2, <2>3, Plain
<1>7. q.tool \in Evidence!NewsTools =>
      \A items \in SUBSET Evidence!Item :
        \A item \in {i \in items : Evidence!InWindow(i, q.first, q.asof)} : Fits(q, item)
  BY <1>1, ItemFacts DEF Evidence!InWindow, Fits
<1>8. CASE q.tool = "get_news"
  <2>1. Evidence!Yahoo(q, reply, again) = Evidence!YahooNews(q, reply)
    BY <1>8 DEF Evidence!Yahoo
  <2> QED
    BY <1>2, <1>7, <1>8, <2>1, Plain DEF Evidence!YahooNews, Evidence!NewsTools
<1>9. CASE q.tool = "get_global_news"
  <2>1. Evidence!Yahoo(q, reply, again) = Evidence!YahooGlobalNews(q, reply, again)
    BY <1>9 DEF Evidence!Yahoo
  <2> DEFINE all == reply.items \cup again.items
             kept == {article \in all : Evidence!InWindow(article, q.first, q.asof)}
  <2>2. kept \in SUBSET Evidence!Item /\ \A item \in kept : Fits(q, item)
    BY <1>2, <1>7, <1>9 DEF Evidence!NewsTools
  <2>3. \/ Evidence!YahooGlobalNews(q, reply, again) = Evidence!Text
        \/ Evidence!YahooGlobalNews(q, reply, again) = Evidence!Report(kept)
    BY DEF Evidence!YahooGlobalNews
  <2> HIDE DEF kept
  <2> QED
    BY <2>1, <2>2, <2>3, Plain
<1> QED
  BY <1>3, <1>4, <1>5, <1>6, <1>8, <1>9, MethodFacts

-----------------------------------------------------------------------------
(* The other vendors.                                                       *)

(* A body in another format: the items it would hold, none recognised.      *)
Bared(items) == {[item EXCEPT !.linked = FALSE] : item \in items}

LEMMA BaredFits ==
    ASSUME NEW q, NEW items \in SUBSET Evidence!Item
    PROVE  /\ Bared(items) \in SUBSET Evidence!Item
           /\ (\A item \in items : Fits(q, item)) => \A item \in Bared(items) : Fits(q, item)
<1>1. \A item \in Evidence!Item :
        LET bare == [item EXCEPT !.linked = FALSE]
        IN  bare \in Evidence!Item /\ bare.day = item.day /\ bare.blank = item.blank
  BY DEF Evidence!Item
<1>2. Bared(items) \in SUBSET Evidence!Item
  BY <1>1 DEF Bared
<1>3. ASSUME \A item \in items : Fits(q, item), NEW bare \in Bared(items) PROVE Fits(q, bare)
  <2>1. PICK item \in items : bare = [item EXCEPT !.linked = FALSE]
    BY DEF Bared
  <2>2. bare.day = item.day /\ bare.blank = item.blank
    BY <1>1, <2>1
  <2>3. Fits(q, item)
    BY <1>3
  <2> QED
    BY <2>2, <2>3 DEF Fits
<1> QED
  BY <1>2, <1>3

LEMMA RequestFits ==
    ASSUME NEW q, NEW reply \in Evidence!Reply
    PROVE  LET body == Evidence!AlphaVantageRequest(reply)
           IN  /\ \/ \E error \in {"not_configured", "rate_limit", "error"} : body = Evidence!Raise(error)
                  \/ body = Evidence!Unfiltered(Bared(reply.items))
                  \/ body = Evidence!Report(reply.items)
               /\ body.items \in SUBSET Evidence!Item
<1> DEFINE body == Evidence!AlphaVantageRequest(reply)
<1>1. reply.items \in SUBSET Evidence!Item /\ Bared(reply.items) \in SUBSET Evidence!Item
  BY ItemFacts, BaredFits
<1>2. \/ \E error \in {"not_configured", "rate_limit", "error"} : body = Evidence!Raise(error)
      \/ body = Evidence!Unfiltered(Bared(reply.items))
      \/ body = Evidence!Report(reply.items)
  <2>1. CASE reply.kind = "nokey"
    BY <2>1 DEF Evidence!AlphaVantageRequest
  <2>2. CASE reply.kind = "throttled"
    BY <2>2 DEF Evidence!AlphaVantageRequest
  <2>3. CASE reply.kind = "down"
    BY <2>3 DEF Evidence!AlphaVantageRequest
  <2>4. CASE reply.kind = "garbled"
    BY <2>4 DEF Evidence!AlphaVantageRequest, Bared
  <2>5. CASE reply.kind \notin {"nokey", "throttled", "down", "garbled"}
    BY <2>5 DEF Evidence!AlphaVantageRequest
  <2> QED
    BY <2>1, <2>2, <2>3, <2>4, <2>5
<1> HIDE DEF body
<1>3. body.items \in SUBSET Evidence!Item
  BY <1>1, <1>2 DEF Evidence!Raise, Evidence!Unfiltered, Evidence!Report, Evidence!Answer,
                    Evidence!Text
<1> QED
  BY <1>2, <1>3 DEF body

(* The requests whose answer is filtered here, and the ones passed on.      *)
LEMMA FilteredFits ==
    ASSUME NEW q, q.tool \notin Evidence!NewsTools, NEW reply \in Evidence!Reply,
           NEW kept \in SUBSET Evidence!Item, \A item \in kept : Fits(q, item),
           NEW r,
           LET body == Evidence!AlphaVantageRequest(reply)
           IN  \/ body.verdict = "answer" /\ r = Evidence!Report(kept)
               \/ body.verdict # "answer" /\ r = body
               \/ r = Evidence!Text
    PROVE  r \in Answers(q)
<1> DEFINE body == Evidence!AlphaVantageRequest(reply)
<1>1. /\ \/ \E error \in {"not_configured", "rate_limit", "error"} : body = Evidence!Raise(error)
         \/ body = Evidence!Unfiltered(Bared(reply.items))
         \/ body = Evidence!Report(reply.items)
      /\ reply.items \in SUBSET Evidence!Item /\ Bared(reply.items) \in SUBSET Evidence!Item
  BY RequestFits, ItemFacts, BaredFits
<1>3. CASE r = Evidence!Report(kept) \/ r = Evidence!Text
  BY <1>3, Plain
<1>4. CASE body.verdict # "answer" /\ r = body
  <2>1. CASE body = Evidence!Report(reply.items)
    <3>1. body = Evidence!Text
      BY <1>4, <2>1 DEF Evidence!Report, Evidence!Answer
    <3> QED
      BY <1>4, <3>1, Plain
  <2>2. CASE body = Evidence!Unfiltered(Bared(reply.items))
    BY <1>1, <1>4, <2>2, Plain
  <2>3. CASE \E error \in {"not_configured", "rate_limit", "error"} : body = Evidence!Raise(error)
    BY <1>4, <2>3, Plain
  <2> QED
    BY <1>1, <2>1, <2>2, <2>3
<1> QED
  BY <1>3, <1>4

\* An answer of the client is the report of its own items.
LEMMA AnswerIsReport ==
    ASSUME NEW body, NEW items, NEW raw,
           \/ \E error \in {"not_configured", "rate_limit", "error"} : body = Evidence!Raise(error)
           \/ body = Evidence!Unfiltered(raw)
           \/ body = Evidence!Report(items),
           body.verdict = "answer"
    PROVE  body = Evidence!Report(body.items)
<1>1. /\ body # Evidence!Unfiltered(raw)
      /\ \A error \in {"not_configured", "rate_limit", "error"} : body # Evidence!Raise(error)
  BY DEF Evidence!Raise, Evidence!Unfiltered
<1>2. body = Evidence!Report(items) /\ body # Evidence!Text
  BY <1>1 DEF Evidence!Text
<1>3. body = Evidence!Answer(items) /\ items # {}
  BY <1>2 DEF Evidence!Report
<1>4. body.items = items
  BY <1>3 DEF Evidence!Answer
<1> QED
  BY <1>2, <1>4

LEMMA AlphaVantageFits ==
    ASSUME NEW q \in Evidence!Request, "alpha_vantage" \in VendorsOf(q.tool),
           q.tool \in Evidence!RoutedTools, NEW reply \in VendorReplies["alpha_vantage"]
    PROVE  Evidence!AlphaVantage(q, reply) \in Answers(q)
<1>1. /\ q.asof \in Int /\ q.first \in Int
      /\ reply \in Evidence!Reply /\ reply.items \in SUBSET Evidence!Item
      /\ \A item \in reply.items : item.day \in Int
  BY RequestFacts, ItemFacts, Bounds DEF Evidence!Vendors
<1> DEFINE body == Evidence!AlphaVantageRequest(reply)
           rows == {row \in body.items : q.first <= row.day /\ row.day <= q.asof}
<1>2. /\ rows \in SUBSET Evidence!Item
      /\ q.tool \notin Evidence!NewsTools => \A item \in rows : Fits(q, item)
  BY RequestFits, <1>1 DEF Fits
<1>3. CASE q.tool = "get_stock_data"
  <2>1. Evidence!AlphaVantage(q, reply) = IF body.verdict = "answer" THEN Evidence!Report(rows) ELSE body
    BY <1>3 DEF Evidence!AlphaVantage, Evidence!AlphaVantagePrices, Evidence!NewsTools
  <2>2. q.tool \notin Evidence!NewsTools
    BY <1>3 DEF Evidence!NewsTools
  <2> HIDE DEF rows
  <2> QED
    BY <1>1, <1>2, <2>1, <2>2, FilteredFits
<1>4. CASE q.tool = "get_indicators"
  <2>1. Evidence!AlphaVantage(q, reply) =
          IF body.verdict = "not_configured" THEN body
          ELSE IF body.verdict # "answer" THEN Evidence!Text ELSE Evidence!Report(rows)
    BY <1>4 DEF Evidence!AlphaVantage, Evidence!AlphaVantageIndicators, Evidence!NewsTools
  <2>2. q.tool \notin Evidence!NewsTools
    BY <1>4 DEF Evidence!NewsTools
  <2> HIDE DEF rows
  <2> QED
    BY <1>1, <1>2, <2>1, <2>2, FilteredFits
<1>5. CASE q.tool = "get_statements"
  <2> DEFINE dated == {report \in body.items : report.blank \/ report.day <= q.asof}
             reports == IF q.dated THEN dated ELSE body.items
  <2>1. Evidence!AlphaVantage(q, reply) =
          IF body.verdict = "answer" /\ q.dated THEN Evidence!Report(dated) ELSE body
    BY <1>5 DEF Evidence!AlphaVantage, Evidence!AlphaVantageStatements, Evidence!NewsTools
  <2>2. reports \in SUBSET Evidence!Item /\ \A item \in reports : Fits(q, item)
    BY RequestFits, <1>1, <1>5 DEF Fits, Evidence!NewsTools
  <2>3. q.tool \notin Evidence!NewsTools
    BY <1>5 DEF Evidence!NewsTools
  <2>4. body.verdict = "answer" => body = Evidence!Report(body.items)
    <3>1. \/ \E error \in {"not_configured", "rate_limit", "error"} : body = Evidence!Raise(error)
          \/ body = Evidence!Unfiltered(Bared(reply.items))
          \/ body = Evidence!Report(reply.items)
      BY <1>1, RequestFits
    <3> HIDE DEF body
    <3> QED
      BY <3>1, AnswerIsReport
  <2>5. LET r == Evidence!AlphaVantage(q, reply)
        IN  \/ body.verdict = "answer" /\ r = Evidence!Report(reports)
            \/ body.verdict # "answer" /\ r = body
    BY <2>1, <2>4
  <2> HIDE DEF reports
  <2> QED
    BY <1>1, <2>2, <2>3, <2>5, FilteredFits
<1>6. CASE q.tool \in {"get_fundamentals", "get_insider_transactions"}
  <2>1. q.tool \notin Evidence!Windowed
    BY <1>6 DEF Evidence!Windowed
  <2>2. Evidence!AlphaVantage(q, reply) = body
    BY <1>6 DEF Evidence!AlphaVantage, Evidence!AlphaVantageFundamentals,
                Evidence!AlphaVantageInsider, Evidence!NewsTools
  <2>3. q.tool \notin Evidence!NewsTools
    BY <1>6 DEF Evidence!NewsTools
  <2>4. \/ \E error \in {"not_configured", "rate_limit", "error"} : body = Evidence!Raise(error)
        \/ body = Evidence!Unfiltered(Bared(reply.items))
        \/ body = Evidence!Report(reply.items)
    BY <1>1, RequestFits
  <2>5. Bared(reply.items) \in SUBSET Evidence!Item
    BY <1>1, BaredFits
  <2> HIDE DEF body
  <2> QED
    BY <1>1, <2>1, <2>2, <2>3, <2>4, <2>5, Plain
<1>7. CASE q.tool \in {"get_news", "get_global_news"}
  <2> DEFINE cut == {a \in reply.items : ~a.blank /\ q.first <= a.day /\ a.day < q.asof}
  <2>1. Evidence!AlphaVantage(q, reply) = Evidence!AlphaVantageRequest([reply EXCEPT !.items = cut])
    BY <1>7 DEF Evidence!AlphaVantage, Evidence!AlphaVantageNews, Evidence!NewsTools
  <2>2. cut \in SUBSET Evidence!Item /\ \A item \in cut : Fits(q, item)
    BY <1>1 DEF Fits
  <2> HIDE DEF cut
  <2>3. PICK cutoff : cutoff = [reply EXCEPT !.items = cut]
    OBVIOUS
  <2>4. cutoff \in Evidence!Reply /\ cutoff.items = cut
    BY <1>1, <2>2, <2>3 DEF Evidence!Reply
  <2>5. \/ \E error \in {"not_configured", "rate_limit", "error"} :
             Evidence!AlphaVantage(q, reply) = Evidence!Raise(error)
        \/ Evidence!AlphaVantage(q, reply) = Evidence!Unfiltered(Bared(cut))
        \/ Evidence!AlphaVantage(q, reply) = Evidence!Report(cut)
    BY <2>1, <2>3, <2>4, RequestFits
  <2>6. Bared(cut) \in SUBSET Evidence!Item /\ \A item \in Bared(cut) : Fits(q, item)
    BY <2>2, BaredFits
  <2> QED
    BY <2>2, <2>5, <2>6, Plain
<1> QED
  BY <1>3, <1>4, <1>5, <1>6, <1>7, MethodFacts

LEMMA FredFits ==
    ASSUME NEW q \in Evidence!Request, q.tool = "get_macro_indicators",
           NEW reply \in Evidence!Reply, NEW known \in BOOLEAN
    PROVE  Evidence!FredMacro(q, reply, known) \in Answers(q)
<1> DEFINE kept == {o \in Evidence!FredRequest(reply).items : q.first <= o.day /\ o.day <= q.asof /\ ~o.blank}
<1>1. kept \in SUBSET Evidence!Item /\ \A item \in kept : Fits(q, item)
  BY ItemFacts DEF Evidence!FredRequest, Evidence!Raise, Evidence!Answer, Fits, Evidence!NewsTools
<1>2. \/ Evidence!FredMacro(q, reply, known) = Evidence!Text
      \/ Evidence!FredMacro(q, reply, known) = Evidence!Report(kept)
      \/ Evidence!FredMacro(q, reply, known) = Evidence!Raise("not_configured")
      \/ Evidence!FredMacro(q, reply, known) = Evidence!Raise("error")
  BY DEF Evidence!FredMacro, Evidence!FredRequest, Evidence!Answer
<1> HIDE DEF kept
<1> QED
  BY <1>1, <1>2, Plain

LEMMA PolymarketFits ==
    ASSUME NEW q \in Evidence!Request, q.tool = "get_prediction_markets", NEW reply \in Evidence!Reply
    PROVE  Evidence!PolymarketOdds(q, reply) \in Answers(q)
<1>1. q.tool \notin Evidence!Windowed /\ reply.items \in SUBSET Evidence!Item
  BY ItemFacts DEF Evidence!Windowed
<1> QED
  BY <1>1, Plain DEF Evidence!PolymarketOdds

(* Whatever a vendor of the tool does, its result fits the call.            *)
LEMMA ResultsFit ==
    ASSUME NEW q \in Evidence!Request, q.tool \in Evidence!RoutedTools,
           NEW v \in VendorsOf(q.tool), v # "china",
           NEW r \in Evidence!Results(v, q)
    PROVE  r \in Answers(q)
<1>1. v \in {"yfinance", "alpha_vantage", "fred", "polymarket"}
  BY MethodFacts
<1>2. PICK reply \in VendorReplies[v], again \in VendorReplies[v] :
        r = CASE v = "yfinance" -> Evidence!Yahoo(q, reply, again)
              [] v = "alpha_vantage" -> Evidence!AlphaVantage(q, reply)
              [] v = "fred" -> Evidence!FredMacro(q, reply, again.kind = "payload")
              [] OTHER -> Evidence!PolymarketOdds(q, reply)
  BY DEF Evidence!Results
<1>3. reply \in Evidence!Reply /\ again \in Evidence!Reply
  BY <1>1, Bounds DEF Evidence!Vendors
<1>4. CASE v = "yfinance"
  BY <1>2, <1>3, <1>4, YahooFits
<1>5. CASE v = "alpha_vantage"
  BY <1>2, <1>5, AlphaVantageFits
<1>6. CASE v = "fred"
  <2>1. q.tool = "get_macro_indicators"
    BY <1>6, MethodFacts
  <2> QED
    BY <1>2, <1>3, <1>6, <2>1, FredFits
<1>7. CASE v = "polymarket"
  <2>1. q.tool = "get_prediction_markets"
    BY <1>7, MethodFacts
  <2> QED
    BY <1>2, <1>3, <1>7, <2>1, PolymarketFits
<1> QED
  BY <1>1, <1>4, <1>5, <1>6, <1>7

-----------------------------------------------------------------------------
(* Domestic news and what is kept of them. A block is kept under the days   *)
(* it was made for, so whoever is given it asked about those days.          *)

FitBlocks(q) ==
    {b \in Evidence!Block : \A item \in b.items : ~item.blank /\ q.first <= item.day /\ item.day <= q.asof}

Keys == {Evidence!Key(q) : q \in Evidence!Request}

Entries ==
    {e \in [key : Keys, block : Evidence!Block] :
        \E q \in Evidence!Request : e.key = Evidence!Key(q) /\ e.block \in FitBlocks(q)}

LEMMA SourceItems ==
    ASSUME NEW feed \in Feeds, NEW name \in Evidence!Sources, NEW rendered \in BOOLEAN
    PROVE  /\ Evidence!Source(feed, name, rendered).items \subseteq Evidence!Item
           /\ Evidence!Source(feed, name, rendered).lost \in BOOLEAN
<1>1. /\ \A i \in DOMAIN feed.pages[name] : feed.pages[name][i].items \subseteq Evidence!Item
      /\ feed.browser[name].items \subseteq Evidence!Item
  BY EvidenceBounds DEF Evidence!Bounds, Evidence!ReplyBounds
<1> DEFINE direct == Evidence!PagesRead(feed.pages[name])
<1>2. direct.items \subseteq Evidence!Item /\ direct.lost \in BOOLEAN
  BY <1>1 DEF Evidence!PagesRead
<1> HIDE DEF direct
<1> QED
  BY <1>1, <1>2 DEF Evidence!Source, direct

LEMMA ReportFits ==
    ASSUME NEW q \in Evidence!Request, NEW sources,
           \A source \in sources : source.items \subseteq Evidence!Item
    PROVE  Evidence!DomesticReport(q, sources) \in FitBlocks(q)
<1>1. q.first \in Int /\ q.asof \in Int /\ \A item \in Evidence!Item : item.day \in Int
  BY RequestFacts, ItemFacts
<1> DEFINE all == UNION {source.items : source \in sources}
<1>2. all \subseteq Evidence!Item
  OBVIOUS
<1> HIDE DEF all
<1>3. Evidence!RenderNews(q, all) \in SUBSET Evidence!Item
      /\ \A item \in Evidence!RenderNews(q, all) :
           ~item.blank /\ q.first <= item.day /\ item.day <= q.asof
  BY <1>1, <1>2 DEF Evidence!RenderNews
<1> DEFINE lost == \E source \in sources : source.lost
<1>4. Evidence!DomesticReport(q, sources) = [items |-> Evidence!RenderNews(q, all), lost |-> lost]
  BY DEF Evidence!DomesticReport, all
<1>5. lost \in BOOLEAN
  OBVIOUS
<1> HIDE DEF lost
<1> QED
  BY <1>3, <1>4, <1>5 DEF FitBlocks, Evidence!Block

LEMMA NewsFits ==
    ASSUME NEW q \in Evidence!Request, NEW feed \in Feeds
    PROVE  Evidence!DomesticNews(q, feed) \in FitBlocks(q)
<1>1. \A name \in Evidence!Sources, rendered \in BOOLEAN :
        Evidence!Source(feed, name, rendered).items \subseteq Evidence!Item
  BY SourceItems
<1>2. {"eastmoney", "cninfo", "sina", "wallstreetcn", "cls"} \subseteq Evidence!Sources
  BY DEF Evidence!Sources
<1>3. Evidence!DomesticCompanyNews(q, feed) \in FitBlocks(q)
  <2> DEFINE sources == {Evidence!Source(feed, "eastmoney", TRUE)} \cup
                        (IF q.mainland THEN {Evidence!Source(feed, "cninfo", FALSE)} ELSE {})
  <2>1. \A source \in sources : source.items \subseteq Evidence!Item
    BY <1>1, <1>2
  <2> HIDE DEF sources
  <2>2. Evidence!DomesticReport(q, sources) \in FitBlocks(q)
    BY <2>1, ReportFits
  <2> QED
    BY <2>2 DEF Evidence!DomesticCompanyNews, sources
<1>4. Evidence!DomesticMarketNews(q, feed) \in FitBlocks(q)
  <2> DEFINE sources == {Evidence!Source(feed, "sina", TRUE),
                         Evidence!Source(feed, "wallstreetcn", TRUE)} \cup
                        (IF BrowserFallback THEN {Evidence!Source(feed, "cls", TRUE)} ELSE {})
  <2>1. \A source \in sources : source.items \subseteq Evidence!Item
    BY <1>1, <1>2
  <2> HIDE DEF sources
  <2>2. Evidence!DomesticReport(q, sources) \in FitBlocks(q)
    BY <2>1, ReportFits
  <2> QED
    BY <2>2 DEF Evidence!DomesticMarketNews, sources
<1> QED
  BY <1>3, <1>4 DEF Evidence!DomesticNews

LEMMA KeyDays ==
    ASSUME NEW q, NEW r, Evidence!Key(q) = Evidence!Key(r)
    PROVE  q.first = r.first /\ q.asof = r.asof
<1>1. \A s : Evidence!Key(s)[2] = s.first /\ Evidence!Key(s)[3] = s.asof
  BY DEF Evidence!Key
<1> QED
  BY <1>1

(* Whatever the sources or the cache give for a call fits it, and goes into *)
(* the cache as something that does.                                        *)
LEMMA DomesticFits ==
    ASSUME NEW q \in Evidence!Request, cache \in Seq(Entries),
           NEW b, b \in Evidence!Blocks(q), Evidence!Domestic(q, b)
    PROVE  b \in FitBlocks(q) /\ cache' \in Seq(Entries)
<1>1. \A c \in Evidence!Cached(q) : c \in FitBlocks(q)
  <2> SUFFICES ASSUME NEW i \in DOMAIN cache, cache[i].key = Evidence!Key(q)
               PROVE  cache[i].block \in FitBlocks(q)
    BY DEF Evidence!Cached
  <2>1. cache[i] \in Entries
    OBVIOUS
  <2>2. PICK r \in Evidence!Request : cache[i].key = Evidence!Key(r) /\ cache[i].block \in FitBlocks(r)
    BY <2>1 DEF Entries
  <2>3. q.first = r.first /\ q.asof = r.asof
    BY <2>2, KeyDays
  <2> QED
    BY <2>2, <2>3 DEF FitBlocks
<1>2. b \in FitBlocks(q)
  BY <1>1, NewsFits DEF Evidence!Blocks
<1>3. CASE UNCHANGED cache
  BY <1>2, <1>3
<1>4. CASE cache' = Evidence!Kept(Evidence!Key(q), b)
  <2> DEFINE entry == [key |-> Evidence!Key(q), block |-> b]
             entries == Append(cache, entry)
  <2>1. entry \in Entries
    BY <1>2 DEF Entries, Keys, FitBlocks
  <2> HIDE DEF entry
  <2>2. entries \in Seq(Entries) /\ entries # <<>>
    <3>1. \A t \in Seq(Entries) : \A e \in Entries :
            Append(t, e) \in Seq(Entries) /\ Len(Append(t, e)) = Len(t) + 1
      OBVIOUS
    <3>2. entries \in Seq(Entries) /\ Len(entries) = Len(cache) + 1
      BY <2>1, <3>1
    <3>3. Len(cache) \in Nat
      OBVIOUS
    <3> QED
      BY <3>2, <3>3
  <2> HIDE DEF entries
  <2>3. Tail(entries) \in Seq(Entries)
    BY <2>2
  <2>4. cache' = Tail(entries) \/ cache' = entries
    BY <1>4 DEF Evidence!Kept, entries, entry
  <2> QED
    BY <1>2, <2>2, <2>3, <2>4
<1> QED
  BY <1>3, <1>4 DEF Evidence!Domestic

-----------------------------------------------------------------------------
(* The invariant of a call: its types, that what it holds fits it, and that *)
(* what is noted of failures is what the log holds of them.                 *)

Call ==
    /\ call \in Evidence!Request \cup {None}
    /\ call # None =>
         IF call.tool \in Evidence!RoutedTools THEN chain \in Seq(VendorsOf(call.tool))
         ELSE chain = <<>>
    /\ log \in Seq([verdict : VendorVerdicts, items : SUBSET Evidence!Item])
    /\ outcome \in Evidence!Result \cup {None}
    /\ told \in Evidence!Result \cup {None}
    /\ cache \in Seq(Entries)

Fitting ==
    IF call = None THEN told = None
    ELSE
        /\ outcome # None => FitResult(call, outcome)
        /\ domestic # None => domestic \in FitBlocks(call)
        /\ told # None => FitResult(call, told)

Failure(r) == r.verdict \in {"not_configured", "error"}

Noting ==
    /\ \A i \in 1..Len(log) - 1 : ~Evidence!Returned(log[i])
    /\ noData <=> \E i \in 1..Len(log) : log[i].verdict = "no_data"
    /\ \/ firstError = None /\ \A i \in 1..Len(log) : ~Failure(log[i])
       \/ \E i \in 1..Len(log) :
            /\ Failure(log[i]) /\ firstError = log[i].verdict
            /\ \A j \in 1..Len(log) : Failure(log[j]) => i <= j

Concluding ==
    log # <<>> =>
        IF outcome = None THEN ~Evidence!Returned(log[Len(log)])
        ELSE \/ outcome = log[Len(log)] /\ Evidence!Returned(log[Len(log)])
             \/ ~Evidence!Returned(log[Len(log)]) /\ chain = <<>> /\ outcome = Evidence!Exhausted

CallInv == Call /\ Fitting /\ Noting /\ Concluding

LEMMA ResultTypes ==
    /\ [verdict : VendorVerdicts, items : SUBSET Evidence!Item] \subseteq Evidence!Result
    /\ \A r \in Evidence!Result : r # None
    /\ \A error \in Evidence!Verdicts : Evidence!Raise(error) \in Evidence!Result
    /\ Evidence!Text \in Evidence!Result
    /\ \A items \in SUBSET Evidence!Item : Evidence!Report(items) \in Evidence!Result
    /\ {"not_configured", "error"} \cap {None} = {}
BY Bounds DEF Evidence!Result, VendorVerdicts, Evidence!Verdicts, Evidence!Raise, Evidence!Text,
              Evidence!Report, Evidence!Answer

LEMMA EmptyFits ==
    ASSUME NEW q, NEW r, r.items = {}
    PROVE  FitResult(q, r)
BY DEF FitResult

LEMMA InitCall == Evidence!Init => CallInv
BY ResultTypes
   DEF Evidence!Init, CallInv, Call, Fitting, Noting, Concluding

(* A call begins with an empty log.                                         *)
LEMMA AskCall ==
    ASSUME CallInv, NEW q \in Evidence!Request, NEW configured \in Chains, Evidence!Ask(q, configured)
    PROVE  CallInv'
<1>1. /\ call' = q /\ told' = None /\ domestic' = None /\ log' = <<>> /\ noData' = FALSE
      /\ firstError' = None /\ cache' = cache
  BY DEF Evidence!Ask
<1>2. /\ outcome' \in Evidence!Result \cup {None}
      /\ outcome' # None => outcome'.items = {}
      /\ IF q.tool \in Evidence!RoutedTools THEN chain' \in Seq(VendorsOf(q.tool)) ELSE chain' = <<>>
  <2>1. CASE Evidence!DomesticOnly(q)
    <3>1. chain' = <<>> /\ outcome' = Evidence!Text
      BY <2>1 DEF Evidence!Ask
    <3>2. chain' \in Seq(VendorsOf(q.tool))
      BY <3>1
    <3> QED
      BY <3>1, <3>2, ResultTypes DEF Evidence!Text
  <2>2. CASE ~Evidence!DomesticOnly(q)
    <3>1. /\ chain' = Evidence!VendorChain(q.tool, configured)
          /\ outcome' = IF chain' = <<>> THEN Evidence!Raise("no_vendor") ELSE None
      BY <2>2 DEF Evidence!Ask
    <3>2. q.tool \in Evidence!RoutedTools
      BY <2>2 DEF Evidence!DomesticOnly, Evidence!Request, Evidence!Tools
    <3>3. chain' \in Seq(VendorsOf(q.tool))
      BY <3>1, <3>2, EvidenceBounds DEF Evidence!Bounds, VendorsOf
    <3> QED
      BY <3>1, <3>2, <3>3, ResultTypes DEF Evidence!Raise, Evidence!Verdicts
  <2> QED
    BY <2>1, <2>2
<1>3. Call'
  BY <1>1, <1>2 DEF CallInv, Call
<1>4. Fitting'
  BY <1>1, <1>2, EmptyFits DEF Fitting
<1>5. Noting' /\ Concluding'
  BY <1>1 DEF Noting, Concluding
<1> QED
  BY <1>3, <1>4, <1>5 DEF CallInv

(* A vendor's result is taken.                                              *)
LEMMA TookCall ==
    ASSUME CallInv, call # None, outcome = None, chain # <<>>, call.tool \in Evidence!RoutedTools,
           NEW r \in Answers(call), Evidence!Took(r), cache' \in Seq(Entries),
           UNCHANGED <<enabled, call, domestic, told>>
    PROVE  CallInv'
<1> DEFINE n == Len(log)
<1>1. r \in [verdict : VendorVerdicts, items : SUBSET Evidence!Item] /\ FitResult(call, r)
      /\ r \in Evidence!Result /\ r # None
  BY ResultTypes DEF Answers
<1>2. /\ log' = Append(log, r) /\ chain' = Tail(chain)
      /\ Evidence!Returned(r) => outcome' = r /\ noData' = noData /\ firstError' = firstError
      /\ ~Evidence!Returned(r) => Evidence!Noted(r) /\ outcome' = None
  BY DEF Evidence!Took
<1>3. log \in Seq([verdict : VendorVerdicts, items : SUBSET Evidence!Item]) /\ n \in Nat
  BY DEF CallInv, Call
<1>4. /\ log' \in Seq([verdict : VendorVerdicts, items : SUBSET Evidence!Item])
      /\ Len(log') = n + 1 /\ log'[n + 1] = r
      /\ \A i \in 1..n : log'[i] = log[i]
      /\ log' # <<>>
  BY <1>1, <1>2, <1>3
<1>5. \A i \in 1..n : ~Evidence!Returned(log[i])
  <2>1. \A i \in 1..n - 1 : ~Evidence!Returned(log[i])
    BY DEF CallInv, Noting
  <2>2. n # 0 => ~Evidence!Returned(log[n])
    BY <1>3 DEF CallInv, Concluding
  <2> QED
    BY <1>3, <2>1, <2>2
<1> HIDE DEF n
<1>6. Call'
  <2>1. chain \in Seq(VendorsOf(call.tool))
    BY DEF CallInv, Call
  <2>2. Tail(chain) \in Seq(VendorsOf(call.tool))
    BY <2>1
  <2> QED
    BY <1>1, <1>2, <1>4, <2>2 DEF CallInv, Call
<1>7. Fitting'
  BY <1>1, <1>2 DEF CallInv, Fitting, FitResult, FitBlocks, Fits
<1>8. Concluding'
  BY <1>1, <1>2, <1>3, <1>4 DEF Concluding
<1>9. Noting'
  <2>1. \A i \in 1..Len(log') - 1 : ~Evidence!Returned(log'[i])
    BY <1>3, <1>4, <1>5
  <2>2. noData' <=> \E i \in 1..Len(log') : log'[i].verdict = "no_data"
    <3>1. noData <=> \E i \in 1..n : log[i].verdict = "no_data"
      BY DEF CallInv, Noting, n
    <3>2. noData' <=> noData \/ r.verdict = "no_data"
      <4>1. CASE Evidence!Returned(r)
        <5>1. r.verdict # "no_data" /\ noData' = noData
          BY <1>2, <4>1 DEF Evidence!Returned
        <5> QED
          BY <5>1
      <4>2. CASE ~Evidence!Returned(r)
        <5>1. noData' = (noData \/ r.verdict = "no_data")
          BY <1>2, <4>2 DEF Evidence!Noted
        <5> QED
          BY <5>1
      <4> QED
        BY <4>1, <4>2
    <3>3. (\E i \in 1..n + 1 : log'[i].verdict = "no_data")
            <=> (\E i \in 1..n : log[i].verdict = "no_data") \/ r.verdict = "no_data"
      BY <1>3, <1>4
    <3> QED
      BY <1>4, <3>1, <3>2, <3>3
  <2>3. \/ firstError' = None /\ \A i \in 1..Len(log') : ~Failure(log'[i])
        \/ \E i \in 1..Len(log') :
             /\ Failure(log'[i]) /\ firstError' = log'[i].verdict
             /\ \A j \in 1..Len(log') : Failure(log'[j]) => i <= j
    <3>1. \/ firstError = None /\ \A i \in 1..n : ~Failure(log[i])
          \/ \E i \in 1..n :
               /\ Failure(log[i]) /\ firstError = log[i].verdict
               /\ \A j \in 1..n : Failure(log[j]) => i <= j
      BY DEF CallInv, Noting, n
    <3>2. firstError' = IF firstError = None /\ Failure(r) THEN r.verdict ELSE firstError
      BY <1>2 DEF Evidence!Noted, Evidence!Returned, Failure
    <3>3. CASE firstError = None /\ \A i \in 1..n : ~Failure(log[i])
      BY <1>3, <1>4, <3>2, <3>3 DEF Failure
    <3>4. CASE \E i \in 1..n :
               /\ Failure(log[i]) /\ firstError = log[i].verdict
               /\ \A j \in 1..n : Failure(log[j]) => i <= j
      <4>1. PICK i \in 1..n :
               /\ Failure(log[i]) /\ firstError = log[i].verdict
               /\ \A j \in 1..n : Failure(log[j]) => i <= j
        BY <3>4
      <4>2. firstError' = firstError
        BY <3>2, <4>1, ResultTypes DEF Failure
      <4>3. i \in 1..n + 1 /\ log'[i] = log[i]
        BY <1>3, <1>4
      <4>4. \A j \in 1..n + 1 : Failure(log'[j]) => i <= j
        BY <1>3, <1>4, <4>1
      <4> QED
        BY <1>4, <4>1, <4>2, <4>3, <4>4
    <3> QED
      BY <3>1, <3>3, <3>4
  <2> QED
    BY <2>1, <2>2, <2>3 DEF Noting
<1> QED
  BY <1>6, <1>7, <1>8, <1>9 DEF CallInv

LEMMA ConsultCall == CallInv /\ Evidence!Consult => CallInv'
<1> SUFFICES ASSUME CallInv, Evidence!Consult PROVE CallInv'
  OBVIOUS
<1>1. /\ call # None /\ outcome = None /\ chain # <<>>
      /\ UNCHANGED <<enabled, call, domestic, told>>
  BY DEF Evidence!Consult
<1>2. /\ call \in Evidence!Request /\ call.tool \in Evidence!RoutedTools
      /\ chain \in Seq(VendorsOf(call.tool)) /\ cache \in Seq(Entries)
  BY <1>1 DEF CallInv, Call
<1>3. Head(chain) \in VendorsOf(call.tool)
  BY <1>1, <1>2
<1>4. CASE Head(chain) = "china"
  <2>1. PICK block \in Evidence!Blocks(call) :
          Evidence!Domestic(call, block) /\ Evidence!Took(Evidence!Report(block.items))
    BY <1>4 DEF Evidence!Consult
  <2>2. block \in FitBlocks(call) /\ cache' \in Seq(Entries)
    BY <1>2, <2>1, DomesticFits
  <2>3. block.items \in SUBSET Evidence!Item /\ \A item \in block.items : Fits(call, item)
    BY <2>2 DEF FitBlocks, Evidence!Block, Fits
  <2>4. Evidence!Report(block.items) \in Answers(call)
    BY <2>3, Plain
  <2>5. PICK r : r = Evidence!Report(block.items)
    OBVIOUS
  <2>6. r \in Answers(call) /\ Evidence!Took(r)
    BY <2>1, <2>4, <2>5
  <2> QED
    BY <1>1, <1>2, <2>2, <2>6, TookCall
<1>5. CASE Head(chain) # "china"
  <2>1. PICK r \in Evidence!Results(Head(chain), call) : Evidence!Took(r)
    BY <1>5 DEF Evidence!Consult
  <2>2. UNCHANGED cache
    BY <1>5 DEF Evidence!Consult
  <2>3. r \in Answers(call)
    BY <1>2, <1>3, <1>5, <2>1, ResultsFit
  <2> QED
    BY <1>1, <1>2, <2>1, <2>2, <2>3, TookCall
<1> QED
  BY <1>4, <1>5

LEMMA ConcludeCall == CallInv /\ Evidence!Conclude => CallInv'
<1> SUFFICES ASSUME CallInv, Evidence!Conclude PROVE CallInv'
  OBVIOUS
<1>1. /\ call # None /\ outcome = None /\ chain = <<>> /\ outcome' = Evidence!Exhausted
      /\ UNCHANGED <<enabled, call, chain, log, noData, firstError, domestic, told, cache>>
  BY DEF Evidence!Conclude
<1>2. firstError = None \/ firstError \in {"not_configured", "error"}
  BY DEF CallInv, Noting, Failure
<1>3. \E error \in Evidence!Verdicts : outcome' = Evidence!Raise(error)
  BY <1>1, <1>2 DEF Evidence!Exhausted, Evidence!Verdicts
<1>4. outcome' \in Evidence!Result /\ outcome' # None /\ outcome'.items = {}
  BY <1>3, ResultTypes DEF Evidence!Raise
<1>5. Call' /\ Noting'
  BY <1>1, <1>4 DEF CallInv, Call, Noting
<1>6. Fitting'
  <2>1. FitResult(call, outcome')
    BY <1>4, EmptyFits
  <2>2. Fitting /\ FitResult(call, outcome)' = FitResult(call, outcome')
    BY <1>1 DEF CallInv, FitResult, Fits
  <2> QED
    BY <1>1, <2>1, <2>2 DEF Fitting, FitResult, FitBlocks, Fits
<1>7. Concluding'
  <2>1. Evidence!Exhausted' = Evidence!Exhausted
    BY <1>1 DEF Evidence!Exhausted
  <2> QED
    BY <1>1, <1>4, <2>1 DEF CallInv, Concluding
<1> QED
  BY <1>5, <1>6, <1>7 DEF CallInv

LEMMA SupplementCall == CallInv /\ Evidence!Supplement => CallInv'
<1> SUFFICES ASSUME CallInv, Evidence!Supplement PROVE CallInv'
  OBVIOUS
<1>1. PICK block \in Evidence!Blocks(call) : Evidence!Domestic(call, block) /\ domestic' = block
  BY DEF Evidence!Supplement
<1>2. /\ call # None
      /\ UNCHANGED <<enabled, call, chain, log, noData, firstError, outcome, told>>
  BY DEF Evidence!Supplement, Evidence!route
<1>3. block \in FitBlocks(call) /\ cache' \in Seq(Entries)
  BY <1>1, <1>2, DomesticFits DEF CallInv, Call
<1>4. Call' /\ Noting'
  BY <1>2, <1>3 DEF CallInv, Call, Noting
<1>5. Fitting'
  BY <1>1, <1>2, <1>3 DEF CallInv, Fitting, FitResult, FitBlocks, Fits
<1>6. Concluding'
  BY <1>2 DEF CallInv, Concluding, Evidence!Exhausted
<1> QED
  BY <1>4, <1>5, <1>6 DEF CallInv

LEMMA TellCall == CallInv /\ Evidence!Tell => CallInv'
<1> SUFFICES ASSUME CallInv, Evidence!Tell PROVE CallInv'
  OBVIOUS
<1>1. /\ call # None /\ outcome # None /\ told' \in Evidence!Told
      /\ Evidence!Supplemented(call) => domestic # None
      /\ UNCHANGED <<enabled, call, chain, log, noData, firstError, outcome, domestic, cache>>
  BY DEF Evidence!Tell, Evidence!route
<1>2. /\ call \in Evidence!Request /\ outcome \in Evidence!Result /\ FitResult(call, outcome)
      /\ domestic # None => domestic \in FitBlocks(call)
  BY <1>1 DEF CallInv, Call, Fitting
<1>3. told' \in Evidence!Result /\ FitResult(call, told')
  <2>1. CASE Evidence!Supplemented(call)
    <3> DEFINE added == IF Evidence!Returned(outcome) THEN outcome.items ELSE {}
               all == domestic.items \cup added
    <3>1. told' = Evidence!Report(all)
      BY <1>1, <2>1 DEF Evidence!Told
    <3>2. call.tool \in Evidence!NewsTools /\ call.tool \in Evidence!Windowed
      BY <2>1, MethodFacts
         DEF Evidence!Supplemented, Evidence!NewsTools, Evidence!Windowed, Evidence!Tools
    <3>3. domestic.items \subseteq Evidence!Item /\ \A item \in domestic.items : Fits(call, item)
      BY <1>1, <1>2, <2>1 DEF FitBlocks, Evidence!Block, Fits
    <3>4. added \subseteq Evidence!Item /\ \A item \in added : Fits(call, item)
      BY <1>2, <3>2 DEF Evidence!Result, FitResult
    <3>5. all \in SUBSET Evidence!Item /\ \A item \in all : Fits(call, item)
      BY <3>3, <3>4
    <3> HIDE DEF all
    <3>6. Evidence!Report(all) \in Answers(call)
      BY <3>5, Plain
    <3> QED
      BY <3>1, <3>6, ResultTypes DEF Answers
  <2>2. CASE ~Evidence!Supplemented(call)
    <3>1. told' = Evidence!Text \/ told' = outcome
      BY <1>1, <2>2 DEF Evidence!Told
    <3>2. Evidence!Text \in Evidence!Result /\ Evidence!Text.items = {}
      BY ResultTypes DEF Evidence!Text
    <3> QED
      BY <1>2, <3>1, <3>2, EmptyFits
  <2> QED
    BY <2>1, <2>2
<1>4. Call' /\ Noting'
  BY <1>1, <1>3 DEF CallInv, Call, Noting
<1>5. Fitting'
  BY <1>1, <1>3 DEF CallInv, Fitting, FitResult, FitBlocks, Fits
<1>6. Concluding'
  BY <1>1 DEF CallInv, Concluding, Evidence!Exhausted
<1> QED
  BY <1>4, <1>5, <1>6 DEF CallInv

LEMMA ExpireCall == CallInv /\ Evidence!Expire => CallInv'
<1> SUFFICES ASSUME CallInv, Evidence!Expire PROVE CallInv'
  OBVIOUS
<1>1. PICK i \in DOMAIN cache : cache' = Evidence!RemoveAt(cache, i)
  BY DEF Evidence!Expire
<1>2. UNCHANGED <<enabled, call, chain, log, noData, firstError, outcome, domestic, told>>
  BY DEF Evidence!Expire, Evidence!route
<1>3. cache' \in Seq(Entries)
  <2>1. cache \in Seq(Entries) /\ i \in 1..Len(cache) /\ Len(cache) \in Nat
    BY DEF CallInv, Call
  <2>2. SubSeq(cache, 1, i - 1) \in Seq(Entries) /\ SubSeq(cache, i + 1, Len(cache)) \in Seq(Entries)
    BY <2>1
  <2> QED
    BY <1>1, <2>2 DEF Evidence!RemoveAt
<1>4. Call' /\ Noting'
  BY <1>2, <1>3 DEF CallInv, Call, Noting
<1>5. Fitting'
  BY <1>2 DEF CallInv, Fitting, FitResult, FitBlocks, Fits
<1>6. Concluding'
  BY <1>2 DEF CallInv, Concluding, Evidence!Exhausted
<1> QED
  BY <1>4, <1>5, <1>6 DEF CallInv

LEMMA RoutingCall == CallInv /\ Evidence!Routing => CallInv'
BY ConsultCall, ConcludeCall, SupplementCall, TellCall, ExpireCall DEF Evidence!Routing

LEMMA SameCall ==
    CallInv /\ UNCHANGED <<enabled, call, chain, log, noData, firstError, outcome, domestic, told, cache>>
        => CallInv'
BY DEF CallInv, Call, Fitting, Noting, Concluding, FitResult, FitBlocks, Fits, Evidence!Exhausted

LEMMA ForgetCall == CallInv /\ Evidence!Done => CallInv'
BY DEF CallInv, Call, Fitting, Noting, Concluding, Evidence!Done

-----------------------------------------------------------------------------
(* The sentiment analyst: while it reads, the call under way is the one for *)
(* its window, and no narrower window held anything that is recognised.     *)

DatedPosts == {post \in social : ~post.blank}

Records(items) == {article \in items : article.linked}

Collected ==
    /\ about \in Evidence!Subject
    /\ \A post \in social : post.day <= about.asof \/ (post.blank /\ about.asof = Today)
    /\ window \in 1..Len(Evidence!Windows)
    /\ tried \in Seq(SUBSET Evidence!Item)
    /\ \A w \in 1..window - 1 : Records(tried[w]) = {} /\ DatedPosts = {}

Reading == Collected /\ call = Evidence!NewsOf(about, window) /\ Len(tried) = window - 1

Judged ==
    /\ Collected
    /\ Len(tried) = window
    /\ phase = "abstained" <=> DatedPosts = {} /\ Records(tried[window]) = {}
    /\ phase = "abstained" => window = Len(Evidence!Windows)
    /\ \A item \in tried[window] : Fits(Evidence!NewsOf(about, window), item)

AnalystInv ==
    /\ phase = "reading" => Reading
    /\ phase \in {"analysed", "abstained"} => Judged

EvidenceInv == CallInv /\ AnalystInv

LEMMA NewsRequest ==
    ASSUME NEW s \in Evidence!Subject, NEW w \in 1..Len(Evidence!Windows),
           NEW q, q = Evidence!NewsOf(s, w)
    PROVE  /\ q \in Evidence!Request /\ q.tool = "get_news"
           /\ q.dated /\ q.asof = s.asof /\ q.first = s.asof - Evidence!Windows[w]
<1>1. Evidence!Windows[w] \in Nat
  BY Bounds
<1>2. s.asof \in AsofDays /\ s.asof \in Int /\ s.mainland \in BOOLEAN
  BY Bounds DEF Evidence!Subject
<1>3. s.asof - Evidence!Windows[w] \in Int
  BY <1>1, <1>2
<1>4. "get_news" \in Evidence!Tools
  BY MethodFacts DEF Evidence!Tools
<1> QED
  BY <1>2, <1>3, <1>4 DEF Evidence!NewsOf, Evidence!Request

(* What the news tool told the analyst fits the window that it asked for.   *)
LEMMA NewsTold ==
    ASSUME EvidenceInv, phase = "reading", told # None, Evidence!Returned(told)
    PROVE  /\ told.items \in SUBSET Evidence!Item
           /\ \A item \in told.items : Fits(call, item)
<1>1. call \in Evidence!Request /\ call.tool = "get_news"
  BY NewsRequest DEF EvidenceInv, AnalystInv, Reading, Collected
<1>2. call # None
  BY <1>1, Bounds
<1>3. FitResult(call, told) /\ told \in Evidence!Result
  BY <1>2 DEF EvidenceInv, CallInv, Call, Fitting
<1>4. call.tool \in Evidence!NewsTools /\ call.tool \in Evidence!Windowed
  BY <1>1, MethodFacts DEF Evidence!NewsTools, Evidence!Windowed, Evidence!Tools
<1> QED
  BY <1>3, <1>4 DEF FitResult, Evidence!Result

LEMMA InitEvidence == MCInit => EvidenceInv
BY InitCall DEF MCInit, Evidence!Start, EvidenceInv, AnalystInv

LEMMA ToolCallInv == EvidenceInv /\ Evidence!ToolCall => EvidenceInv'
<1> SUFFICES ASSUME EvidenceInv, Evidence!ToolCall PROVE EvidenceInv'
  OBVIOUS
<1>1. PICK tool \in Evidence!Tools, asof \in AsofDays, span \in Spans, own \in Chains \cup {None},
           ofCategory \in Chains, mainland \in BOOLEAN, dated \in BOOLEAN :
        Evidence!Ask([tool |-> tool, first |-> asof - span, asof |-> asof, dated |-> dated,
                      mainland |-> mainland],
                     Evidence!Configured(own, ofCategory))
  BY DEF Evidence!ToolCall
<1>2. Evidence!Configured(own, ofCategory) \in Chains
  BY DEF Evidence!Configured
<1>3. PICK configured \in Chains : configured = Evidence!Configured(own, ofCategory)
  BY <1>2
<1>4. PICK q : q = [tool |-> tool, first |-> asof - span, asof |-> asof, dated |-> dated,
                    mainland |-> mainland]
  OBVIOUS
<1>5. q \in Evidence!Request
  <2>1. asof \in Int /\ span \in Int
    BY Bounds, EvidenceBounds DEF Evidence!Bounds
  <2> QED
    BY <1>4, <2>1 DEF Evidence!Request
<1>6. Evidence!Ask(q, configured)
  BY <1>1, <1>3, <1>4
<1>7. CallInv'
  BY <1>5, <1>6, AskCall DEF EvidenceInv
<1>8. phase' = "idle"
  BY DEF Evidence!ToolCall, Evidence!analyst
<1> QED
  BY <1>7, <1>8 DEF EvidenceInv, AnalystInv

LEMMA CollectInv ==
    ASSUME EvidenceInv, NEW s \in Evidence!Subject, Evidence!Collect(s)
    PROVE  EvidenceInv'
<1>1. /\ phase' = "reading" /\ about' = s /\ window' = 1 /\ tried' = <<>>
  BY DEF Evidence!Collect
<1>2. PICK configured \in Chains : Evidence!Ask(Evidence!NewsOf(s, 1), configured)
  BY DEF Evidence!Collect
<1>3. PICK q : q = Evidence!NewsOf(s, 1)
  OBVIOUS
<1>4. 1 \in 1..Len(Evidence!Windows)
  BY Bounds
<1>5. q \in Evidence!Request
  BY <1>3, <1>4, NewsRequest
<1>6. CallInv' /\ call' = q
  BY <1>2, <1>3, <1>5, AskCall DEF EvidenceInv, Evidence!Ask
<1>7. \A post \in social' : post.day <= s.asof \/ (post.blank /\ s.asof = Today)
  <2>1. s.asof \in Int /\ s.asof <= Today /\ Today \in Int
    BY Bounds DEF Evidence!Subject
  <2>2. ASSUME NEW reply \in Posts,
               NEW post \in Evidence!SocialPosts(s.asof - Primary, s.asof, reply)
        PROVE  post.day <= s.asof \/ (post.blank /\ s.asof = Today)
    <3>1. reply \in Evidence!Reply
      BY EvidenceBounds DEF Evidence!Bounds
    <3>2. post \in Evidence!Item /\ Evidence!InWindow(post, s.asof - Primary, s.asof)
      BY <3>1, ItemFacts DEF Evidence!SocialPosts
    <3> QED
      BY <2>1, <3>2, ItemFacts DEF Evidence!InWindow
  <2>3. CASE social' = {}
    BY <2>3
  <2>4. CASE social' # {}
    <3>1. PICK stocktwits \in Posts, reddit \in Posts :
            social' = Evidence!SocialPosts(s.asof - Primary, s.asof, stocktwits)
                      \cup Evidence!SocialPosts(s.asof - Primary, s.asof, reddit)
      BY <2>4 DEF Evidence!Collect
    <3> QED
      BY <2>2, <3>1
  <2> QED
    BY <2>3, <2>4
<1>8. Reading'
  <2>1. Evidence!NewsOf(about, window)' = Evidence!NewsOf(s, 1)
    BY <1>1 DEF Evidence!NewsOf
  <2>2. /\ tried' \in Seq(SUBSET Evidence!Item) /\ Len(tried') = window' - 1
        /\ window' \in 1..Len(Evidence!Windows)
    BY <1>1, <1>4
  <2> QED
    BY <1>1, <1>3, <1>6, <1>7, <2>1, <2>2 DEF Reading, Collected, DatedPosts
<1> QED
  BY <1>1, <1>6, <1>8 DEF EvidenceInv, AnalystInv

LEMMA WidenInv == EvidenceInv /\ Evidence!Widen => EvidenceInv'
<1> SUFFICES ASSUME EvidenceInv, Evidence!Widen PROVE EvidenceInv'
  OBVIOUS
<1>1. /\ phase = "reading" /\ told # None /\ Evidence!Returned(told)
      /\ ~Evidence!HasEvidence(told.items, social)
      /\ window < Len(Evidence!Windows) /\ window' = window + 1
      /\ tried' = Append(tried, told.items)
      /\ UNCHANGED <<phase, about, social>>
  BY DEF Evidence!Widen
<1>2. Records(told.items) = {} /\ DatedPosts = {} /\ told.items \in SUBSET Evidence!Item
  BY <1>1, NewsTold DEF Evidence!HasEvidence, DatedPosts, Records
<1>3. /\ Collected /\ Len(tried) = window - 1 /\ window \in Nat \ {0}
      /\ about \in Evidence!Subject /\ tried \in Seq(SUBSET Evidence!Item)
      /\ window + 1 \in 1..Len(Evidence!Windows)
  BY <1>1, Bounds DEF EvidenceInv, AnalystInv, Reading, Collected
<1>4. PICK configured \in Chains : Evidence!Ask(Evidence!NewsOf(about, window + 1), configured)
  BY DEF Evidence!Widen
<1>5. PICK q : q = Evidence!NewsOf(about, window + 1)
  OBVIOUS
<1>6. CallInv' /\ call' = q
  BY <1>3, <1>4, <1>5, AskCall, NewsRequest DEF EvidenceInv, Evidence!Ask
<1>7. /\ tried' \in Seq(SUBSET Evidence!Item) /\ Len(tried') = window
      /\ tried'[window] = told.items /\ \A w \in 1..window - 1 : tried'[w] = tried[w]
  BY <1>1, <1>2, <1>3
<1>8. Reading'
  <2>1. Evidence!NewsOf(about, window)' = Evidence!NewsOf(about, window + 1)
    BY <1>1 DEF Evidence!NewsOf
  <2>2. \A w \in 1..window' - 1 : Records(tried'[w]) = {} /\ DatedPosts = {}
    BY <1>1, <1>2, <1>3, <1>7 DEF Collected
  <2> QED
    BY <1>1, <1>3, <1>5, <1>6, <1>7, <2>1, <2>2 DEF Reading, Collected, DatedPosts
<1> QED
  BY <1>1, <1>6, <1>8 DEF EvidenceInv, AnalystInv

LEMMA JudgeInv == EvidenceInv /\ Evidence!Judge => EvidenceInv'
<1> SUFFICES ASSUME EvidenceInv, Evidence!Judge PROVE EvidenceInv'
  OBVIOUS
<1>1. /\ phase = "reading" /\ told # None /\ Evidence!Returned(told)
      /\ Evidence!HasEvidence(told.items, social) \/ window = Len(Evidence!Windows)
      /\ phase' = IF Evidence!HasEvidence(told.items, social) THEN "analysed" ELSE "abstained"
      /\ tried' = Append(tried, told.items)
      /\ UNCHANGED <<enabled, call, chain, log, noData, firstError, outcome, domestic, told, cache,
                     about, window, social>>
  BY DEF Evidence!Judge, Evidence!vars, Evidence!route
<1>2. Evidence!HasEvidence(told.items, social) <=> ~(DatedPosts = {} /\ Records(told.items) = {})
  BY DEF Evidence!HasEvidence, DatedPosts, Records
<1>3. /\ Collected /\ Len(tried) = window - 1 /\ window \in Nat \ {0}
      /\ tried \in Seq(SUBSET Evidence!Item) /\ call = Evidence!NewsOf(about, window)
  BY <1>1, Bounds DEF EvidenceInv, AnalystInv, Reading, Collected
<1>4. told.items \in SUBSET Evidence!Item /\ \A item \in told.items : Fits(call, item)
  BY <1>1, NewsTold
<1>5. /\ tried' \in Seq(SUBSET Evidence!Item) /\ Len(tried') = window
      /\ tried'[window] = told.items /\ \A w \in 1..window - 1 : tried'[w] = tried[w]
  BY <1>1, <1>3, <1>4
<1>6. CallInv'
  BY <1>1, SameCall DEF EvidenceInv
<1>7. Judged'
  <2>1. Evidence!NewsOf(about, window)' = Evidence!NewsOf(about, window)
        /\ Evidence!Windows' = Evidence!Windows
    BY <1>1 DEF Evidence!NewsOf
  <2>2. DatedPosts' = DatedPosts
    BY <1>1 DEF DatedPosts
  <2>3. Collected'
    BY <1>1, <1>3, <1>5, <2>1, <2>2 DEF Collected
  <2>4. \A item \in tried'[window] : Fits(Evidence!NewsOf(about, window), item)
    BY <1>3, <1>4, <1>5
  <2> QED
    BY <1>1, <1>2, <1>5, <2>1, <2>2, <2>3, <2>4 DEF Judged, Fits
<1> QED
  BY <1>1, <1>6, <1>7 DEF EvidenceInv, AnalystInv

(* What leaves the analyst alone leaves its part of the invariant.          *)
LEMMA SameAnalyst ==
    ASSUME AnalystInv, UNCHANGED <<phase, about, window, social, tried>>,
           phase = "reading" => call' = call
    PROVE  AnalystInv'
<1>1. Evidence!NewsOf(about, window)' = Evidence!NewsOf(about, window)
      /\ Evidence!Windows' = Evidence!Windows
  BY DEF Evidence!NewsOf
<1>2. Collected => Collected'
  BY <1>1 DEF Collected, DatedPosts
<1>3. phase = "reading" => Reading'
  BY <1>1, <1>2 DEF AnalystInv, Reading
<1>4. Judged => Judged'
  BY <1>1, <1>2 DEF Judged, DatedPosts, Fits
<1> QED
  BY <1>3, <1>4 DEF AnalystInv

LEMMA NextEvidence == EvidenceInv /\ [MCNext]_allvars => EvidenceInv'
<1> SUFFICES ASSUME EvidenceInv, [MCNext]_allvars PROVE EvidenceInv'
  OBVIOUS
<1>1. CASE UNCHANGED evidenceVars
  <2>1. CallInv'
    BY <1>1, SameCall DEF evidenceVars, EvidenceInv
  <2>2. AnalystInv'
    BY <1>1, SameAnalyst DEF evidenceVars, EvidenceInv
  <2> QED
    BY <2>1, <2>2 DEF EvidenceInv
<1>2. CASE Evidence!ToolCall
  BY <1>2, ToolCallInv
<1>3. CASE Evidence!Done
  <2>1. CallInv'
    BY <1>3, ForgetCall DEF EvidenceInv
  <2>2. phase' = "idle"
    BY <1>3 DEF Evidence!Done
  <2> QED
    BY <2>1, <2>2 DEF EvidenceInv, AnalystInv
<1>4. CASE \E s \in Evidence!Subject : Evidence!Collect(s)
  BY <1>4, CollectInv
<1>5. CASE Evidence!Widen
  BY <1>5, WidenInv
<1>6. CASE Evidence!Judge
  BY <1>6, JudgeInv
<1>7. CASE Evidence!Broken
  <2>1. /\ phase' = "failed"
        /\ UNCHANGED <<enabled, call, chain, log, noData, firstError, outcome, domestic, told, cache>>
    BY <1>7 DEF Evidence!Broken, Evidence!vars, Evidence!route
  <2> QED
    BY <2>1, SameCall DEF EvidenceInv, AnalystInv
<1>8. CASE Evidence!Routing /\ UNCHANGED Evidence!analyst
  <2>1. CallInv'
    BY <1>8, RoutingCall DEF EvidenceInv
  <2>2. call' = call
    BY <1>8 DEF Evidence!Routing, Evidence!Consult, Evidence!Conclude, Evidence!Supplement,
                Evidence!Tell, Evidence!Expire
  <2>3. AnalystInv'
    BY <1>8, <2>2, SameAnalyst DEF EvidenceInv, Evidence!analyst
  <2> QED
    BY <2>1, <2>3 DEF EvidenceInv
<1> QED
  BY <1>1, <1>2, <1>3, <1>4, <1>5, <1>6, <1>7, <1>8 DEF MCNext, allvars, Evidence!Next

LEMMA EvidenceHolds == MCSpec => []EvidenceInv
BY InitEvidence, NextEvidence, PTL DEF MCSpec

LEMMA ElementsOf ==
    ASSUME NEW S, NEW s \in Seq(S)
    PROVE  Len(s) \in Nat /\ DOMAIN s = 1..Len(s) /\ \A i \in 1..Len(s) : s[i] \in S
OBVIOUS

LEMMA FirstOf ==
    ASSUME NEW S \in SUBSET Nat, NEW i \in S, \A j \in S : i <= j
    PROVE  Evidence!Min(S) = i
<1>1. \A x \in S : (\A y \in S : x <= y) => x = i
  OBVIOUS
<1>2. Evidence!Min(S) \in S /\ \A y \in S : Evidence!Min(S) <= y
  BY DEF Evidence!Min
<1> QED
  BY <1>1, <1>2

(* Whichever vendors are configured, in whichever order, and however each   *)
(* of them fails: the outcome is the answer of the first that returned, or  *)
(* what all of their failures amount to (route_to_vendor).                  *)
THEOREM OutcomeIsOfTheChain == MCSpec => []VerdictIsOfTheChain
<1>1. EvidenceInv => VerdictIsOfTheChain
  <2> SUFFICES ASSUME EvidenceInv, outcome # None, log # <<>>
               PROVE  LET returned == Evidence!Positions({"answer", "text", "raw"})
                          failed == Evidence!Positions({"not_configured", "error"})
                      IN  /\ returned # {} => returned = {Len(log)} /\ outcome = log[Len(log)]
                          /\ returned = {} =>
                               /\ chain = <<>>
                               /\ (outcome.verdict = "no_data") <=> (Evidence!Positions({"no_data"}) # {})
                               /\ outcome.verdict \in {"not_configured", "error"} =>
                                    /\ Evidence!Category[call.tool] \notin Evidence!OptionalCategories
                                    /\ outcome.verdict = log[Evidence!Min(failed)].verdict
                               /\ outcome.verdict = "throttled_out" <=>
                                    \A i \in DOMAIN log : log[i].verdict = "rate_limit"
    BY DEF VerdictIsOfTheChain, Evidence!VerdictIsOfTheChain
  <2> DEFINE n == Len(log)
             returned == Evidence!Positions({"answer", "text", "raw"})
             failed == Evidence!Positions({"not_configured", "error"})
  <2>1. /\ log \in Seq([verdict : VendorVerdicts, items : SUBSET Evidence!Item])
        /\ n \in Nat \ {0} /\ DOMAIN log = 1..n
        /\ \A i \in 1..n : log[i].verdict \in VendorVerdicts
    <3>1. log \in Seq([verdict : VendorVerdicts, items : SUBSET Evidence!Item])
      BY DEF EvidenceInv, CallInv, Call
    <3>2. n \in Nat /\ DOMAIN log = 1..n
          /\ \A i \in 1..n : log[i] \in [verdict : VendorVerdicts, items : SUBSET Evidence!Item]
      BY <3>1, ElementsOf
    <3>3. n # 0
      BY <3>1
    <3> QED
      BY <3>1, <3>2, <3>3
  <2>2. Noting /\ Concluding
    BY DEF EvidenceInv, CallInv
  <2>3. /\ \A i \in 1..n : i \in returned <=> Evidence!Returned(log[i])
        /\ \A i \in 1..n : i \in failed <=> Failure(log[i])
        /\ returned \subseteq 1..n /\ failed \subseteq 1..n
        /\ (Evidence!Positions({"no_data"}) # {}) <=> \E i \in 1..n : log[i].verdict = "no_data"
    BY <2>1 DEF Evidence!Positions, Evidence!Returned, Failure
  <2> HIDE DEF n, returned, failed
  <2>4. CASE outcome = log[n] /\ Evidence!Returned(log[n])
    <3>1. n \in returned /\ \A i \in 1..n - 1 : i \notin returned
      BY <2>1, <2>2, <2>3, <2>4 DEF Noting, n
    <3>2. returned = {n}
      <4>1. \A i \in 1..n : i \in 1..n - 1 \/ i = n
        BY <2>1
      <4> QED
        BY <2>3, <3>1, <4>1
    <3> QED
      BY <2>4, <3>2 DEF n, returned
  <2>5. CASE ~Evidence!Returned(log[n]) /\ chain = <<>> /\ outcome = Evidence!Exhausted
    <3>1. \A i \in 1..n : ~Evidence!Returned(log[i])
      BY <2>1, <2>2, <2>5 DEF Noting, n
    <3>2. returned = {}
      BY <2>3, <3>1
    <3>3. noData <=> \E i \in 1..n : log[i].verdict = "no_data"
      BY <2>2 DEF Noting, n
    <3>4. \/ firstError = None /\ \A i \in 1..n : ~Failure(log[i])
          \/ \E i \in 1..n :
               /\ Failure(log[i]) /\ firstError = log[i].verdict
               /\ \A j \in 1..n : Failure(log[j]) => i <= j
      BY <2>2 DEF Noting, n
    <3>5. /\ noData => outcome.verdict = "no_data"
          /\ ~noData /\ firstError = None => outcome.verdict = "throttled_out"
          /\ ~noData /\ firstError # None =>
               IF Evidence!Category[call.tool] \in Evidence!OptionalCategories
               THEN outcome.verdict = "unavailable" ELSE outcome.verdict = firstError
      BY <2>5 DEF Evidence!Exhausted, Evidence!Raise
    <3>6. firstError # None => firstError \in {"not_configured", "error"}
      BY <3>4 DEF Failure
    <3>7. (outcome.verdict = "no_data") <=> noData
      BY <3>5, <3>6
    <3>8. ASSUME outcome.verdict \in {"not_configured", "error"}
          PROVE  /\ Evidence!Category[call.tool] \notin Evidence!OptionalCategories
                 /\ outcome.verdict = log[Evidence!Min(failed)].verdict
      <4>1. ~noData /\ firstError # None
        BY <3>5, <3>8
      <4>2. /\ Evidence!Category[call.tool] \notin Evidence!OptionalCategories
            /\ outcome.verdict = firstError
        BY <3>5, <3>8, <4>1
      <4>3. PICK i \in 1..n : /\ Failure(log[i]) /\ firstError = log[i].verdict
                              /\ \A j \in 1..n : Failure(log[j]) => i <= j
        BY <3>4, <4>1
      <4>4. Evidence!Min(failed) = i
        <5>1. failed \in SUBSET Nat /\ i \in failed /\ \A j \in failed : i <= j
          BY <2>1, <2>3, <4>3
        <5> QED
          BY <5>1, FirstOf
      <4> QED
        BY <4>2, <4>3, <4>4
    <3>9. outcome.verdict = "throttled_out" <=> \A i \in 1..n : log[i].verdict = "rate_limit"
      <4>1. outcome.verdict = "throttled_out" <=> ~noData /\ firstError = None
        BY <3>5, <3>6
      <4>2. ~noData /\ firstError = None <=> \A i \in 1..n : log[i].verdict = "rate_limit"
        <5>1. \A i \in 1..n : log[i].verdict = "rate_limit" <=>
                ~Evidence!Returned(log[i]) /\ log[i].verdict # "no_data" /\ ~Failure(log[i])
          BY <2>1 DEF VendorVerdicts, Evidence!Returned, Failure
        <5>2. firstError = None <=> \A i \in 1..n : ~Failure(log[i])
          BY <3>4, ResultTypes DEF Failure
        <5> QED
          BY <3>1, <3>3, <5>1, <5>2
      <4> QED
        BY <4>1, <4>2
    <3> QED
      BY <2>1, <2>3, <2>5, <3>2, <3>3, <3>7, <3>8, <3>9 DEF returned, failed
  <2> QED
    BY <2>2, <2>4, <2>5 DEF Concluding, n
<1> QED
  BY <1>1, EvidenceHolds, PTL

(* Whatever a vendor, a fallback, a domestic source or a cached page holds, *)
(* a call that gives a past day is told nothing of the days after it; of a  *)
(* call for statements without a day nothing is said (date_window.py,       *)
(* load_ohlcv, filter_financials_by_date, china_news.py).                   *)
THEOREM ToldNothingOfTheFuture == MCSpec => []NothingFromTheFuture
<1>1. EvidenceInv => NothingFromTheFuture
  <2> SUFFICES ASSUME EvidenceInv, told # None, call.tool \in Evidence!Windowed, call.dated,
                      told.verdict = "answer", NEW item \in told.items
               PROVE  \/ item.blank /\ call.tool \in Evidence!NewsTools /\ call.asof = Today
                      \/ item.blank /\ call.tool = "get_statements"
                      \/ ~(item.blank /\ call.tool \in Evidence!NewsTools) /\ item.day <= call.asof
    BY DEF NothingFromTheFuture, Evidence!NothingFromTheFuture
  <2>1. call # None
    BY DEF EvidenceInv, CallInv, Fitting
  <2>2. FitResult(call, told)
    BY <2>1 DEF EvidenceInv, CallInv, Fitting
  <2> QED
    BY <2>2 DEF FitResult, Fits
<1> QED
  BY <1>1, EvidenceHolds, PTL

(* The analyst abstains when none of its windows held an article that can   *)
(* be recognised and no post was dated, and only then; else it works with   *)
(* the narrowest window that held one (sentiment_analyst.py:109-208).       *)
THEOREM AbstentionMeansNoEvidence == MCSpec => []AbstainsForWantOfEvidence
<1>1. EvidenceInv => AbstainsForWantOfEvidence
  <2> SUFFICES ASSUME EvidenceInv, phase \in {"analysed", "abstained"}
               PROVE  LET known == DatedPosts \cup tried[Len(tried)]
                      IN  /\ (phase = "abstained") <=>
                               (DatedPosts = {} /\ Records(tried[Len(tried)]) = {})
                          /\ phase = "abstained" => Len(tried) = Len(Evidence!Windows)
                          /\ \A w \in 1 .. Len(tried) - 1 :
                               Records(tried[w]) = {} /\ DatedPosts = {}
                          /\ \A item \in known : item.day <= about.asof \/ (item.blank /\ about.asof = Today)
                          /\ \A item \in tried[Len(tried)] :
                               item.blank \/ item.day >= about.asof - Evidence!Windows[Len(tried)]
    BY DEF AbstainsForWantOfEvidence, Evidence!AbstainsForWantOfEvidence, DatedPosts, Records
  <2>1. Judged /\ Collected
    BY DEF EvidenceInv, AnalystInv, Judged
  <2>2. Len(tried) = window
    BY <2>1 DEF Judged
  <2>3. PICK q : q = Evidence!NewsOf(about, window)
    OBVIOUS
  <2>4. /\ q.tool = "get_news" /\ q.dated /\ q.asof = about.asof
        /\ q.first = about.asof - Evidence!Windows[window] /\ q.first \in Int
    BY <2>1, <2>3, NewsRequest, RequestFacts DEF Collected
  <2>5. \A item \in tried[window] :
          /\ item.day <= about.asof \/ (item.blank /\ about.asof = Today)
          /\ item.blank \/ item.day >= q.first
    <3> SUFFICES ASSUME NEW item \in tried[window]
                 PROVE  /\ item.day <= about.asof \/ (item.blank /\ about.asof = Today)
                        /\ item.blank \/ item.day >= q.first
      OBVIOUS
    <3>1. Fits(q, item)
      BY <2>1, <2>3 DEF Judged
    <3>2. item.day \in Int
      <4>1. tried[window] \in SUBSET Evidence!Item
        BY <2>1, <2>2 DEF Collected
      <4> QED
        BY <4>1, ItemFacts
    <3> QED
      BY <2>4, <3>1, <3>2 DEF Fits, Evidence!NewsTools
  <2> QED
    BY <2>1, <2>2, <2>4, <2>5 DEF Judged, Collected, DatedPosts
<1> QED
  BY <1>1, EvidenceHolds, PTL

=============================================================================
