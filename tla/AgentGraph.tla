----------------------------- MODULE AgentGraph -----------------------------
(***************************************************************************)
(* The graph that carries out one analysis: analysts in sequence, each      *)
(* with a loop over its tools, the debate of two researchers, a plan, the   *)
(* debate of three risk analysts, the decision (graph/setup.py,             *)
(* conditional_logic.py, propagation.py and the nodes in agents/).          *)
(*                                                                          *)
(* A node is a function of the graph state. What a model answers is         *)
(* abstract: an analyst with tools may call them as often as it likes, a    *)
(* final decision may be blank. LangGraph saves the state in the            *)
(* background, so after a crash the run goes on from any state it was in,   *)
(* with a new budget of steps.                                              *)
(***************************************************************************)
EXTENDS Integers, Sequences

CONSTANTS
    Analysts,        \* the analyst keys
    ToolUsers,       \* analysts whose model is offered tools: all but "social"
    Plans,           \* the selections of analysts a task may make
    MaxRounds,       \* the largest number of rounds a task may ask for
    RecursionLimit   \* max_recur_limit

ASSUME ToolUsersAreAnalysts == ToolUsers \subseteq Analysts
\* A graph with no analyst, or with one twice, is refused when it is set up.
ASSUME PlansAreSelections ==
    \A p \in Plans :
        /\ p \in Seq(Analysts)
        /\ p # <<>>
        /\ \A i, j \in 1..Len(p) : p[i] = p[j] => i = j
ASSUME MaxRoundsIsPositive == MaxRounds \in Nat \ {0}
ASSUME LimitIsNatural == RecursionLimit \in Nat

VARIABLES
    shape,    \* what the run signature holds: analysts and numbers of rounds
    state,    \* the AgentState, with the node LangGraph runs next
    saved,    \* the last checkpoint of the thread: {} or {an AgentState}
    status,   \* of the invocation of the graph
    steps,    \* steps LangGraph has counted in this invocation
    rounds    \* how many of its model answers were tool calls

vars == <<shape, state, saved, status, steps, rounds>>

-----------------------------------------------------------------------------
(* The graph state. Arguments are numbered in the order they are given;     *)
(* a speaker's own history is the set of its arguments' numbers.            *)

Researchers == {"Bull", "Bear"}
RiskAnalysts == {"Aggressive", "Conservative", "Neutral"}

AnalystNodes == {"Analyst", "tools", "MsgClear"}
RiskNodes == RiskAnalysts
AfterRisk == {"PortfolioManager", "END"}
AfterDebate == {"ResearchManager", "Trader"} \cup RiskNodes \cup AfterRisk
Nodes == AnalystNodes \cup Researchers \cup AfterDebate

Shapes == [plan : Plans, debate : 1..MaxRounds, risk : 1..MaxRounds]

Messages == [openings : Nat, last : {"human", "call", "results", "answer"},
             authors : SUBSET Analysts]
DebateState == [count : Nat, current : Researchers \cup {"none", "plan"},
                history : Seq(Researchers), own : [Researchers -> SUBSET Nat]]
RiskState == [count : Nat, latest : RiskAnalysts \cup {"none", "Judge"},
              history : Seq(RiskAnalysts), own : [RiskAnalysts -> SUBSET Nat],
              current : [RiskAnalysts -> Nat]]
AgentStates ==
    [next : Nodes, turn : Nat \ {0}, messages : Messages, reports : SUBSET Analysts,
     debate : DebateState, risk : RiskState, decision : {"none", "blank", "text"}]

InitialState ==
    [next |-> "Analyst", turn |-> 1,
     messages |-> [openings |-> 1, last |-> "human", authors |-> {}],
     reports |-> {},
     debate |-> [count |-> 0, current |-> "none", history |-> <<>>,
                 own |-> [r \in Researchers |-> {}]],
     risk |-> [count |-> 0, latest |-> "none", history |-> <<>>,
               own |-> [r \in RiskAnalysts |-> {}],
               current |-> [r \in RiskAnalysts |-> 0]],
     decision |-> "none"]

Init ==
    /\ shape \in Shapes
    /\ state = InitialState
    /\ saved = {}
    /\ status = "off"
    /\ steps = 0
    /\ rounds = 0

-----------------------------------------------------------------------------
(* Routing (conditional_logic.py).                                          *)

AnalystAt(s) == shape.plan[s.turn]

ShouldContinueAnalyst(s) ==
    [s EXCEPT !.next = IF s.messages.last = "call" THEN "tools" ELSE "MsgClear"]

ShouldContinueDebate(s) ==
    [s EXCEPT !.next =
        IF s.debate.count >= 2 * shape.debate THEN "ResearchManager"
        ELSE IF s.debate.current = "Bull" THEN "Bear" ELSE "Bull"]

ShouldContinueRisk(s) ==
    [s EXCEPT !.next =
        IF s.risk.count >= 3 * shape.risk THEN "PortfolioManager"
        ELSE CASE s.risk.latest = "Aggressive" -> "Conservative"
               [] s.risk.latest = "Conservative" -> "Neutral"
               [] OTHER -> "Aggressive"]

-----------------------------------------------------------------------------
(* The nodes: the state after them, routing included.                       *)

(* A message with tool calls empties the analyst's report; one without them *)
(* is the report.                                                           *)
AnalystNode(s, answer) ==
    ShouldContinueAnalyst(
        [s EXCEPT !.messages = [openings |-> s.messages.openings, last |-> answer,
                                authors |-> s.messages.authors \cup {AnalystAt(s)}],
                  !.reports = IF answer = "call" THEN @ \ {AnalystAt(s)}
                              ELSE @ \cup {AnalystAt(s)}])

ToolNode(s) == [s EXCEPT !.messages.last = "results", !.next = "Analyst"]

(* Removes every message and leaves a placeholder for the next analyst.     *)
MsgClear(s) ==
    [s EXCEPT !.messages = [openings |-> 1, last |-> "human", authors |-> {}],
              !.turn = @ + 1,
              !.next = IF s.turn < Len(shape.plan) THEN "Analyst" ELSE "Bull"]

Researcher(s, who) ==
    LET n == s.debate.count + 1
    IN  ShouldContinueDebate(
          [s EXCEPT !.debate =
             [count |-> n, current |-> who, history |-> Append(s.debate.history, who),
              own |-> [s.debate.own EXCEPT ![who] = s.debate.own[who] \cup {n}]]])

ResearchManager(s) == [s EXCEPT !.debate.current = "plan", !.next = "Trader"]

Trader(s) == [s EXCEPT !.messages.last = "answer", !.next = "Aggressive"]

Debator_ForgetsOthers(s, who) ==
    LET n == s.risk.count + 1
    IN  ShouldContinueRisk(
          [s EXCEPT !.risk =
             [count |-> n, latest |-> who, history |-> Append(s.risk.history, who),
              own |-> [r \in RiskAnalysts |-> IF r = who THEN s.risk.own[r] \cup {n} ELSE {}],
              current |-> [s.risk.current EXCEPT ![who] = n]]])
Debator(s, who) ==
    LET n == s.risk.count + 1
    IN  ShouldContinueRisk(
          [s EXCEPT !.risk =
             [count |-> n, latest |-> who, history |-> Append(s.risk.history, who),
              own |-> [s.risk.own EXCEPT ![who] = s.risk.own[who] \cup {n}],
              current |-> [s.risk.current EXCEPT ![who] = n]]])

PortfolioManager(s, answer) ==
    [s EXCEPT !.risk.latest = "Judge", !.decision = answer, !.next = "END"]

-----------------------------------------------------------------------------
(* The invocation of the graph.                                             *)

(* LangGraph runs a node while the limit allows it.                         *)
Runs(node) ==
    /\ status = "running"
    /\ steps <= RecursionLimit
    /\ state.next = node

Becomes(s) ==
    /\ state' = s
    /\ steps' = steps + 1
    /\ UNCHANGED <<shape, saved, status>>

CallTools ==
    /\ Runs("Analyst")
    /\ AnalystAt(state) \in ToolUsers
    /\ Becomes(AnalystNode(state, "call"))
    /\ rounds' = rounds + 1

Report ==
    /\ Runs("Analyst")
    /\ Becomes(AnalystNode(state, "answer"))
    /\ UNCHANGED rounds

RunTools == Runs("tools") /\ Becomes(ToolNode(state)) /\ UNCHANGED rounds

ClearMessages == Runs("MsgClear") /\ Becomes(MsgClear(state)) /\ UNCHANGED rounds

Debate ==
    \E who \in Researchers : Runs(who) /\ Becomes(Researcher(state, who)) /\ UNCHANGED rounds

JudgeDebate ==
    Runs("ResearchManager") /\ Becomes(ResearchManager(state)) /\ UNCHANGED rounds

Propose == Runs("Trader") /\ Becomes(Trader(state)) /\ UNCHANGED rounds

DebateRisk ==
    \E who \in RiskAnalysts : Runs(who) /\ Becomes(Debator(state, who)) /\ UNCHANGED rounds

Decide ==
    /\ Runs("PortfolioManager")
    /\ \E answer \in {"blank", "text"} : Becomes(PortfolioManager(state, answer))
    /\ UNCHANGED rounds

(* GraphRecursionError.                                                     *)
Exceed ==
    /\ status = "running"
    /\ steps > RecursionLimit
    /\ status' = "exceeded"
    /\ UNCHANGED <<shape, state, saved, steps, rounds>>

(* A decision ends the run and drops the checkpoint; without one it fails.  *)
Finish ==
    /\ Runs("END")
    /\ IF state.decision = "text"
         THEN status' = "done" /\ saved' = {}
         ELSE status' = "failed" /\ UNCHANGED saved
    /\ UNCHANGED <<shape, state, steps, rounds>>

(* LangGraph's saver, in the background of the next step.                   *)
Checkpoint ==
    /\ status = "running"
    /\ saved' = {state}
    /\ UNCHANGED <<shape, state, status, steps, rounds>>

(* The process ends, or a node raises.                                      *)
Crash ==
    /\ status = "running"
    /\ status' = "off"
    /\ UNCHANGED <<shape, state, saved, steps, rounds>>

(* Invoked with the initial state. Whether LangGraph counts its own START   *)
(* as a step depends on its version.                                        *)
Start ==
    /\ status # "running"
    /\ status' = "running"
    /\ state' = InitialState
    /\ saved' = {}
    /\ steps' \in {0, 1}
    /\ rounds' = 0
    /\ UNCHANGED shape

(* Invoked with None: the thread goes on from its checkpoint.               *)
Resume_WithInput ==
    /\ status # "running"
    /\ \E s \in saved : state' = [s EXCEPT !.messages.openings = @ + 1]
    /\ status' = "running"
    /\ steps' = 0
    /\ rounds' = 0
    /\ UNCHANGED <<shape, saved>>
Resume ==
    /\ status # "running"
    /\ \E s \in saved : state' = s
    /\ status' = "running"
    /\ steps' = 0
    /\ rounds' = 0
    /\ UNCHANGED <<shape, saved>>

Next ==
    \/ CallTools \/ Report \/ RunTools \/ ClearMessages
    \/ Debate \/ JudgeDebate \/ Propose \/ DebateRisk \/ Decide
    \/ Exceed \/ Finish \/ Checkpoint \/ Crash \/ Start \/ Resume

Spec == Init /\ [][Next]_vars

-----------------------------------------------------------------------------
(* Properties, of the state a run is in and of the one it would resume.     *)

Held == {state} \cup saved

TypeOK ==
    /\ shape \in Shapes
    /\ state \in AgentStates
    /\ saved \in SUBSET AgentStates
    /\ status \in {"off", "running", "done", "failed", "exceeded"}
    /\ steps \in Nat
    /\ rounds \in Nat

(* An analyst starts from one opening message and sees none of another      *)
(* analyst; while it works the analysts before it have reported and those   *)
(* after it have not; no debate begins before every selected analyst has    *)
(* reported, whatever was called, cleared, saved and resumed.               *)
InTurn(s) ==
    /\ s.next \in AnalystNodes =>
         /\ s.turn \in 1..Len(shape.plan)
         /\ s.messages.openings = 1
         /\ s.messages.authors \subseteq {AnalystAt(s)}
         /\ s.next = "tools" <=> s.messages.last = "call"
         /\ s.next = "MsgClear" <=> AnalystAt(s) \in s.reports
    /\ s.next \notin AnalystNodes => s.turn = Len(shape.plan) + 1
    /\ \A i \in 1..Len(shape.plan) :
         /\ i < s.turn => shape.plan[i] \in s.reports
         /\ i > s.turn => shape.plan[i] \notin s.reports
AnalystsInTurn == \A s \in Held : InTurn(s)

DebateSpeaker(i) == IF i % 2 = 1 THEN "Bull" ELSE "Bear"
RiskSpeaker(i) ==
    IF i % 3 = 1 THEN "Aggressive" ELSE IF i % 3 = 2 THEN "Conservative" ELSE "Neutral"

(* The speakers take turns, every speaker's own history holds its part of   *)
(* the conversation and nothing else, and the judge is reached exactly when *)
(* everyone has spoken in every round asked for.                            *)
DebateWhole(s) ==
    /\ s.debate.count = Len(s.debate.history)
    /\ \A i \in 1..s.debate.count : s.debate.history[i] = DebateSpeaker(i)
    /\ \A r \in Researchers :
         s.debate.own[r] = {i \in 1..s.debate.count : DebateSpeaker(i) = r}
    /\ IF s.next \in AfterDebate
         THEN s.debate.count = 2 * shape.debate
         ELSE s.debate.count < 2 * shape.debate
RiskWhole(s) ==
    /\ s.risk.count = Len(s.risk.history)
    /\ \A i \in 1..s.risk.count : s.risk.history[i] = RiskSpeaker(i)
    /\ \A r \in RiskAnalysts :
         /\ s.risk.own[r] = {i \in 1..s.risk.count : RiskSpeaker(i) = r}
         /\ \A i \in s.risk.own[r] : i <= s.risk.current[r]
         /\ s.risk.current[r] \in s.risk.own[r] \cup {0}
    /\ IF s.next \in AfterRisk
         THEN s.risk.count = 3 * shape.risk
         ELSE s.risk.count < 3 * shape.risk
DebatesAreWhole == \A s \in Held : DebateWhole(s) /\ RiskWhole(s)

(* The steps of a run without a tool call.                                  *)
PlainSteps == 2 * Len(shape.plan) + 2 * shape.debate + 3 * shape.risk + 3

(* Only tool calls can bring a run to the recursion limit: the steps that   *)
(* the number of analysts and rounds costs are bounded, and a resumed run   *)
(* starts counting anew.                                                    *)
LimitIsForTools ==
    status = "exceeded" => 2 * rounds + PlainSteps >= RecursionLimit

=============================================================================
