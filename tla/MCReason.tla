------------------------------ MODULE MCReason ------------------------------
(***************************************************************************)
(* Small instances of the components that compute over what one process    *)
(* holds, one request at a time: a planning problem, the life of a focus   *)
(* capsule, a Stop hook, answers of an engine and forecasts, a decision    *)
(* frame, or a report over recorded outcomes.                              *)
(***************************************************************************)
EXTENDS Planner, Focus, TruthGate, Forecasts, Decision, Calibration, TLC

VARIABLE request

reasonVars ==
  <<request, planVars, focusVars, gateVars, forecastVars, decisionVars, calibrationVars>>

-----------------------------------------------------------------------------

\* Planning problems.

\* Two words, a third that no other fact shares, and the first two joined.
MCFact == {<<1>>, <<2>>, <<3>>, <<1, 2>>}

MCAction(needs, adds, removes) == [requires |-> needs, adds |-> adds, removes |-> removes]

\* Steps on ways of different lengths, some that undo another, one that adds
\* what it removes, and one whose effect looks like two facts.
MCActions ==
  {MCAction({}, {<<1>>}, {}),
   MCAction({<<1>>}, {<<2>>}, {<<1>>}),
   MCAction({<<1>>}, {<<1>>, <<2>>}, {}),
   MCAction({<<2>>}, {<<3>>}, {<<2>>, <<3>>}),
   MCAction({}, {<<1, 2>>}, {}),
   MCAction({<<1, 2>>}, {<<3>>}, {})}

MCProblem(goal, actions, depth, states) ==
  [initial |-> {}, goal |-> goal, actions |-> actions, max_depth |-> depth,
   max_states |-> states]

MCAnswered == [MCProblem({<<1>>}, <<>>, 2, 2) EXCEPT !.initial = {<<1>>}]

\* {<<1>>, <<2>>} is taken for {<<1, 2>>}, and the plan that needs it is missed.
MCLookAlike ==
  MCProblem({<<3>>},
            <<MCAction({}, {<<1>>}, {}), MCAction({}, {<<1, 2>>}, {}),
              MCAction({<<1>>}, {<<1>>, <<2>>}, {}), MCAction({<<2>>}, {<<3>>}, {})>>, 3, 9)

\* Up to three actions; every budget and depth that cuts the search at another
\* place; and the requests that are refused or answered at once.
MCProblems ==
  {MCProblem(g, a, b[1], b[2]) :
       g \in {{<<2>>}, {<<3>>}, {<<1>>, <<2>>}},
       a \in UNION {[1..k -> MCActions] : k \in 0..3}, b \in {<<2, 9>>, <<3, 2>>, <<3, 9>>}}
    \cup {MCProblem(g, <<MCAction({}, {<<1>>}, {})>>, d, n) :
             g \in {{}, {<<1>>}}, d \in {0, 2, 4}, n \in {0, 1, 2}}
    \cup {MCAnswered, MCLookAlike}

-----------------------------------------------------------------------------

\* Stop hooks.

MCNoul(p) == [type |-> "noul", noul |-> p]

\* Probabilities around both thresholds and the lift, and out of range.
MCNouls == {MCNoul(p) : p \in {Bad, 0, 299, 300, 599, 600, 850, 1000, 1001}}

MCAnswersTo(id, raws) == {[q \in {id} |-> raw] : raw \in raws}

MCBodies ==
  {[type |-> "no_answers"], [type |-> "answers", answers |-> <<>>]}
    \cup {[type |-> "answers", answers |-> a] :
            a \in MCAnswersTo(Question, MCNouls \cup {Abstain, [type |-> "malformed"]})
                    \cup MCAnswersTo("other", {MCNoul(900)})
                    \cup {[q \in {Question, "other"} |-> MCNoul(900)]}}

MCBlocked == <<"done", ".", "todo", ":">>

MCEvent ==
  [damage |-> "none", object |-> TRUE, active |-> "absent", said |-> MCBlocked, text |-> "secret"]

\* A message that the rules block and one that they do not, which may go to an
\* engine or not; a host that continues a stop, or says something else; damage.
MCEvents ==
  {[MCEvent EXCEPT !.said = said, !.text = text] :
      said \in {MCBlocked, <<"done">>}, text \in {"plain", "blank", "secret"}}
    \cup {[MCEvent EXCEPT !.said = <<>>], [MCEvent EXCEPT !.object = FALSE]}
    \cup {[MCEvent EXCEPT !.active = active] : active \in {"true", "text 1", "2", "false", "0"}}
    \cup {[MCEvent EXCEPT !.damage = damage, !.object = object] :
            damage \in {"emoji", "number", "trailing", "text", "lost"}, object \in BOOLEAN}
    \cup {[MCEvent EXCEPT !.damage = "number", !.active = "true"]}

MCEnvironment(engine, key, timeouts, thresholds, lifts, record) ==
  [engine : {engine}, key : {key}, timeout : timeouts, threshold : thresholds,
   lift : lifts, record : record]

\* Without an engine, and without a key; thresholds of one's own, and lifts below
\* and above them; an impatient one, a patient one, and one beyond the cap.
MCEnvironments ==
  MCEnvironment("none", TRUE, {4}, {Unknown}, {Unknown, 300}, {TRUE})
    \cup MCEnvironment("jev", FALSE, {4}, {Unknown}, {Unknown}, {TRUE})
    \cup MCEnvironment("jev", TRUE, {0}, {Unknown, 850, Bad}, {Unknown, 300, 1000}, {TRUE})
    \cup MCEnvironment("jev", TRUE, {4}, {Unknown}, {Unknown}, {FALSE})
    \cup MCEnvironment("jev", TRUE, {20}, {Unknown}, {Unknown}, {TRUE})

-----------------------------------------------------------------------------

\* Requests and forecasts.

MCChoice == [kind |-> "choice", options |-> {"a", "b"}]

MCScore == [kind |-> "score", top |-> 2]

\* No distribution, clear ones, a tie, the rounding that is forgiven and the one
\* that is not, an option nobody offered, and a number out of range.
MCChoiceDistributions ==
  {NoDistribution, "a" :> 600 @@ "b" :> 400, "a" :> 400 @@ "b" :> 600,
   "a" :> 500 @@ "b" :> 500, "a" :> 600 @@ "b" :> 380, "a" :> 600 @@ "b" :> 370,
   "b" :> 1000, "a" :> 0 @@ "b" :> 1000, "a" :> 600 @@ "c" :> 400, "a" :> 1001}

MCChoiceRaws ==
  [type : {"choice"}, choice : {"a"}, probabilities : MCChoiceDistributions,
   confidence : {Unknown, 900}]
  \cup [type : {"choice"}, choice : {"a", "c"}, probabilities : {NoDistribution},
        confidence : {Unknown, Bad}]

\* Even and uneven distributions, one whose mean no level of it is near, and one
\* over a level that is none.
MCScoreRaws ==
  [type : {"score"}, score : {0, 499, 500, 1000, 1500, 2001, Bad},
   probabilities : {NoDistribution, 0 :> 500 @@ 1 :> 500, 0 :> 500 @@ 2 :> 500,
                    1 :> 500 @@ 2 :> 500, 3 :> 1000},
   confidence : {Unknown, 900}]

MCAsk(asked, answers, secret) ==
  [kind |-> "ask", request |-> asked, answers |-> answers, secret |-> secret]

MCTwo == "q1" :> MCChoice @@ "q2" :> MCScore

MCAsks ==
  {MCAsk(MCTwo, "q1" :> c @@ "q2" :> s, FALSE) :
     c \in MCChoiceRaws, s \in {s \in MCScoreRaws : s.score \in {1000, 2001} /\ s.confidence = 900}}
    \cup {MCAsk(MCTwo, "q1" :> c @@ "q2" :> s, FALSE) :
            c \in {c \in MCChoiceRaws : c.probabilities = NoDistribution}, s \in MCScoreRaws}
    \cup {MCAsk(MCTwo, "q1" :> c, FALSE) : c \in MCChoiceRaws \cup {Abstain, MCNoul(900)}}
    \cup {MCAsk("q1" :> [kind |-> "noul"], id :> raw, secret) :
            id \in {"q1", "q2"}, raw \in MCNouls \cup {MCNoul(499), MCNoul(500)}, secret \in BOOLEAN}
    \cup {MCAsk("q1" :> q, <<>>, FALSE) :
            q \in {[MCChoice EXCEPT !.options = {"a"}], [MCScore EXCEPT !.top = 0]}}

MCForecasts ==
  [kind : {"noul", "choice", "score", "rank"}, source : {"named"}, p : {0, 499, 500, 1001},
   value : {NoValue, "a", "c"}, space : {<<>>, <<"a">>, <<"a", "b">>, <<"a", "a">>, <<"a", "">>}]
  \cup [kind : {"noul"}, source : {"model", "unnamed"}, p : {500}, value : {NoValue},
        space : {<<>>}]

MCCommands == MCAsks \cup {[kind |-> "predict", forecast |-> f] : f \in MCForecasts}

-----------------------------------------------------------------------------

\* Decision frames.

MCOption(scores, chars, reversible, blocked, confidence) ==
  [scores |-> scores, model_scores |-> <<>>, chars |-> chars, reversible |-> reversible,
   blocked |-> blocked, confidence |-> confidence, secret |-> FALSE]

\* Nothing known, one criterion, both; differences within the band and beyond.
MCScores ==
  {<<>>, 1 :> 2, 2 :> 1, 2 :> 2, <<0, 1>>, <<1, 1>>, <<2, 2>>}

MCOptions ==
  {MCOption(s, 0, r, FALSE, c) : s \in MCScores, r \in BOOLEAN, c \in {6, 10}}
    \cup {MCOption(<<2, 2>>, 0, TRUE, TRUE, 10)}

MCFrame(weights, options, engine) ==
  [weights |-> weights, options |-> options, engine |-> engine]

\* The second criterion carries the decision, the first is within the band.
MCRankings ==
  {MCFrame(<<1, 30>>, options, FALSE) : options \in [1..2 -> MCOptions]}
    \cup {MCFrame(<<0, 0>>, <<MCOption(<<1, 1>>, 0, TRUE, FALSE, 10)>>, FALSE),
          MCFrame(<<>>, <<MCOption(<<>>, 0, TRUE, FALSE, 10)>>, FALSE),
          MCFrame(<<1, 30>>, <<>>, FALSE)}

\* No description, a short one, one that leaves room for no other, one that no
\* request has room for; with a guess of one's own, and with a credential.
MCEstimated ==
  {MCOption(<<>>, chars, FALSE, FALSE, 10) : chars \in {0, 4, 12}}
    \cup {MCOption(<<1>>, chars, FALSE, FALSE, 10) : chars \in {4, 9}}
    \cup {MCOption(<<>>, 4, FALSE, TRUE, 10),
          [MCOption(<<>>, 4, TRUE, FALSE, 10) EXCEPT !.model_scores = 2 :> 1],
          [MCOption(<<1>>, 4, TRUE, FALSE, 10) EXCEPT !.secret = TRUE]}

MCFrames ==
  MCRankings
    \cup {MCFrame(<<1, 2, 3>>, <<MCOption(<<>>, 4, FALSE, FALSE, 10), o>>, TRUE) : o \in MCEstimated}
    \cup {MCFrame(<<1, 2>>, options, TRUE) :
            options \in {<<o, p, MCOption(<<>>, 5, TRUE, FALSE, 10)>> : o \in MCEstimated, p \in MCEstimated}}

-----------------------------------------------------------------------------

\* Recorded outcomes.

MCJudged(p, value) ==
  [status |-> "active", model |-> TRUE, engine |-> "jev", family |-> GATE_FAMILY,
   kind |-> "noul", p |-> p, value |-> value]

MCSaid(p) == MCJudged(p, IF 2 * p >= Parts THEN "true" ELSE "false")

MCOutcome(of, at, observed) ==
  [status |-> "active", of |-> of, at |-> at, observed |-> observed]

MCAskedFor(asked, predictions, outcomes, families, pooled, budget) ==
  [asked |-> asked, predictions |-> predictions, outcomes |-> outcomes,
   families |-> families, pooled |-> pooled, budget |-> budget, min |-> 2]

\* Four judged answers of the engine, and three budgets.
MCThresholds ==
  {MCAskedFor("threshold", [i \in 1..4 |-> MCSaid(ps[i])], [i \in 1..4 |-> MCOutcome(i, 0, ys[i])],
              {}, FALSE, budget) :
     ps \in {ps \in [1..4 -> {2, 5, 9}] : \A i \in 1..3 : ps[i] <= ps[i + 1]},
     ys \in [1..4 -> {"true", "false"}], budget \in {0, 50, 100}}

\* Two predictions of every sort, judged, judged again, and taken back.
MCPredictions ==
  {MCSaid(p) : p \in {0, 4, 10}}
    \cup {[MCSaid(6) EXCEPT !.model = FALSE], [MCSaid(6) EXCEPT !.status = "purged"],
          [MCJudged(NoP, "x") EXCEPT !.kind = "choice"],
          [MCJudged(6, "x") EXCEPT !.kind = "choice", !.family = "other"],
          [MCSaid(6) EXCEPT !.engine = "mine", !.model = FALSE, !.family = "other"]}

MCOutcomes ==
  {MCOutcome(of, at, observed) : of \in 1..2, at \in 0..1, observed \in {"true", "false"}}
    \cup {[MCOutcome(1, 1, "false") EXCEPT !.status = "superseded"]}

MCHistories == UNION {[1..k -> MCOutcomes] : k \in 0..2}

MCReports ==
  {MCAskedFor("calibration", <<p, q>>, outcomes, {GATE_FAMILY, "other"}, TRUE, 0) :
     p \in {MCSaid(4), MCSaid(10)}, q \in MCPredictions, outcomes \in MCHistories}
    \cup {MCAskedFor("threshold", <<MCSaid(4), MCSaid(p)>>, outcomes, {}, FALSE, 100) :
            p \in {0, 10}, outcomes \in MCHistories}
    \cup {MCAskedFor("calibration", <<MCSaid(5), p>>, <<MCOutcome(2, 0, "true")>>, {"other"}, FALSE, 0) :
            p \in MCPredictions}

MCStores == MCThresholds \cup MCReports

-----------------------------------------------------------------------------

PlanIdle ==
  problem = MCAnswered /\ queue = <<>> /\ seen = {} /\ explored = 0 /\ answer = Searching

FocusIdle == capacity = 1 /\ items = <<>> /\ last = <<>>

ReasonInit ==
  \/ /\ request = "plan" /\ PlanInit
     /\ FocusIdle /\ GateIdle /\ ForecastIdle /\ DecisionIdle /\ CalibrationIdle
  \/ /\ request = "focus" /\ FocusInit
     /\ PlanIdle /\ GateIdle /\ ForecastIdle /\ DecisionIdle /\ CalibrationIdle
  \/ /\ request = "hook" /\ GateInit
     /\ PlanIdle /\ FocusIdle /\ ForecastIdle /\ DecisionIdle /\ CalibrationIdle
  \/ /\ request = "predict" /\ ForecastInit
     /\ PlanIdle /\ FocusIdle /\ GateIdle /\ DecisionIdle /\ CalibrationIdle
  \/ /\ request = "decide" /\ DecisionInit
     /\ PlanIdle /\ FocusIdle /\ GateIdle /\ ForecastIdle /\ CalibrationIdle
  \/ /\ request = "report" /\ CalibrationInit
     /\ PlanIdle /\ FocusIdle /\ GateIdle /\ ForecastIdle /\ DecisionIdle

ReasonNext ==
  /\ UNCHANGED request
  /\ \/ /\ request = "plan" /\ PlanNext
        /\ UNCHANGED <<focusVars, gateVars, forecastVars, decisionVars, calibrationVars>>
     \/ /\ request = "focus" /\ FocusNext
        /\ UNCHANGED <<planVars, gateVars, forecastVars, decisionVars, calibrationVars>>
     \/ /\ request = "hook" /\ GateNext
        /\ UNCHANGED <<planVars, focusVars, forecastVars, decisionVars, calibrationVars>>
     \/ /\ request = "predict" /\ ForecastNext
        /\ UNCHANGED <<planVars, focusVars, gateVars, decisionVars, calibrationVars>>
     \/ /\ request = "decide" /\ DecisionNext
        /\ UNCHANGED <<planVars, focusVars, gateVars, forecastVars, calibrationVars>>
     \/ /\ request = "report" /\ CalibrationNext
        /\ UNCHANGED <<planVars, focusVars, gateVars, forecastVars, decisionVars>>

ReasonSpec == ReasonInit /\ [][ReasonNext]_reasonVars

=============================================================================
