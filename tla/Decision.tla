------------------------------ MODULE Decision ------------------------------
(***************************************************************************)
(* Weighted decisions over criteria of which some are unknown              *)
(* (decision.rs): estimates asked of an engine, request by request, and    *)
(* then the ranking.  Scores are in parts of Scale, and everything divided *)
(* by the total weight in the code is compared before the division here.   *)
(***************************************************************************)
EXTENDS Integers, Sequences, FiniteSets, Functions, SequencesExt, Sorting

CONSTANTS
  Scale,           \* scores are 0..Scale
  Frames,          \* decision frames
  MAX_QUESTIONS,
  MAX_STATE_CHARS,
  HeaderChars,     \* the text of a request before the options
  EngineScores     \* levels the engine may choose from

ASSUME DecisionAssumption ==
  /\ Scale \in Nat \ {0} /\ MAX_QUESTIONS \in Nat \ {0}
  /\ MAX_STATE_CHARS \in Nat /\ HeaderChars \in Nat
  /\ EngineScores \subseteq 0..Scale

\* A frame as evaluate lets it through: weights are not negative, scores are on
\* the scale and of criteria the frame has. Names are numbers, none of them 0.
ASSUME FramesAssumption ==
  \A f \in Frames :
    /\ IsFiniteSet(DOMAIN f.weights) /\ DOMAIN f.weights \subseteq Nat
    /\ \A c \in DOMAIN f.weights : f.weights[c] \in Nat
    /\ IsFiniteSet(DOMAIN f.options) /\ DOMAIN f.options \subseteq Nat \ {0}
    /\ \A o \in DOMAIN f.options :
         /\ f.options[o].reversible \in BOOLEAN /\ f.options[o].blocked \in BOOLEAN
         /\ f.options[o].confidence \in 0..10 /\ f.options[o].chars \in Nat
         /\ \A scores \in {f.options[o].scores, f.options[o].model_scores} :
              /\ DOMAIN scores \subseteq DOMAIN f.weights
              /\ \A c \in DOMAIN scores : scores[c] \in 0..Scale

VARIABLES
  frame,    \* weights of the criteria, and the options
  estimate, \* option -> (criterion -> an engine's score): DecisionOption.model_scores
  chunks,   \* requests still to be sent
  sent,     \* requests already sent
  decision  \* the result

decisionVars == <<frame, estimate, chunks, sent, decision>>

Options == DOMAIN frame.options

Criteria == DOMAIN frame.weights

\* An option names the criteria it has evidence for, and its scores there.
Evidence(o) == frame.options[o].scores

Undecided == [kind |-> "none"]

-----------------------------------------------------------------------------

\* evaluate.

Weight(C) == SumFunctionOnSet(frame.weights, C)

TotalWeight == Weight(Criteria)

WithEvidence(o) == DOMAIN Evidence(o)

Scored(o) == WithEvidence(o) \cup DOMAIN estimate[o]

\* Evidence first, an estimate where there is none.
ScoreOf(o, c) == IF c \in WithEvidence(o) THEN Evidence(o)[c] ELSE estimate[o][c]

\* Both ends of the two intervals, times Scale and the total weight.
Lo(o) == SumFunction([c \in Scored(o) |-> frame.weights[c] * ScoreOf(o, c)])

Hi(o) == Lo(o) + Scale * Weight(Criteria \ Scored(o))

EvidenceLo(o) == SumFunction([c \in WithEvidence(o) |-> frame.weights[c] * Evidence(o)[c]])

EvidenceHi(o) == EvidenceLo(o) + Scale * Weight(Criteria \ WithEvidence(o))

Blocked(o) == frame.options[o].blocked

Reversible(o) == frame.options[o].reversible

\* evidence_confidence, in tenths, times the coverage, is below 0.7.
WeakEvidence(o) ==
  frame.options[o].confidence * Weight(WithEvidence(o)) < 7 * TotalWeight

\* The order of the ranking; an option's number stands for its name.
RanksBefore(a, b) ==
  \/ ~ Blocked(a) /\ Blocked(b)
  \/ /\ Blocked(a) = Blocked(b)
     /\ \/ Lo(a) > Lo(b)
        \/ Lo(a) = Lo(b) /\ Hi(a) > Hi(b)
        \/ Lo(a) = Lo(b) /\ Hi(a) = Hi(b) /\ Reversible(a) /\ ~ Reversible(b)
        \/ /\ Lo(a) = Lo(b) /\ Hi(a) = Hi(b) /\ Reversible(a) = Reversible(b)
           /\ a < b

Ranked == Arranged(Options, {p \in Options \X Options : RanksBefore(p[1], p[2])})

\* REVERSIBILITY_BAND is a fiftieth of the scale.
WithinBand(o, best) == 50 * Lo(o) >= 50 * Lo(best) - Scale * TotalWeight

PrefersReversible(best) == ~ Blocked(best) /\ ~ Reversible(best) /\ WeakEvidence(best)

\* Slip: however far below.
ReversiblePlace_Anywhere(ranking) ==
  SelectInSeq(ranking, LAMBDA o : ~ Blocked(o) /\ Reversible(o))

\* The first place in the ranking that a reversible option within the band has.
ReversiblePlace(ranking) ==
  SelectInSeq(ranking,
    LAMBDA o : ~ Blocked(o) /\ Reversible(o) /\ WithinBand(o, ranking[1]))

Preferred(ranking) == PrefersReversible(ranking[1]) /\ ReversiblePlace(ranking) # 0

Recommended(ranking) ==
  IF Preferred(ranking) THEN ranking[ReversiblePlace(ranking)] ELSE ranking[1]

\* Its evidence alone beats whatever the evidence of the others may become.
Decisive(top) ==
  \A o \in Options : ~ Blocked(o) /\ o # top => EvidenceLo(top) > EvidenceHi(o)

NoOption == 0

Result ==
  LET top == Recommended(Ranked)
  IN [kind |-> "decided",
      recommended |-> IF Blocked(top) THEN NoOption ELSE top,
      reversibility_preferred |-> Preferred(Ranked),
      decisive |-> ~ Blocked(top) /\ Decisive(top)]

\* What evaluate refuses of a frame whose numbers and names are well formed.
InvalidFrame == Criteria = {} \/ Options = {} \/ TotalWeight = 0

-----------------------------------------------------------------------------

\* estimate_missing_criteria: which questions go into which request.

Described(o) == frame.options[o].chars > 0

MissingIn(o) == Criteria \ Scored(o)

\* One question per option and missing criterion.
ToAsk ==
  {q \in Options \X Criteria :
     Described(q[1]) /\ ~ Blocked(q[1]) /\ q[2] \in MissingIn(q[1])}

\* In the order of the frame.
Questions ==
  Arranged(ToAsk, {p \in ToAsk \X ToAsk :
                     \/ p[1][1] < p[2][1]
                     \/ p[1][1] = p[2][1] /\ p[1][2] < p[2][2]})

OptionsIn(chunk) == {chunk[k][1] : k \in DOMAIN chunk}

StateChars(chunk) ==
  HeaderChars + SumFunction([o \in OptionsIn(chunk) |-> frame.options[o].chars])

\* Slip: one question too many, however long the text.
Full_ByCount(chunk, question) == Len(chunk) > MAX_QUESTIONS

\* A request is full when it has all its questions, or no room for one more option.
Full(chunk, question) ==
  \/ Len(chunk) = MAX_QUESTIONS
  \/ /\ question[1] \notin OptionsIn(chunk)
     /\ StateChars(chunk) + frame.options[question[1]].chars > MAX_STATE_CHARS

\* The last request takes a question, unless there is none or it is full.
AddQuestion(done, question) ==
  IF done = <<>> \/ Full(Last(done), question)
  THEN Append(done, <<question>>)
  ELSE [done EXCEPT ![Len(done)] = Append(@, question)]

\* The requests after the first n questions, and after all of them.
Chunks ==
  LET asked == Questions
      packed[n \in 0..Len(asked)] ==
        IF n = 0 THEN <<>> ELSE AddQuestion(packed[n - 1], asked[n])
  IN packed[Len(asked)]

-----------------------------------------------------------------------------

DecisionInit ==
  /\ frame \in Frames
  /\ estimate = [o \in Options |-> frame.options[o].model_scores]
  /\ chunks = <<>>
  /\ sent = <<>>
  /\ decision = [kind |-> "start"]

DecisionIdle ==
  /\ frame = [weights |-> <<>>, options |-> <<>>, engine |-> FALSE]
  /\ estimate = <<>> /\ chunks = <<>> /\ sent = <<>> /\ decision = Undecided

RefuseFrame ==
  /\ decision.kind = "start"
  /\ InvalidFrame
  /\ decision' = [kind |-> "refused"]
  /\ UNCHANGED <<frame, estimate, chunks, sent>>

\* decide with an engine: the frame is valid, so the requests are made up.
StartEstimating ==
  /\ decision.kind = "start"
  /\ ~ InvalidFrame
  /\ decision' = [kind |-> "estimating"]
  /\ chunks' = IF frame.engine THEN Chunks ELSE <<>>
  /\ UNCHANGED <<frame, estimate, sent>>

\* A request that is too long is refused when it is built, a credential in it
\* when it is asked; either way nothing comes of the command.
RequestRefused ==
  /\ decision.kind = "estimating"
  /\ chunks # <<>>
  /\ \/ StateChars(Head(chunks)) > MAX_STATE_CHARS
     \/ \E o \in OptionsIn(Head(chunks)) : frame.options[o].secret
  /\ decision' = [kind |-> "refused"]
  /\ UNCHANGED <<frame, estimate, chunks, sent>>

NoScore == -1

WithAnswers(chunk, answers) ==
  [o \in Options |->
     LET answered == {k \in DOMAIN chunk : chunk[k][1] = o /\ answers[k] # NoScore}
     IN [c \in DOMAIN estimate[o] \cup {chunk[k][2] : k \in answered} |->
           IF \E k \in answered : chunk[k][2] = c
           THEN answers[CHOOSE k \in answered : chunk[k][2] = c]
           ELSE estimate[o][c]]]

\* An engine answers a question with a level or not at all; an engine that fails
\* answers none.
SendRequest ==
  /\ decision.kind = "estimating"
  /\ chunks # <<>>
  /\ StateChars(Head(chunks)) <= MAX_STATE_CHARS
  /\ \A o \in OptionsIn(Head(chunks)) : ~ frame.options[o].secret
  /\ \E answers \in [DOMAIN Head(chunks) -> EngineScores \cup {NoScore}] :
       estimate' = WithAnswers(Head(chunks), answers)
  /\ sent' = Append(sent, Head(chunks))
  /\ chunks' = Tail(chunks)
  /\ UNCHANGED <<frame, decision>>

Evaluate ==
  /\ decision.kind = "estimating"
  /\ chunks = <<>>
  /\ decision' = Result
  /\ UNCHANGED <<frame, estimate, chunks, sent>>

DecisionNext ==
  RefuseFrame \/ StartEstimating \/ RequestRefused \/ SendRequest \/ Evaluate

DecisionSpec == DecisionInit /\ [][DecisionNext]_decisionVars

-----------------------------------------------------------------------------

Admissible == {o \in Options : ~ Blocked(o)}

\* Every value that the criteria without evidence may turn out to have.
Completions(o) == [Criteria \ WithEvidence(o) -> 0..Scale]

ScoreGiven(o, values) ==
  EvidenceLo(o) + SumFunction([c \in DOMAIN values |-> frame.weights[c] * values[c]])

\* decisive is said exactly when no evidence still missing, and no estimate
\* proving wrong, could let another admissible option catch up.
DecisiveIsSettled ==
  decision.kind = "decided" /\ decision.recommended # NoOption =>
    LET top == decision.recommended
    IN decision.decisive <=>
         \A o \in Admissible \ {top} :
           \A mine \in Completions(top), theirs \in Completions(o) :
             ScoreGiven(top, mine) > ScoreGiven(o, theirs)

\* A blocked option is never recommended and an admissible one always is when
\* there is one. It has the best guaranteed score, or it is a reversible option
\* within the band of an irreversible one on weak evidence.
RecommendationIsSafe ==
  decision.kind = "decided" =>
    LET top == decision.recommended
        best == {o \in Admissible : \A a \in Admissible : Lo(o) >= Lo(a)}
    IN IF Admissible = {}
       THEN top = NoOption /\ ~ decision.decisive
       ELSE /\ top \in Admissible
            /\ top \notin best =>
                 /\ Reversible(top)
                 /\ \A b \in best : ~ Reversible(b) /\ WithinBand(top, b)
                 /\ \E b \in best : WeakEvidence(b)
            /\ ~ Reversible(top) =>
                 \A o \in Admissible :
                   Reversible(o) /\ WithinBand(o, top) => ~ WeakEvidence(top)

\* The order of the options, their evidence and the estimates of an engine never
\* yield an unsafe recommendation, or one called settled that is not
\* (decision.rs, evaluate).
RecommendationHolds == DecisiveIsSettled /\ RecommendationIsSafe

Asked == [k \in DOMAIN sent |-> {sent[k][q] : q \in DOMAIN sent[k]}]

\* The engine is asked once about every criterion an open option with a
\* description has no score for, and about nothing else: nothing that has
\* evidence, no blocked option, no request beyond the port's limits (decision.rs,
\* estimate_missing_criteria).
RequestsCoverMissing ==
  /\ \A k \in DOMAIN sent :
       /\ Len(sent[k]) \in 1..MAX_QUESTIONS
       /\ StateChars(sent[k]) <= MAX_STATE_CHARS
       /\ Cardinality(Asked[k]) = Len(sent[k])
       /\ \A l \in DOMAIN sent : k # l => Asked[k] \cap Asked[l] = {}
  /\ decision.kind = "decided" /\ frame.engine =>
       UNION {Asked[k] : k \in DOMAIN sent} =
         {q \in Options \X Criteria :
            /\ Described(q[1]) /\ ~ Blocked(q[1])
            /\ q[2] \notin WithEvidence(q[1]) \cup DOMAIN frame.options[q[1]].model_scores}

=============================================================================
