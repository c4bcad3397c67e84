---------------------------- MODULE DecisionPort ----------------------------
(***************************************************************************)
(* The typed decision port: which of an engine's answers become decisions, *)
(* and what is recorded of them (decision_port.rs).                        *)
(*                                                                         *)
(* Numbers are in thousandths.  A number that is not finite is written     *)
(* Bad: it is outside every range, which is all the code asks of it.       *)
(* Score levels are 0..top, and a key that is no level in its canonical    *)
(* form is one outside 0..top.                                             *)
(***************************************************************************)
EXTENDS Integers, Sequences, FiniteSets, FiniteSetsExt, Functions

One == 1000
Bad == -1

\* An Option that is None.
Unknown == -2

\* Question kinds: a choice has options, a score has the levels 0..top.
AnswerSpace(question) ==
  CASE question.kind = "noul" -> {"true", "false"}
    [] question.kind = "choice" -> question.options
    [] question.kind = "score" -> 0..question.top

\* What validate asks of a question; ids and texts are well formed here.
ValidQuestion(question) ==
  CASE question.kind = "noul" -> TRUE
    [] question.kind = "choice" -> Cardinality(question.options) \in 2..255
    [] question.kind = "score" -> question.top \in 1..9

-----------------------------------------------------------------------------

\* Admission.

Unit(v) == v \in 0..One

SumTolerance(keys) == Max({5 * keys, 20})

Distance(a, b) == IF a > b THEN a - b ELSE b - a

\* A distribution may be absent; one that is there covers offered answers only.
CheckDistribution(space, dist) ==
  DOMAIN dist # {} =>
    /\ DOMAIN dist \subseteq space
    /\ \A key \in DOMAIN dist : Unit(dist[key])
    /\ Distance(SumFunction(dist), One) <= SumTolerance(Cardinality(DOMAIN dist))

CheckConfidence(confidence) == confidence = Unknown \/ Unit(confidence)

\* The chosen option leads its own distribution.
LeadsItsDistribution(choice, dist) ==
  DOMAIN dist # {} =>
    /\ choice \in DOMAIN dist
    /\ dist[choice] > 0
    /\ \A key \in DOMAIN dist : dist[key] <= dist[choice]

\* The expected level of a distribution over levels, in thousandths of a level.
Expected(dist) == SumFunction([key \in DOMAIN dist |-> key * dist[key]])

AgreesWithItsDistribution(score, top, dist) ==
  DOMAIN dist # {} => Distance(Expected(dist), score) <= 20 * top + 20

\* admit_answer accepts; an abstention is always accepted, a malformed answer and
\* one of another type never.
Acceptable(question, raw) ==
  \/ raw.type = "abstain"
  \/ /\ raw.type = "noul" /\ question.kind = "noul"
     /\ Unit(raw.noul)
  \/ /\ raw.type = "choice" /\ question.kind = "choice"
     /\ raw.choice \in question.options
     /\ CheckConfidence(raw.confidence)
     /\ CheckDistribution(AnswerSpace(question), raw.probabilities)
     /\ LeadsItsDistribution(raw.choice, raw.probabilities)
  \/ /\ raw.type = "score" /\ question.kind = "score"
     /\ raw.score \in 0..(question.top * One)
     /\ CheckConfidence(raw.confidence)
     /\ CheckDistribution(AnswerSpace(question), raw.probabilities)
     /\ AgreesWithItsDistribution(raw.score, question.top, raw.probabilities)

Abstain == [type |-> "abstain"]

\* request: question id -> question.  answers: question id -> raw answer.  All
\* or nothing: one answer that is refused, or was not asked for, and every
\* question is left unanswered.
RejectsResponse(request, answers) ==
  \/ ~ DOMAIN answers \subseteq DOMAIN request
  \/ \E id \in DOMAIN answers : ~ Acceptable(request[id], answers[id])

AbstainAll(request) == [id \in DOMAIN request |-> Abstain]

\* Slip: each answer by itself.
Admit_Each(request, answers) ==
  [id \in DOMAIN request |->
     IF id \in DOMAIN answers /\ Acceptable(request[id], answers[id])
     THEN answers[id] ELSE Abstain]


Admit(request, answers) ==
  IF RejectsResponse(request, answers)
  THEN AbstainAll(request)
  ELSE [id \in DOMAIN request |->
          IF id \in DOMAIN answers THEN answers[id] ELSE Abstain]

-----------------------------------------------------------------------------

\* What is recorded.

\* The nearest level; half a level rounds up.
Level(score) == (score + One \div 2) \div One

\* P(true) leans to an answer.
Lean(p) == IF p >= One \div 2 THEN "true" ELSE "false"

BothSides(p) == [side \in {"true", "false"} |-> IF side = "true" THEN p ELSE One - p]

\* The answer a record names.
Value(answer) ==
  CASE answer.type = "noul" -> Lean(answer.noul)
    [] answer.type = "choice" -> answer.choice
    [] answer.type = "score" -> Level(answer.score)

Distribution(answer) ==
  IF answer.type = "noul" THEN BothSides(answer.noul) ELSE answer.probabilities

\* The probability a record states: of `true' for noul, of its value otherwise,
\* and the confidence where the distribution has none for it.
StatedP(answer) ==
  IF answer.type = "noul" THEN answer.noul
  ELSE IF Value(answer) \in DOMAIN Distribution(answer)
  THEN Distribution(answer)[Value(answer)]
  ELSE answer.confidence

Prediction(question, answer) ==
  [kind |-> question.kind, p |-> StatedP(answer), value |-> Value(answer),
   probabilities |-> Distribution(answer), space |-> AnswerSpace(question)]

\* One record for each question that was answered.
PredictionTraces(request, admitted) ==
  LET answered == {id \in DOMAIN request : admitted[id].type # "abstain"}
  IN [id \in answered |-> Prediction(request[id], admitted[id])]

-----------------------------------------------------------------------------

\* A person's or an agent's forecast.  source is "named", "model" or another
\* form that is refused; the answer space is a list of words, "" a blank one.

NoValue == "no value"

RefusedForecast(f) ==
  \/ f.source # "named"
  \/ ~ Unit(f.p)
  \/ f.kind \notin {"noul", "choice", "score"}
  \/ f.kind = "noul" /\ (f.value # NoValue \/ f.space # <<>>)
  \/ f.kind = "choice" /\ Len(f.space) \notin 2..255
  \/ f.kind = "score" /\ Len(f.space) \notin 2..10
  \/ Cardinality(Range(f.space)) # Len(f.space) \/ "" \in Range(f.space)
  \/ f.kind # "noul" /\ f.value \notin Range(f.space)

NoDistribution == [key \in {} |-> 0]

ForecastTrace(f) ==
  IF f.kind = "noul"
  THEN [kind |-> "noul", p |-> f.p, value |-> Lean(f.p),
        probabilities |-> BothSides(f.p), space |-> {"true", "false"}]
  ELSE [kind |-> f.kind, p |-> f.p, value |-> f.value,
        probabilities |-> NoDistribution, space |-> Range(f.space)]
-----------------------------------------------------------------------------

\* Correctness: what makes a record one that an outcome can be scored against.

\* The record speaks of answers an outcome may have, and states the probability
\* of what it names.
SpeaksOfItsSpace(r) ==
  /\ r.value \in r.space
  /\ DOMAIN r.probabilities \subseteq r.space
  /\ r.p = Unknown \/ Unit(r.p)
  /\ r.kind = "noul" => r.p = r.probabilities["true"]
  /\ r.kind # "noul" /\ r.value \in DOMAIN r.probabilities => r.p = r.probabilities[r.value]

\* No other answer is more likely than the one it names.  A score names the
\* level nearest to its mean, and the mean may be off by the tolerance.
NamesTheLikeliest(r) ==
  DOMAIN r.probabilities # {} =>
    IF r.kind = "score"
    THEN Distance(Expected(r.probabilities), r.value * One)
           <= One \div 2 + 20 * Max(r.space) + 20
    ELSE \A key \in DOMAIN r.probabilities : r.probabilities[key] <= r.probabilities[r.value]

CanBeScored(r) == SpeaksOfItsSpace(r) /\ NamesTheLikeliest(r)

=============================================================================
