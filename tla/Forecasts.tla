----------------------------- MODULE Forecasts -----------------------------
(***************************************************************************)
(* The commands that put predictions into the ledger: ask --record, which  *)
(* asks an engine, and predict, by which a person or an agent forecasts    *)
(* (main.rs, decision_port.rs).  The ledger's part is in Traces.           *)
(***************************************************************************)
EXTENDS DecisionPort

CONSTANT Commands

VARIABLES
  command,
  admitted, \* the decision, once there is one
  recorded  \* question id -> prediction, what the command stores

forecastVars == <<command, admitted, recorded>>

NoDecision == [state |-> "none"]

Decided(answers) == [state |-> "decided", answers |-> answers]

Failed == [state |-> "refused"]

NothingRecorded == [id \in {} |-> 0]

ForecastInit ==
  /\ command \in Commands
  /\ admitted = NoDecision
  /\ recorded = NothingRecorded

ForecastIdle ==
  /\ command = [kind |-> "none"] /\ admitted = NoDecision /\ recorded = NothingRecorded

\* What ask refuses before any call.
RefusedRequest ==
  \/ command.secret
  \/ \E id \in DOMAIN command.request : ~ ValidQuestion(command.request[id])

RefuseRequest ==
  /\ command.kind = "ask"
  /\ admitted = NoDecision
  /\ RefusedRequest
  /\ admitted' = Failed
  /\ UNCHANGED <<command, recorded>>

\* No engine of that name, or one without its key.
EngineMissing ==
  /\ command.kind = "ask"
  /\ admitted = NoDecision
  /\ admitted' = Failed
  /\ UNCHANGED <<command, recorded>>

\* --engine none abstains, like an engine that fails.
EngineFails ==
  /\ command.kind = "ask"
  /\ admitted = NoDecision
  /\ ~ RefusedRequest
  /\ admitted' = Decided(AbstainAll(command.request))
  /\ UNCHANGED <<command, recorded>>

EngineAnswers ==
  /\ command.kind = "ask"
  /\ admitted = NoDecision
  /\ ~ RefusedRequest
  /\ admitted' = Decided(Admit(command.request, command.answers))
  /\ UNCHANGED <<command, recorded>>

RecordAnswers ==
  /\ command.kind = "ask"
  /\ admitted.state = "decided"
  /\ recorded = NothingRecorded
  /\ recorded' = PredictionTraces(command.request, admitted.answers)
  /\ UNCHANGED <<command, admitted>>

Forecast ==
  /\ command.kind = "predict"
  /\ admitted = NoDecision
  /\ IF RefusedForecast(command.forecast)
     THEN admitted' = Failed /\ UNCHANGED recorded
     ELSE /\ admitted' = Decided(<<>>)
          /\ recorded' = [id \in {"family"} |-> ForecastTrace(command.forecast)]
  /\ UNCHANGED command

ForecastNext ==
  EngineMissing \/ RefuseRequest \/ EngineFails \/ EngineAnswers \/ RecordAnswers \/ Forecast

ForecastSpec == ForecastInit /\ [][ForecastNext]_forecastVars

-----------------------------------------------------------------------------

\* Questions the engine gave an answer to.
AnsweredByEngine == {id \in DOMAIN command.answers : command.answers[id].type # "abstain"}

\* A record can be scored when its outcome comes: it names an answer the outcome
\* may have, with that answer's probability, and leans to what it thinks most
\* likely. Of one response all answers are recorded or none: a response with one
\* faulty answer is no evidence for the others (decision_port.rs, admit_inner,
\* admit_answer, prediction_traces, into_trace).
PredictionsCanBeScored ==
  /\ \A id \in DOMAIN recorded : CanBeScored(recorded[id])
  /\ command.kind = "ask" /\ recorded # NothingRecorded =>
       DOMAIN recorded = AnsweredByEngine

=============================================================================
