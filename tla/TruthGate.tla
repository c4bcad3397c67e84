----------------------------- MODULE TruthGate -----------------------------
(***************************************************************************)
(* The Stop hook (hook.rs): rules, an engine that may be asked, one line   *)
(* of output, and then, if it was asked for, a record of the engine's      *)
(* answer.  An event is what the host sends: whether it is an object, what *)
(* was damaged on the way, whether the host says that it stopped already,  *)
(* and what the assistant said.  The host may kill the hook at any time.   *)
(***************************************************************************)
EXTENDS JevEngine, DecisionPort, GateRules

CONSTANTS
  Events,      \* what the host may send
  Environments \* how the hook may be configured

\* What can happen to an event on its way.
Damage == {"none", "emoji", "number", "trailing", "text", "lost"}

ASSUME GateAssumption ==
  /\ \A e \in Events : e.damage \in Damage /\ e.object \in BOOLEAN
  /\ \A e \in Environments : e.timeout \in Nat

VARIABLES
  event, env,
  gate,    \* where run_stop_hook_recording is
  verdict,
  printed, \* what the host has read
  stored   \* the prediction in the store, if any

gateVars == <<event, env, gate, verdict, printed, stored, jevVars>>

Question == "false_completion"

FalseCompletionRequest == [id \in {Question} |-> [kind |-> "noul"]]

NoPrediction == [kind |-> "none"]

-----------------------------------------------------------------------------

\* Configuration. Times are in ticks; a timeout is at least one.

HOOK_CAP == 12

DEFAULT_ENGINE_THRESHOLD == 600

\* from_env, capped by the hook.
EngineTimeout == Min({HOOK_CAP, Max({1, Min({240, env.timeout})})})

HasEngine == env.engine = "jev" /\ env.key

\* An unusable value is no value.
Threshold == IF Unit(env.threshold) THEN env.threshold ELSE DEFAULT_ENGINE_THRESHOLD

Lift == IF Unit(env.lift) THEN env.lift ELSE Unknown

-----------------------------------------------------------------------------

\* What is read of the event: all, of a broken emoji; two fields, of a number
\* out of range or of what goes on after the object; no message, if its own
\* text is broken; nothing, if it is not found.
parse_payload ==
  CASE event.damage \in {"none", "emoji"} ->
         [object |-> event.object, active |-> event.active, said |-> event.said]
    [] event.damage \in {"number", "trailing"} ->
         [object |-> TRUE, active |-> event.active, said |-> event.said]
    [] event.damage = "text" -> [object |-> TRUE, active |-> event.active, said |-> <<>>]
    [] event.damage = "lost" -> [object |-> FALSE, active |-> "absent", said |-> <<>>]

truthy(value) == value \in {"true", "text 1", "2"}

\* read_stop_event found a message to judge.
Judged == parse_payload.object /\ ~truthy(parse_payload.active) /\ parse_payload.said # <<>>

RulesBlock == rules_match(parse_payload.said).rule # "none"

\* The verdict without an engine's answer; it starts as this.
RulesVerdict(path) ==
  [block |-> RulesBlock, path |-> path, prediction |-> NoPrediction]

Allowed == [block |-> FALSE, path |-> "rules", prediction |-> NoPrediction]

\* The engine is asked about the head of the message, unless nothing is in it or
\* it holds a credential.
MayAsk == event.text = "plain"

\* The admitted answer to the one question.
Answer ==
  IF jev = "answered" /\ reply.type = "answers"
  THEN Admit(FalseCompletionRequest, reply.answers)[Question]
  ELSE Abstain

\* Slip: a lift nobody asked for.
Lifted_ByDefault(p) == RulesBlock /\ ~ p >= Threshold /\ p < Threshold

Lifted(p) == RulesBlock /\ ~ p >= Threshold /\ Lift # Unknown /\ p < Lift

EngineVerdict(answer) ==
  LET p == answer.noul
  IN [block |-> p >= Threshold \/ (RulesBlock /\ ~ Lifted(p)),
      path |-> "engine",
      prediction |->
        PredictionTraces(FalseCompletionRequest, [id \in {Question} |-> answer])[Question]]

GateInit ==
  /\ event \in Events
  /\ env \in Environments
  /\ gate = "start"
  /\ verdict = Allowed
  /\ printed = "nothing"
  /\ stored = NoPrediction
  /\ JevInit

GateIdle ==
  /\ gate = "idle"
  /\ event = [damage |-> "none", object |-> FALSE, active |-> "absent", said |-> <<>>, text |-> "plain"]
  /\ env = [engine |-> "none"]
  /\ verdict = Allowed /\ printed = "nothing" /\ stored = NoPrediction
  /\ JevInit

Skip ==
  /\ gate = "start"
  /\ ~Judged
  /\ verdict' = Allowed
  /\ gate' = "print"
  /\ UNCHANGED <<event, env, printed, stored, jevVars>>

JudgeByRules ==
  /\ gate = "start"
  /\ Judged
  /\ ~ (HasEngine /\ MayAsk)
  /\ verdict' = RulesVerdict(IF HasEngine THEN "rules_fallback" ELSE "rules")
  /\ gate' = "print"
  /\ UNCHANGED <<event, env, printed, stored, jevVars>>

AskEngine ==
  /\ gate = "start"
  /\ Judged
  /\ HasEngine
  /\ MayAsk
  /\ verdict' = RulesVerdict("rules_fallback")
  /\ gate' = "asking"
  /\ Decide(EngineTimeout)
  /\ UNCHANGED <<event, env, printed, stored>>

WaitForEngine ==
  /\ gate = "asking"
  /\ JevNext
  /\ UNCHANGED <<event, env, gate, verdict, printed, stored>>

\* An engine that failed, abstained or was rejected leaves the rules' verdict.
EngineReturns ==
  /\ gate = "asking"
  /\ jev \in {"answered", "failed"}
  /\ verdict' = IF Answer.type = "noul" THEN EngineVerdict(Answer) ELSE verdict
  /\ gate' = "print"
  /\ UNCHANGED <<event, env, printed, stored, jevVars>>

PrintVerdict ==
  /\ gate = "print"
  /\ printed' = IF verdict.block THEN "block" ELSE "allow"
  /\ gate' = IF env.record THEN "record" ELSE "done"
  /\ UNCHANGED <<event, env, verdict, stored, jevVars>>

\* The host is gone: the hook fails, and records nothing.
PrintFails ==
  /\ gate = "print"
  /\ gate' = "done"
  /\ UNCHANGED <<event, env, verdict, printed, stored, jevVars>>

RecordPrediction ==
  /\ gate = "record"
  /\ stored' = verdict.prediction
  /\ gate' = "done"
  /\ UNCHANGED <<event, env, verdict, printed, jevVars>>

\* Nothing to record, a busy store, a refused trace, a panic: all the same.
RecordFails ==
  /\ gate = "record"
  /\ gate' = "done"
  /\ UNCHANGED <<event, env, verdict, printed, stored, jevVars>>

Killed ==
  /\ gate \notin {"idle", "done", "killed"}
  /\ gate' = "killed"
  /\ UNCHANGED <<event, env, verdict, printed, stored, jevVars>>

GateNext ==
  \/ Skip \/ JudgeByRules \/ AskEngine \/ WaitForEngine \/ EngineReturns
  \/ PrintVerdict \/ PrintFails \/ RecordPrediction \/ RecordFails \/ Killed

GateSpec == GateInit /\ [][GateNext]_gateVars

-----------------------------------------------------------------------------

\* The probability of an engine that gave exactly what it was asked for.
Given ==
  IF /\ jev = "answered"
     /\ reply.type = "answers"
     /\ DOMAIN reply.answers = {Question}
     /\ reply.answers[Question].type = "noul"
  THEN {reply.answers[Question].noul} \cap (0..One)
  ELSE {}

\* A message is to be judged unless the host continues a stop, and unless
\* damage took the message itself; other damage does not turn the gate off.
ToJudge ==
  /\ event.said # <<>>
  /\ event.active \notin {"true", "text 1", "2"}
  /\ event.damage \notin {"text", "lost"}
  /\ event.object \/ event.damage \in {"number", "trailing"}

\* What the host reads (hook.rs, evaluate_message): nothing judged is nothing
\* blocked; without a valid answer of the engine the rules decide; with one, the
\* engine blocks from its threshold on, and takes a block of the rules back only
\* below a lift somebody opted into. Only a valid answer is recorded, after the
\* verdict was printed.
VerdictFollows ==
  /\ printed # "nothing" =>
       LET blocked == ToJudge /\ rules_match(event.said).rule # "none"
       IN /\ ~ToJudge => Given = {}
          /\ Given = {} => printed = IF blocked THEN "block" ELSE "allow"
          /\ \A p \in Given :
               /\ p >= Threshold => printed = "block"
               /\ p < Threshold => (printed = "block" <=> blocked /\ (Lift = Unknown \/ p >= Lift))
  /\ stored # NoPrediction => printed # "nothing" /\ stored.p \in Given

\* The host waits for the hook, so whatever is configured and however late the
\* engine is, the verdict comes within the hook's cap and one late wake-up
\* (main.rs, jev_engine; jev.rs, post_with_retries).
AnswersInTime == printed # "nothing" => clock <= HOOK_CAP + MaxLate

=============================================================================
