-------------------------- MODULE TruthGate_proofs --------------------------
(***************************************************************************)
(* The Stop hook answers in time, and with the verdict it ought to give:   *)
(* for every event, configuration, engine, number of retries and delay.    *)
(***************************************************************************)
EXTENDS TruthGate, TLAPS

\* What Min and Max of two numbers are.
LEMMA MinOfTwo ==
  ASSUME NEW a \in Int, NEW b \in Int
  PROVE  Min({a, b}) \in {a, b} /\ Min({a, b}) <= a /\ Min({a, b}) <= b
<1>1. \E x \in {a, b} : \A y \in {a, b} : x <= y
  <2>1. CASE a <= b
    BY <2>1
  <2>2. CASE ~(a <= b)
    BY <2>2
  <2>. QED  BY <2>1, <2>2
<1>. QED  BY <1>1 DEF Min

LEMMA MaxOfTwo ==
  ASSUME NEW a \in Int, NEW b \in Int
  PROVE  Max({a, b}) \in {a, b} /\ Max({a, b}) >= a /\ Max({a, b}) >= b
<1>1. \E x \in {a, b} : \A y \in {a, b} : x >= y
  <2>1. CASE a >= b
    BY <2>1
  <2>2. CASE ~(a >= b)
    BY <2>2
  <2>. QED  BY <2>1, <2>2
<1>. QED  BY <1>1 DEF Max

\* Whatever the environment says, the engine gets at most the hook's cap.
LEMMA BudgetWithinCap ==
  ASSUME env \in Environments
  PROVE  EngineTimeout \in 1..HOOK_CAP
<1>. DEFINE timeout == env.timeout
            asked == Min({240, timeout})
            least == Max({1, asked})
<1>1. timeout \in Nat
  BY GateAssumption
<1>2. asked \in Nat
  <2>. HIDE DEF timeout
  <2>1. asked \in {240, timeout}
    BY <1>1, MinOfTwo, 240 \in Int, timeout \in Int
  <2>. QED  BY <1>1, <2>1
<1>3. least \in Nat /\ least >= 1
  <2>. HIDE DEF asked
  <2>1. least \in {1, asked} /\ least >= 1
    BY <1>2, MaxOfTwo, 1 \in Int, asked \in Int
  <2>. QED  BY <1>2, <2>1
<1>4. Min({HOOK_CAP, least}) \in 1..HOOK_CAP
  <2>. HIDE DEF least
  <2>. QED  BY <1>3, MinOfTwo DEF HOOK_CAP
<1>. QED  BY <1>4 DEF EngineTimeout

-----------------------------------------------------------------------------
(* Time *)

\* Where the time is: a request ends by the deadline, a back-off would, and only
\* a sleep that ends late passes it.
TimeInv ==
  /\ env \in Environments
  /\ clock \in Nat /\ deadline \in Nat /\ attempt \in Nat /\ remaining \in Nat
  /\ gate = "start" => jev = "idle" /\ clock = 0
  /\ deadline <= HOOK_CAP
  /\ clock <= deadline + MaxLate
  /\ jev = "posting" => clock + remaining = deadline
  /\ jev = "sleeping" => attempt < MAX_RETRIES /\ clock + Backoff(attempt) < deadline

\* One step of post_with_retries.
LEMMA EngineKeepsTime ==
  ASSUME TimeInv, gate = "asking", JevNext, UNCHANGED <<env, gate>>
  PROVE  TimeInv'
<1>. USE JevAssumption DEF TimeInv
<1>1. CASE OutOfTime
  BY <1>1 DEF OutOfTime
<1>2. CASE Post
  BY <1>2 DEF Post, RequestTimeout
<1>3. CASE Wake
  <2>1. PICK late \in 0..MaxLate : clock' = clock + Backoff(attempt) + late
    BY <1>3 DEF Wake
  <2>2. Backoff(attempt) \in Nat /\ clock + Backoff(attempt) < deadline
    BY <1>3, BackoffAssumption DEF Wake
  <2>3. clock' \in Nat /\ clock' <= deadline + MaxLate
    BY <2>1, <2>2
  <2>. QED  BY <1>3, <2>3 DEF Wake
<1>4. ASSUME NEW outcome, NEW body, Respond(outcome, body)
      PROVE  TimeInv'
  <2>1. PICK took \in ReplyTimes :
          /\ clock' = clock + took
          /\ jev' = CASE outcome = "ok" -> "answered"
                      [] outcome = "retryable" /\ MayRetry(clock + took) -> "sleeping"
                      [] OTHER -> "failed"
    BY <1>4 DEF Respond
  <2>2. jev = "posting" /\ UNCHANGED <<deadline, attempt, remaining>>
    BY <1>4 DEF Respond
  <2>3. took \in 0..remaining
    BY <2>1 DEF ReplyTimes
  <2>4. clock' \in Nat /\ clock' <= deadline
    BY <2>1, <2>2, <2>3
  <2>5. \/ jev' = "answered" \/ jev' = "failed"
        \/ jev' = "sleeping" /\ MayRetry(clock')
    BY <2>1
  <2>6. jev' = "sleeping" => attempt' < MAX_RETRIES /\ clock' + Backoff(attempt') < deadline'
    BY <2>2, <2>5 DEF MayRetry
  <2>7. jev' # "posting"
    BY <2>5
  <2>8. clock' <= deadline' + MaxLate
    BY <2>2, <2>4
  <2>. QED  BY <2>2, <2>4, <2>6, <2>7, <2>8
<1>. QED  BY <1>1, <1>2, <1>3, <1>4 DEF JevNext

LEMMA TimeInvNext == TimeInv /\ [GateNext]_gateVars => TimeInv'
<1>. SUFFICES ASSUME TimeInv, [GateNext]_gateVars
              PROVE  TimeInv'
  OBVIOUS
<1>1. CASE AskEngine
  <2>1. EngineTimeout \in 1..HOOK_CAP
    BY BudgetWithinCap DEF TimeInv
  <2>2. deadline' = EngineTimeout /\ UNCHANGED <<env, clock, remaining>>
        /\ attempt' = 0 /\ jev' = "loop" /\ gate' = "asking" /\ clock = 0
    BY <1>1, <2>1 DEF AskEngine, Decide, TimeInv, HOOK_CAP
  <2>. QED  BY <2>1, <2>2, JevAssumption DEF TimeInv, HOOK_CAP
<1>2. CASE WaitForEngine
  BY <1>2, EngineKeepsTime DEF WaitForEngine
<1>3. CASE UNCHANGED jevVars /\ UNCHANGED env /\ (gate' = gate \/ gate' # "start")
  BY <1>3 DEF jevVars, TimeInv
<1>. QED
  BY <1>1, <1>2, <1>3
     DEF GateNext, Skip, JudgeByRules, EngineReturns, PrintVerdict, PrintFails,
         RecordPrediction, RecordFails, Killed, gateVars

\* Whatever is configured and however late the engine is, the host reads the
\* verdict within the hook's cap and one late wake-up (main.rs, jev_engine;
\* jev.rs, post_with_retries).
THEOREM VerdictInTime == GateSpec => []AnswersInTime
<1>1. GateInit => TimeInv
  BY JevAssumption DEF GateInit, JevInit, TimeInv, HOOK_CAP
<1>2. TimeInv => AnswersInTime
  BY JevAssumption DEF TimeInv, AnswersInTime, HOOK_CAP
<1>. QED  BY <1>1, <1>2, TimeInvNext, PTL DEF GateSpec

-----------------------------------------------------------------------------
(* What is answered *)

\* The admitted answer is the probability the engine gave, if it gave exactly
\* what it was asked for, and nothing otherwise.
LEMMA AnswerIsGiven ==
  /\ Answer.type = "noul" => Unit(Answer.noul) /\ Given = {Answer.noul}
  /\ Answer.type # "noul" => Answer.type = "abstain" /\ Given = {}
<1>. DEFINE request == FalseCompletionRequest
<1>1. DOMAIN request = {Question} /\ request[Question] = [kind |-> "noul"]
  BY DEF FalseCompletionRequest
<1>2. Abstain.type = "abstain"
  BY DEF Abstain
<1>3. CASE ~ (jev = "answered" /\ reply.type = "answers")
  BY <1>2, <1>3 DEF Answer, Given
<1>4. CASE jev = "answered" /\ reply.type = "answers"
  <2>. DEFINE answers == reply.answers
  <2>1. Answer = Admit(request, answers)[Question]
    BY <1>4 DEF Answer
  <2>. HIDE DEF request
  <2>2. CASE RejectsResponse(request, answers)
    <3>1. Answer.type = "abstain"
      BY <1>1, <1>2, <2>1, <2>2 DEF Admit, AbstainAll
    <3>2. Given = {}
      <4>1. SUFFICES ASSUME DOMAIN answers = {Question}, answers[Question].type = "noul",
                            Unit(answers[Question].noul)
                     PROVE  FALSE
        BY DEF Given, Unit
      <4>2. Acceptable(request[Question], answers[Question])
        BY <1>1, <4>1 DEF Acceptable
      <4>. QED  BY <1>1, <2>2, <4>1, <4>2 DEF RejectsResponse
    <3>. QED  BY <3>1, <3>2
  <2>3. CASE ~ RejectsResponse(request, answers)
    <3>1. CASE Question \in DOMAIN answers
      <4>1. DOMAIN answers = {Question} /\ Acceptable(request[Question], answers[Question])
        BY <1>1, <2>3, <3>1 DEF RejectsResponse
      <4>2. Answer = answers[Question]
        BY <1>1, <2>1, <2>3, <3>1 DEF Admit
      <4>3. Answer.type = "abstain" \/ (Answer.type = "noul" /\ Unit(Answer.noul))
        BY <1>1, <4>1, <4>2 DEF Acceptable
      <4>. QED  BY <1>4, <4>1, <4>2, <4>3 DEF Given, Unit
    <3>2. CASE Question \notin DOMAIN answers
      <4>1. Answer.type = "abstain"
        BY <1>1, <1>2, <2>1, <2>3, <3>2 DEF Admit
      <4>. QED  BY <3>2, <4>1 DEF Given
    <3>. QED  BY <3>1, <3>2
  <2>. QED  BY <2>2, <2>3
<1>. QED  BY <1>3, <1>4

\* An event is judged when it ought to be, and as it was sent.
LEMMA DamageReadsRight ==
  ASSUME event \in Events
  PROVE  /\ Judged <=> ToJudge
         /\ Judged => parse_payload.said = event.said
<1>1. event.damage \in Damage /\ event.object \in BOOLEAN
  BY GateAssumption
<1>2. CASE event.damage \in {"none", "emoji"}
  <2>1. parse_payload = [object |-> event.object, active |-> event.active, said |-> event.said]
    BY <1>2 DEF parse_payload
  <2>. QED  BY <1>1, <1>2, <2>1 DEF Judged, ToJudge, truthy
<1>3. CASE event.damage \in {"number", "trailing"}
  <2>1. parse_payload = [object |-> TRUE, active |-> event.active, said |-> event.said]
    BY <1>3 DEF parse_payload
  <2>. QED  BY <1>1, <1>3, <2>1 DEF Judged, ToJudge, truthy
<1>4. CASE event.damage = "text"
  <2>1. parse_payload = [object |-> TRUE, active |-> event.active, said |-> <<>>]
    BY <1>4 DEF parse_payload
  <2>. QED  BY <1>1, <1>4, <2>1 DEF Judged, ToJudge, truthy
<1>5. CASE event.damage = "lost"
  <2>1. parse_payload = [object |-> FALSE, active |-> "absent", said |-> <<>>]
    BY <1>5 DEF parse_payload
  <2>. QED  BY <1>1, <1>5, <2>1 DEF Judged, ToJudge, truthy
<1>. QED  BY <1>1, <1>2, <1>3, <1>4, <1>5 DEF Damage

-----------------------------------------------------------------------------
(* The verdict *)

\* The verdict is that of the rules, or of the engine if it answered.
ByRules == verdict.block = RulesBlock /\ verdict.prediction = NoPrediction

Settled ==
  /\ ~Judged => verdict = Allowed /\ Given = {}
  /\ Judged /\ Given = {} => ByRules
  /\ Judged /\ Given # {} => Answer.type = "noul" /\ verdict = EngineVerdict(Answer)

\* Where the hook is, and what it has printed and stored of its verdict.  Until
\* the verdict is settled nothing is printed; and only a printed one is recorded.
VerdictInv ==
  /\ event \in Events
  /\ gate = "start" => jev = "idle"
  /\ gate = "asking" => Judged /\ ByRules
  /\ gate \in {"print", "record"} => Settled
  /\ gate \in {"start", "asking", "print"} => printed = "nothing"
  /\ gate = "record" => printed # "nothing"
  /\ gate \in {"start", "asking", "print", "record"} => stored = NoPrediction
  /\ printed # "nothing" => Settled /\ printed = IF verdict.block THEN "block" ELSE "allow"
  /\ stored # NoPrediction => printed # "nothing" /\ stored = verdict.prediction

\* Nothing the verdict depends on changes once it is settled.
LEMMA SettledStays ==
  ASSUME UNCHANGED <<event, env, verdict, jev, reply>>
  PROVE  Settled' <=> Settled
BY DEF Settled, ByRules, Judged, parse_payload, truthy, RulesBlock, Allowed, Given, Answer,
       EngineVerdict, Threshold, Lifted, Lift

LEMMA VerdictInvNext == VerdictInv /\ [GateNext]_gateVars => VerdictInv'
<1>. SUFFICES ASSUME VerdictInv, [GateNext]_gateVars
              PROVE  VerdictInv'
  OBVIOUS
<1>. USE DEF VerdictInv
<1>1. CASE Skip
  <2>1. Given = {}
    BY <1>1 DEF Skip, Given
  <2>2. Settled'
    BY <1>1, <2>1 DEF Skip, Settled, Judged, parse_payload, truthy, Given, jevVars
  <2>. QED  BY <1>1, <2>2 DEF Skip
<1>2. CASE JudgeByRules
  <2>1. Given = {}
    BY <1>2 DEF JudgeByRules, Given
  <2>2. Settled'
    BY <1>2, <2>1 DEF JudgeByRules, Settled, Judged, parse_payload, truthy, Given, jevVars,
                      ByRules, RulesVerdict, RulesBlock
  <2>. QED  BY <1>2, <2>2 DEF JudgeByRules
<1>3. CASE AskEngine
  <2>1. Judged' /\ ByRules'
    BY <1>3 DEF AskEngine, Judged, parse_payload, truthy, ByRules, RulesVerdict, RulesBlock
  <2>. QED  BY <1>3, <2>1 DEF AskEngine
<1>4. CASE WaitForEngine
  <2>1. Judged' /\ ByRules'
    BY <1>4 DEF WaitForEngine, Judged, parse_payload, truthy, ByRules, RulesBlock
  <2>. QED  BY <1>4, <2>1 DEF WaitForEngine
<1>5. CASE EngineReturns
  <2>1. Judged' /\ Answer' = Answer /\ Given' = Given /\ RulesBlock' = RulesBlock
    BY <1>5 DEF EngineReturns, Judged, parse_payload, truthy, Answer, Given, RulesBlock, jevVars
  <2>2. EngineVerdict(Answer)' = EngineVerdict(Answer)
    BY <1>5, <2>1 DEF EngineReturns, EngineVerdict, Threshold, Lifted, Lift
  <2>3. Settled'
    <3>1. CASE Answer.type = "noul"
      BY <1>5, <2>1, <2>2, <3>1, AnswerIsGiven DEF EngineReturns, Settled
    <3>2. CASE Answer.type # "noul"
      BY <1>5, <2>1, <3>2, AnswerIsGiven DEF EngineReturns, Settled, ByRules
    <3>. QED  BY <3>1, <3>2
  <2>. QED  BY <1>5, <2>3 DEF EngineReturns
<1>6. CASE PrintVerdict
  <2>1. Settled'
    BY <1>6, SettledStays DEF PrintVerdict, jevVars
  <2>. QED  BY <1>6, <2>1 DEF PrintVerdict
<1>7. CASE RecordPrediction
  <2>1. Settled'
    BY <1>7, SettledStays DEF RecordPrediction, jevVars
  <2>. QED  BY <1>7, <2>1 DEF RecordPrediction
<1>8. CASE PrintFails \/ RecordFails \/ Killed \/ UNCHANGED gateVars
  <2>1. /\ UNCHANGED <<event, env, verdict, printed, stored, jev, reply>>
        /\ gate' = gate \/ gate' \in {"done", "killed"}
    BY <1>8 DEF PrintFails, RecordFails, Killed, gateVars, jevVars
  <2>2. Settled' <=> Settled
    BY <2>1, SettledStays
  <2>3. (Judged' <=> Judged) /\ (ByRules' <=> ByRules)
    BY <2>1 DEF Judged, parse_payload, truthy, ByRules, RulesBlock
  <2>4. CASE gate' = gate
    BY <2>1, <2>2, <2>3, <2>4
  <2>5. CASE gate' \in {"done", "killed"}
    BY <2>1, <2>2, <2>3, <2>5
  <2>. QED  BY <2>1, <2>4, <2>5
<1>. QED
  BY <1>1, <1>2, <1>3, <1>4, <1>5, <1>6, <1>7, <1>8 DEF GateNext

\* A settled verdict is the one the host should read.
LEMMA SettledIsRight ==
  ASSUME VerdictInv
  PROVE  VerdictFollows
<1>. DEFINE blocked == ToJudge /\ rules_match(event.said).rule # "none"
<1>1. (Judged <=> ToJudge) /\ (Judged => RulesBlock = blocked)
  BY DamageReadsRight DEF VerdictInv, RulesBlock
<1>2. ASSUME printed # "nothing"
      PROVE  /\ ~ToJudge => Given = {}
             /\ Given = {} => printed = IF blocked THEN "block" ELSE "allow"
             /\ \A p \in Given :
                  /\ p >= Threshold => printed = "block"
                  /\ p < Threshold => (printed = "block" <=> blocked /\ (Lift = Unknown \/ p >= Lift))
  <2>1. Settled /\ printed = IF verdict.block THEN "block" ELSE "allow"
    BY <1>2 DEF VerdictInv
  <2>2. ~ToJudge => Given = {}
    BY <1>1, <2>1 DEF Settled
  <2>3. ASSUME Given = {}
        PROVE  printed = IF blocked THEN "block" ELSE "allow"
    <3>1. verdict.block = blocked
      <4>1. CASE Judged
        BY <1>1, <2>1, <2>3, <4>1 DEF Settled, ByRules
      <4>2. CASE ~Judged
        <5>1. verdict.block = FALSE
          BY <2>1, <4>2 DEF Settled, Allowed
        <5>. QED  BY <1>1, <4>2, <5>1
      <4>. QED  BY <4>1, <4>2
    <3>. HIDE DEF blocked
    <3>. QED  BY <2>1, <3>1
  <2>4. ASSUME NEW p \in Given
        PROVE  /\ p >= Threshold => printed = "block"
               /\ p < Threshold => (printed = "block" <=> blocked /\ (Lift = Unknown \/ p >= Lift))
    <3>1. Judged /\ Answer.type = "noul" /\ verdict = EngineVerdict(Answer)
      BY <1>1, <2>1, <2>2, <2>4 DEF Settled
    <3>2. p = Answer.noul /\ p \in 0..One
      BY <2>4, <3>1, AnswerIsGiven DEF Unit
    <3>3. verdict.block = (p >= Threshold \/ (RulesBlock /\ ~ Lifted(p)))
      BY <3>1, <3>2 DEF EngineVerdict
    <3>4. Threshold \in 0..One /\ Lift \in (0..One) \cup {Unknown}
      BY DEF Threshold, Lift, Unit, DEFAULT_ENGINE_THRESHOLD, One
    <3>5. CASE p >= Threshold
      <4>1. ~ p < Threshold
        BY <3>2, <3>4, <3>5 DEF One
      <4>2. verdict.block
        BY <3>3, <3>5
      <4>. QED  BY <2>1, <4>1, <4>2
    <3>6. CASE p < Threshold
      <4>1. Lifted(p) <=> RulesBlock /\ Lift # Unknown /\ p < Lift
        BY <3>2, <3>4, <3>6 DEF Lifted, One
      <4>2. verdict.block = (RulesBlock /\ ~ Lifted(p))
        <5>1. ~ p >= Threshold
          BY <3>2, <3>4, <3>6 DEF One
        <5>. QED  BY <3>3, <5>1
      <4>3. ~ (Lift # Unknown /\ p < Lift) <=> Lift = Unknown \/ p >= Lift
        BY <3>2, <3>4 DEF One, Unknown
      <4>4. RulesBlock = blocked
        BY <1>1, <3>1
      <4>5. verdict.block <=> blocked /\ (Lift = Unknown \/ p >= Lift)
        <5>. HIDE DEF blocked
        <5>. QED  BY <4>1, <4>2, <4>3, <4>4
      <4>6. ~ p >= Threshold
        BY <3>2, <3>4, <3>6 DEF One
      <4>7. printed = "block" <=> verdict.block
        BY <2>1
      <4>. QED  BY <4>5, <4>6, <4>7
    <3>. QED  BY <3>2, <3>4, <3>5, <3>6 DEF One
  <2>. QED  BY <2>2, <2>3, <2>4
<1>3. ASSUME stored # NoPrediction
      PROVE  printed # "nothing" /\ stored.p \in Given
  <2>1. printed # "nothing" /\ Settled /\ stored = verdict.prediction
    BY <1>3 DEF VerdictInv
  <2>2. Answer.type = "noul" /\ verdict = EngineVerdict(Answer)
    BY <1>3, <2>1 DEF Settled, ByRules, Allowed
  <2>3. stored = Prediction([kind |-> "noul"], Answer)
    BY <2>1, <2>2 DEF EngineVerdict, PredictionTraces, FalseCompletionRequest
  <2>4. stored.p = Answer.noul
    <3>1. StatedP(Answer) = Answer.noul
      BY <2>2 DEF StatedP
    <3>. QED  BY <2>3, <3>1 DEF Prediction
  <2>. QED  BY <2>1, <2>2, <2>4, AnswerIsGiven
<1>. QED  BY <1>2, <1>3 DEF VerdictFollows

\* What the host reads is what rules and engine say of the message; and what is
\* recorded is what the engine said, after it was printed (hook.rs,
\* evaluate_message, run_stop_hook_recording).
THEOREM VerdictIsRight == GateSpec => []VerdictFollows
<1>1. GateInit => VerdictInv
  BY DEF GateInit, JevInit, VerdictInv
<1>. QED  BY <1>1, VerdictInvNext, SettledIsRight, PTL DEF GateSpec

=============================================================================
