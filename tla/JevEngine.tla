----------------------------- MODULE JevEngine -----------------------------
(***************************************************************************)
(* The HTTP engine of the decision port: one POST, repeated after a        *)
(* back-off while the server asks for it, inside one budget of time        *)
(* (jev.rs).  Time is counted in ticks of 250 ms, the first back-off.      *)
(* What comes back is in `reply'; only a success has one.                  *)
(***************************************************************************)
EXTENDS Naturals

CONSTANTS
  MAX_RETRIES, \* JevEngine.max_retries
  Reply,       \* bodies of a successful response
  MaxLate      \* ticks by which a sleep may end late

ASSUME JevAssumption == MAX_RETRIES \in Nat /\ MaxLate \in Nat

VARIABLES
  clock,     \* ticks since the process started
  deadline,
  attempt,
  remaining, \* the timeout of the request under way
  jev,       \* where post_with_retries is
  reply

jevVars == <<clock, deadline, attempt, remaining, jev, reply>>

NoReply == [type |-> "none"]

\* What the server's answer means to post_with_retries. "error" is a transport
\* error, the timeout of the request among them.
Outcomes == {"ok", "retryable", "refused", "error"}

JevInit ==
  /\ clock = 0 /\ deadline = 0 /\ attempt = 0 /\ remaining = 0
  /\ jev = "idle" /\ reply = NoReply

\* decide is called with `timeout' ticks for everything.
Decide(timeout) ==
  /\ jev = "idle"
  /\ jev' = "loop"
  /\ deadline' = clock + timeout
  /\ attempt' = 0
  /\ UNCHANGED <<clock, remaining, reply>>

OutOfTime ==
  /\ jev = "loop"
  /\ clock >= deadline
  /\ jev' = "failed"
  /\ UNCHANGED <<clock, deadline, attempt, remaining, reply>>

\* Slip: every attempt with the time of the whole call.
RequestTimeout_OfTheCall == deadline

\* What is left of the budget is the timeout of the next request.
RequestTimeout == deadline - clock

Post ==
  /\ jev = "loop"
  /\ clock < deadline
  /\ remaining' = RequestTimeout
  /\ jev' = "posting"
  /\ UNCHANGED <<clock, deadline, attempt, reply>>

Backoff(n) == 2 ^ n

\* The provers know nothing of powers.
ASSUME BackoffAssumption == \A n \in 0..MAX_RETRIES : Backoff(n) \in Nat

\* Another attempt is allowed, and its back-off ends before the deadline.
MayRetry(now) == attempt < MAX_RETRIES /\ now + Backoff(attempt) < deadline

\* A request ends within its timeout: at once, after a tick, or at the last moment.
ReplyTimes == {0, 1, remaining} \cap (0..remaining)

Respond(outcome, body) ==
  \E took \in ReplyTimes :
    /\ jev = "posting"
    /\ clock' = clock + took
    /\ jev' = CASE outcome = "ok" -> "answered"
                [] outcome = "retryable" /\ MayRetry(clock + took) -> "sleeping"
                [] OTHER -> "failed"
    /\ reply' = IF outcome = "ok" THEN body ELSE NoReply
    /\ UNCHANGED <<deadline, attempt, remaining>>

\* A sleep lasts at least as long as it was asked to.
Wake ==
  /\ jev = "sleeping"
  /\ \E late \in 0..MaxLate : clock' = clock + Backoff(attempt) + late
  /\ attempt' = attempt + 1
  /\ jev' = "loop"
  /\ UNCHANGED <<deadline, remaining, reply>>

JevNext ==
  \/ OutOfTime \/ Post \/ Wake
  \/ \E body \in Reply : Respond("ok", body)
  \/ \E outcome \in Outcomes \ {"ok"} : Respond(outcome, NoReply)

=============================================================================
