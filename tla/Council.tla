------------------------------ MODULE Council ------------------------------
(***************************************************************************)
(* The challenge lanes (council.rs): five counts, a severity each, and the *)
(* lanes that block.  Severities are in thousandths, rounded down.         *)
(***************************************************************************)
EXTENDS Integers, FiniteSets, FiniteSetsExt

BLOCK_AT == 800

Lane == {"evidence", "memory", "risk", "human_impact", "delivery"}

ratio(value, blocking_at) == Min({1000, (1000 * value) \div Max({1, blocking_at})})

veto(value) == IF value > 0 THEN 1000 ELSE 0

\* Slip: an irreversible action is weighed against other actions.
severity_Averaged(lane, count) ==
  CASE lane \in {"evidence", "delivery", "risk"} -> ratio(count, 3)
    [] lane = "memory" -> ratio(count, 2)
    [] lane = "human_impact" -> veto(count)

severity(lane, count) ==
  CASE lane \in {"evidence", "delivery"} -> ratio(count, 3)
    [] lane = "memory" -> ratio(count, 2)
    [] lane \in {"risk", "human_impact"} -> veto(count)

\* The lanes that block; the work can proceed when there is none.
deliberate(counts) == {lane \in Lane : severity(lane, counts[lane]) >= BLOCK_AT}

=============================================================================
