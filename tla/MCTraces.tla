------------------------------ MODULE MCTraces ------------------------------
(***************************************************************************)
(* Small instances of Traces.  Processes and ids are interchangeable.      *)
(***************************************************************************)
EXTENDS Traces, TLC

MCDraft(k, m, v) == [kind |-> k, model |-> m, verified |-> v]

\* An attested commitment, a model's prediction, and an outcome that nobody
\* attests.  The commitment and the outcome may also correct another trace.
MCForecasts == {MCDraft("commitment", FALSE, TRUE), MCDraft("prediction", TRUE, FALSE),
                MCDraft("outcome", FALSE, FALSE)}

\* A person's beliefs, attested or not, and a model's.
MCBeliefs == {MCDraft("belief", FALSE, FALSE), MCDraft("belief", FALSE, TRUE),
              MCDraft("belief", TRUE, FALSE)}

\* Beliefs of one kind.
MCBelief == {MCDraft("belief", FALSE, FALSE)}

MCSymmetry == Permutations(Proc) \cup Permutations(Id)
=============================================================================
