------------------------------- MODULE Policy -------------------------------
(***************************************************************************)
(* The kernel policy (policy.rs): limits, thresholds and the weights of    *)
(* recall, as a file may set them.  Weights are in thousandths, scales in  *)
(* hours; the consolidation confidence is in hundredths.                   *)
(***************************************************************************)
EXTENDS Integers, FiniteSetsExt

One == 1000

KernelPolicy ==
  [working_set_limit |-> 12, recall_limit |-> 8, minimum_recall_score |-> 120,
   allow_sensitive_persistence |-> FALSE, consolidation_min_support |-> 2,
   consolidation_min_independent_sources |-> 2, consolidation_min_confidence |-> 60,
   calibration_min_outcomes |-> 50,
   lexical_coverage |-> 700, lexical_jaccard |-> 300, match_floor |-> 150,
   cue_lexical |-> 800, cue_tag |-> 200,
   meta_recency |-> 250, meta_salience |-> 200, meta_confidence |-> 200,
   meta_provenance |-> 250, meta_prospective |-> 100,
   relevance_base |-> 550, metadata_share |-> 450,
   recency_scale |-> 720, unverified_provenance_factor |-> 650, prospective_scale |-> 168,
   undated_commitment_urgency |-> 350, overdue_floor |-> 150, listing_scale |-> 500,
   redundant_at |-> 800, redundancy_penalty |-> 350]

\* The fields between 0 and 1, but for the one in hundredths.
UnitFields ==
  {"minimum_recall_score", "lexical_coverage", "lexical_jaccard", "match_floor", "cue_lexical",
   "cue_tag", "meta_recency", "meta_salience", "meta_confidence", "meta_provenance",
   "meta_prospective", "relevance_base", "metadata_share", "unverified_provenance_factor",
   "undated_commitment_urgency", "overdue_floor", "listing_scale", "redundant_at",
   "redundancy_penalty"}

\* Two shares of one score add up to at most the whole.
Shares(policy) ==
  /\ policy.lexical_coverage + policy.lexical_jaccard <= One
  /\ policy.cue_lexical + policy.cue_tag <= One
  /\ policy.relevance_base + policy.metadata_share <= One

\* KernelPolicy::validate.
Sound(policy) ==
  /\ policy.working_set_limit > 0 /\ policy.recall_limit > 0
  /\ \A field \in UnitFields : policy[field] \in 0..One
  /\ policy.consolidation_min_confidence \in 0..100
  /\ policy.minimum_recall_score > 0
  /\ policy.calibration_min_outcomes > 0
  /\ policy.consolidation_min_support > 0
  /\ policy.consolidation_min_independent_sources > 0
  /\ Shares(policy)
  /\ policy.relevance_base > 0
  /\ policy.recency_scale > 0 /\ policy.prospective_scale > 0

\* The fields a file sets; the others keep their defaults.
Loaded(file) ==
  FoldSet(LAMBDA field, policy : [policy EXCEPT ![field] = file[field]], KernelPolicy, DOMAIN file)

\* A file is refused for a field that does not exist, for a policy that is not
\* sound, and for allowing what only code may allow.
from_json_accepts(file) ==
  /\ DOMAIN file \subseteq DOMAIN KernelPolicy
  /\ ~Loaded(file).allow_sensitive_persistence
  /\ Sound(Loaded(file))

=============================================================================
