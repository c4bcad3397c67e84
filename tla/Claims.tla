------------------------------- MODULE Claims -------------------------------
(***************************************************************************)
(* What the traces of a memory claim, where they contradict each other,    *)
(* and which claims may be promoted to a belief (claims.rs,                *)
(* consolidation.rs).  A memory is the sequence of its traces in the order *)
(* of their ids; a trace is named by its place.                            *)
(***************************************************************************)
EXTENDS Policy, Sequences, SequencesExt

\* A claim is a key and a value as they were written; <<>> is no claim.
NoClaim == <<>>

Spelling == [word : Nat, upper : BOOLEAN, spaced : BOOLEAN]

\* Keys are compared without regard to case and white space, values with case.
normalize_key(k) == k.word

normalize_value(v) == <<v.word, v.upper>>

Key(t) == normalize_key(t.claim[1])

Value(t) == normalize_value(t.claim[2])

claims_conflict(t, u) ==
  /\ t.claim # NoClaim /\ u.claim # NoClaim
  /\ Key(t) = Key(u) /\ Value(t) # Value(u)

-----------------------------------------------------------------------------

Active(mem) == {i \in DOMAIN mem : mem[i].status = "active"}

\* Sensitive traces are shown only under a policy that allows to store them.
Visible(t, policy) == policy.allow_sensitive_persistence \/ t.privacy # "sensitive"

conflicting_ids(mem, i, others) == {j \in others \ {i} : claims_conflict(mem[i], mem[j])}

\* The contested keys, each with its values and who claims them.
active_conflicts(mem, policy) ==
  LET claims == {i \in Active(mem) : Visible(mem[i], policy) /\ mem[i].claim # NoClaim}
      of(key) == {i \in claims : Key(mem[i]) = key}
      values(key) == {Value(mem[i]) : i \in of(key)}
  IN {[key |-> key,
       values |-> {[value |-> v, ids |-> {i \in of(key) : Value(mem[i]) = v}] : v \in values(key)}] :
      key \in {key \in {Key(mem[i]) : i \in claims} : Cardinality(values(key)) > 1}}

-----------------------------------------------------------------------------

ModelAuthored(t) == t.source = "model:x"

\* Slip: what nobody signed counts as often as it was written differently.
SourceName_Unattributed(t) == IF t.source = "A" THEN "a" ELSE t.source

\* Names are compared without regard to case; nobody's name is one source.
SourceName(t) ==
  CASE t.source = "A" -> "a"
    [] t.source \in {"unknown", "user"} -> "unattributed"
    [] OTHER -> t.source

\* The claims that count as evidence: not a forecast, and not a model's.
Evidence(mem) ==
  {i \in Active(mem) :
     mem[i].kind # "prediction" /\ ~ModelAuthored(mem[i]) /\ mem[i].claim # NoClaim}

\* 0.7 of the average confidence and 0.3 of the share that was verified, in
\* hundredths, times the number of traces; a confidence is given in tenths.
BlendedConfidence(mem, support) ==
  7 * SumFunction([i \in support |-> mem[i].confidence])
    + 30 * Cardinality({i \in support : mem[i].verified})

\* One proposal per key and value, in no order that matters here.
consolidation_proposals(mem, policy) ==
  LET evidence == Evidence(mem)
      proposal(key, value) ==
        LET support == {i \in evidence : Key(mem[i]) = key /\ Value(mem[i]) = value}
            sources == {SourceName(mem[i]) : i \in support}
            conflicting == {Value(mem[i]) : i \in {i \in evidence : Key(mem[i]) = key}} \ {value}
        IN [key |-> key, value |-> value, support |-> support, sources |-> sources,
            conflicting |-> conflicting,
            eligible |->
              /\ Cardinality(support) >= policy.consolidation_min_support
              /\ Cardinality(sources) >= policy.consolidation_min_independent_sources
              /\ BlendedConfidence(mem, support)
                   >= policy.consolidation_min_confidence * Cardinality(support)
              /\ conflicting = {}]
  IN {proposal(Key(mem[i]), Value(mem[i])) : i \in evidence}

=============================================================================
