--------------------------- MODULE Readers_proofs --------------------------
(***************************************************************************)
(* Proofs about the commands that read the file: the council, the          *)
(* consolidation of claims, the deadlines of commitments, recall, what the *)
(* commands agree about in one memory, the rules of the Truth Gate, and    *)
(* what validation says of skills.                                         *)
(***************************************************************************)
EXTENDS Readers, Finite_proofs, SequenceTheorems

\* A command is answered as what it is.
LEMMA OtherCommands ==
  ASSUME ReadNext
  PROVE  /\ request'.command = "deliberate" => Deliberate
         /\ request'.command = "deadline" => Deadline
         /\ request'.command = "consolidate" => Consolidate
         /\ request'.command = "recall" => Recall
         /\ request'.command = "why" => Why
         /\ request'.command = "commitments" => Commitments
         /\ request'.command = "gate-explain" => GateExplain
         /\ request'.command = "validate" => ValidateRepo
<1>0. \A c, i, r : Answered(c, i, r) => request'.command = c
  BY DEF Answered
<1>1. CASE GateExplain
  BY <1>1 DEF GateExplain, Answered
<1>5. CASE RefusePolicy
  BY <1>0, <1>5 DEF RefusePolicy
<1>6. CASE Recall
  BY <1>6 DEF Recall, Answered
<1>7. CASE Why
  <2>1. PICK l \in Lineages : \E i \in DOMAIN l.memory :
          Answered("why", [memory |-> l.memory, file |-> l.file, id |-> i],
                   provenance_chain(l.memory, i, Loaded(l.file)))
    BY <1>7 DEF Why
  <2>. QED  BY <1>0, <1>7, <2>1
<1>8. CASE Conflicts
  BY <1>0, <1>8 DEF Conflicts
<1>9. CASE Commitments
  BY <1>9 DEF Commitments, Answered
<1>10. CASE ValidateRepo
  BY <1>10 DEF ValidateRepo, Answered
<1>2. CASE Consolidate
  BY <1>2 DEF Consolidate, Answered
<1>3. CASE Deadline
  BY <1>3 DEF Deadline, Answered
<1>4. CASE Deliberate
  BY <1>4 DEF Deliberate, Answered
<1>. QED  BY <1>1, <1>2, <1>3, <1>4, <1>5, <1>6, <1>7, <1>8, <1>9, <1>10 DEF ReadNext

\* The answer is the one that belongs to the request.
ReadInv ==
  /\ request.command = "deliberate" =>
       request.input \in Inputs /\ answer = deliberate(request.input)
  /\ request.command = "deadline" =>
       /\ request.input \in Times
       /\ answer = parse_deadline(request.input.text, request.input.now)
  /\ request.command = "consolidate" =>
       /\ request.input \in Evidences /\ from_json_accepts(request.input.file)
       /\ answer = consolidation_proposals(request.input.memory, Loaded(request.input.file))
  /\ request.command = "recall" =>
       /\ request.input \in Lookups \cup Lineages /\ from_json_accepts(request.input.file)
       /\ answer = recall(request.input.memory, request.input.query, Loaded(request.input.file))
  /\ request.command = "why" =>
       \E l \in Lineages : \E i \in DOMAIN l.memory :
         /\ request.input = [memory |-> l.memory, file |-> l.file, id |-> i]
         /\ answer = provenance_chain(l.memory, i, Loaded(l.file))
  /\ request.command = "commitments" =>
       /\ request.input \in Agendas
       /\ answer = commitments_due(request.input.memory, request.input.query.now, request.input.within)
  /\ request.command = "gate-explain" =>
       request.input \in Messages /\ answer = rules_match(request.input)
  /\ request.command = "validate" =>
       request.input \in Repos /\ answer \in validate(request.input)

\* Once answered, a request stays as it is answered (main.rs, run).
LEMMA AnswersFollow == ReadSpec => []ReadInv
<1>1. ReadInit => ReadInv
  BY DEF ReadInit, ReadInv
<1>2. ReadInv /\ [ReadNext]_readVars => ReadInv'
  <2>. SUFFICES ASSUME ReadInv, [ReadNext]_readVars PROVE ReadInv'
    OBVIOUS
  <2>1. CASE UNCHANGED readVars
    BY <2>1 DEF readVars, ReadInv
  <2>2. CASE ReadNext
    <3>1. ASSUME request'.command = "deliberate"
          PROVE  request'.input \in Inputs /\ answer' = deliberate(request'.input)
      <4>1. Deliberate
        BY <2>2, <3>1, OtherCommands
      <4>2. PICK counts \in Inputs : Answered("deliberate", counts, deliberate(counts))
        BY <4>1 DEF Deliberate
      <4>. QED  BY <4>2 DEF Answered
    <3>2. ASSUME request'.command = "deadline"
          PROVE  /\ request'.input \in Times
                 /\ answer' = parse_deadline(request'.input.text, request'.input.now)
      <4>1. Deadline
        BY <2>2, <3>2, OtherCommands
      <4>2. PICK t \in Times : Answered("deadline", t, parse_deadline(t.text, t.now))
        BY <4>1 DEF Deadline
      <4>. QED  BY <4>2 DEF Answered
    <3>3. ASSUME request'.command = "consolidate"
          PROVE  /\ request'.input \in Evidences /\ from_json_accepts(request'.input.file)
                 /\ answer' = consolidation_proposals(request'.input.memory,
                                                      Loaded(request'.input.file))
      <4>1. Consolidate
        BY <2>2, <3>3, OtherCommands
      <4>2. PICK e \in Evidences :
              /\ from_json_accepts(e.file)
              /\ Answered("consolidate", e, consolidation_proposals(e.memory, Loaded(e.file)))
        BY <4>1 DEF Consolidate
      <4>. QED  BY <4>2 DEF Answered
    <3>4. ASSUME request'.command = "recall"
          PROVE  /\ request'.input \in Lookups \cup Lineages /\ from_json_accepts(request'.input.file)
                 /\ answer' = recall(request'.input.memory, request'.input.query,
                                     Loaded(request'.input.file))
      <4>1. Recall
        BY <2>2, <3>4, OtherCommands
      <4>2. PICK l \in Lookups \cup Lineages :
              /\ from_json_accepts(l.file)
              /\ Answered("recall", l, recall(l.memory, l.query, Loaded(l.file)))
        BY <4>1 DEF Recall
      <4>. QED  BY <4>2 DEF Answered
    <3>5. ASSUME request'.command = "why"
          PROVE  \E l \in Lineages : \E i \in DOMAIN l.memory :
                   /\ request'.input = [memory |-> l.memory, file |-> l.file, id |-> i]
                   /\ answer' = provenance_chain(l.memory, i, Loaded(l.file))
      <4>1. Why
        BY <2>2, <3>5, OtherCommands
      <4>2. PICK l \in Lineages : \E i \in DOMAIN l.memory :
              Answered("why", [memory |-> l.memory, file |-> l.file, id |-> i],
                       provenance_chain(l.memory, i, Loaded(l.file)))
        BY <4>1 DEF Why
      <4>3. PICK i \in DOMAIN l.memory :
              Answered("why", [memory |-> l.memory, file |-> l.file, id |-> i],
                       provenance_chain(l.memory, i, Loaded(l.file)))
        BY <4>2
      <4>4. /\ request'.input = [memory |-> l.memory, file |-> l.file, id |-> i]
            /\ answer' = provenance_chain(l.memory, i, Loaded(l.file))
        BY <4>3 DEF Answered
      <4>. QED  BY <4>4
    <3>6. ASSUME request'.command = "commitments"
          PROVE  /\ request'.input \in Agendas
                 /\ answer' = commitments_due(request'.input.memory, request'.input.query.now,
                                             request'.input.within)
      <4>1. Commitments
        BY <2>2, <3>6, OtherCommands
      <4>2. PICK a \in Agendas :
              Answered("commitments", a, commitments_due(a.memory, a.query.now, a.within))
        BY <4>1 DEF Commitments
      <4>. QED  BY <4>2 DEF Answered
    <3>7. ASSUME request'.command = "gate-explain"
          PROVE  request'.input \in Messages /\ answer' = rules_match(request'.input)
      <4>1. GateExplain
        BY <2>2, <3>7, OtherCommands
      <4>2. PICK said \in Messages : Answered("gate-explain", said, rules_match(said))
        BY <4>1 DEF GateExplain
      <4>. QED  BY <4>2 DEF Answered
    <3>8. ASSUME request'.command = "validate"
          PROVE  request'.input \in Repos /\ answer' \in validate(request'.input)
      <4>1. ValidateRepo
        BY <2>2, <3>8, OtherCommands
      <4>2. PICK repo \in Repos : \E problem \in validate(repo) : Answered("validate", repo, problem)
        BY <4>1, Zenon DEF ValidateRepo
      <4>3. PICK problem \in validate(repo) : Answered("validate", repo, problem)
        BY <4>2, Zenon
      <4>4. request'.input = repo /\ answer' = problem
        BY <4>3 DEF Answered
      <4>. QED  BY <4>4
    <3>. QED  BY <3>1, <3>2, <3>3, <3>4, <3>5, <3>6, <3>7, <3>8 DEF ReadInv
  <2>. QED  BY <2>1, <2>2
<1>. QED  BY <1>1, <1>2, PTL DEF ReadSpec

-----------------------------------------------------------------------------
(* The council *)

LEMMA MinMaxOfTwo ==
  ASSUME NEW a \in Int, NEW b \in Int
  PROVE  /\ Min({a, b}) = IF a <= b THEN a ELSE b
         /\ Max({a, b}) = IF a >= b THEN a ELSE b
BY DEF Min, Max

\* A lane that scales blocks at its count or above it.
LEMMA RatioBlocks ==
  ASSUME NEW n \in Nat, NEW limit \in 1..3
  PROVE  ratio(n, limit) >= BLOCK_AT <=> n >= (4 * limit + 4) \div 5
<1>1. Max({1, limit}) = limit
  BY MinMaxOfTwo
<1>3. limit = 1 \/ limit = 2 \/ limit = 3
  OBVIOUS
<1>2. ratio(n, limit) = IF 1000 <= (1000 * n) \div limit THEN 1000 ELSE (1000 * n) \div limit
  <2>1. (1000 * n) \div limit \in Int
    BY <1>3
  <2>. DEFINE q == (1000 * n) \div limit
  <2>. HIDE DEF q
  <2>2. Min({1000, q}) = IF 1000 <= q THEN 1000 ELSE q
    BY <2>1, MinMaxOfTwo DEF q
  <2>. DEFINE m == Max({1, limit})
              r == (1000 * n) \div m
  <2>3. ratio(n, limit) = Min({1000, r})
    BY Zenon DEF ratio
  <2>4. r = q
    BY <1>1 DEF q
  <2>. HIDE DEF r
  <2>. QED  BY <2>2, <2>3, <2>4 DEF q
<1>. QED  BY <1>2, <1>3 DEF BLOCK_AT

\* The lanes block at their limits, whatever the counts (council.rs, deliberate).
THEOREM CouncilAlwaysBlocks == ReadSpec => []CouncilBlocksAtItsLimits
<1>1. ASSUME NEW counts \in [Lane -> Nat]
      PROVE  deliberate(counts) = {lane \in Lane : counts[lane] >= Limit[lane]}
  <2>. SUFFICES ASSUME NEW lane \in Lane
                PROVE  severity(lane, counts[lane]) >= BLOCK_AT <=> counts[lane] >= Limit[lane]
    BY DEF deliberate
  <2>. DEFINE n == counts[lane]
  <2>0. n \in Nat
    OBVIOUS
  <2>. HIDE DEF n
  <2>1. CASE lane \in {"evidence", "delivery"}
    <3>1. severity(lane, n) = ratio(n, 3) /\ Limit[lane] = 3
      BY <2>1 DEF severity, Limit
    <3>2. ratio(n, 3) >= BLOCK_AT <=> n >= 3
      BY <2>0, RatioBlocks
    <3>. QED  BY <3>1, <3>2 DEF n
  <2>2. CASE lane = "memory"
    <3>1. severity(lane, n) = ratio(n, 2) /\ Limit[lane] = 2
      BY <2>2 DEF severity, Limit
    <3>2. ratio(n, 2) >= BLOCK_AT <=> n >= 2
      BY <2>0, RatioBlocks
    <3>. QED  BY <3>1, <3>2 DEF n
  <2>3. CASE lane \in {"risk", "human_impact"}
    <3>1. severity(lane, n) = veto(n) /\ Limit[lane] = 1
      BY <2>3 DEF severity, Limit
    <3>. QED  BY <2>0, <3>1 DEF n, veto, BLOCK_AT
  <2>. QED  BY <2>1, <2>2, <2>3 DEF Lane
<1>2. ReadInv => CouncilBlocksAtItsLimits
  BY <1>1, ReadersAssumption DEF ReadInv, CouncilBlocksAtItsLimits
<1>. QED  BY <1>2, AnswersFollow, PTL

-----------------------------------------------------------------------------
(* Promotion *)

\* What evidence says of one value of one key, as consolidation_proposals has it.
Support(mem, key, value) ==
  {i \in Evidence(mem) : Key(mem[i]) = key /\ Value(mem[i]) = value}

Sources(mem, support) == {SourceName(mem[i]) : i \in support}

Contrary(mem, key, value) ==
  {Value(mem[i]) : i \in {i \in Evidence(mem) : Key(mem[i]) = key}} \ {value}

\* What a policy promotes.
Earned(mem, policy, key, value) ==
  /\ Cardinality(Support(mem, key, value)) >= policy.consolidation_min_support
  /\ Cardinality(Sources(mem, Support(mem, key, value)))
       >= policy.consolidation_min_independent_sources
  /\ BlendedConfidence(mem, Support(mem, key, value))
       >= policy.consolidation_min_confidence * Cardinality(Support(mem, key, value))
  /\ Contrary(mem, key, value) = {}

LEMMA ProposalsAre ==
  ASSUME NEW mem, NEW policy
  PROVE  /\ \A p \in consolidation_proposals(mem, policy) :
              \E k \in Evidence(mem) :
                /\ p.key = Key(mem[k]) /\ p.value = Value(mem[k])
                /\ p.support = Support(mem, p.key, p.value)
                /\ p.sources = Sources(mem, p.support)
                /\ p.conflicting = Contrary(mem, p.key, p.value)
                /\ p.eligible <=> Earned(mem, policy, p.key, p.value)
                /\ p = [key |-> p.key, value |-> p.value, support |-> p.support,
                        sources |-> p.sources, conflicting |-> p.conflicting,
                        eligible |-> p.eligible]
         /\ \A k \in Evidence(mem) : \E p \in consolidation_proposals(mem, policy) :
              p.key = Key(mem[k]) /\ p.value = Value(mem[k])
<1>. DEFINE proposal(key, value) ==
       [key |-> key, value |-> value, support |-> Support(mem, key, value),
        sources |-> Sources(mem, Support(mem, key, value)),
        conflicting |-> Contrary(mem, key, value),
        eligible |-> Earned(mem, policy, key, value)]
<1>1. consolidation_proposals(mem, policy)
        = {proposal(Key(mem[k]), Value(mem[k])) : k \in Evidence(mem)}
  BY DEF consolidation_proposals, Support, Sources, Contrary, Earned
<1>2. \A key, value :
        LET p == proposal(key, value)
        IN  /\ p.key = key /\ p.value = value /\ p.support = Support(mem, key, value)
            /\ p.sources = Sources(mem, p.support) /\ p.conflicting = Contrary(mem, key, value)
            /\ p.eligible <=> Earned(mem, policy, key, value)
            /\ p = [key |-> p.key, value |-> p.value, support |-> p.support,
                    sources |-> p.sources, conflicting |-> p.conflicting,
                    eligible |-> p.eligible]
  OBVIOUS
<1>. HIDE DEF proposal
<1>. QED  BY <1>1, <1>2

\* Names under evidence, and sources that are counted: at most one is nobody's.
LEMMA SignersAreSources ==
  ASSUME NEW mem, NEW S, IsFiniteSet(S)
  PROVE  /\ IsFiniteSet(Sources(mem, S)) /\ IsFiniteSet(Signers(mem, S))
         /\ Cardinality(Signers(mem, S)) <= Cardinality(Sources(mem, S))
         /\ Cardinality(Sources(mem, S)) <= Cardinality(Signers(mem, S)) + 1
<1>. DEFINE name == [i \in S |-> SourceName(mem[i])]
<1>1. Sources(mem, S) = {name[i] : i \in S}
  BY DEF Sources
<1>2. IsFiniteSet(Sources(mem, S))
  <2>. HIDE DEF name
  <2>. QED  BY <1>1, ImageIsFinite
<1>3. Signers(mem, S) \subseteq Sources(mem, S)
  BY DEF Signers, Sources, SourceName
<1>4. Sources(mem, S) \subseteq Signers(mem, S) \cup {"unattributed"}
  BY DEF Signers, Sources, SourceName
<1>5. IsFiniteSet(Signers(mem, S))
  BY <1>2, <1>3, FS_Subset
<1>6. /\ IsFiniteSet(Signers(mem, S) \cup {"unattributed"})
      /\ Cardinality(Signers(mem, S) \cup {"unattributed"}) <= Cardinality(Signers(mem, S)) + 1
  <2>. DEFINE T == Signers(mem, S)
              u == "unattributed"
  <2>1. IsFiniteSet(T) /\ Cardinality(T) \in Nat
    BY <1>5, FS_CardinalityType
  <2>. HIDE DEF T, u
  <2>2. /\ IsFiniteSet(T \cup {u})
        /\ Cardinality(T \cup {u}) = IF u \in T THEN Cardinality(T) ELSE Cardinality(T) + 1
    BY <2>1, FS_AddElement
  <2>3. Cardinality(T \cup {u}) <= Cardinality(T) + 1
    BY <2>1, <2>2
  <2>. QED  BY <2>2, <2>3 DEF T, u
<1>7. Cardinality(Sources(mem, S)) <= Cardinality(Signers(mem, S) \cup {"unattributed"})
  BY <1>4, <1>6, FS_Subset
<1>. QED  BY <1>2, <1>3, <1>5, <1>6, <1>7, FS_Subset, FS_CardinalityType

\* A sum of terms none of which is below a bound.
LEMMA SumAtLeast ==
  ASSUME NEW S, IsFiniteSet(S), NEW f, \A x \in S : f[x] \in Int, NEW b \in Int,
         \A x \in S : b <= 7 * f[x]
  PROVE  b * Cardinality(S) <= 7 * SumFunctionOnSet(f, S)
<1>. DEFINE Short == {T \in SUBSET S : ~ (b * Cardinality(T) <= 7 * SumFunctionOnSet(f, T))}
<1>1. ASSUME NEW T \in Short PROVE \E x \in T : T \ {x} \in Short
  <2>1. IsFiniteSet(T) /\ Cardinality(T) \in Nat /\ SumFunctionOnSet(f, T) \in Int
    <3>1. IsFiniteSet(T)
      BY FS_Subset
    <3>2. \A x \in T : f[x] \in Int
      OBVIOUS
    <3>. QED  BY <3>1, <3>2, SumType, FS_CardinalityType
  <2>2. T # {}
    <3>1. b * Cardinality({}) = 0 /\ SumFunctionOnSet(f, {}) = 0
      BY FS_EmptySet, SumOfNone
    <3>. QED  BY <3>1
  <2>3. PICK x \in T : TRUE
    BY <2>2
  <2>4. /\ IsFiniteSet(T \ {x}) /\ Cardinality(T \ {x}) = Cardinality(T) - 1
        /\ SumFunctionOnSet(f, T \ {x}) \in Int
    <3>1. IsFiniteSet(T \ {x}) /\ Cardinality(T \ {x}) = Cardinality(T) - 1
      BY <2>1, FS_RemoveElement
    <3>2. \A y \in T \ {x} : f[y] \in Int
      OBVIOUS
    <3>. QED  BY <3>1, <3>2, SumType
  <2>5. SumFunctionOnSet(f, T) = f[x] + SumFunctionOnSet(f, T \ {x})
    <3>1. \A y \in T : f[y] \in Int
      OBVIOUS
    <3>. QED  BY <2>1, <3>1, SumAdd
  <2>6. ~ (b * Cardinality(T) <= 7 * SumFunctionOnSet(f, T))
    OBVIOUS
  <2>7. b * Cardinality(T) = b * Cardinality(T \ {x}) + b
    BY <2>1, <2>4
  <2>8. b * Cardinality(T \ {x}) \in Int /\ f[x] \in Int /\ b <= 7 * f[x]
    BY <2>1, <2>4
  <2>9. ~ (b * Cardinality(T \ {x}) <= 7 * SumFunctionOnSet(f, T \ {x}))
    BY <2>4, <2>5, <2>6, <2>7, <2>8
  <2>. QED  BY <2>9
<1>2. Short = {}
  <2>1. Short \in SUBSET (SUBSET S)
    OBVIOUS
  <2>. HIDE DEF Short
  <2>. QED  BY <1>1, <2>1, NoSmallestBad
<1>3. S \notin Short
  BY <1>2
<1>. QED  BY <1>3

\* What is promoted rests on witnesses whom no witness contradicts.
LEMMA PromotedIsEarned ==
  ASSUME NEW mem, IsFiniteSet(DOMAIN mem), NEW policy, answer = consolidation_proposals(mem, policy),
         policy.consolidation_min_support \in Nat,
         policy.consolidation_min_independent_sources \in Nat
  PROVE  EarnedByWitnesses(mem, policy)
<1>. SUFFICES ASSUME NEW p \in answer, p.eligible
              PROVE  /\ \A i \in p.support : Witness(mem[i]) /\ Key(mem[i]) = p.key
                                             /\ Value(mem[i]) = p.value
                     /\ Cardinality(p.support) >= policy.consolidation_min_support
                     /\ Cardinality(Signers(mem, p.support))
                          >= policy.consolidation_min_independent_sources - 1
                     /\ \A q \in answer : q.eligible /\ q.key = p.key => q = p
                     /\ \A c \in active_conflicts(mem, policy) : c.key = p.key =>
                          \A v \in c.values : v.value # p.value => \A i \in v.ids : ~Witness(mem[i])
  BY DEF EarnedByWitnesses
<1>1. PICK k \in Evidence(mem) : p.key = Key(mem[k]) /\ p.value = Value(mem[k])
  BY ProposalsAre
<1>2. p.support = Support(mem, p.key, p.value) /\ Earned(mem, policy, p.key, p.value)
  BY ProposalsAre
<1>3. \A i \in p.support : Witness(mem[i]) /\ Key(mem[i]) = p.key /\ Value(mem[i]) = p.value
  BY <1>2 DEF Support, Evidence, Witness, Active
<1>4. IsFiniteSet(p.support)
  <2>1. p.support \subseteq DOMAIN mem
    BY <1>2 DEF Support, Evidence, Active
  <2>. QED  BY <2>1, FS_Subset
<1>5. Cardinality(Signers(mem, p.support)) >= policy.consolidation_min_independent_sources - 1
  <2>1. Cardinality(Sources(mem, p.support)) >= policy.consolidation_min_independent_sources
    BY <1>2 DEF Earned
  <2>2. /\ IsFiniteSet(Sources(mem, p.support)) /\ IsFiniteSet(Signers(mem, p.support))
        /\ Cardinality(Sources(mem, p.support)) <= Cardinality(Signers(mem, p.support)) + 1
    BY <1>4, SignersAreSources
  <2>3. /\ Cardinality(Sources(mem, p.support)) \in Nat
        /\ Cardinality(Signers(mem, p.support)) \in Nat
    BY <2>2, FS_CardinalityType
  <2>. QED  BY <2>1, <2>2, <2>3
<1>6. \A i \in Evidence(mem) : Key(mem[i]) = p.key => Value(mem[i]) = p.value
  BY <1>2 DEF Earned, Contrary
<1>7. ASSUME NEW q \in answer, q.eligible, q.key = p.key
      PROVE  q = p
  <2>1. PICK l \in Evidence(mem) : q.key = Key(mem[l]) /\ q.value = Value(mem[l])
    BY ProposalsAre
  <2>2. q.value = p.value
    BY <1>6, <1>7, <2>1
  <2>3. /\ q.support = p.support /\ q.sources = p.sources /\ q.conflicting = p.conflicting
        /\ q.eligible <=> p.eligible
    BY <1>7, <2>2, ProposalsAre
  <2>4. /\ p = [key |-> p.key, value |-> p.value, support |-> p.support,
               sources |-> p.sources, conflicting |-> p.conflicting, eligible |-> p.eligible]
        /\ q = [key |-> q.key, value |-> q.value, support |-> q.support,
               sources |-> q.sources, conflicting |-> q.conflicting, eligible |-> q.eligible]
    BY ProposalsAre
  <2>. QED  BY <1>7, <2>2, <2>3, <2>4
<1>8. ASSUME NEW c \in active_conflicts(mem, policy), c.key = p.key, NEW v \in c.values,
             v.value # p.value, NEW i \in v.ids
      PROVE  ~ Witness(mem[i])
  <2>1. /\ i \in Active(mem) /\ mem[i].claim # NoClaim
        /\ Key(mem[i]) = c.key /\ Value(mem[i]) = v.value
    <3>. DEFINE claims == {j \in Active(mem) : Visible(mem[j], policy) /\ mem[j].claim # NoClaim}
                of(key) == {j \in claims : Key(mem[j]) = key}
                values(key) == {Value(mem[j]) : j \in of(key)}
                ids(key, x) == {j \in of(key) : Value(mem[j]) = x}
    <3>1. PICK key : c = [key |-> key, values |-> {[value |-> x, ids |-> ids(key, x)] : x \in values(key)}]
      BY DEF active_conflicts
    <3>2. c.key = key /\ c.values = {[value |-> x, ids |-> ids(key, x)] : x \in values(key)}
      BY <3>1
    <3>3. PICK x : v = [value |-> x, ids |-> ids(key, x)]
      BY <3>2
    <3>. QED  BY <3>2, <3>3
  <2>2. Witness(mem[i]) => i \in Evidence(mem)
    BY <2>1 DEF Witness, Evidence
  <2>. QED  BY <1>6, <1>8, <2>1, <2>2
<1>. QED  BY <1>2, <1>3, <1>5, <1>7, <1>8 DEF Earned

\* Enough witnesses are sure of one value for a key.
AllAgree(mem, policy, word, about) ==
  /\ about = {i \in DOMAIN mem : /\ Witness(mem[i]) /\ mem[i].claim # NoClaim
                                 /\ mem[i].claim[1].word = word}
  /\ Cardinality(about) >= policy.consolidation_min_support
  /\ Cardinality(Signers(mem, about)) >= policy.consolidation_min_independent_sources
  /\ \A i \in about : 7 * mem[i].confidence >= policy.consolidation_min_confidence
  /\ \A i, j \in about : /\ mem[i].claim[2].word = mem[j].claim[2].word
                         /\ mem[i].claim[2].upper = mem[j].claim[2].upper

\* Then that claim is promoted.
LEMMA EarnedIsPromoted ==
  ASSUME NEW mem, IsFiniteSet(DOMAIN mem), \A i \in DOMAIN mem : mem[i].confidence \in 0..10,
         NEW policy, Sound(policy), answer = consolidation_proposals(mem, policy),
         policy.consolidation_min_support \in Nat,
         policy.consolidation_min_independent_sources \in Nat,
         NEW word, NEW about, AllAgree(mem, policy, word, about)
  PROVE  \E p \in answer : p.eligible /\ p.support = about
<1>0. /\ about = {i \in DOMAIN mem : /\ Witness(mem[i]) /\ mem[i].claim # NoClaim
                                     /\ mem[i].claim[1].word = word}
      /\ Cardinality(about) >= policy.consolidation_min_support
      /\ Cardinality(Signers(mem, about)) >= policy.consolidation_min_independent_sources
      /\ \A i \in about : 7 * mem[i].confidence >= policy.consolidation_min_confidence
      /\ \A i, j \in about : /\ mem[i].claim[2].word = mem[j].claim[2].word
                             /\ mem[i].claim[2].upper = mem[j].claim[2].upper
  BY DEF AllAgree
<1>. USE <1>0
<1>1. IsFiniteSet(about) /\ Cardinality(about) \in Nat
  BY FS_Subset, FS_CardinalityType
<1>2. PICK k \in about : TRUE
  <2>1. policy.consolidation_min_support > 0
    BY DEF Sound
  <2>2. about # {}
    BY <1>1, <2>1, FS_EmptySet
  <2>. QED  BY <2>2
<1>. DEFINE key == Key(mem[k])
            value == Value(mem[k])
<1>3. \A i : i \in about <=> i \in Evidence(mem) /\ Key(mem[i]) = word
  BY DEF Evidence, Active, Witness, Key, normalize_key
<1>4. \A i \in about : Value(mem[i]) = value
  BY <1>2 DEF Value, normalize_value
<1>5. key = word /\ k \in Evidence(mem)
  BY <1>2, <1>3
<1>. HIDE DEF key, value
<1>6. Support(mem, key, value) = about
  BY <1>3, <1>4, <1>5 DEF Support
<1>7. Contrary(mem, key, value) = {}
  BY <1>3, <1>4, <1>5 DEF Contrary
<1>8. Cardinality(Sources(mem, about)) >= policy.consolidation_min_independent_sources
  <2>1. /\ IsFiniteSet(Sources(mem, about)) /\ IsFiniteSet(Signers(mem, about))
        /\ Cardinality(Signers(mem, about)) <= Cardinality(Sources(mem, about))
    BY <1>1, SignersAreSources
  <2>2. /\ Cardinality(Sources(mem, about)) \in Nat
        /\ Cardinality(Signers(mem, about)) \in Nat
    BY <2>1, FS_CardinalityType
  <2>. QED  BY <2>1, <2>2
<1>9. BlendedConfidence(mem, about) >= policy.consolidation_min_confidence * Cardinality(about)
  <2>. DEFINE f == [i \in about |-> mem[i].confidence]
              b == policy.consolidation_min_confidence
              checked == {i \in about : mem[i].verified}
  <2>1. b \in Int
    BY DEF Sound
  <2>2. \A i \in about : f[i] \in Int /\ b <= 7 * f[i]
    BY <2>1
  <2>3. DOMAIN f = about
    OBVIOUS
  <2>4. IsFiniteSet(checked) /\ Cardinality(checked) \in Nat
    BY <1>1, FS_Subset, FS_CardinalityType
  <2>5. BlendedConfidence(mem, about) = 7 * SumFunctionOnSet(f, about) + 30 * Cardinality(checked)
    BY <2>3 DEF BlendedConfidence, SumFunction
  <2>. HIDE DEF f, b
  <2>6. SumFunctionOnSet(f, about) \in Int
    BY <1>1, <2>2, SumType
  <2>7. b * Cardinality(about) <= 7 * SumFunctionOnSet(f, about)
    BY <1>1, <2>1, <2>2, SumAtLeast
  <2>8. b * Cardinality(about) \in Int
    BY <1>1, <2>1
  <2>. HIDE DEF checked
  <2>9. 7 * SumFunctionOnSet(f, about) + 30 * Cardinality(checked) >= b * Cardinality(about)
    BY <2>4, <2>6, <2>7, <2>8
  <2>. QED  BY <2>5, <2>9 DEF b
<1>10. Earned(mem, policy, key, value)
  BY <1>6, <1>7, <1>8, <1>9 DEF Earned
<1>11. PICK p \in answer : p.key = key /\ p.value = value
  BY <1>5, ProposalsAre DEF key, value
<1>12. p.support = about /\ p.eligible
  BY <1>6, <1>10, <1>11, ProposalsAre
<1>. QED  BY <1>11, <1>12

\* What is promoted is earned, and what is earned is promoted, whatever the
\* memory and whatever the policy that is accepted (consolidation.rs).
THEOREM PromotionIsAlwaysEarned == ReadSpec => []PromotionIsEarned
<1>1. ReadInv => PromotionIsEarned
  <2>. SUFFICES ASSUME ReadInv, request.command = "consolidate" PROVE PromotionIsEarned
    BY DEF PromotionIsEarned
  <2>. DEFINE mem == request.input.memory
              policy == Loaded(request.input.file)
              about(word) ==
                {i \in DOMAIN mem : Witness(mem[i]) /\ mem[i].claim # NoClaim /\ mem[i].claim[1].word = word}
  <2>1. /\ request.input \in Evidences /\ from_json_accepts(request.input.file)
        /\ answer = consolidation_proposals(mem, policy)
    BY DEF ReadInv
  <2>2. /\ IsFiniteSet(DOMAIN mem) /\ \A i \in DOMAIN mem : mem[i].confidence \in 0..10
        /\ policy.consolidation_min_support \in Nat
        /\ policy.consolidation_min_independent_sources \in Nat
    BY <2>1, ReadersAssumption
  <2>3. Sound(policy)
    BY <2>1 DEF from_json_accepts
  <2>. HIDE DEF mem, policy
  <2>4. EarnedByWitnesses(mem, policy)
    BY <2>1, <2>2, PromotedIsEarned
  <2>5. \A word :
          /\ Cardinality(about(word)) >= policy.consolidation_min_support
          /\ Cardinality(Signers(mem, about(word))) >= policy.consolidation_min_independent_sources
          /\ \A i \in about(word) : 7 * mem[i].confidence >= policy.consolidation_min_confidence
          /\ \A i, j \in about(word) :
               /\ mem[i].claim[2].word = mem[j].claim[2].word
               /\ mem[i].claim[2].upper = mem[j].claim[2].upper
          => \E p \in answer : p.eligible /\ p.support = about(word)
    <3>. SUFFICES ASSUME
           NEW word,
           Cardinality(about(word)) >= policy.consolidation_min_support,
           Cardinality(Signers(mem, about(word))) >= policy.consolidation_min_independent_sources,
           \A i \in about(word) : 7 * mem[i].confidence >= policy.consolidation_min_confidence,
           \A i, j \in about(word) : /\ mem[i].claim[2].word = mem[j].claim[2].word
                                     /\ mem[i].claim[2].upper = mem[j].claim[2].upper
         PROVE \E p \in answer : p.eligible /\ p.support = about(word)
      OBVIOUS
    <3>. DEFINE those == about(word)
    <3>1. those = {i \in DOMAIN mem : /\ Witness(mem[i]) /\ mem[i].claim # NoClaim
                                      /\ mem[i].claim[1].word = word}
      OBVIOUS
    <3>2. /\ Cardinality(those) >= policy.consolidation_min_support
          /\ Cardinality(Signers(mem, those)) >= policy.consolidation_min_independent_sources
          /\ \A i \in those : 7 * mem[i].confidence >= policy.consolidation_min_confidence
          /\ \A i, j \in those : /\ mem[i].claim[2].word = mem[j].claim[2].word
                                 /\ mem[i].claim[2].upper = mem[j].claim[2].upper
      OBVIOUS
    <3>. HIDE DEF those
    <3>3. AllAgree(mem, policy, word, those)
      BY <3>1, <3>2 DEF AllAgree
    <3>4. IsFiniteSet(DOMAIN mem)
      BY <2>2
    <3>5. \A i \in DOMAIN mem : mem[i].confidence \in 0..10
      BY <2>2
    <3>6. /\ policy.consolidation_min_support \in Nat
          /\ policy.consolidation_min_independent_sources \in Nat
      BY <2>2
    <3>7. answer = consolidation_proposals(mem, policy)
      BY <2>1
    <3>. QED  BY <2>3, <3>3, <3>4, <3>5, <3>6, <3>7, EarnedIsPromoted DEF those
  <2>. QED  BY <2>4, <2>5 DEF PromotionIsEarned, mem, policy
<1>. QED  BY <1>1, AnswersFollow, PTL

-----------------------------------------------------------------------------
(* Deadlines *)

\* Leap years up to one, from the first.
LeapsTo(n) == n \div 4 - n \div 100 + n \div 400

LEMMA LeapsToStep ==
  ASSUME NEW n \in Nat
  PROVE  LeapsTo(n + 1) = LeapsTo(n) + IF Leap(n + 1) THEN 1 ELSE 0
<1>1. (n + 1) \div 4 = n \div 4 + IF (n + 1) % 4 = 0 THEN 1 ELSE 0
  OBVIOUS
<1>2. (n + 1) \div 100 = n \div 100 + IF (n + 1) % 100 = 0 THEN 1 ELSE 0
  OBVIOUS
<1>3. (n + 1) \div 400 = n \div 400 + IF (n + 1) % 400 = 0 THEN 1 ELSE 0
  OBVIOUS
<1>4. /\ (n + 1) % 100 = 0 => (n + 1) % 4 = 0
      /\ (n + 1) % 400 = 0 => (n + 1) % 100 = 0
  OBVIOUS
<1>. QED  BY <1>1, <1>2, <1>3, <1>4 DEF LeapsTo, Leap

\* The leap years of the calendar are counted as the code counts them.
LEMMA LeapYears ==
  ASSUME NEW y \in Nat, y >= 1970
  PROVE  Cardinality({n \in 1970..(y - 1) : Leap(n)}) = LeapsTo(y - 1) - 477
<1>. DEFINE leaps(x) == {n \in 1970..(x - 1) : Leap(n)}
            Wrong == {x \in Nat : x >= 1970 /\ Cardinality(leaps(x)) # LeapsTo(x - 1) - 477}
<1>1. Wrong = {}
  <2>. SUFFICES ASSUME Wrong # {} PROVE FALSE
    OBVIOUS
  <2>1. PICK x \in Wrong : \A z \in Wrong : x <= z
    <3>1. Wrong \in SUBSET Nat
      OBVIOUS
    <3>. HIDE DEF Wrong
    <3>. QED  BY <3>1, LeastOf
  <2>2. x \in Nat /\ x >= 1970 /\ Cardinality(leaps(x)) # LeapsTo(x - 1) - 477
    OBVIOUS
  <2>3. x # 1970
    <3>1. leaps(1970) = {}
      OBVIOUS
    <3>2. LeapsTo(1969) = 477
      BY DEF LeapsTo
    <3>3. Cardinality(leaps(1970)) = LeapsTo(1970 - 1) - 477
      BY <3>1, <3>2, FS_EmptySet
    <3>. QED  BY <2>2, <3>3
  <2>4. PICK z \in Nat : x = z + 1 /\ z >= 1970
    <3>1. x - 1 \in Nat /\ x = (x - 1) + 1 /\ x - 1 >= 1970
      BY <2>2, <2>3
    <3>. QED  BY <3>1
  <2>5. Cardinality(leaps(z)) = LeapsTo(z - 1) - 477
    <3>1. z \notin Wrong
      <4>1. ~ (x <= z)
        BY <2>4
      <4>. HIDE DEF Wrong
      <4>. QED  BY <2>1, <4>1
    <3>. QED  BY <2>4, <3>1
  <2>6. IsFiniteSet(leaps(z)) /\ z \notin leaps(z)
    <3>1. IsFiniteSet(1970..(z - 1))
      BY <2>4, FS_Interval
    <3>2. leaps(z) \subseteq 1970..(z - 1)
      OBVIOUS
    <3>. QED  BY <2>4, <3>1, <3>2, FS_Subset
  <2>7. leaps(x) = IF Leap(z) THEN leaps(z) \cup {z} ELSE leaps(z)
    <3>1. \A n : n \in 1970..(x - 1) <=> n \in 1970..(z - 1) \/ n = z
      BY <2>4
    <3>. QED  BY <3>1
  <2>8. Cardinality(leaps(x)) = Cardinality(leaps(z)) + IF Leap(z) THEN 1 ELSE 0
    <3>. HIDE DEF leaps
    <3>1. Cardinality(leaps(z) \cup {z}) = Cardinality(leaps(z)) + 1
      BY <2>6, FS_AddElement
    <3>2. Cardinality(leaps(z)) \in Nat
      BY <2>6, FS_CardinalityType
    <3>. QED  BY <2>7, <3>1, <3>2
  <2>9. LeapsTo(z) = LeapsTo(z - 1) + IF Leap(z) THEN 1 ELSE 0
    <3>1. z - 1 \in Nat /\ (z - 1) + 1 = z
      BY <2>4
    <3>. QED  BY <3>1, LeapsToStep
  <2>10. LeapsTo(z - 1) \in Int /\ LeapsTo(z) \in Int /\ x - 1 = z
    BY <2>4 DEF LeapsTo
  <2>. HIDE DEF leaps, Wrong
  <2>. QED  BY <2>2, <2>5, <2>8, <2>9, <2>10
<1>2. Cardinality(leaps(y)) = LeapsTo(y - 1) - 477
  <2>1. y \notin Wrong
    <3>. HIDE DEF Wrong
    <3>. QED  BY <1>1
  <2>. HIDE DEF leaps
  <2>. QED  BY <2>1
<1>. QED  BY <1>2

\* The days of a year before each of its months.
LEMMA DaysBefore ==
  ASSUME NEW y \in Nat, NEW leap, leap = IF Leap(y) THEN 1 ELSE 0
  PROVE  /\ SumFunctionOnSet(Lengths(y), 1..0) = 0
         /\ SumFunctionOnSet(Lengths(y), 1..1) = 31
         /\ SumFunctionOnSet(Lengths(y), 1..2) = 59 + leap
         /\ SumFunctionOnSet(Lengths(y), 1..3) = 90 + leap
         /\ SumFunctionOnSet(Lengths(y), 1..4) = 120 + leap
         /\ SumFunctionOnSet(Lengths(y), 1..5) = 151 + leap
         /\ SumFunctionOnSet(Lengths(y), 1..6) = 181 + leap
         /\ SumFunctionOnSet(Lengths(y), 1..7) = 212 + leap
         /\ SumFunctionOnSet(Lengths(y), 1..8) = 243 + leap
         /\ SumFunctionOnSet(Lengths(y), 1..9) = 273 + leap
         /\ SumFunctionOnSet(Lengths(y), 1..10) = 304 + leap
         /\ SumFunctionOnSet(Lengths(y), 1..11) = 334 + leap
<1>. DEFINE L == Lengths(y)
            Before(k) == SumFunctionOnSet(L, 1..k)
<1>1. /\ L[1] = 31 /\ L[2] = 28 + leap /\ L[3] = 31 /\ L[4] = 30 /\ L[5] = 31 /\ L[6] = 30
      /\ L[7] = 31 /\ L[8] = 31 /\ L[9] = 30 /\ L[10] = 31 /\ L[11] = 30
  BY DEF Lengths
<1>. HIDE DEF L
<1>2. \A k \in 1..11 : L[k] \in Int
  BY <1>1
<1>3. ASSUME NEW k \in 1..11 PROVE Before(k) = L[k] + Before(k - 1)
  <2>. DEFINE S == 1..k
  <2>1. IsFiniteSet(S)
    BY UpTo
  <2>2. k \in S /\ S \ {k} = 1..(k - 1)
    OBVIOUS
  <2>3. \A j \in S : L[j] \in Int
    BY <1>2
  <2>. HIDE DEF S
  <2>4. SumFunctionOnSet(L, S) = L[k] + SumFunctionOnSet(L, S \ {k})
    BY <2>1, <2>2, <2>3, SumAdd
  <2>. QED  BY <2>2, <2>4 DEF S
<1>4. Before(0) = 0
  <2>1. 1..0 = {}
    OBVIOUS
  <2>. QED  BY <2>1, SumOfNone
<1>. HIDE DEF Before
<1>5. Before(1) = 31
  BY <1>1, <1>3, <1>4
<1>6. Before(2) = 59 + leap
  BY <1>1, <1>3, <1>5
<1>7. Before(3) = 90 + leap
  BY <1>1, <1>3, <1>6
<1>8. Before(4) = 120 + leap
  BY <1>1, <1>3, <1>7
<1>9. Before(5) = 151 + leap
  BY <1>1, <1>3, <1>8
<1>10. Before(6) = 181 + leap
  BY <1>1, <1>3, <1>9
<1>11. Before(7) = 212 + leap
  BY <1>1, <1>3, <1>10
<1>12. Before(8) = 243 + leap
  BY <1>1, <1>3, <1>11
<1>13. Before(9) = 273 + leap
  BY <1>1, <1>3, <1>12
<1>14. Before(10) = 304 + leap
  BY <1>1, <1>3, <1>13
<1>15. Before(11) = 334 + leap
  BY <1>1, <1>3, <1>14
<1>. QED  BY <1>4, <1>5, <1>6, <1>7, <1>8, <1>9, <1>10, <1>11, <1>12, <1>13, <1>14, <1>15
          DEF Before, L

\* Days to the first of January of the year 0, in years that begin with March.
YearDays(y) == 365 * y + LeapsTo(y)

\* The same days in eras of 400 years, as the code counts them.
EraDays(y) ==
  LET era == y \div 400
      yoe == y - era * 400
  IN era * 146097 + yoe * 365 + yoe \div 4 - yoe \div 100

\* Eras of 400 years have as many days each.
LEMMA ErasAreYears ==
  ASSUME NEW y \in Nat
  PROVE  EraDays(y) = YearDays(y)
<1>. DEFINE era == y \div 400
            yoe == y - era * 400
<1>1. era \in Nat /\ yoe \in 0..399 /\ y = era * 400 + yoe
  OBVIOUS
<1>2. \A e \in Nat, r \in 0..399 :
        (e * 400 + r) \div 4 = e * 100 + r \div 4 /\ (e * 400 + r) \div 100 = e * 4 + r \div 100
  OBVIOUS
<1>3. y \div 4 = era * 100 + yoe \div 4 /\ y \div 100 = era * 4 + yoe \div 100
  <2>. HIDE DEF era, yoe
  <2>. QED  BY <1>1, <1>2
<1>4. LeapsTo(y) = y \div 4 - y \div 100 + era
  BY DEF LeapsTo
<1>5. era * 146097 + yoe * 365 + yoe \div 4 - yoe \div 100 = 365 * y + LeapsTo(y)
  <2>. HIDE DEF era, yoe
  <2>1. yoe \div 4 \in Int /\ yoe \div 100 \in Int
    BY <1>1
  <2>. QED  BY <1>1, <1>3, <1>4, <2>1
<1>. QED  BY <1>5, SMT DEF YearDays, EraDays

\* The days the code counts are the days of the calendar.
LEMMA CivilDays ==
  ASSUME NEW y \in Nat, FIRST_YEAR <= y, NEW m \in 1..12, NEW d \in Nat
  PROVE  DaysFromCivil(y, m, d)
           = NewYear(y) + SumFunctionOnSet(Lengths(y), 1..(m - 1)) + d - 1
<1>. DEFINE leap == IF Leap(y) THEN 1 ELSE 0
            year == IF m <= 2 THEN y - 1 ELSE y
            doy == (153 * ((m + 9) % 12) + 2) \div 5
            before == SumFunctionOnSet(Lengths(y), 1..(m - 1))
<1>1. DaysFromCivil(y, m, d) = YearDays(year) + doy + d - 1 - 719468
  <2>1. year \in Nat
    BY SMT DEF FIRST_YEAR
  <2>2. EraDays(year) = YearDays(year)
    <3>. HIDE DEF year
    <3>. QED  BY <2>1, ErasAreYears, SMT
  <2>3. DaysFromCivil(y, m, d) = EraDays(year) + (doy + d - 1) - 719468
    BY SMT DEF DaysFromCivil, EraDays
  <2>4. EraDays(year) \in Int
    BY <2>1, SMT DEF EraDays
  <2>5. doy \in Int
    BY SMT
  <2>. HIDE DEF doy, year
  <2>. QED  BY <2>2, <2>3, <2>4, <2>5, SMT
<1>2. NewYear(y) = 365 * (y - 1970) + LeapsTo(y - 1) - 477
  BY LeapYears, SMT DEF NewYear, LeapsTo, FIRST_YEAR
<1>3. LeapsTo(y) = LeapsTo(y - 1) + leap /\ LeapsTo(y - 1) \in Int
  <2>1. y - 1 \in Nat /\ (y - 1) + 1 = y
    BY SMT DEF FIRST_YEAR
  <2>2. LeapsTo(y) = LeapsTo(y - 1) + leap
    BY <2>1, LeapsToStep
  <2>. QED  BY <2>2 DEF LeapsTo
<1>4. /\ m = 1 => before = 0 /\ doy = 306
      /\ m = 2 => before = 31 /\ doy = 337
      /\ m \in 3..12 => before = doy + 59 + leap
  <2>. DEFINE S(k) == SumFunctionOnSet(Lengths(y), 1..k)
  <2>1. /\ S(0) = 0 /\ S(1) = 31
        /\ S(2) = 59 + leap
        /\ S(3) = 90 + leap
        /\ S(4) = 120 + leap
        /\ S(5) = 151 + leap
        /\ S(6) = 181 + leap
        /\ S(7) = 212 + leap
        /\ S(8) = 243 + leap
        /\ S(9) = 273 + leap
        /\ S(10) = 304 + leap
        /\ S(11) = 334 + leap
    <3>1. y \in Nat
      OBVIOUS
    <3>2. leap = IF Leap(y) THEN 1 ELSE 0
      OBVIOUS
    <3>. HIDE DEF leap
    <3>. QED  BY <3>1, <3>2, DaysBefore
  <2>2. leap \in {0, 1} /\ before = S(m - 1)
    OBVIOUS
  <2>. HIDE DEF S, leap, before
  <2>3. CASE m = 1
    <3>1. m - 1 = 0 /\ doy = 306
      BY <2>3
    <3>. QED  BY <2>1, <2>2, <2>3, <3>1
  <2>4. CASE m = 2
    <3>1. m - 1 = 1 /\ doy = 337
      BY <2>4
    <3>. QED  BY <2>1, <2>2, <2>4, <3>1
  <2>5. CASE m = 3
    <3>1. m - 1 = 2 /\ doy = 0
      BY <2>5
    <3>. QED  BY <2>1, <2>2, <2>5, <3>1
  <2>6. CASE m = 4
    <3>1. m - 1 = 3 /\ doy = 31
      BY <2>6
    <3>. QED  BY <2>1, <2>2, <2>6, <3>1
  <2>7. CASE m = 5
    <3>1. m - 1 = 4 /\ doy = 61
      BY <2>7
    <3>. QED  BY <2>1, <2>2, <2>7, <3>1
  <2>8. CASE m = 6
    <3>1. m - 1 = 5 /\ doy = 92
      BY <2>8
    <3>. QED  BY <2>1, <2>2, <2>8, <3>1
  <2>9. CASE m = 7
    <3>1. m - 1 = 6 /\ doy = 122
      BY <2>9
    <3>. QED  BY <2>1, <2>2, <2>9, <3>1
  <2>10. CASE m = 8
    <3>1. m - 1 = 7 /\ doy = 153
      BY <2>10
    <3>. QED  BY <2>1, <2>2, <2>10, <3>1
  <2>11. CASE m = 9
    <3>1. m - 1 = 8 /\ doy = 184
      BY <2>11
    <3>. QED  BY <2>1, <2>2, <2>11, <3>1
  <2>12. CASE m = 10
    <3>1. m - 1 = 9 /\ doy = 214
      BY <2>12
    <3>. QED  BY <2>1, <2>2, <2>12, <3>1
  <2>13. CASE m = 11
    <3>1. m - 1 = 10 /\ doy = 245
      BY <2>13
    <3>. QED  BY <2>1, <2>2, <2>13, <3>1
  <2>14. CASE m = 12
    <3>1. m - 1 = 11 /\ doy = 275
      BY <2>14
    <3>. QED  BY <2>1, <2>2, <2>14, <3>1
  <2>. QED  BY <2>3, <2>4, <2>5, <2>6, <2>7, <2>8, <2>9, <2>10, <2>11, <2>12, <2>13, <2>14
<1>. HIDE DEF leap, doy, before
<1>5. CASE m \in 1..2
  <2>1. year = y - 1
    BY <1>5
  <2>2. YearDays(year) = 365 * (y - 1) + LeapsTo(y - 1)
    BY <2>1 DEF YearDays
  <2>. HIDE DEF year
  <2>3. doy \in Int /\ before = doy - 306
    BY <1>4, <1>5
  <2>4. DaysFromCivil(y, m, d) = NewYear(y) + before + d - 1
    BY <1>1, <1>2, <1>3, <2>2, <2>3
  <2>. QED  BY <2>4 DEF before
<1>6. CASE m \in 3..12
  <2>1. year = y
    BY <1>6
  <2>2. YearDays(year) = 365 * y + LeapsTo(y - 1) + leap
    BY <1>3, <2>1 DEF YearDays, leap
  <2>3. leap \in Int /\ doy \in Int
    BY DEF leap, doy
  <2>. HIDE DEF year
  <2>4. DaysFromCivil(y, m, d) = NewYear(y) + before + d - 1
    BY <1>1, <1>2, <1>3, <1>4, <1>6, <2>2, <2>3
  <2>. QED  BY <2>4 DEF before
<1>. QED  BY <1>5, <1>6

\* The time of a deadline as the code reads it, and what a clock shows.
Parts(time) == IF time = <<>> THEN <<0, 0, 0>> ELSE time

Clock(time) == [k \in 1..3 |-> IF k <= Len(Parts(time)) THEN Parts(time)[k] ELSE 0]

LEMMA ClockIs ==
  ASSUME NEW time \in Seq(Nat \cup {NotANumber})
  PROVE  /\ Timed(time) <=> /\ Len(Parts(time)) <= 3 /\ NotANumber \notin Range(Parts(time))
                            /\ Clock(time)[1] <= 23 /\ Clock(time)[2] <= 59 /\ Clock(time)[3] <= 59
         /\ Timed(time) => \A k \in 1..3 : Clock(time)[k] \in Nat
<1>1. CASE time = <<>>
  <2>1. Parts(time) = <<0, 0, 0>> /\ Range(Parts(time)) = {0} /\ Len(Parts(time)) = 3
    BY <1>1 DEF Parts, Range
  <2>2. Clock(time)[1] = 0 /\ Clock(time)[2] = 0 /\ Clock(time)[3] = 0
    BY <2>1 DEF Clock
  <2>3. Timed(time)
    BY <1>1 DEF Timed
  <2>. QED  BY <2>1, <2>2, <2>3 DEF NotANumber
<1>2. CASE time # <<>>
  <2>1. PICK n \in Nat \ {0} : n = Len(time) /\ DOMAIN time = 1..n
    BY <1>2, EmptySeq
  <2>2. Parts(time) = time
    BY <1>2 DEF Parts
  <2>3. \A k \in 1..n : time[k] \in Nat \/ time[k] = NotANumber
    BY <2>1
  <2>4. \A k \in 1..3 : Clock(time)[k] = IF k <= n THEN time[k] ELSE 0
    BY <2>1, <2>2 DEF Clock
  <2>5. NotANumber \in Range(time) <=> \E k \in 1..n : time[k] = NotANumber
    BY <2>1 DEF Range
  <2>6. Timed(time) <=> n <= 3 /\ \A k \in 1..n : 0 <= time[k] /\ time[k] <= IF k = 1 THEN 23 ELSE 59
    BY <2>1 DEF Timed
  <2>7. ASSUME Timed(time)
        PROVE  \A k \in 1..3 : Clock(time)[k] \in Nat /\ Clock(time)[k] <= IF k = 1 THEN 23 ELSE 59
    <3>1. \A k \in 1..n : time[k] \in Nat
      BY <2>3, <2>6, <2>7, SMT DEF NotANumber
    <3>. QED  BY <2>1, <2>4, <2>6, <2>7, <3>1, SMT
  <2>8. ASSUME Timed(time)
        PROVE  n <= 3 /\ NotANumber \notin Range(time)
    BY <2>5, <2>6, <2>8 DEF NotANumber
  <2>9. ASSUME n <= 3, NotANumber \notin Range(time),
               Clock(time)[1] <= 23, Clock(time)[2] <= 59, Clock(time)[3] <= 59
        PROVE  Timed(time)
    <3>1. ASSUME NEW k \in 1..n PROVE 0 <= time[k] /\ time[k] <= IF k = 1 THEN 23 ELSE 59
      <4>1. time[k] \in Nat
        BY <2>3, <2>5, <2>9
      <4>2. k = 1 \/ k = 2 \/ k = 3
        BY <2>1, <2>9
      <4>. QED  BY <2>1, <2>4, <2>9, <4>1, <4>2
    <3>. QED  BY <2>6, <2>9, <3>1
  <2>10. Timed(time) => Clock(time)[1] <= 23 /\ Clock(time)[2] <= 59 /\ Clock(time)[3] <= 59
    <3>. DEFINE c == Clock(time)
    <3>. SUFFICES ASSUME Timed(time) PROVE c[1] <= 23 /\ c[2] <= 59 /\ c[3] <= 59
      BY Zenon
    <3>1. \A k \in 1..3 : c[k] \in Nat /\ c[k] <= IF k = 1 THEN 23 ELSE 59
      BY <2>7, Zenon
    <3>. HIDE DEF c
    <3>. QED  BY <3>1
  <2>. QED  BY <2>1, <2>2, <2>7, <2>8, <2>9, <2>10
<1>. QED  BY <1>1, <1>2

LEMMA MonthsAre ==
  ASSUME NEW y \in Nat, NEW m \in 1..12
  PROVE  Lengths(y)[m] = days_in_month(y, m) /\ days_in_month(y, m) \in 28..31
<1>1. Leap(y) <=> IsLeap(y)
  BY DEF Leap, IsLeap
<1>2. CASE m \in {1, 3, 5, 7, 8, 10, 12}
  BY <1>2 DEF Lengths, days_in_month
<1>3. CASE m \in {4, 6, 9, 11}
  BY <1>3 DEF Lengths, days_in_month
<1>4. CASE m = 2
  BY <1>1, <1>4 DEF Lengths, days_in_month
<1>. QED  BY <1>2, <1>3, <1>4

\* What keeps a text from being read, and what keeps it from being a date.
Unread(date, time) ==
  \/ Len(date) # 3 \/ Len(Parts(time)) > 3
  \/ NotANumber \in Range(date) \cup Range(Parts(time))
  \/ date[2] \notin 1..12

Wrong(date, time) ==
  \/ date[1] < FIRST_YEAR \/ date[1] > LAST_YEAR
  \/ date[3] \notin 1..days_in_month(date[1], date[2])
  \/ Clock(time)[1] > 23 \/ Clock(time)[2] > 59 \/ Clock(time)[3] > 59

SecondOf(h, m, s) == h * 3600 + m * 60 + s

CivilTime(time) == SecondOf(Clock(time)[1], Clock(time)[2], Clock(time)[3])

CivilDay(date) == DaysFromCivil(date[1], date[2], date[3])

LEMMA CivilIs ==
  ASSUME NEW date, NEW time
  PROVE  Civil(date, time) =
           IF Unread(date, time) THEN Unparsable
           ELSE IF Wrong(date, time) THEN Unparsable
           ELSE [kind |-> "date", day |-> CivilDay(date), second |-> CivilTime(time)]
BY DEF Civil, Unread, Wrong, SecondOf, CivilTime, CivilDay, Clock, Parts

\* The arithmetic of a clock and of the range of years.
LEMMA SecondsOfADay ==
  ASSUME NEW h \in Nat, NEW m \in Nat, NEW s \in Nat, h <= 23, m <= 59, s <= 59
  PROVE  SecondOf(h, m, s) \in Nat /\ SecondOf(h, m, s) < SecondsOfDay
BY SMT DEF SecondsOfDay, SecondOf

LEMMA YearsInRange ==
  ASSUME NEW y \in Nat
  PROVE  FIRST_YEAR <= y /\ y <= LAST_YEAR <=> ~ (y < FIRST_YEAR) /\ ~ (y > LAST_YEAR)
BY SMT DEF FIRST_YEAR, LAST_YEAR

LEMMA DatesAreNumbers ==
  ASSUME NEW date \in Seq(Nat \cup {NotANumber}), Exists(date)
  PROVE  NotANumber \notin Range(date) /\ date[1] \in Nat /\ date[3] \in Nat
<1>1. DOMAIN date = 1..3
  BY DEF Exists
<1>2. date[1] \in Nat /\ date[3] \in Nat
  <2>1. PICK n \in Nat : n = Len(date) /\ DOMAIN date = 1..n
    OBVIOUS
  <2>2. \A k \in 1..n : date[k] \in Nat \/ date[k] = NotANumber
    BY <2>1
  <2>3. n = 3
    BY <2>1 DEF Exists
  <2>. DEFINE y == date[1]
              d == date[3]
  <2>4. (y \in Nat \/ y = NotANumber) /\ (d \in Nat \/ d = NotANumber)
    BY <2>2, <2>3
  <2>5. FIRST_YEAR <= y /\ d >= 1
    BY Zenon DEF Exists
  <2>. HIDE DEF y, d
  <2>6. y \in Nat /\ d \in Nat
    BY <2>4, <2>5, SMT DEF NotANumber, FIRST_YEAR
  <2>. QED  BY <2>6 DEF y, d
<1>. SUFFICES ASSUME NotANumber \in Range(date) PROVE FALSE
  BY <1>2
<1>3. PICK k \in 1..3 : date[k] = NotANumber
  BY <1>1 DEF Range
<1>. QED  BY <1>2, <1>3 DEF Exists, NotANumber

LEMMA ClockType ==
  ASSUME NEW time \in Seq(Nat \cup {NotANumber})
  PROVE  Len(Parts(time)) \in Nat /\ \A k \in 1..3 : Clock(time)[k] \in Int
<1>1. Parts(time) \in Seq(Nat \cup {NotANumber})
  <2>1. <<0, 0, 0>> \in Seq(Nat \cup {NotANumber})
    OBVIOUS
  <2>. QED  BY <2>1 DEF Parts
<1>2. \A k \in 1..Len(Parts(time)) : Parts(time)[k] \in Int
  BY <1>1 DEF NotANumber
<1>. QED  BY <1>1, <1>2 DEF Clock

\* A text is read as a date if it names a day and a time, or not at all.
LEMMA DatesRead ==
  ASSUME NEW date \in Seq(Nat \cup {NotANumber}), NEW time \in Seq(Nat \cup {NotANumber}),
         Exists(date), Timed(time)
  PROVE  ~ Unread(date, time) /\ ~ Wrong(date, time)
<1>. DEFINE p == Parts(time)
            c == Clock(time)
<1>1. /\ Len(p) <= 3 /\ NotANumber \notin Range(p)
      /\ c[1] <= 23 /\ c[2] <= 59 /\ c[3] <= 59
  BY ClockIs
<1>2. Len(p) \in Nat /\ \A k \in 1..3 : c[k] \in Int
  BY ClockType
<1>3. NotANumber \notin Range(date) /\ date[1] \in Nat /\ date[3] \in Nat
  BY DatesAreNumbers
<1>4. date[3] \in 1..days_in_month(date[1], date[2])
  <2>. DEFINE y == date[1]
              m == date[2]
              d == date[3]
  <2>1. y \in Nat /\ m \in 1..12 /\ d \in Nat /\ d >= 1 /\ d <= Lengths(y)[m]
    BY <1>3, Zenon DEF Exists
  <2>. HIDE DEF y, m, d
  <2>2. Lengths(y)[m] = days_in_month(y, m) /\ days_in_month(y, m) \in 28..31
    BY <2>1, MonthsAre, Zenon
  <2>3. d \in 1..days_in_month(y, m)
    BY <2>1, <2>2
  <2>. QED  BY <2>3, Zenon DEF y, m, d
<1>. HIDE DEF p, c
<1>5. /\ ~ (Len(p) > 3) /\ ~ (c[1] > 23) /\ ~ (c[2] > 59) /\ ~ (c[3] > 59)
  BY <1>1, <1>2
<1>6. ~ Unread(date, time)
  BY <1>1, <1>3, <1>5 DEF Unread, Exists, p
<1>7. ~ Wrong(date, time)
  <2>1. ~ (date[1] < FIRST_YEAR) /\ ~ (date[1] > LAST_YEAR)
    <3>1. FIRST_YEAR <= date[1] /\ date[1] <= LAST_YEAR
      BY Zenon DEF Exists
    <3>. QED  BY <1>3, <3>1, YearsInRange, Zenon
  <2>. QED  BY <1>4, <1>5, <2>1, SMT DEF Wrong, c
<1>. QED  BY <1>6, <1>7

LEMMA ReadAreDates ==
  ASSUME NEW date \in Seq(Nat \cup {NotANumber}), NEW time \in Seq(Nat \cup {NotANumber}),
         ~ Unread(date, time), ~ Wrong(date, time)
  PROVE  Exists(date) /\ Timed(time)
<1>. DEFINE p == Parts(time)
            c == Clock(time)
<1>1. date[3] \in 1..days_in_month(date[1], date[2]) /\ date[2] \in 1..12
  BY DEF Unread, Wrong
<1>3. Exists(date)
  <2>1. Len(date) = 3 /\ NotANumber \notin Range(date)
    BY DEF Unread
  <2>2. DOMAIN date = 1..3
    BY <2>1
  <2>3. date[1] \in Nat
    BY <2>1, <2>2 DEF Range
  <2>4. ~ (date[1] < FIRST_YEAR) /\ ~ (date[1] > LAST_YEAR)
    BY SMT DEF Wrong
  <2>5. FIRST_YEAR <= date[1] /\ date[1] <= LAST_YEAR
    BY <2>3, <2>4, YearsInRange, Zenon
  <2>6. /\ Lengths(date[1])[date[2]] = days_in_month(date[1], date[2])
        /\ days_in_month(date[1], date[2]) \in 28..31
    BY <1>1, <2>3, MonthsAre, Zenon
  <2>7. date[3] >= 1 /\ date[3] <= Lengths(date[1])[date[2]]
    <3>. DEFINE d == date[3]
                days == days_in_month(date[1], date[2])
    <3>1. d \in 1..days /\ days \in 28..31
      BY <1>1, <2>6, Zenon
    <3>. HIDE DEF d, days
    <3>2. d >= 1 /\ d <= days
      BY <3>1
    <3>. QED  BY <2>6, <3>2, Zenon DEF d, days
  <2>. QED  BY <1>1, <2>1, <2>5, <2>7, Zenon DEF Exists
<1>4. Len(p) \in Nat /\ \A k \in 1..3 : c[k] \in Int
  BY ClockType
<1>5. ~ (Len(p) > 3) /\ NotANumber \notin Range(p)
  BY DEF Unread
<1>6. ~ (c[1] > 23) /\ ~ (c[2] > 59) /\ ~ (c[3] > 59)
  BY DEF Wrong
<1>. HIDE DEF p, c
<1>7. Len(p) <= 3 /\ c[1] <= 23 /\ c[2] <= 59 /\ c[3] <= 59
  BY <1>4, <1>5, <1>6
<1>8. Timed(time)
  BY <1>5, <1>7, ClockIs DEF p, c
<1>. QED  BY <1>3, <1>8

LEMMA NamedDates ==
  ASSUME NEW date \in Seq(Nat \cup {NotANumber}), NEW time \in Seq(Nat \cup {NotANumber}),
         Exists(date), Timed(time)
  PROVE  /\ Civil(date, time) = [kind |-> "date", day |-> DayOf(date), second |-> CivilTime(time)]
         /\ CivilTime(time) \in Nat /\ CivilTime(time) < SecondsOfDay
<1>1. Civil(date, time) = [kind |-> "date", day |-> CivilDay(date), second |-> CivilTime(time)]
  BY CivilIs, DatesRead, Zenon
<1>2. date[1] \in Nat /\ FIRST_YEAR <= date[1] /\ date[2] \in 1..12 /\ date[3] \in Nat
  BY DatesAreNumbers DEF Exists
<1>3. CivilDay(date) = DayOf(date)
  <2>. DEFINE y == date[1]
              m == date[2]
              d == date[3]
  <2>1. y \in Nat /\ FIRST_YEAR <= y /\ m \in 1..12 /\ d \in Nat
    BY <1>2
  <2>. HIDE DEF y, m, d
  <2>2. DaysFromCivil(y, m, d)
          = NewYear(y) + SumFunctionOnSet(Lengths(y), 1..(m - 1)) + d - 1
    BY <2>1, CivilDays, Zenon
  <2>. QED  BY <2>2, Zenon DEF DayOf, CivilDay, y, m, d
<1>. DEFINE c == Clock(time)
<1>4. c[1] <= 23 /\ c[2] <= 59 /\ c[3] <= 59 /\ \A k \in 1..3 : c[k] \in Nat
  BY ClockIs, Zenon
<1>. HIDE DEF c
<1>5. c[1] \in Nat /\ c[2] \in Nat /\ c[3] \in Nat
  BY <1>4
<1>6. SecondOf(c[1], c[2], c[3]) \in Nat /\ SecondOf(c[1], c[2], c[3]) < SecondsOfDay
  BY <1>4, <1>5, SecondsOfADay, Zenon
<1>7. CivilTime(time) \in Nat /\ CivilTime(time) < SecondsOfDay
  BY <1>6, Zenon DEF CivilTime, c
<1>. QED  BY <1>1, <1>3, <1>7, SMT

LEMMA OtherTexts ==
  ASSUME NEW date \in Seq(Nat \cup {NotANumber}), NEW time \in Seq(Nat \cup {NotANumber}),
         ~ (Exists(date) /\ Timed(time))
  PROVE  Civil(date, time) = Unparsable
<1>1. Unread(date, time) \/ Wrong(date, time)
  BY ReadAreDates, Zenon
<1>. QED  BY <1>1, CivilIs, Zenon

\* Deadlines are the days they name, and relative ones are never in the past,
\* whatever is written (trace.rs, parse_deadline).
THEOREM DeadlinesAreAlwaysCalendarDays == ReadSpec => []DeadlinesAreCalendarDays
<1>1. ASSUME ReadInv, request.command = "deadline"
      PROVE  DeadlinesAreCalendarDays
  <2>. DEFINE text == request.input.text
              now == request.input.now
              named == Exists(text.date) /\ Timed(text.time)
  <2>1. /\ request.input \in Times /\ answer = parse_deadline(text, now)
    BY <1>1 DEF ReadInv
  <2>2. /\ now \in 0..MAX_TIME
        /\ text.form = "relative" => text.count \in Nat \cup {NotANumber}
        /\ text.form = "civil" => text.date \in Seq(Nat \cup {NotANumber})
                                  /\ text.time \in Seq(Nat \cup {NotANumber})
    BY <2>1, ReadersAssumption
  <2>. HIDE DEF text, now
  <2>3. ASSUME text.form = "civil", named
        PROVE  /\ answer.kind = "date" /\ answer.day = DayOf(text.date)
               /\ 0 <= answer.second /\ answer.second < SecondsOfDay
    <3>1. answer = Civil(text.date, text.time)
      BY <2>1, <2>3 DEF parse_deadline
    <3>. DEFINE day == DayOf(text.date)
                second == CivilTime(text.time)
    <3>2. answer = [kind |-> "date", day |-> day, second |-> second]
          /\ second \in Nat /\ second < SecondsOfDay
      BY <2>2, <2>3, <3>1, NamedDates, Zenon
    <3>. HIDE DEF day, second
    <3>3. answer.kind = "date" /\ answer.day = day /\ answer.second = second
      BY <3>2
    <3>. QED  BY <3>2, <3>3 DEF day
  <2>4. ASSUME text.form = "civil", ~ named
        PROVE  answer.kind = "unparsable"
    <3>1. answer = Civil(text.date, text.time)
      BY <2>1, <2>4 DEF parse_deadline
    <3>2. answer = Unparsable
      BY <2>2, <2>4, <3>1, OtherTexts, Zenon
    <3>. QED  BY <3>2 DEF Unparsable
  <2>5. ASSUME text.form = "relative", answer.kind = "time"
        PROVE  answer.at \in now..MAX_TIME
    <3>1. answer = Relative(text.count, text.unit, now)
      BY <2>1, <2>5 DEF parse_deadline
    <3>. DEFINE hours == IF text.unit = "d" THEN 24 ELSE 1
                more == saturating_mul(text.count, hours)
    <3>2. text.count # NotANumber /\ answer.at = saturating_add(now, more)
      BY <2>5, <3>1 DEF Relative, Unparsable
    <3>3. text.count \in Nat /\ text.count * hours \in Nat
      BY <2>2, <2>5, <3>2
    <3>4. more \in Nat
      BY <3>3, MinMaxOfTwo, DeadlinesAssumption DEF saturating_mul
    <3>. HIDE DEF more
    <3>5. saturating_add(now, more) = IF MAX_TIME <= now + more THEN MAX_TIME ELSE now + more
      BY <2>2, <3>4, MinMaxOfTwo, DeadlinesAssumption DEF saturating_add
    <3>. QED  BY <2>2, <3>2, <3>4, <3>5, DeadlinesAssumption
  <2>. HIDE DEF named
  <2>6. /\ text.form = "civil" /\ named =>
             answer.kind = "date" /\ answer.day = DayOf(text.date)
             /\ 0 <= answer.second /\ answer.second < SecondsOfDay
        /\ text.form = "civil" /\ ~ named => answer.kind = "unparsable"
        /\ text.form = "relative" /\ answer.kind = "time" => answer.at \in now..MAX_TIME
    BY <2>3, <2>4, <2>5, Zenon
  <2>. QED  BY <2>6, Zenon DEF DeadlinesAreCalendarDays, text, now, named
<1>2. ASSUME request.command # "deadline"
      PROVE  DeadlinesAreCalendarDays
  BY <1>2, Zenon DEF DeadlinesAreCalendarDays
<1>3. ReadInv => DeadlinesAreCalendarDays
  BY <1>1, <1>2, Zenon
<1>. QED  BY <1>3, AnswersFollow, PTL

-----------------------------------------------------------------------------
(* What is recalled: scores *)

TraceType(t) ==
  /\ IsFiniteSet(WordsOf[t.text]) /\ IsFiniteSet(t.tags)
  /\ t.created \in Nat /\ t.salience \in Nat /\ t.confidence \in Nat /\ t.authority \in Nat
  /\ t.deadline \in Nat \cup {NoDeadline}

QueryType(query) ==
  /\ IsFiniteSet(query.words) /\ IsFiniteSet(query.tags)
  /\ query.now \in Nat /\ query.limit \in Nat

PolicyType(policy) ==
  /\ policy.recall_limit \in Nat /\ policy.recency_scale \in Nat /\ policy.prospective_scale \in Nat
  /\ ~ policy.allow_sensitive_persistence
  /\ Sound(policy)

LEMMA PartIs ==
  ASSUME NEW a \in Nat, NEW b \in Nat
  PROVE  Part(a, b) \in Nat /\ (b <= One => Part(a, b) <= a) /\ (b = 0 => Part(a, b) = 0)
<1>1. a * b \in Nat
  OBVIOUS
<1>2. b <= 1000 => a * b <= a * 1000
  OBVIOUS
<1>3. b = 0 => a * b = 0
  OBVIOUS
<1>. DEFINE c == a * b
<1>. HIDE DEF c
<1>4. c \in Nat /\ (b <= 1000 => c <= a * 1000) /\ (b = 0 => c = 0)
  BY <1>1, <1>2, <1>3 DEF c
<1>5. c \div 1000 \in Nat /\ (b <= 1000 => c \div 1000 <= a) /\ (b = 0 => c \div 1000 = 0)
  BY <1>4
<1>6. Part(a, b) = c \div 1000
  BY DEF Part, One, c
<1>. QED  BY <1>5, <1>6 DEF One

LEMMA PartGrows ==
  ASSUME NEW a \in Nat, NEW b \in Nat, NEW c \in Nat, NEW d \in Nat, a <= c, b <= d
  PROVE  Part(a, b) <= Part(c, d)
<1>1. a * b <= c * b /\ c * b <= c * d
  OBVIOUS
<1>2. a * b \in Nat /\ c * d \in Nat /\ c * b \in Nat
  OBVIOUS
<1>. DEFINE m == a * b
            n == c * d
<1>3. m \in Nat /\ n \in Nat /\ m <= n
  BY <1>1, <1>2
<1>. HIDE DEF m, n
<1>4. m \div 1000 <= n \div 1000
  BY <1>3
<1>. QED  BY <1>4 DEF Part, One, m, n

LEMMA ShareIs ==
  ASSUME NEW k \in Nat, NEW n \in Nat, k <= n, n > 0
  PROVE  /\ (One * k) \div n \in Nat /\ (One * k) \div n <= One
         /\ k = 0 => (One * k) \div n = 0
         /\ k < n => (One * k) \div n < One
<1>. DEFINE m == 1000 * k
<1>1. m \in Nat /\ m <= n * 1000 /\ (k = 0 => m = 0) /\ (k < n => m < n * 1000)
  OBVIOUS
<1>. HIDE DEF m
<1>2. m \div n \in Nat /\ m \div n <= 1000 /\ (k = 0 => m \div n = 0) /\ (k < n => m \div n < 1000)
  BY <1>1
<1>. QED  BY <1>2 DEF m, One

LEMMA CoverageIs ==
  ASSUME NEW q, NEW s, IsFiniteSet(q), IsFiniteSet(s)
  PROVE  /\ Coverage(q, s) \in Nat /\ Coverage(q, s) <= One
         /\ q \cap s = {} => Coverage(q, s) = 0
<1>1. CASE q = {} \/ s = {}
  BY <1>1 DEF Coverage, One
<1>2. CASE q # {} /\ s # {}
  <2>. DEFINE k == Cardinality(q \cap s)
              n == Cardinality(q)
  <2>1. k \in Nat /\ n \in Nat /\ k <= n /\ n > 0 /\ (q \cap s = {} => k = 0)
    <3>1. IsFiniteSet(q \cap s) /\ q \cap s \subseteq q
      BY FS_Subset
    <3>2. k <= n
      BY <3>1, FS_Subset
    <3>3. n # 0 /\ (q \cap s = {} => k = 0)
      BY <1>2, <3>1, FS_EmptySet
    <3>4. n \in Nat /\ k \in Nat
      BY <3>1, FS_CardinalityType
    <3>. HIDE DEF n, k
    <3>. QED  BY <3>2, <3>3, <3>4
  <2>2. Coverage(q, s) = (One * k) \div n
    BY <1>2 DEF Coverage
  <2>. HIDE DEF k, n
  <2>. QED  BY <2>1, <2>2, ShareIs
<1>. QED  BY <1>1, <1>2

LEMMA JaccardIs ==
  ASSUME NEW q, NEW s, IsFiniteSet(q), IsFiniteSet(s)
  PROVE  /\ Jaccard(q, s) \in Nat /\ Jaccard(q, s) <= One
         /\ q \cap s = {} => Jaccard(q, s) = 0
<1>1. CASE q = {} \/ s = {}
  BY <1>1 DEF Jaccard, One
<1>2. CASE q # {} /\ s # {}
  <2>. DEFINE k == Cardinality(q \cap s)
              n == Cardinality(q \cup s)
  <2>1. k \in Nat /\ n \in Nat /\ k <= n /\ n > 0 /\ (q \cap s = {} => k = 0)
    <3>1. IsFiniteSet(q \cap s) /\ q \cap s \subseteq q \cup s
      BY FS_Subset
    <3>2. IsFiniteSet(q \cup s)
      BY FS_Union
    <3>3. k <= n
      BY <3>1, <3>2, FS_Subset
    <3>4. n # 0 /\ (q \cap s = {} => k = 0)
      BY <1>2, <3>1, <3>2, FS_EmptySet
    <3>5. n \in Nat /\ k \in Nat
      BY <3>1, <3>2, FS_CardinalityType
    <3>. HIDE DEF n, k
    <3>. QED  BY <3>3, <3>4, <3>5
  <2>2. Jaccard(q, s) = (One * k) \div n
    BY <1>2 DEF Jaccard
  <2>. HIDE DEF k, n
  <2>. QED  BY <2>1, <2>2, ShareIs
<1>. QED  BY <1>1, <1>2

\* The shares of a sound policy.
LEMMA Weights ==
  ASSUME NEW policy, PolicyType(policy)
  PROVE  /\ \A field \in UnitFields : policy[field] \in Nat /\ policy[field] <= One
         /\ policy.lexical_coverage + policy.lexical_jaccard <= One
         /\ policy.cue_lexical + policy.cue_tag <= One
         /\ policy.relevance_base + policy.metadata_share <= One
         /\ policy.minimum_recall_score > 0 /\ policy.relevance_base > 0
         /\ policy.recency_scale > 0 /\ policy.prospective_scale > 0 /\ policy.recall_limit > 0
<1>1. One \in Nat
  BY DEF One
<1>2. Sound(policy)
  BY DEF PolicyType
<1>3. \A field \in UnitFields : policy[field] \in Nat /\ policy[field] <= One
  BY <1>1, <1>2 DEF Sound
<1>. QED  BY <1>2, <1>3 DEF Sound, Shares

\* Two weights that are shares, of measures that are shares.
LEMMA Blend ==
  ASSUME NEW v \in Nat, NEW w \in Nat, NEW a \in Nat, NEW b \in Nat,
         v + w <= One, a <= One, b <= One
  PROVE  Part(v, a) + Part(w, b) \in Nat /\ Part(v, a) + Part(w, b) <= One
<1>1. Part(v, a) \in Nat /\ Part(w, b) \in Nat /\ Part(v, a) <= v /\ Part(w, b) <= w
  BY PartIs
<1>2. One \in Nat
  BY DEF One
<1>. QED  BY <1>1, <1>2

LEMMA LexicalIs ==
  ASSUME NEW t, NEW query, NEW policy, TraceType(t), QueryType(query), PolicyType(policy)
  PROVE  /\ Lexical(t, query, policy) \in Nat /\ Lexical(t, query, policy) <= One
         /\ WordsOf[t.text] \cap query.words = {} => Lexical(t, query, policy) = 0
         /\ WordsOf[t.text] \cap query.words # {} /\ policy.lexical_coverage + policy.lexical_jaccard > 0
              => Lexical(t, query, policy) >= policy.match_floor
<1>. DEFINE words == WordsOf[t.text]
            a == Coverage(query.words, words)
            b == Jaccard(query.words, words)
            v == policy.lexical_coverage
            w == policy.lexical_jaccard
            f == policy.match_floor
            blended == Part(v, a) + Part(w, b)
<1>1. a \in Nat /\ b \in Nat /\ a <= One /\ b <= One
  BY CoverageIs, JaccardIs DEF TraceType, QueryType
<1>2. v \in Nat /\ w \in Nat /\ f \in Nat /\ v + w <= One /\ f <= One
  <2>1. "lexical_coverage" \in UnitFields /\ "lexical_jaccard" \in UnitFields /\ "match_floor" \in UnitFields
    BY DEF UnitFields
  <2>. QED  BY <2>1, Weights
<1>3. Lexical(t, query, policy) =
        IF query.words \cap words # {} /\ v + w > 0 THEN Max({blended, f}) ELSE 0
  BY DEF Lexical
<1>4. One \in Nat
  BY DEF One
<1>. HIDE DEF a, b, v, w, f
<1>5. blended \in Nat /\ blended <= One
  BY <1>1, <1>2, Blend
<1>. HIDE DEF blended
<1>6. Max({blended, f}) = IF blended >= f THEN blended ELSE f
  <2>1. blended \in Int /\ f \in Int
    BY <1>2, <1>5
  <2>. QED  BY ONLY <2>1, MinMaxOfTwo
<1>7. query.words \cap words = WordsOf[t.text] \cap query.words
  OBVIOUS
<1>. QED  BY <1>2, <1>3, <1>4, <1>5, <1>6, <1>7 DEF v, w, f

LEMMA CueIs ==
  ASSUME NEW t, NEW query, NEW policy, TraceType(t), QueryType(query), PolicyType(policy)
  PROVE  /\ Cue(t, query, policy) \in Nat /\ Cue(t, query, policy) <= One
         /\ WordsOf[t.text] \cap query.words = {} /\ t.tags \cap query.tags = {}
              => Cue(t, query, policy) = 0
         /\ FloorCounts(query, policy) /\ WordsOf[t.text] \cap query.words # {}
              => Cue(t, query, policy) >= policy.minimum_recall_score
<1>. DEFINE lex == Lexical(t, query, policy)
            tag == Coverage(query.tags, t.tags)
            v == policy.cue_lexical
            w == policy.cue_tag
            f == policy.match_floor
            m == policy.minimum_recall_score
            cue == Cue(t, query, policy)
            shared == WordsOf[t.text] \cap query.words
<1>1. tag \in Nat /\ tag <= One /\ (t.tags \cap query.tags = {} => tag = 0)
  <2>1. query.tags \cap t.tags = t.tags \cap query.tags
    OBVIOUS
  <2>. QED  BY <2>1, CoverageIs DEF TraceType, QueryType
<1>2. /\ lex \in Nat /\ lex <= One /\ (shared = {} => lex = 0)
      /\ FloorCounts(query, policy) /\ shared # {} => lex >= f
  BY LexicalIs DEF FloorCounts
<1>3. v \in Nat /\ w \in Nat /\ f \in Nat /\ m \in Nat /\ v + w <= One
  <2>1. "cue_lexical" \in UnitFields /\ "cue_tag" \in UnitFields /\ "match_floor" \in UnitFields
        /\ "minimum_recall_score" \in UnitFields
    BY DEF UnitFields
  <2>. QED  BY <2>1, Weights
<1>4. cue = IF query.words # {} /\ query.tags # {} THEN Part(v, lex) + Part(w, tag)
            ELSE IF query.words # {} THEN lex ELSE IF query.tags # {} THEN tag ELSE 0
  BY DEF Cue
<1>5. FloorCounts(query, policy) => m <= IF query.tags = {} THEN f ELSE Part(v, f)
  BY DEF FloorCounts
<1>6. shared # {} => query.words # {}
  OBVIOUS
<1>7. One \in Nat
  BY DEF One
<1>. HIDE DEF lex, tag, v, w, f, m, cue, shared
<1>8. Part(v, lex) + Part(w, tag) \in Nat /\ Part(v, lex) + Part(w, tag) <= One
  BY <1>1, <1>2, <1>3, Blend
<1>9. Part(v, lex) \in Nat /\ Part(w, tag) \in Nat /\ (lex = 0 => Part(v, lex) = 0)
      /\ (tag = 0 => Part(w, tag) = 0) /\ Part(v, f) \in Nat
  BY <1>1, <1>2, <1>3, PartIs
<1>10. lex >= f => Part(v, lex) >= Part(v, f)
  BY <1>2, <1>3, <1>9, PartGrows
<1>11. cue \in Nat /\ cue <= One
  BY <1>1, <1>2, <1>4, <1>7, <1>8
<1>12. shared = {} /\ t.tags \cap query.tags = {} => cue = 0
  BY <1>1, <1>2, <1>4, <1>9
<1>13. FloorCounts(query, policy) /\ shared # {} => cue >= m
  BY <1>2, <1>3, <1>4, <1>5, <1>6, <1>9, <1>10
<1>. QED  BY <1>11, <1>12, <1>13 DEF cue, shared, m

\* Only what takes time decays.
LEMMA DecayIs ==
  ASSUME NEW s \in Nat, s > 0, NEW d \in Nat
  PROVE  /\ Decay(s, d) \in Nat
         /\ d > 0 => ~ (Decay(s, d) >= One)
<1>. DEFINE n == s + d
            m == 1000 * d + s + d - 1
            q == m \div n
<1>1. n \in Nat /\ n > 0 /\ m \in Nat /\ m < n * 1001 /\ (d > 0 => n <= m)
  OBVIOUS
<1>2. Decay(s, d) = 1000 - q
  BY DEF Decay, One
<1>. HIDE DEF m, n
<1>3. q \in Nat /\ q <= 1000 /\ (n <= m => q >= 1)
  BY <1>1
<1>. HIDE DEF q
<1>4. Decay(s, d) \in Nat /\ (d > 0 => ~ (Decay(s, d) >= 1000))
  BY <1>1, <1>2, <1>3
<1>. QED  BY <1>4 DEF One

\* A trace is overdue when it insists on being recalled, and on nothing else.
LEMMA OverdueIs ==
  ASSUME NEW t, NEW now \in Nat, NEW policy, TraceType(t), PolicyType(policy)
  PROVE  /\ Urgency(t, now, policy) \in Nat
         /\ Overdue(t, now, policy) <=> Insists(t, now, policy)
<1>. DEFINE s == policy.prospective_scale
            u == policy.undated_commitment_urgency
            d == t.deadline
            due == d <= now \/ AsGoodAsDue(t, now, policy)
<1>1. s \in Nat /\ s > 0 /\ u \in Nat
  <2>1. "undated_commitment_urgency" \in UnitFields
    BY DEF UnitFields
  <2>. QED  BY <2>1, Weights DEF PolicyType
<1>2. d \in Nat \cup {NoDeadline}
  BY DEF TraceType
<1>3. Urgency(t, now, policy) =
        IF t.kind # "commitment" THEN 0 ELSE IF d = NoDeadline THEN u
        ELSE IF due THEN One ELSE Decay(s, d - now)
  BY DEF Urgency
<1>4. Insists(t, now, policy) <=>
        \/ t.kind = "commitment" /\ d # NoDeadline /\ due
        \/ t.kind = "commitment" /\ d = NoDeadline /\ u >= One
  BY DEF Insists, LateCommitment
<1>5. One \in Nat /\ One > 0
  BY DEF One
<1>6. d \in Nat /\ ~ due => d - now \in Nat /\ d - now > 0
  OBVIOUS
<1>. HIDE DEF s, u, d, due
<1>7. CASE t.kind = "commitment" /\ d # NoDeadline /\ ~ due
  <2>1. d - now \in Nat /\ d - now > 0
    BY <1>2, <1>6, <1>7
  <2>2. Urgency(t, now, policy) = Decay(s, d - now)
    BY <1>3, <1>7
  <2>3. Urgency(t, now, policy) \in Nat /\ ~ (Urgency(t, now, policy) >= One)
    BY <1>1, <2>1, <2>2, DecayIs
  <2>. QED  BY <1>4, <1>7, <2>3 DEF Overdue
<1>8. CASE ~ (t.kind = "commitment" /\ d # NoDeadline /\ ~ due)
  <2>. DEFINE r == Urgency(t, now, policy)
  <2>1. r = IF t.kind # "commitment" THEN 0 ELSE IF d = NoDeadline THEN u ELSE One
    BY <1>3, <1>8
  <2>. HIDE DEF r
  <2>2. r \in Nat
    BY <1>1, <1>5, <2>1
  <2>3. r >= One <=>
        \/ t.kind = "commitment" /\ d # NoDeadline /\ due
        \/ t.kind = "commitment" /\ d = NoDeadline /\ u >= One
    BY <1>1, <1>5, <1>8, <2>1
  <2>. QED  BY <1>4, <2>2, <2>3 DEF Overdue, r
<1>. QED  BY <1>7, <1>8

LEMMA AtMostOneIs ==
  ASSUME NEW n \in Nat
  PROVE  AtMostOne(n) \in Nat /\ AtMostOne(n) = IF One <= n THEN One ELSE n
<1>1. One \in Nat
  BY DEF One
<1>2. One \in Int /\ n \in Int
  BY <1>1
<1>3. Min({One, n}) = IF One <= n THEN One ELSE n
  BY ONLY <1>2, MinMaxOfTwo
<1>. QED  BY <1>1, <1>3 DEF AtMostOne

LEMMA MetaIs ==
  ASSUME NEW t, NEW now \in Nat, NEW policy, TraceType(t), PolicyType(policy)
  PROVE  Meta(t, now, policy) \in Nat /\ Meta(t, now, policy) <= One
<1>. DEFINE age == Max({0, now - t.created})
            recency == Decay(policy.recency_scale, age)
            unverified == Part(policy.unverified_provenance_factor, t.authority)
            provenance == AtMostOne(IF t.verified THEN t.authority ELSE unverified)
            p1 == Part(policy.meta_recency, recency)
            p2 == Part(policy.meta_salience, t.salience)
            p3 == Part(policy.meta_confidence, 100 * t.confidence)
            p4 == Part(policy.meta_provenance, provenance)
            p5 == Part(policy.meta_prospective, Urgency(t, now, policy))
<1>0. One \in Nat
  BY DEF One
<1>1. /\ policy.meta_recency \in Nat /\ policy.meta_salience \in Nat /\ policy.meta_confidence \in Nat
      /\ policy.meta_provenance \in Nat /\ policy.meta_prospective \in Nat
      /\ policy.unverified_provenance_factor \in Nat
  <2>1. {"meta_recency", "meta_salience", "meta_confidence", "meta_provenance", "meta_prospective",
         "unverified_provenance_factor"} \subseteq UnitFields
    BY DEF UnitFields
  <2>. QED  BY <2>1, Weights
<1>2. recency \in Nat
  <2>1. now - t.created \in Int /\ 0 \in Int
    BY DEF TraceType
  <2>2. age = IF 0 >= now - t.created THEN 0 ELSE now - t.created
    BY ONLY <2>1, MinMaxOfTwo
  <2>3. age \in Nat
    BY <2>1, <2>2
  <2>. HIDE DEF age
  <2>4. policy.recency_scale \in Nat /\ policy.recency_scale > 0
    BY Weights DEF PolicyType
  <2>. QED  BY <2>3, <2>4, DecayIs
<1>3. t.salience \in Nat /\ 100 * t.confidence \in Nat /\ t.authority \in Nat
  <2>1. t.salience \in Nat /\ t.confidence \in Nat /\ t.authority \in Nat
    BY DEF TraceType
  <2>. QED  BY <2>1
<1>4. provenance \in Nat
  <2>1. unverified \in Nat
    BY <1>1, <1>3, PartIs
  <2>. QED  BY <1>3, <2>1, AtMostOneIs
<1>5. Urgency(t, now, policy) \in Nat
  BY OverdueIs
<1>. HIDE DEF age, recency, provenance
<1>6. p1 \in Nat /\ p2 \in Nat /\ p3 \in Nat /\ p4 \in Nat /\ p5 \in Nat
  BY <1>1, <1>2, <1>3, <1>4, <1>5, PartIs
<1>7. Meta(t, now, policy) = AtMostOne(p1 + p2 + p3 + p4 + p5)
  BY DEF Meta, age, recency, provenance
<1>. HIDE DEF p1, p2, p3, p4, p5
<1>8. p1 + p2 + p3 + p4 + p5 \in Nat
  BY <1>6
<1>. DEFINE n == p1 + p2 + p3 + p4 + p5
<1>. HIDE DEF n
<1>9. AtMostOne(n) \in Nat /\ AtMostOne(n) = IF One <= n THEN One ELSE n
  BY <1>8, AtMostOneIs DEF n
<1>. QED  BY <1>0, <1>7, <1>8, <1>9 DEF n

\* What a trace is worth to a question, above all to one that asks for something.
LEMMA ScoreIs ==
  ASSUME NEW t, NEW query, NEW policy, TraceType(t), QueryType(query), PolicyType(policy)
  PROVE  /\ Score(t, query, policy) \in Nat
         /\ HasCue(query) =>
              Score(t, query, policy) >= Part(Cue(t, query, policy), policy.relevance_base)
         /\ HasCue(query) /\ ~ Insists(t, query.now, policy) =>
              Score(t, query, policy)
                <= Part(Cue(t, query, policy), policy.relevance_base + policy.metadata_share)
<1>. DEFINE cue == Cue(t, query, policy)
            meta == Meta(t, query.now, policy)
            b == policy.relevance_base
            w == policy.metadata_share
            f == policy.overdue_floor
            part == Part(w, meta)
            ranked == Part(cue, b + part)
            overdue == Overdue(t, query.now, policy)
            raw == IF overdue THEN Max({ranked, f}) ELSE ranked
<1>0. One \in Nat /\ query.now \in Nat
  BY DEF One, QueryType
<1>1. cue \in Nat /\ cue <= One
  BY CueIs
<1>2. meta \in Nat /\ meta <= One
  BY <1>0, MetaIs
<1>3. b \in Nat /\ w \in Nat /\ f \in Nat /\ b + w <= One
  <2>1. "relevance_base" \in UnitFields /\ "metadata_share" \in UnitFields /\ "overdue_floor" \in UnitFields
    BY DEF UnitFields
  <2>. QED  BY <2>1, Weights
<1>4. Score(t, query, policy) =
        IF HasCue(query) THEN AtMostOne(raw) ELSE AtMostOne(Part(policy.listing_scale, meta))
  BY DEF Score
<1>5. overdue <=> Insists(t, query.now, policy)
  BY <1>0, OverdueIs
<1>. HIDE DEF cue, meta, b, w, f, overdue
<1>6. part \in Nat /\ part <= w
  BY <1>2, <1>3, PartIs
<1>. HIDE DEF part
<1>7. b + part \in Nat /\ b <= b + part /\ b + part <= b + w /\ b + w \in Nat /\ b <= One
  BY <1>0, <1>3, <1>6
<1>8. /\ ranked \in Nat /\ Part(cue, b) \in Nat /\ Part(cue, b + w) \in Nat
      /\ Part(cue, b) <= ranked /\ ranked <= Part(cue, b + w) /\ Part(cue, b) <= cue
  <2>. DEFINE c == b + part
              d == b + w
  <2>1. c \in Nat /\ d \in Nat /\ b <= c /\ c <= d /\ b \in Nat /\ cue \in Nat /\ cue <= cue
    BY <1>1, <1>3, <1>7
  <2>2. b <= One
    BY <1>7
  <2>. HIDE DEF c, d
  <2>. QED  BY ONLY <2>1, <2>2, PartIs, PartGrows DEF c, d
<1>. HIDE DEF ranked
<1>9. Max({ranked, f}) = IF ranked >= f THEN ranked ELSE f
  <2>1. ranked \in Int /\ f \in Int
    BY <1>3, <1>8
  <2>. QED  BY ONLY <2>1, MinMaxOfTwo
<1>10. raw \in Nat /\ raw >= Part(cue, b) /\ (~ overdue => raw = ranked)
  BY <1>3, <1>8, <1>9
<1>. HIDE DEF raw
<1>11. AtMostOne(raw) \in Nat /\ AtMostOne(raw) = IF One <= raw THEN One ELSE raw
  BY <1>10, AtMostOneIs
<1>12. Part(cue, b) <= One
  BY <1>0, <1>1, <1>8
<1>. DEFINE score == AtMostOne(raw)
            low == Part(cue, b)
            high == Part(cue, b + w)
<1>13. score \in Nat /\ low \in Nat /\ high \in Nat /\ low <= One /\ raw >= low /\ ranked <= high
       /\ score = (IF One <= raw THEN One ELSE raw) /\ (~ overdue => raw = ranked)
  BY <1>8, <1>10, <1>11, <1>12
<1>. HIDE DEF score, low, high
<1>14. score \in Nat /\ score >= low /\ (~ overdue => score <= high)
  BY <1>0, <1>8, <1>10, <1>13
<1>15. AtMostOne(Part(policy.listing_scale, meta)) \in Nat
  <2>1. "listing_scale" \in UnitFields
    BY DEF UnitFields
  <2>2. Part(policy.listing_scale, meta) \in Nat
    BY <1>2, <2>1, Weights, PartIs
  <2>. QED  BY <2>2, AtMostOneIs
<1>. QED  BY <1>4, <1>5, <1>14, <1>15 DEF score, low, high, cue, b, w

-----------------------------------------------------------------------------
(* What is recalled: candidates *)

MemoryType(mem) ==
  /\ IsFiniteSet(DOMAIN mem) /\ DOMAIN mem \subseteq Nat
  /\ \A i \in DOMAIN mem : TraceType(mem[i])

LEMMA CandidatesAre ==
  ASSUME NEW mem, NEW query, NEW policy, MemoryType(mem), QueryType(query), PolicyType(policy)
  PROVE  /\ Candidates(mem, query, policy) \subseteq DOMAIN mem
         /\ MustRecall(mem, query, policy) \subseteq Candidates(mem, query, policy)
         /\ HasCue(query) => \A i \in Candidates(mem, query, policy) :
              /\ mem[i].privacy # "sensitive"
              /\ \/ WordsOf[mem[i].text] \cap query.words # {} \/ mem[i].tags \cap query.tags # {}
                 \/ Insists(mem[i], query.now, policy)
<1>0. query.now \in Nat /\ ~ policy.allow_sensitive_persistence
  BY DEF QueryType, PolicyType
<1>1. Candidates(mem, query, policy) \subseteq DOMAIN mem
  BY DEF Candidates
<1>2. ASSUME NEW i \in MustRecall(mem, query, policy) PROVE i \in Candidates(mem, query, policy)
  <2>. DEFINE t == mem[i]
  <2>1. /\ i \in DOMAIN mem
        /\ t.status = "active" \/ (query.history /\ t.status = "superseded")
        /\ t.kind \in query.kinds \/ (query.kinds = {} /\ t.kind # "prediction")
        /\ t.privacy # "sensitive"
        /\ \/ FloorCounts(query, policy) /\ WordsOf[t.text] \cap query.words # {}
           \/ LateCommitment(t, query.now)
    BY DEF MustRecall
  <2>2. TraceType(t)
    BY <2>1 DEF MemoryType
  <2>3. Cue(t, query, policy) >= policy.minimum_recall_score \/ Overdue(t, query.now, policy)
    <3>1. CASE FloorCounts(query, policy) /\ WordsOf[t.text] \cap query.words # {}
      BY <2>2, <3>1, CueIs
    <3>2. CASE LateCommitment(t, query.now)
      BY <1>0, <2>2, <3>2, OverdueIs DEF Insists
    <3>. QED  BY <2>1, <3>1, <3>2
  <2>4. IF query.kinds = {} THEN t.kind # "prediction" ELSE t.kind \in query.kinds
    BY <2>1
  <2>. HIDE DEF t
  <2>5. Recallable(t, query, policy) /\ Visible(t, policy)
    BY <2>1, <2>3 DEF Recallable, Visible
  <2>. QED  BY <2>1, <2>4, <2>5 DEF Candidates, t
<1>3. ASSUME HasCue(query), NEW i \in Candidates(mem, query, policy)
      PROVE  /\ mem[i].privacy # "sensitive"
             /\ \/ WordsOf[mem[i].text] \cap query.words # {} \/ mem[i].tags \cap query.tags # {}
                \/ Insists(mem[i], query.now, policy)
  <2>. DEFINE t == mem[i]
  <2>1. i \in DOMAIN mem /\ Visible(t, policy) /\ Recallable(t, query, policy)
    BY DEF Candidates
  <2>2. TraceType(t)
    BY <2>1 DEF MemoryType
  <2>3. t.privacy # "sensitive"
    BY <1>0, <2>1 DEF Visible
  <2>4. Cue(t, query, policy) >= policy.minimum_recall_score \/ Overdue(t, query.now, policy)
    BY <1>3, <2>1 DEF Recallable
  <2>5. policy.minimum_recall_score \in Nat /\ policy.minimum_recall_score > 0
    <3>1. "minimum_recall_score" \in UnitFields
      BY DEF UnitFields
    <3>. QED  BY <3>1, Weights
  <2>. HIDE DEF t
  <2>6. CASE Overdue(t, query.now, policy)
    BY <1>0, <2>2, <2>3, <2>6, OverdueIs DEF t
  <2>7. CASE Cue(t, query, policy) >= policy.minimum_recall_score
    <3>1. Cue(t, query, policy) # 0
      BY <2>5, <2>7
    <3>2. WordsOf[t.text] \cap query.words # {} \/ t.tags \cap query.tags # {}
      BY <2>2, <3>1, CueIs
    <3>. QED  BY <2>3, <3>2 DEF t
  <2>. QED  BY <2>4, <2>6, <2>7
<1>. QED  BY <1>1, <1>2, <1>3

LEMMA RankedIs ==
  ASSUME NEW mem, NEW query, NEW policy, MemoryType(mem), QueryType(query), PolicyType(policy),
         NEW C, C = Candidates(mem, query, policy), NEW r, r = Ranked(mem, query, policy)
  PROVE  /\ Len(r) \in Nat /\ DOMAIN r = 1..Len(r)
         /\ \A n \in 1..Len(r) : r[n] \in C
         /\ \A m, n \in 1..Len(r) : r[m] = r[n] => m = n
         /\ \A i \in C : \E n \in 1..Len(r) : r[n] = i
<1>. DEFINE score(i) == Score(mem[i], query, policy)
            made(i) == mem[i].created
            before(i, j) == \/ score(i) > score(j)
                            \/ score(i) = score(j) /\ made(i) > made(j)
                            \/ score(i) = score(j) /\ made(i) = made(j) /\ i < j
            R == {p \in C \X C : before(p[1], p[2])}
<1>1. r = Arranged(C, R)
  BY DEF Ranked
<1>2. C \subseteq DOMAIN mem
  BY CandidatesAre
<1>3. IsFiniteSet(C)
  BY <1>2, FS_Subset DEF MemoryType
<1>4. \A i \in C : i \in Nat /\ score(i) \in Nat /\ made(i) \in Nat
  <2>. SUFFICES ASSUME NEW i \in C PROVE i \in Nat /\ score(i) \in Nat /\ made(i) \in Nat
    OBVIOUS
  <2>1. i \in DOMAIN mem /\ TraceType(mem[i])
    BY <1>2 DEF MemoryType
  <2>2. i \in Nat /\ made(i) \in Nat
    BY <2>1 DEF MemoryType, TraceType
  <2>3. score(i) \in Nat
    BY <2>1, ScoreIs
  <2>. QED  BY <2>2, <2>3
<1>5. Orders(R, C)
  <2>1. \A i, j \in C : <<i, j>> \in R <=> before(i, j)
    OBVIOUS
  <2>. HIDE DEF R, score, made
  <2>2. ASSUME NEW i \in C, NEW j \in C, i # j PROVE <<i, j>> \in R \/ <<j, i>> \in R
    <3>1. before(i, j) \/ before(j, i)
      BY <1>4, <2>2
    <3>. QED  BY <2>1, <3>1
  <2>3. ASSUME NEW i \in C, NEW j \in C, NEW k \in C, <<i, j>> \in R, <<j, k>> \in R
        PROVE  <<i, k>> \in R
    <3>1. before(i, j) /\ before(j, k)
      BY <2>1, <2>3
    <3>2. before(i, k)
      BY <1>4, <3>1
    <3>. QED  BY <2>1, <3>2
  <2>4. ASSUME NEW i \in C PROVE <<i, i>> \notin R
    <3>1. ~ before(i, i)
      BY <1>4
    <3>. QED  BY <2>1, <3>1
  <2>. QED  BY <2>2, <2>3, <2>4 DEF Orders
<1>. HIDE DEF R
<1>6. /\ Cardinality(C) \in Nat /\ r \in [1..Cardinality(C) -> C]
      /\ \A i, j \in 1..Cardinality(C) : r[i] = r[j] => i = j
      /\ \A i \in C : \E n \in 1..Cardinality(C) : r[n] = i
  BY <1>1, <1>3, <1>5, ArrangedIs
<1>7. Len(r) = Cardinality(C)
  BY <1>6
<1>. QED  BY <1>6, <1>7

-----------------------------------------------------------------------------
(* What is recalled: one candidate after the other *)

LEMMA MaxOf ==
  ASSUME NEW S, IsFiniteSet(S), S # {}, S \subseteq Int
  PROVE  Max(S) \in S /\ \A y \in S : y <= Max(S)
<1>. DEFINE R == {p \in S \X S : p[1] >= p[2]}
<1>1. \A x, y \in S : <<x, y>> \in R <=> x >= y
  OBVIOUS
<1>. HIDE DEF R
<1>2. \A x, y \in S : <<x, y>> \in R \/ <<y, x>> \in R
  <2>1. \A x, y \in S : x >= y \/ y >= x
    OBVIOUS
  <2>. QED  BY <1>1, <2>1
<1>3. ASSUME NEW x \in S, NEW y \in S, NEW z \in S, <<x, y>> \in R, <<y, z>> \in R
      PROVE  <<x, z>> \in R
  <2>1. x >= y /\ y >= z
    BY <1>1, <1>3
  <2>2. x >= z
    BY <2>1
  <2>. QED  BY <1>1, <2>2
<1>4. Ranks(R, S)
  BY <1>2, <1>3 DEF Ranks
<1>5. PICK x \in S : \A y \in S : <<x, y>> \in R
  BY <1>4, BestOf
<1>6. \A y \in S : x >= y
  BY <1>1, <1>5
<1>7. Max(S) \in S /\ \A y \in S : Max(S) >= y
  BY <1>6 DEF Max
<1>. QED  BY <1>7

LEMMA MinOf ==
  ASSUME NEW S \in SUBSET Nat, S # {}
  PROVE  Min(S) \in S /\ \A y \in S : Min(S) <= y
<1>1. PICK x \in S : \A y \in S : x <= y
  BY LeastOf
<1>. QED  BY <1>1 DEF Min

\* The first n after x was inserted behind the first a.
Inserted(r, selected, a, x, n) ==
  /\ Len(r) = IF Len(selected) + 1 <= n THEN Len(selected) + 1 ELSE n
  /\ \A k \in 1..Len(r) :
       r[k] = IF k <= a THEN selected[k] ELSE IF k = a + 1 THEN x ELSE selected[k - 1]

\* The first n of a sequence into which x was inserted.
LEMMA InsertedIs ==
  ASSUME NEW T, NEW s \in Seq(T), NEW x \in T, NEW a \in Nat, a <= Len(s), NEW n \in Nat, n >= 1,
         NEW longer, longer = InsertAt(s, a + 1, x),
         NEW r, r = SubSeq(longer, 1, Min({n, Len(longer)}))
  PROVE  r \in Seq(T) /\ Inserted(r, s, a, x, n)
<1>. DEFINE p == SubSeq(s, 1, a)
            q == SubSeq(s, a + 1, Len(s))
            l == Len(s)
<1>1. l \in Nat /\ a <= l
  OBVIOUS
<1>2. p \in Seq(T) /\ Len(p) = a /\ \A k \in 1..a : p[k] = s[k]
  OBVIOUS
<1>3. q \in Seq(T) /\ Len(q) = l - a /\ \A k \in 1..(l - a) : q[k] = s[a + k]
  OBVIOUS
<1>4. longer = p \o <<x>> \o q
  <2>. DEFINE i == a + 1
  <2>1. i - 1 = a
    OBVIOUS
  <2>. HIDE DEF i
  <2>2. InsertAt(s, i, x) = SubSeq(s, 1, i - 1) \o <<x>> \o SubSeq(s, i, Len(s))
    BY Zenon DEF InsertAt
  <2>3. InsertAt(s, i, x) = SubSeq(s, 1, a) \o <<x>> \o SubSeq(s, i, Len(s))
    BY <2>1, <2>2, Zenon
  <2>. QED  BY <2>3, Zenon DEF i, p, q
<1>. HIDE DEF p, q, l
<1>5. longer \in Seq(T) /\ Len(longer) = l + 1
  <2>. DEFINE px == p \o <<x>>
  <2>1. px \in Seq(T) /\ Len(px) = a + 1
    BY <1>2
  <2>2. longer = px \o q
    BY <1>4
  <2>. HIDE DEF px
  <2>3. longer \in Seq(T) /\ Len(longer) = a + 1 + (l - a)
    <3>1. px \o q \in Seq(T) /\ Len(px \o q) = Len(px) + Len(q)
      BY <1>3, <2>1, ConcatProperties
    <3>. QED  BY <1>3, <2>1, <2>2, <3>1
  <2>. QED  BY <1>1, <2>3
<1>6. ASSUME NEW k \in 1..(l + 1)
      PROVE  longer[k] = IF k <= a THEN s[k] ELSE IF k = a + 1 THEN x ELSE s[k - 1]
  <2>. DEFINE px == p \o <<x>>
  <2>1. px \in Seq(T) /\ Len(px) = a + 1 /\ (\A m \in 1..a : px[m] = p[m]) /\ px[a + 1] = x
    BY <1>1, <1>2
  <2>. HIDE DEF px
  <2>2. longer = px \o q
    BY <1>4 DEF px
  <2>3. CASE k <= a
    BY <1>1, <1>2, <1>3, <2>1, <2>2, <2>3
  <2>4. CASE k = a + 1
    BY <1>1, <1>3, <2>1, <2>2, <2>4
  <2>5. CASE k > a + 1
    <3>1. longer[k] = q[k - (a + 1)]
      BY <1>1, <1>3, <2>1, <2>2, <2>5
    <3>2. k - (a + 1) \in 1..(l - a) /\ a + (k - (a + 1)) = k - 1
      BY <1>1, <2>5
    <3>3. q[k - (a + 1)] = s[k - 1]
      BY <1>3, <3>2
    <3>. QED  BY <1>1, <2>5, <3>1, <3>3
  <2>. QED  BY <1>1, <2>3, <2>4, <2>5
<1>7. Min({n, Len(longer)}) = IF n <= l + 1 THEN n ELSE l + 1
  <2>1. n \in Int /\ l + 1 \in Int
    BY <1>1
  <2>. QED  BY <1>5, <2>1, MinMaxOfTwo
<1>. DEFINE c == IF n <= l + 1 THEN n ELSE l + 1
<1>8. c \in Nat /\ c <= l + 1 /\ c = (IF l + 1 <= n THEN l + 1 ELSE n)
  BY <1>1
<1>9. r = SubSeq(longer, 1, c)
  BY <1>7
<1>. HIDE DEF c
<1>10. r \in Seq(T) /\ Len(r) = c /\ \A k \in 1..c : r[k] = longer[k]
  <2>1. c <= Len(longer)
    BY <1>1, <1>5, <1>8
  <2>2. \A k \in 1..c : longer[k] \in T
    BY <1>5, <1>8, <2>1
  <2>3. /\ SubSeq(longer, 1, c) \in Seq(T)
        /\ Len(SubSeq(longer, 1, c)) = IF 1 <= c THEN c - 1 + 1 ELSE 0
        /\ \A k \in 1..(c - 1 + 1) : SubSeq(longer, 1, c)[k] = longer[1 + k - 1]
    <3>1. c \in Int /\ 1 \in Int
      BY <1>8
    <3>. QED  BY ONLY <2>2, <3>1, SubSeqProperties
  <2>4. (IF 1 <= c THEN c - 1 + 1 ELSE 0) = c /\ c - 1 + 1 = c
    BY <1>8
  <2>5. \A k \in 1..c : 1 + k - 1 = k
    OBVIOUS
  <2>6. \A k \in 1..c : SubSeq(longer, 1, c)[k] = longer[k]
    BY <2>3, <2>4, <2>5
  <2>7. Len(SubSeq(longer, 1, c)) = c
    BY <2>3, <2>4
  <2>. QED  BY <1>9, <2>3, <2>6, <2>7
<1>11. ASSUME NEW k \in 1..Len(r)
       PROVE  r[k] = IF k <= a THEN s[k] ELSE IF k = a + 1 THEN x ELSE s[k - 1]
  <2>1. k \in 1..c /\ k \in 1..(l + 1)
    BY <1>1, <1>8, <1>10
  <2>. QED  BY <1>6, <1>10, <2>1
<1>. QED  BY <1>8, <1>10, <1>11 DEF l, Inserted

\* Of a prefix of the numbers up to n.
LEMMA PrefixIs ==
  ASSUME NEW n \in Nat, NEW S \in SUBSET (1..n), \A j, k \in 1..n : j < k /\ k \in S => j \in S
  PROVE  Cardinality(S) \in Nat /\ Cardinality(S) <= n /\ S = 1..Cardinality(S)
<1>. DEFINE out == {k \in 1..(n + 1) : k \notin S}
<1>1. out \in SUBSET Nat /\ n + 1 \in out
  OBVIOUS
<1>2. PICK m \in out : \A k \in out : m <= k
  <2>. HIDE DEF out
  <2>. QED  BY <1>1, LeastOf
<1>3. m \in 1..(n + 1) /\ m \notin S
  OBVIOUS
<1>4. ASSUME NEW k \in 1..n PROVE k \in S <=> k < m
  <2>1. k < m => k \in S
    BY <1>2, <1>3
  <2>2. k > m => k \notin S
    <3>1. k > m => m \in 1..n
      BY <1>3
    <3>. QED  BY <1>3, <3>1
  <2>3. k = m => k \notin S
    BY <1>3
  <2>. QED  BY <1>3, <2>1, <2>2, <2>3
<1>5. m - 1 \in Nat /\ m - 1 <= n
  BY <1>3
<1>6. S = 1..(m - 1)
  <2>1. \A k \in 1..(m - 1) : k \in 1..n /\ k < m
    BY <1>3
  <2>2. \A k \in 1..n : k < m => k \in 1..(m - 1)
    BY <1>3
  <2>. QED  BY <1>4, <2>1, <2>2
<1>7. Cardinality(S) = m - 1
  BY <1>5, <1>6, UpTo
<1>. QED  BY <1>5, <1>6, <1>7

LEMMA OverlapIs ==
  ASSUME NEW t, NEW u, NEW policy, PolicyType(policy), TraceType(t), TraceType(u)
  PROVE  /\ Overlap(t, u) \in Nat /\ Overlap(t, u) <= One
         /\ policy.redundant_at > 0 /\ Overlap(t, u) >= policy.redundant_at => NearTwins(t, u, policy)
         /\ WordsOf[t.text] \cap WordsOf[u.text] = {} => Overlap(t, u) \in {0, One}
<1>. DEFINE j == Jaccard(WordsOf[t.text], WordsOf[u.text])
            a == policy.redundant_at
<1>1. /\ j \in Nat /\ j <= One
      /\ WordsOf[t.text] \cap WordsOf[u.text] = {} => j = 0
  BY JaccardIs DEF TraceType
<1>2. One \in Nat
  BY DEF One
<1>3. a \in Nat
  <2>1. "redundant_at" \in UnitFields
    BY DEF UnitFields
  <2>. QED  BY <2>1, Weights
<1>4. NearTwins(t, u, policy) <=> (t.text = u.text \/ j >= a) /\ ~ claims_conflict(t, u)
  BY DEF NearTwins, claims_conflict, Key, Value, normalize_key, normalize_value
<1>5. Overlap(t, u) = IF claims_conflict(t, u) THEN 0 ELSE IF t.text = u.text THEN One ELSE j
  BY DEF Overlap
<1>. HIDE DEF j, a
<1>. QED  BY <1>1, <1>2, <1>3, <1>4, <1>5 DEF a

-----------------------------------------------------------------------------

Results(mem) == [id : DOMAIN mem, score : Nat, duplicates : Nat]

BestFirst(selected) ==
  \A j, k \in DOMAIN selected : j < k => selected[j].score >= selected[k].score

\* The candidate is folded, or it is inserted where its score belongs.
Folded(selected, r, k) == r = [selected EXCEPT ![k].duplicates = @ + 1]

LEMMA FoldedIs ==
  ASSUME NEW mem, NEW s \in Seq(Results(mem)), NEW k \in DOMAIN s, NEW r, Folded(s, r, k)
  PROVE  /\ r \in Seq(Results(mem)) /\ Len(r) = Len(s) /\ DOMAIN r = DOMAIN s
         /\ \A j \in DOMAIN s : /\ r[j].id = s[j].id /\ r[j].score = s[j].score
                                /\ r[j].duplicates >= s[j].duplicates
         /\ r[k].duplicates > 0
<1>. DEFINE N == Len(s)
<1>0. N \in Nat /\ DOMAIN s = 1..N /\ \A j \in DOMAIN s : s[j] \in Results(mem)
  OBVIOUS
<1>1. \A j \in DOMAIN s : r[j] = IF j = k THEN [s[j] EXCEPT !.duplicates = @ + 1] ELSE s[j]
  BY DEF Folded
<1>2. DOMAIN r = 1..N /\ r = [j \in 1..N |-> r[j]]
  BY <1>0 DEF Folded
<1>3. ASSUME NEW j \in DOMAIN s
      PROVE  /\ r[j] \in Results(mem) /\ r[j].id = s[j].id /\ r[j].score = s[j].score
             /\ r[j].duplicates >= s[j].duplicates /\ (j = k => r[j].duplicates > 0)
  <2>1. s[j] \in Results(mem)
    BY <1>0
  <2>2. CASE j = k
    <3>1. r[j] = [s[j] EXCEPT !.duplicates = s[j].duplicates + 1]
      BY <1>1, <2>2
    <3>2. /\ s[j].duplicates \in Nat /\ s[j].id \in DOMAIN mem /\ s[j].score \in Nat
          /\ s[j] = [id |-> s[j].id, score |-> s[j].score, duplicates |-> s[j].duplicates]
      BY <2>1 DEF Results
    <3>3. r[j] = [id |-> s[j].id, score |-> s[j].score, duplicates |-> s[j].duplicates + 1]
      BY <3>1, <3>2
    <3>4. s[j].duplicates + 1 \in Nat /\ s[j].duplicates + 1 >= s[j].duplicates
          /\ s[j].duplicates + 1 > 0
      BY <3>2
    <3>. QED  BY <3>2, <3>3, <3>4 DEF Results
  <2>3. CASE j # k
    <3>1. r[j] = s[j]
      BY <1>1, <2>3
    <3>. QED  BY <2>1, <2>3, <3>1 DEF Results
  <2>. QED  BY <2>2, <2>3
<1>4. r \in Seq(Results(mem)) /\ Len(r) = N
  BY <1>0, <1>2, <1>3
<1>. QED  BY <1>0, <1>2, <1>3, <1>4

\* What becomes of s when c is selected or not: red is how much of c is said
\* already, o of it by each.
Chosen(mem, policy, n, s, c, r, o, red) ==
  /\ red <= One /\ \A k \in DOMAIN s : o[k] <= red
  /\ red = 0 \/ \E k \in DOMAIN s : o[k] = red
  /\ red >= policy.redundant_at =>
       \/ red = 0 /\ r = s
       \/ \E k \in DOMAIN s : o[k] = red /\ Folded(s, r, k)
  /\ red < policy.redundant_at =>
       /\ r \in Seq(Results(mem))
       /\ \E a \in Nat : \E x \in Results(mem) :
            /\ a <= Len(s)
            /\ x = [c EXCEPT !.score = c.score - Part(c.score, Part(policy.redundancy_penalty, red))]
            /\ x.score <= c.score /\ (red = 0 => x.score = c.score)
            /\ BestFirst(s) => \A k \in DOMAIN s : s[k].score >= x.score <=> k <= a
            /\ Inserted(r, s, a, x, n)

LEMMA SelectIs ==
  ASSUME NEW mem, MemoryType(mem), NEW policy, PolicyType(policy), NEW n \in Nat, n >= 1,
         NEW s \in Seq(Results(mem)), NEW c \in Results(mem),
         NEW r, r = Select(mem, s, c, n, policy),
         NEW o, o = [k \in DOMAIN s |-> Overlap(mem[c.id], mem[s[k].id])]
  PROVE  \E red \in Nat : Chosen(mem, policy, n, s, c, r, o, red)
<1>. DEFINE red == Max({0} \cup {o[k] : k \in DOMAIN s})
            score == c.score - Part(c.score, Part(policy.redundancy_penalty, red))
            x == [c EXCEPT !.score = score]
            heads == {k \in DOMAIN s : s[k].score >= score}
            a == Cardinality(heads)
            longer == InsertAt(s, a + 1, x)
            N == Len(s)
<1>1. DOMAIN s = 1..N /\ N \in Nat
  OBVIOUS
<1>2. \A k \in DOMAIN s : s[k] \in Results(mem)
  OBVIOUS
<1>3. c.id \in DOMAIN mem /\ c.score \in Nat /\ \A k \in DOMAIN s : s[k].id \in DOMAIN mem /\ s[k].score \in Nat
  BY <1>2 DEF Results
<1>4. One \in Nat
  BY DEF One
<1>5. \A k \in DOMAIN s : o[k] \in Nat /\ o[k] <= One
  <2>. SUFFICES ASSUME NEW k \in DOMAIN s PROVE o[k] \in Nat /\ o[k] <= One
    OBVIOUS
  <2>1. TraceType(mem[c.id]) /\ TraceType(mem[s[k].id])
    BY <1>3 DEF MemoryType
  <2>. QED  BY <2>1, OverlapIs
<1>6. red \in {0} \cup {o[k] : k \in DOMAIN s} /\ \A y \in {0} \cup {o[k] : k \in DOMAIN s} : y <= red
  <2>. DEFINE S == {o[k] : k \in DOMAIN s}
              S0 == {0} \cup S
  <2>1. IsFiniteSet(DOMAIN s)
    BY <1>1, UpTo
  <2>2. IsFiniteSet(S)
    BY <2>1, ImageIsFinite
  <2>3. S0 \subseteq Int /\ S0 # {}
    BY <1>5
  <2>. HIDE DEF S
  <2>4. IsFiniteSet(S0)
    BY <2>2, FS_Singleton, FS_Union
  <2>. HIDE DEF S0
  <2>5. Max(S0) \in S0 /\ \A y \in S0 : y <= Max(S0)
    BY <2>3, <2>4, MaxOf
  <2>. QED  BY <2>5, Zenon DEF S0, S
<1>7. /\ red \in Nat /\ red <= One /\ (\A k \in DOMAIN s : o[k] <= red)
      /\ red = 0 \/ \E k \in DOMAIN s : o[k] = red
  <2>. HIDE DEF red, N
  <2>1. red = 0 \/ \E k \in DOMAIN s : o[k] = red
    BY <1>6
  <2>2. \A k \in DOMAIN s : o[k] <= red
    BY <1>6
  <2>. QED  BY <1>4, <1>5, <2>1, <2>2
<1>8. r = IF red >= policy.redundant_at
          THEN IF red = 0 THEN s
               ELSE [s EXCEPT ![Min({k \in DOMAIN s : o[k] = red})].duplicates = @ + 1]
          ELSE SubSeq(longer, 1, Min({n, Len(longer)}))
  <2>. HIDE DEF N
  <2>. QED  BY Zenon DEF Select, Part
<1>. HIDE DEF red
<1>9. ASSUME red >= policy.redundant_at
      PROVE  \/ red = 0 /\ r = s
             \/ \E k \in DOMAIN s : o[k] = red /\ Folded(s, r, k)
  <2>1. CASE red = 0
    BY <1>8, <1>9, <2>1
  <2>2. CASE red # 0
    <3>. DEFINE K == {k \in DOMAIN s : o[k] = red}
    <3>1. K \in SUBSET Nat /\ K # {}
      BY <1>1, <1>7, <2>2
    <3>2. r = [s EXCEPT ![Min(K)].duplicates = @ + 1]
      BY <1>8, <1>9, <2>2
    <3>3. Min(K) \in K
      <4>. HIDE DEF K
      <4>. QED  BY <3>1, MinOf
    <3>4. Min(K) \in DOMAIN s /\ o[Min(K)] = red
      BY <3>3
    <3>. HIDE DEF K
    <3>. QED  BY <3>2, <3>4 DEF Folded
  <2>. QED  BY <2>1, <2>2
<1>10. ASSUME red < policy.redundant_at
       PROVE  /\ r \in Seq(Results(mem))
              /\ a \in Nat /\ a <= N /\ x \in Results(mem)
              /\ x.score <= c.score /\ (red = 0 => x.score = c.score)
              /\ BestFirst(s) => \A k \in DOMAIN s : s[k].score >= x.score <=> k <= a
              /\ Inserted(r, s, a, x, n)
  <2>. DEFINE p == policy.redundancy_penalty
              q == Part(p, red)
              d == Part(c.score, q)
  <2>1. p \in Nat /\ p <= One /\ policy.redundant_at \in Nat
    <3>1. "redundancy_penalty" \in UnitFields /\ "redundant_at" \in UnitFields
      BY DEF UnitFields
    <3>. QED  BY <3>1, Weights
  <2>2. q \in Nat /\ q <= p /\ (red = 0 => q = 0)
    BY <1>7, <2>1, PartIs
  <2>3. q <= One
    BY <1>4, <2>1, <2>2
  <2>. HIDE DEF q
  <2>4. d \in Nat /\ d <= c.score /\ (red = 0 => d = 0)
    BY <1>3, <2>2, <2>3, PartIs
  <2>5. score = c.score - d
    BY DEF q
  <2>. HIDE DEF d
  <2>6. score \in Nat /\ score <= c.score /\ (red = 0 => score = c.score)
    BY <1>3, <2>4, <2>5
  <2>. HIDE DEF score
  <2>7. x \in Results(mem) /\ x.score = score
    BY <2>6 DEF Results
  <2>8. heads \in SUBSET (1..N)
    BY <1>1
  <2>9. a \in Nat /\ a <= N
    <3>1. IsFiniteSet(1..N) /\ Cardinality(1..N) = N
      BY <1>1, UpTo
    <3>. HIDE DEF heads, N
    <3>. QED  BY <2>8, <3>1, FS_Subset, FS_CardinalityType
  <2>10. ASSUME BestFirst(s) PROVE heads = 1..a
    <3>1. ASSUME NEW j \in 1..N, NEW k \in 1..N, j < k, k \in heads PROVE j \in heads
      <4>1. s[j].score >= s[k].score
        BY <1>1, <2>10, <3>1 DEF BestFirst
      <4>2. s[j].score >= score
        BY <1>1, <1>3, <2>6, <3>1, <4>1
      <4>. QED  BY <1>1, <4>2
    <3>. HIDE DEF heads, N
    <3>. QED  BY <1>1, <2>8, <3>1, PrefixIs
  <2>11. ASSUME BestFirst(s), NEW k \in DOMAIN s PROVE s[k].score >= x.score <=> k <= a
    <3>1. s[k].score >= score <=> k \in heads
      OBVIOUS
    <3>. HIDE DEF heads, x
    <3>2. k \in 1..a <=> k <= a
      BY <1>1, <2>9
    <3>. QED  BY <2>7, <2>10, <2>11, <3>1, <3>2
  <2>. HIDE DEF x, a
  <2>12. r = SubSeq(longer, 1, Min({n, Len(longer)}))
    <3>1. ~ (red >= policy.redundant_at)
      BY <1>7, <1>10, <2>1
    <3>. QED  BY <1>8, <3>1, Zenon
  <2>13. r \in Seq(Results(mem)) /\ Inserted(r, s, a, x, n)
    <3>1. a \in Nat /\ a <= Len(s) /\ x \in Results(mem)
      BY <2>7, <2>9
    <3>. HIDE DEF longer
    <3>2. longer = InsertAt(s, a + 1, x)
      BY DEF longer
    <3>3. s \in Seq(Results(mem)) /\ n \in Nat /\ n >= 1
      OBVIOUS
    <3>. QED  BY <2>12, <3>1, <3>2, <3>3, InsertedIs, Zenon
  <2>. QED  BY <2>6, <2>7, <2>9, <2>11, <2>13
<1>11. red < policy.redundant_at =>
         /\ r \in Seq(Results(mem))
         /\ \E b \in Nat : \E y \in Results(mem) :
              /\ b <= N
              /\ y = [c EXCEPT !.score = c.score - Part(c.score, Part(policy.redundancy_penalty, red))]
              /\ y.score <= c.score /\ (red = 0 => y.score = c.score)
              /\ BestFirst(s) => \A k \in DOMAIN s : s[k].score >= y.score <=> k <= b
              /\ Inserted(r, s, b, y, n)
  <2>. HIDE DEF a
  <2>. QED  BY <1>10
<1>. HIDE DEF N
<1>12. Chosen(mem, policy, n, s, c, r, o, red)
  BY <1>7, <1>9, <1>11 DEF Chosen, N
<1>. QED  BY <1>7, <1>12

LEMMA SelectType ==
  ASSUME NEW mem, MemoryType(mem), NEW policy, PolicyType(policy), NEW n \in Nat, n >= 1,
         NEW s \in Seq(Results(mem)), NEW c \in Results(mem)
  PROVE  Select(mem, s, c, n, policy) \in Seq(Results(mem))
<1>. DEFINE r == Select(mem, s, c, n, policy)
<1>. PICK o : o = [k \in DOMAIN s |-> Overlap(mem[c.id], mem[s[k].id])]
  OBVIOUS
<1>1. PICK red \in Nat : Chosen(mem, policy, n, s, c, r, o, red)
  <2>. PICK t : t = r
    OBVIOUS
  <2>1. \E red \in Nat : Chosen(mem, policy, n, s, c, t, o, red)
    BY SelectIs, Zenon
  <2>. QED  BY <2>1, Zenon
<1>2. policy.redundant_at \in Nat
  <2>1. "redundant_at" \in UnitFields
    BY DEF UnitFields
  <2>. QED  BY <2>1, Weights
<1>. HIDE DEF r
<1>3. ASSUME red >= policy.redundant_at PROVE r \in Seq(Results(mem))
  BY <1>1, <1>3, FoldedIs DEF Chosen
<1>4. ASSUME red < policy.redundant_at PROVE r \in Seq(Results(mem))
  BY <1>1, <1>4 DEF Chosen
<1>. QED  BY <1>2, <1>3, <1>4 DEF r

-----------------------------------------------------------------------------

\* No other trace has a word of this one.
Alone(mem, i, others) ==
  \A j \in others \ {i} : WordsOf[mem[i].text] \cap WordsOf[mem[j].text] = {}

ShownOrFolded(mem, selected, i, policy) ==
  \E k \in DOMAIN selected :
    \/ selected[k].id = i
    \/ selected[k].duplicates > 0 /\ NearTwins(mem[i], mem[selected[k].id], policy)

\* What holds of the selected traces when some of the candidates were looked at.
Standing(mem, query, policy, n, selected, done) ==
  /\ selected \in Seq(Results(mem)) /\ Len(selected) <= n
  /\ \A k \in DOMAIN selected :
       /\ selected[k].id \in done
       /\ selected[k].score <= Score(mem[selected[k].id], query, policy)
       /\ Alone(mem, selected[k].id, Candidates(mem, query, policy)) =>
            selected[k].score = Score(mem[selected[k].id], query, policy)
  /\ BestFirst(selected)
  /\ Len(selected) < n /\ policy.redundant_at > 0 =>
       \A i \in done : ShownOrFolded(mem, selected, i, policy)

LEMMA SelectKeeps ==
  ASSUME NEW mem, NEW query, NEW policy, MemoryType(mem), QueryType(query), PolicyType(policy),
         NEW n \in Nat, n >= 1, NEW s, NEW done,
         Standing(mem, query, policy, n, s, done),
         done \subseteq Candidates(mem, query, policy),
         NEW i \in Candidates(mem, query, policy), i \notin done,
         NEW c, c = [id |-> i, score |-> Score(mem[i], query, policy), duplicates |-> 0],
         NEW r, r = Select(mem, s, c, n, policy)
  PROVE  Standing(mem, query, policy, n, r, done \cup {i})
<1>. DEFINE C == Candidates(mem, query, policy)
            worth(j) == Score(mem[j], query, policy)
            N == Len(s)
            alone(j) == Alone(mem, j, C)
<1>1. /\ s \in Seq(Results(mem)) /\ N <= n /\ BestFirst(s)
      /\ \A k \in DOMAIN s : /\ s[k].id \in done /\ s[k].score <= worth(s[k].id)
                             /\ alone(s[k].id) => s[k].score = worth(s[k].id)
      /\ N < n /\ policy.redundant_at > 0 => \A j \in done : ShownOrFolded(mem, s, j, policy)
  BY DEF Standing
<1>2. N \in Nat /\ DOMAIN s = 1..N /\ \A k \in DOMAIN s : s[k] \in Results(mem)
  BY <1>1
<1>3. C \subseteq DOMAIN mem
  BY CandidatesAre
<1>4. \A j \in C : TraceType(mem[j]) /\ worth(j) \in Nat
  <2>. SUFFICES ASSUME NEW j \in C PROVE TraceType(mem[j]) /\ worth(j) \in Nat
    OBVIOUS
  <2>1. TraceType(mem[j])
    BY <1>3 DEF MemoryType
  <2>. QED  BY <2>1, ScoreIs
<1>5. c \in Results(mem) /\ c.id = i /\ c.score = worth(i) /\ c.duplicates = 0
  BY <1>3, <1>4 DEF Results
<1>6. policy.redundant_at \in Nat /\ policy.redundant_at <= One
  <2>1. "redundant_at" \in UnitFields
    BY DEF UnitFields
  <2>. QED  BY <2>1, Weights
<1>7. One \in Nat /\ One > 0
  BY DEF One
<1>. HIDE DEF worth, alone, N, C
<1>. PICK o : o = [k \in DOMAIN s |-> Overlap(mem[c.id], mem[s[k].id])]
  OBVIOUS
<1>8. PICK red \in Nat : Chosen(mem, policy, n, s, c, r, o, red)
  BY <1>1, <1>5, SelectIs, Zenon
<1>9. \A k \in DOMAIN s : o[k] = Overlap(mem[i], mem[s[k].id]) /\ o[k] \in Nat
  <2>. SUFFICES ASSUME NEW k \in DOMAIN s
                PROVE  o[k] = Overlap(mem[i], mem[s[k].id]) /\ o[k] \in Nat
    OBVIOUS
  <2>1. o[k] = Overlap(mem[i], mem[s[k].id])
    BY <1>5
  <2>2. s[k].id \in C /\ i \in C
    BY <1>1 DEF C
  <2>3. TraceType(mem[s[k].id]) /\ TraceType(mem[i])
    BY <1>4, <2>2
  <2>. QED  BY <2>1, <2>3, OverlapIs
<1>10. CASE red >= policy.redundant_at /\ red = 0 /\ r = s
  <2>1. ~ (policy.redundant_at > 0)
    BY <1>6, <1>10
  <2>2. \A k \in DOMAIN s : s[k].id \in done \cup {i}
    BY <1>1
  <2>. QED  BY <1>1, <1>10, <2>1, <2>2, Zenon DEF Standing, worth, alone, N, C
<1>11. ASSUME NEW k \in DOMAIN s, red >= policy.redundant_at, o[k] = red, Folded(s, r, k)
       PROVE  Standing(mem, query, policy, n, r, done \cup {i})
  <2>1. /\ r \in Seq(Results(mem)) /\ Len(r) = N /\ DOMAIN r = DOMAIN s
        /\ \A j \in DOMAIN s : /\ r[j].id = s[j].id /\ r[j].score = s[j].score
                               /\ r[j].duplicates >= s[j].duplicates
        /\ r[k].duplicates > 0
    BY <1>1, <1>11, FoldedIs DEF N
  <2>2. ASSUME N < n, policy.redundant_at > 0, NEW j \in done \cup {i}
        PROVE  ShownOrFolded(mem, r, j, policy)
    <3>1. CASE j \in done
      <4>1. PICK m \in DOMAIN s :
              \/ s[m].id = j
              \/ s[m].duplicates > 0 /\ NearTwins(mem[j], mem[s[m].id], policy)
        BY <1>1, <2>2, <3>1 DEF ShownOrFolded
      <4>2. s[m].duplicates > 0 => r[m].duplicates > 0
        <5>1. s[m].duplicates \in Nat /\ r[m].duplicates \in Nat
          <6>1. s[m] \in Results(mem) /\ r[m] \in Results(mem)
            BY <1>2, <2>1
          <6>. QED  BY <6>1 DEF Results
        <5>. QED  BY <2>1, <5>1
      <4>. QED  BY <2>1, <4>1, <4>2 DEF ShownOrFolded
    <3>2. CASE j = i
      <4>1. s[k].id \in C /\ i \in C
        BY <1>1 DEF C
      <4>2. TraceType(mem[i]) /\ TraceType(mem[s[k].id])
        BY <1>4, <4>1
      <4>3. Overlap(mem[i], mem[s[k].id]) >= policy.redundant_at
        BY <1>9, <1>11
      <4>4. NearTwins(mem[i], mem[s[k].id], policy)
        BY <2>2, <4>2, <4>3, OverlapIs
      <4>. QED  BY <2>1, <3>2, <4>4 DEF ShownOrFolded
    <3>. QED  BY <3>1, <3>2
  <2>3. BestFirst(r)
    BY <1>1, <2>1 DEF BestFirst
  <2>4. \A j \in DOMAIN r : /\ r[j].id \in done \cup {i} /\ r[j].score <= worth(r[j].id)
                            /\ alone(r[j].id) => r[j].score = worth(r[j].id)
    BY <1>1, <2>1
  <2>. QED  BY <1>1, <2>1, <2>2, <2>3, <2>4, Zenon DEF Standing, worth, alone, C
<1>12. ASSUME red < policy.redundant_at, r \in Seq(Results(mem)),
              NEW a \in Nat, NEW x \in Results(mem), a <= N,
              x = [c EXCEPT !.score = c.score - Part(c.score, Part(policy.redundancy_penalty, red))],
              x.score <= c.score, red = 0 => x.score = c.score,
              \A k \in DOMAIN s : s[k].score >= x.score <=> k <= a,
              Inserted(r, s, a, x, n)
       PROVE  Standing(mem, query, policy, n, r, done \cup {i})
  <2>. DEFINE M == Len(r)
  <2>1. /\ M = (IF N + 1 <= n THEN N + 1 ELSE n) /\ M \in Nat /\ DOMAIN r = 1..M
        /\ \A k \in 1..M : r[k] = IF k <= a THEN s[k] ELSE IF k = a + 1 THEN x ELSE s[k - 1]
    BY <1>12 DEF Inserted, N
  <2>2. x.id = i
    BY <1>5, <1>12
  <2>3. alone(i) => red = 0
    <3>. SUFFICES ASSUME alone(i), red # 0 PROVE FALSE
      OBVIOUS
    <3>1. PICK k \in DOMAIN s : o[k] = red
      BY <1>8 DEF Chosen
    <3>2. s[k].id \in C \ {i} /\ i \in C
      BY <1>1 DEF C
    <3>3. WordsOf[mem[i].text] \cap WordsOf[mem[s[k].id].text] = {}
      BY <3>2 DEF alone, Alone
    <3>4. TraceType(mem[i]) /\ TraceType(mem[s[k].id])
      BY <1>4, <3>2
    <3>5. red \in {0, One}
      BY <1>9, <3>1, <3>3, <3>4, OverlapIs
    <3>. QED  BY <1>6, <1>7, <1>12, <3>5
  <2>. HIDE DEF M
  <2>4. x.score \in Nat /\ (\A k \in DOMAIN s : s[k].score \in Nat)
    BY <1>2 DEF Results
  <2>5. ASSUME NEW k \in 1..M
        PROVE  \/ k <= a /\ k \in 1..N /\ r[k] = s[k]
               \/ k = a + 1 /\ r[k] = x
               \/ k > a + 1 /\ k - 1 \in 1..N /\ r[k] = s[k - 1]
    <3>1. r[k] = IF k <= a THEN s[k] ELSE IF k = a + 1 THEN x ELSE s[k - 1]
      BY <2>1
    <3>2. k \in Nat /\ k >= 1 /\ k <= N + 1
      BY <1>2, <2>1
    <3>3. CASE k <= a
      <4>1. k \in 1..N
        BY <1>2, <1>12, <3>2, <3>3
      <4>. QED  BY <3>1, <3>3, <4>1
    <3>4. CASE k = a + 1
      BY <1>12, <3>1, <3>4
    <3>5. CASE k > a + 1
      <4>1. k - 1 \in 1..N /\ ~ (k <= a) /\ k # a + 1
        BY <1>2, <1>12, <3>2, <3>5
      <4>. QED  BY <3>1, <3>5, <4>1
    <3>. QED  BY <1>12, <3>2, <3>3, <3>4, <3>5
  <2>6. ASSUME NEW k \in 1..M
        PROVE  /\ r[k].id \in done \cup {i} /\ r[k].score <= worth(r[k].id)
               /\ alone(r[k].id) => r[k].score = worth(r[k].id)
    <3>1. ASSUME NEW j \in DOMAIN s, r[k] = s[j]
          PROVE  /\ r[k].id \in done \cup {i} /\ r[k].score <= worth(r[k].id)
                 /\ alone(r[k].id) => r[k].score = worth(r[k].id)
      BY <1>1, <3>1
    <3>2. ASSUME r[k] = x
          PROVE  /\ r[k].id \in done \cup {i} /\ r[k].score <= worth(r[k].id)
                 /\ alone(r[k].id) => r[k].score = worth(r[k].id)
      BY <1>5, <1>12, <2>2, <2>3, <3>2
    <3>. QED  BY <1>2, <2>5, <3>1, <3>2
  <2>7. ASSUME NEW j \in 1..M, NEW k \in 1..M, j < k PROVE r[j].score >= r[k].score
    <3>1. ASSUME NEW p \in 1..N, NEW q \in 1..N, p < q PROVE s[p].score >= s[q].score
      BY <1>1, <1>2, <3>1 DEF BestFirst
    <3>2. \A p \in 1..N : p <= a => s[p].score >= x.score
      BY <1>2, <1>12
    <3>3. \A p \in 1..N : p > a => x.score >= s[p].score
      <4>. SUFFICES ASSUME NEW p \in 1..N, p > a PROVE x.score >= s[p].score
        OBVIOUS
      <4>1. ~ (s[p].score >= x.score)
        BY <1>2, <1>12
      <4>. QED  BY <1>2, <2>4, <4>1
    <3>4. CASE k <= a
      <4>1. j \in 1..N /\ k \in 1..N /\ r[j] = s[j] /\ r[k] = s[k]
        BY <1>12, <2>5, <2>7, <3>4
      <4>. QED  BY <2>7, <3>1, <4>1
    <3>5. CASE k = a + 1
      <4>1. j <= a /\ j \in 1..N /\ r[j] = s[j] /\ r[k] = x
        BY <1>12, <2>5, <2>7, <3>5
      <4>. QED  BY <3>2, <4>1
    <3>6. CASE k > a + 1
      <4>1. k - 1 \in 1..N /\ r[k] = s[k - 1] /\ k - 1 > a
        BY <1>12, <2>5, <3>6
      <4>2. CASE j <= a
        <5>1. j \in 1..N /\ r[j] = s[j] /\ j < k - 1
          BY <1>12, <2>5, <3>6, <4>2
        <5>. QED  BY <3>1, <4>1, <5>1
      <4>3. CASE j = a + 1
        <5>1. r[j] = x
          BY <1>12, <2>5, <4>3
        <5>. QED  BY <3>3, <4>1, <5>1
      <4>4. CASE j > a + 1
        <5>1. j - 1 \in 1..N /\ r[j] = s[j - 1] /\ j - 1 < k - 1
          BY <1>12, <2>5, <2>7, <4>4
        <5>. QED  BY <3>1, <4>1, <5>1
      <4>. QED  BY <4>2, <4>3, <4>4
    <3>. QED  BY <3>4, <3>5, <3>6
  <2>8. ASSUME M < n, policy.redundant_at > 0, NEW j \in done \cup {i}
        PROVE  ShownOrFolded(mem, r, j, policy)
    <3>1. N < n /\ M = N + 1
      BY <1>2, <2>1, <2>8
    <3>2. ASSUME NEW m \in 1..N PROVE \E k \in 1..M : r[k] = s[m]
      <4>1. CASE m <= a
        <5>1. m \in 1..M /\ r[m] = s[m]
          BY <1>2, <2>1, <3>1, <4>1
        <5>. QED  BY <5>1
      <4>2. CASE m > a
        <5>1. m + 1 \in 1..M /\ ~ (m + 1 <= a) /\ m + 1 # a + 1 /\ m + 1 - 1 = m
          BY <1>2, <2>1, <3>1, <4>2
        <5>2. r[m + 1] = s[m + 1 - 1]
          BY <2>1, <5>1
        <5>. QED  BY <5>1, <5>2
      <4>. QED  BY <4>1, <4>2
    <3>3. CASE j \in done
      <4>1. PICK m \in DOMAIN s :
              \/ s[m].id = j
              \/ s[m].duplicates > 0 /\ NearTwins(mem[j], mem[s[m].id], policy)
        BY <1>1, <2>8, <3>1, <3>3 DEF ShownOrFolded
      <4>2. PICK k \in 1..M : r[k] = s[m]
        BY <1>2, <3>2
      <4>. QED  BY <2>1, <4>1, <4>2 DEF ShownOrFolded
    <3>4. CASE j = i
      <4>1. a + 1 \in 1..M
        BY <1>2, <1>12, <3>1
      <4>2. r[a + 1] = x
        BY <2>1, <4>1
      <4>. QED  BY <2>1, <2>2, <3>4, <4>1, <4>2 DEF ShownOrFolded
    <3>. QED  BY <3>3, <3>4
  <2>9. M <= n
    BY <1>2, <2>1
  <2>10. BestFirst(r)
    BY <2>1, <2>7 DEF BestFirst
  <2>. QED  BY <1>12, <2>1, <2>6, <2>8, <2>9, <2>10, Zenon DEF Standing, worth, alone, C, M
<1>. QED
  <2>1. CASE red >= policy.redundant_at
    BY <1>8, <1>10, <1>11, <2>1 DEF Chosen
  <2>2. CASE red < policy.redundant_at
    <3>1. PICK a \in Nat, x \in Results(mem) :
                  /\ a <= Len(s)
                  /\ x = [c EXCEPT !.score = c.score - Part(c.score, Part(policy.redundancy_penalty, red))]
                  /\ x.score <= c.score /\ (red = 0 => x.score = c.score)
                  /\ \A k \in DOMAIN s : s[k].score >= x.score <=> k <= a
                  /\ Inserted(r, s, a, x, n)
      BY <1>1, <1>8, <2>2 DEF Chosen
    <3>2. r \in Seq(Results(mem)) /\ a <= N
      BY <1>8, <2>2, <3>1 DEF N, Chosen
    <3>. QED  BY <1>12, <2>2, <3>1, <3>2
  <2>3. red >= policy.redundant_at \/ red < policy.redundant_at
    BY <1>6
  <2>. QED  BY <2>1, <2>2, <2>3

\* The places of a recall.
Places(query, policy) == Max({1, Min({query.limit, policy.recall_limit})})

LEMMA DiversifyIs ==
  ASSUME NEW mem, NEW query, NEW policy, MemoryType(mem), QueryType(query), PolicyType(policy)
  PROVE  Standing(mem, query, policy, Places(query, policy), diversify(mem, query, policy),
                  Candidates(mem, query, policy))
<1>. DEFINE n == Places(query, policy)
            C == Candidates(mem, query, policy)
            V == Seq(Results(mem))
            ranked == Ranked(mem, query, policy)
            N == Len(ranked)
            result(i) == [id |-> i, score |-> Score(mem[i], query, policy), duplicates |-> 0]
            Fold(g) == [m \in 0..N |->
                          IF m = 0 THEN <<>> ELSE Select(mem, g[m - 1], result(ranked[m]), n, policy)]
            selected == CHOOSE g : g = Fold(g)
            op == [p \in (1..N) \X V |-> Select(mem, p[2], result(ranked[p[1]]), n, policy)]
<1>1. n \in Nat /\ n >= 1
  <2>. DEFINE m == Min({query.limit, policy.recall_limit})
  <2>1. query.limit \in Nat /\ policy.recall_limit \in Nat
    BY DEF QueryType, PolicyType
  <2>2. m \in Nat
    BY <2>1, MinMaxOfTwo
  <2>. HIDE DEF m
  <2>3. 1 \in Int /\ m \in Int
    BY <2>2
  <2>4. Max({1, m}) = IF 1 >= m THEN 1 ELSE m
    BY ONLY <2>3, MinMaxOfTwo
  <2>5. n = Max({1, m})
    BY DEF Places, m
  <2>. HIDE DEF n
  <2>. QED  BY <2>2, <2>4, <2>5
<1>2. diversify(mem, query, policy) = selected[N]
  BY Zenon DEF diversify, Places
<1>3. /\ N \in Nat /\ DOMAIN ranked = 1..N
      /\ \A m \in 1..N : ranked[m] \in C
      /\ \A k, m \in 1..N : ranked[k] = ranked[m] => k = m
      /\ \A i \in C : \E m \in 1..N : ranked[m] = i
  <2>. DEFINE c == C
              r == ranked
  <2>1. c = Candidates(mem, query, policy) /\ r = Ranked(mem, query, policy)
    OBVIOUS
  <2>. HIDE DEF c, r
  <2>2. /\ Len(r) \in Nat /\ DOMAIN r = 1..Len(r)
        /\ \A m \in 1..Len(r) : r[m] \in c
        /\ \A k, m \in 1..Len(r) : r[k] = r[m] => k = m
        /\ \A i \in c : \E m \in 1..Len(r) : r[m] = i
    BY <2>1, RankedIs
  <2>. QED  BY <2>2, Zenon DEF c, r
<1>4. \A i \in C : result(i) \in Results(mem)
  <2>. SUFFICES ASSUME NEW i \in C PROVE result(i) \in Results(mem)
    OBVIOUS
  <2>1. i \in DOMAIN mem
    BY CandidatesAre
  <2>2. TraceType(mem[i])
    BY <2>1 DEF MemoryType
  <2>3. Score(mem[i], query, policy) \in Nat
    BY <2>2, ScoreIs
  <2>. QED  BY <2>1, <2>3 DEF Results
<1>. HIDE DEF n, C, N, ranked, result
<1>5. op \in [(1..N) \X V -> V] /\ <<>> \in V
  <2>1. \A p \in (1..N) \X V : Select(mem, p[2], result(ranked[p[1]]), n, policy) \in V
    <3>. SUFFICES ASSUME NEW p \in (1..N) \X V
                  PROVE  Select(mem, p[2], result(ranked[p[1]]), n, policy) \in V
      OBVIOUS
    <3>1. p[1] \in 1..N /\ p[2] \in Seq(Results(mem))
      OBVIOUS
    <3>2. result(ranked[p[1]]) \in Results(mem)
      BY <1>3, <1>4, <3>1
    <3>. QED  BY <1>1, <3>1, <3>2, SelectType
  <2>2. <<>> \in V
    OBVIOUS
  <2>. HIDE DEF V
  <2>. QED  BY <2>1, <2>2
<1>6. selected = Fold(selected)
  <2>1. PICK g \in [0..N -> V] : g[0] = <<>> /\ \A m \in 1..N : g[m] = op[<<m, g[m - 1]>>]
    <3>1. N \in Nat
      BY <1>3
    <3>2. op \in [(1..N) \X V -> V] /\ <<>> \in V
      BY <1>5
    <3>. HIDE DEF op, V
    <3>3. PICK h : Recursion(h, N, V, <<>>, op)
      BY <3>1, <3>2, RecursionExists
    <3>. QED  BY <3>3 DEF Recursion
  <2>2. ASSUME NEW m \in 1..N PROVE g[m] = Select(mem, g[m - 1], result(ranked[m]), n, policy)
    <3>1. g[m - 1] \in V
      BY <1>3, <2>1
    <3>2. <<m, g[m - 1]>> \in (1..N) \X V
      BY <3>1
    <3>. HIDE DEF V
    <3>. QED  BY <2>1, <3>2
  <2>3. \A m \in 0..N : g[m] = IF m = 0 THEN <<>>
                               ELSE Select(mem, g[m - 1], result(ranked[m]), n, policy)
    BY <1>3, <2>1, <2>2
  <2>4. g = Fold(g)
    <3>. HIDE DEF V
    <3>. QED  BY <1>3, <2>1, <2>3
  <2>. HIDE DEF Fold
  <2>. QED  BY <2>4
<1>. HIDE DEF selected, op, V
<1>7. /\ selected[0] = <<>>
      /\ \A m \in 1..N : selected[m] = Select(mem, selected[m - 1], result(ranked[m]), n, policy)
  BY <1>3, <1>6
<1>. DEFINE done(m) == {ranked[k] : k \in 1..m}
            holds(m) == Standing(mem, query, policy, n, selected[m], done(m))
            Fails == {m \in 0..N : ~ holds(m)}
<1>8. ASSUME NEW m \in 1..N PROVE done(m) = done(m - 1) \cup {ranked[m]}
  <2>1. \A k : k \in 1..m <=> k \in 1..(m - 1) \/ k = m
    BY <1>3
  <2>. QED  BY <2>1
<1>9. holds(0)
  <2>1. done(0) = {}
    OBVIOUS
  <2>. HIDE DEF done
  <2>2. <<>> \in Seq(Results(mem)) /\ Len(<<>>) <= n /\ DOMAIN <<>> = {}
    BY <1>1
  <2>3. Standing(mem, query, policy, n, <<>>, {})
    BY <2>2 DEF Standing, BestFirst
  <2>. QED  BY <1>7, <2>1, <2>3
<1>10. ASSUME NEW m \in 1..N, holds(m - 1) PROVE holds(m)
  <2>1. ranked[m] \in C /\ ranked[m] \notin done(m - 1) /\ done(m - 1) \subseteq C
    <3>1. \A k \in 1..(m - 1) : k \in 1..N /\ k # m
      BY <1>3
    <3>. QED  BY <1>3, <3>1
  <2>. DEFINE before == done(m - 1)
              i == ranked[m]
              c == result(i)
              s == selected[m - 1]
              r == selected[m]
  <2>2. /\ Standing(mem, query, policy, n, s, before)
        /\ r = Select(mem, s, c, n, policy)
    BY <1>7, <1>10
  <2>3. /\ before \subseteq Candidates(mem, query, policy) /\ i \in Candidates(mem, query, policy)
        /\ i \notin before
    BY <2>1 DEF C
  <2>4. c = [id |-> i, score |-> Score(mem[i], query, policy), duplicates |-> 0]
    BY DEF result
  <2>. HIDE DEF before, i, c, s, r
  <2>5. Standing(mem, query, policy, n, r, before \cup {i})
    BY <1>1, <2>2, <2>3, <2>4, SelectKeeps, Zenon
  <2>. QED  BY <1>8, <2>5, Zenon DEF before, i, r
<1>. HIDE DEF holds
<1>11. Fails = {}
  <2>1. SUFFICES ASSUME Fails # {} PROVE FALSE
    OBVIOUS
  <2>2. PICK m \in Fails : \A k \in Fails : m <= k
    <3>1. Fails \in SUBSET Nat
      OBVIOUS
    <3>. HIDE DEF Fails
    <3>. QED  BY <2>1, <3>1, LeastOf
  <2>3. m \in 0..N /\ ~ holds(m)
    OBVIOUS
  <2>4. m # 0
    BY <1>9, <2>3
  <2>5. m \in 1..N /\ m - 1 \in 0..N /\ ~ (m <= m - 1)
    BY <1>3, <2>3, <2>4
  <2>6. holds(m - 1)
    BY <2>2, <2>5
  <2>. QED  BY <1>10, <2>3, <2>5, <2>6
<1>12. holds(N)
  <2>1. N \in 0..N
    BY <1>3
  <2>. QED  BY <1>11, <2>1
<1>13. done(N) = C
  BY <1>3
<1>. HIDE DEF done
<1>. QED  BY <1>2, <1>12, <1>13 DEF holds, n, C

-----------------------------------------------------------------------------

\* What is shown is what was selected.
LEMMA ShownIs ==
  ASSUME NEW mem, NEW query, NEW policy, MemoryType(mem), QueryType(query), PolicyType(policy),
         HasCue(query) \/ ~ query.spoken, answer = recall(mem, query, policy),
         NEW s, s = diversify(mem, query, policy)
  PROVE  /\ Len(answer) = Len(s) /\ DOMAIN answer = DOMAIN s /\ DOMAIN s = 1..Len(s) /\ Len(s) \in Nat
         /\ \A k \in DOMAIN s : answer[k].id = s[k].id /\ answer[k].duplicates = s[k].duplicates
         /\ \A k \in DOMAIN s : s[k].score \in Nat
<1>1. s \in Seq(Results(mem))
  BY DiversifyIs DEF Standing
<1>2. DOMAIN s = 1..Len(s) /\ Len(s) \in Nat /\ \A k \in DOMAIN s : s[k] \in Results(mem)
  BY <1>1
<1>3. answer = [k \in DOMAIN s |-> Annotated(mem, s[k], policy)]
  BY Zenon DEF recall
<1>4. \A k \in DOMAIN s : answer[k].id = s[k].id /\ answer[k].duplicates = s[k].duplicates
  <2>. SUFFICES ASSUME NEW k \in DOMAIN s
                PROVE  answer[k].id = s[k].id /\ answer[k].duplicates = s[k].duplicates
    OBVIOUS
  <2>1. answer[k] = Annotated(mem, s[k], policy)
    BY <1>3
  <2>. QED  BY <2>1 DEF Annotated
<1>5. DOMAIN answer = DOMAIN s /\ Len(answer) = Len(s)
  BY <1>2, <1>3
<1>6. \A k \in DOMAIN s : s[k].score \in Nat
  BY <1>2 DEF Results
<1>. QED  BY <1>2, <1>4, <1>5, <1>6

LEMMA HonestIs ==
  ASSUME NEW mem, NEW query, NEW policy, MemoryType(mem), QueryType(query), PolicyType(policy),
         HasCue(query), answer = recall(mem, query, policy)
  PROVE  /\ RecallOmitsNothing(mem, query, policy)
         /\ RecallIsRelevant(mem, query, policy)
         /\ RecallPrefersTheCue(mem, query, policy)
<1>. PICK s : s = diversify(mem, query, policy)
  OBVIOUS
<1>. DEFINE C == Candidates(mem, query, policy)
            n == Places(query, policy)
            worth(i) == Score(mem[i], query, policy)
<1>1. /\ Len(answer) = Len(s) /\ DOMAIN answer = DOMAIN s /\ DOMAIN s = 1..Len(s) /\ Len(s) \in Nat
      /\ \A k \in DOMAIN s : answer[k].id = s[k].id /\ answer[k].duplicates = s[k].duplicates
      /\ \A k \in DOMAIN s : s[k].score \in Nat
  BY ShownIs
<1>2. /\ \A k \in DOMAIN s : /\ s[k].id \in C /\ s[k].score <= worth(s[k].id)
                             /\ Alone(mem, s[k].id, C) => s[k].score = worth(s[k].id)
      /\ BestFirst(s)
      /\ Len(s) < n /\ policy.redundant_at > 0 => \A i \in C : ShownOrFolded(mem, s, i, policy)
  <2>1. Standing(mem, query, policy, n, s, C)
    BY DiversifyIs, Zenon
  <2>. QED  BY <2>1, Zenon DEF Standing
<1>3. /\ C \subseteq DOMAIN mem
      /\ MustRecall(mem, query, policy) \subseteq C
      /\ \A i \in C :
           /\ mem[i].privacy # "sensitive"
           /\ \/ WordsOf[mem[i].text] \cap query.words # {} \/ mem[i].tags \cap query.tags # {}
              \/ Insists(mem[i], query.now, policy)
  BY CandidatesAre
<1>4. \A i \in C : TraceType(mem[i])
  BY <1>3 DEF MemoryType
<1>. HIDE DEF C, n, worth
<1>5. RecallOmitsNothing(mem, query, policy)
  <2>. SUFFICES ASSUME Len(answer) < n, policy.redundant_at > 0,
                       NEW i \in MustRecall(mem, query, policy) \ Shown
                PROVE  \E k \in DOMAIN answer :
                         answer[k].duplicates > 0 /\ NearTwins(mem[i], mem[answer[k].id], policy)
    BY DEF RecallOmitsNothing, n, Places
  <2>1. PICK k \in DOMAIN s :
          \/ s[k].id = i
          \/ s[k].duplicates > 0 /\ NearTwins(mem[i], mem[s[k].id], policy)
    BY <1>1, <1>2, <1>3 DEF ShownOrFolded
  <2>2. k \in DOMAIN answer /\ answer[k].id = s[k].id /\ answer[k].duplicates = s[k].duplicates
    BY <1>1
  <2>3. s[k].id # i
    BY <2>2 DEF Shown
  <2>. QED  BY <2>1, <2>2, <2>3
<1>6. RecallIsRelevant(mem, query, policy)
  <2>. SUFFICES ASSUME NEW i \in Shown PROVE i \in C
    BY <1>3 DEF RecallIsRelevant
  <2>1. PICK k \in DOMAIN answer : i = answer[k].id
    BY DEF Shown
  <2>. QED  BY <1>1, <1>2, <2>1
<1>7. ASSUME NEW j \in DOMAIN answer, NEW k \in DOMAIN answer,
             Part(Cue(mem[answer[j].id], query, policy), policy.relevance_base)
               > Part(Cue(mem[answer[k].id], query, policy), policy.relevance_base + policy.metadata_share),
             ~ Insists(mem[answer[k].id], query.now, policy),
             Alone(mem, answer[j].id, C)
      PROVE  j < k
  <2>. DEFINE t == mem[s[j].id]
              u == mem[s[k].id]
              low == Part(Cue(t, query, policy), policy.relevance_base)
              high == Part(Cue(u, query, policy), policy.relevance_base + policy.metadata_share)
  <2>1. /\ j \in 1..Len(s) /\ k \in 1..Len(s) /\ answer[j].id = s[j].id /\ answer[k].id = s[k].id
        /\ s[j].score \in Nat /\ s[k].score \in Nat
    BY <1>1
  <2>2. TraceType(t) /\ TraceType(u)
    BY <1>1, <1>2, <1>4
  <2>3. s[j].score = worth(s[j].id) /\ s[k].score <= worth(s[k].id)
    BY <1>1, <1>2, <1>7, <2>1
  <2>4. worth(s[j].id) \in Nat /\ worth(s[j].id) >= low
    BY <2>2, ScoreIs DEF worth
  <2>5. worth(s[k].id) \in Nat /\ worth(s[k].id) <= high
    BY <1>7, <2>1, <2>2, ScoreIs DEF worth
  <2>6. low > high
    BY <1>7, <2>1
  <2>7. low \in Nat /\ high \in Nat
    <3>1. Cue(t, query, policy) \in Nat /\ Cue(u, query, policy) \in Nat
      BY <2>2, CueIs
    <3>2. policy.relevance_base \in Nat /\ policy.relevance_base + policy.metadata_share \in Nat
      <4>1. "relevance_base" \in UnitFields /\ "metadata_share" \in UnitFields
        BY DEF UnitFields
      <4>2. policy.relevance_base \in Nat /\ policy.metadata_share \in Nat
        BY <4>1, Weights
      <4>. QED  BY <4>2
    <3>. QED  BY <3>1, <3>2, PartIs
  <2>. HIDE DEF low, high
  <2>8. s[j].score > s[k].score
    BY <2>1, <2>3, <2>4, <2>5, <2>6, <2>7
  <2>9. ~ (k < j) /\ k # j
    <3>1. k < j => s[k].score >= s[j].score
      BY <1>1, <1>2, <2>1 DEF BestFirst
    <3>. QED  BY <2>1, <2>8, <3>1
  <2>. QED  BY <2>1, <2>9
<1>8. RecallPrefersTheCue(mem, query, policy)
  <2>. SUFFICES ASSUME NEW j \in DOMAIN answer, NEW k \in DOMAIN answer,
                  Part(Cue(mem[answer[j].id], query, policy), policy.relevance_base)
                    > Part(Cue(mem[answer[k].id], query, policy),
                           policy.relevance_base + policy.metadata_share),
                  ~ Insists(mem[answer[k].id], query.now, policy),
                  \A i \in Candidates(mem, query, policy) \ {answer[j].id} :
                    WordsOf[mem[answer[j].id].text] \cap WordsOf[mem[i].text] = {}
                PROVE  j < k
    BY DEF RecallPrefersTheCue
  <2>1. Alone(mem, answer[j].id, C)
    BY Zenon DEF Alone, C
  <2>. QED  BY <1>7, <2>1
<1>. QED  BY <1>5, <1>6, <1>8

LEMMA LookupsAre ==
  ASSUME NEW l \in Lookups \cup Lineages
  PROVE  /\ MemoryType(l.memory) /\ QueryType(l.query) /\ Linked(l.memory)
         /\ from_json_accepts(l.file) => PolicyType(Loaded(l.file))
         /\ DOMAIN l.memory = 1..Len(l.memory) /\ Len(l.memory) \in Nat
<1>1. /\ DOMAIN l.memory = 1..Len(l.memory) /\ Len(l.memory) \in Nat /\ Linked(l.memory)
      /\ \A i \in DOMAIN l.memory : TraceType(l.memory[i])
  BY ReadersAssumption DEF TraceType
<1>2. IsFiniteSet(DOMAIN l.memory) /\ DOMAIN l.memory \subseteq Nat
  BY <1>1, UpTo
<1>3. QueryType(l.query)
  BY ReadersAssumption DEF QueryType
<1>4. from_json_accepts(l.file) => PolicyType(Loaded(l.file))
  BY ReadersAssumption DEF PolicyType, from_json_accepts
<1>. QED  BY <1>1, <1>2, <1>3, <1>4 DEF MemoryType

\* Of every memory, question and policy file (recall.rs, recall; policy.rs, validate).
THEOREM RecallIsAlwaysHonest == ReadSpec => []RecallIsHonest
<1>1. ASSUME ReadInv PROVE RecallIsHonest
  <2>. SUFFICES ASSUME request.command = "recall", HasCue(request.input.query) PROVE RecallIsHonest
    BY DEF RecallIsHonest
  <2>. DEFINE l == request.input
              policy == Loaded(l.file)
  <2>1. /\ l \in Lookups \cup Lineages /\ from_json_accepts(l.file)
        /\ answer = recall(l.memory, l.query, policy)
    BY <1>1 DEF ReadInv
  <2>. HIDE DEF policy
  <2>2. MemoryType(l.memory) /\ QueryType(l.query)
    BY <2>1, LookupsAre
  <2>3. PolicyType(policy)
    BY <2>1, LookupsAre DEF policy
  <2>4. /\ RecallOmitsNothing(l.memory, l.query, policy)
        /\ RecallIsRelevant(l.memory, l.query, policy)
        /\ RecallPrefersTheCue(l.memory, l.query, policy)
    BY <2>1, <2>2, <2>3, HonestIs
  <2>. QED  BY <2>4, Zenon DEF RecallIsHonest, policy
<1>. QED  BY <1>1, AnswersFollow, PTL

-----------------------------------------------------------------------------
(* What the commands say of one memory: the lineage of a trace *)

\* The k-th of the chain c, which begins at i.
Link(i, c, k) == IF k = 0 THEN i ELSE c[k]

\* Each of the chain is what the one before it replaced.
Chain(mem, i, c) ==
  /\ c \in Seq(DOMAIN mem)
  /\ \A k \in 1..Len(c) : c[k] = mem[Link(i, c, k - 1)].supersedes

\* The first m that one after the other were replaced by i.
Lineage(mem, i, m, c) ==
  /\ Chain(mem, i, c) /\ Len(c) <= m
  /\ Len(c) < m => mem[Link(i, c, Len(c))].supersedes = NoId

\* No chain runs in a circle.
LEMMA NoCircle ==
  ASSUME NEW mem, Linked(mem), NEW i \in DOMAIN mem, NEW c, Chain(mem, i, c),
         NEW m \in 0..Len(c), mem[Link(i, c, Len(c))].supersedes = Link(i, c, m)
  PROVE  FALSE
<1>. DEFINE n == Len(c)
            e(k) == Link(i, c, k)
            T == {e(k) : k \in m..n}
<1>1. n \in Nat /\ m \in Nat /\ m <= n /\ \A k \in 1..n : c[k] \in DOMAIN mem
  BY DEF Chain
<1>2. \A k \in 0..n : e(k) \in DOMAIN mem
  BY <1>1 DEF Link
<1>3. \A k \in 0..n : k < n => mem[e(k)].supersedes = e(k + 1)
  <2>. SUFFICES ASSUME NEW k \in 0..n, k < n PROVE mem[e(k)].supersedes = e(k + 1)
    OBVIOUS
  <2>1. k + 1 \in 1..n /\ k + 1 # 0 /\ k + 1 - 1 = k
    BY <1>1
  <2>2. c[k + 1] = mem[Link(i, c, k + 1 - 1)].supersedes
    BY <2>1 DEF Chain
  <2>. QED  BY <2>1, <2>2 DEF Link
<1>4. mem[e(n)].supersedes = e(m)
  OBVIOUS
<1>. HIDE DEF n, e
<1>5. T \in (SUBSET DOMAIN mem) \ {{}}
  <2>1. \A k \in m..n : k \in 0..n
    BY <1>1
  <2>2. m \in m..n
    BY <1>1
  <2>. QED  BY <1>2, <2>1, <2>2
<1>6. ASSUME NEW k \in m..n PROVE mem[e(k)].supersedes \in T
  <2>1. CASE k = n
    <3>1. m \in m..n
      BY <1>1
    <3>. QED  BY <1>4, <2>1, <3>1
  <2>2. CASE k # n
    <3>1. k \in 0..n /\ k < n /\ k + 1 \in m..n
      BY <1>1, <2>2
    <3>. QED  BY <1>3, <3>1
  <2>. QED  BY <2>1, <2>2
<1>7. \A x \in T : mem[x].supersedes \in T
  BY <1>6
<1>. HIDE DEF T
<1>8. PICK x \in T : mem[x].supersedes \notin T
  BY <1>5 DEF Linked
<1>. QED  BY <1>7, <1>8

LEMMA FollowIs ==
  ASSUME NEW mem, Linked(mem), NEW i \in DOMAIN mem, NEW c, Chain(mem, i, c),
         NEW old, old = mem[Link(i, c, Len(c))].supersedes
  PROVE  Follow(mem, i, c) = IF old = NoId THEN c ELSE Append(c, old)
<1>1. c \in Seq(DOMAIN mem) /\ Len(c) \in Nat
  BY DEF Chain
<1>2. Link(i, c, Len(c)) = IF c = <<>> THEN i ELSE Last(c)
  BY <1>1 DEF Link, Last
<1>3. Follow(mem, i, c) = IF old = NoId \/ old = i \/ Contains(c, old) THEN c ELSE Append(c, old)
  BY <1>2, Zenon DEF Follow
<1>4. old # i
  <2>1. 0 \in 0..Len(c) /\ Link(i, c, 0) = i
    BY <1>1 DEF Link
  <2>. QED  BY <2>1, NoCircle
<1>5. ~ Contains(c, old)
  <2>. SUFFICES ASSUME NEW m \in 1..Len(c), c[m] = old PROVE FALSE
    BY DEF Contains
  <2>1. m \in 0..Len(c) /\ Link(i, c, m) = old
    BY <1>1 DEF Link
  <2>. QED  BY <2>1, NoCircle
<1>. QED  BY <1>3, <1>4, <1>5

\* One step further back.
LEMMA LineageStep ==
  ASSUME NEW mem, Linked(mem), NEW i \in DOMAIN mem, NEW m \in Nat, NEW c, Lineage(mem, i, m, c)
  PROVE  Lineage(mem, i, m + 1, Follow(mem, i, c))
<1>. DEFINE n == Len(c)
            old == mem[Link(i, c, n)].supersedes
            d == Append(c, old)
<1>1. /\ c \in Seq(DOMAIN mem) /\ n \in Nat /\ n <= m
      /\ \A k \in 1..n : c[k] = mem[Link(i, c, k - 1)].supersedes
      /\ n < m => old = NoId
  BY DEF Lineage, Chain
<1>2. Follow(mem, i, c) = IF old = NoId THEN c ELSE d
  <2>1. Chain(mem, i, c)
    BY DEF Lineage
  <2>. QED  BY <2>1, FollowIs
<1>3. CASE old = NoId
  <2>1. n <= m + 1
    BY <1>1
  <2>2. Lineage(mem, i, m + 1, c)
    BY <1>1, <1>3, <2>1 DEF Lineage, Chain
  <2>. QED  BY <1>2, <1>3, <2>2
<1>4. CASE old # NoId
  <2>1. n = m
    BY <1>1, <1>4
  <2>2. Link(i, c, n) \in DOMAIN mem
    BY <1>1 DEF Link
  <2>3. old \in DOMAIN mem
    BY <1>4, <2>2 DEF Linked
  <2>. HIDE DEF old
  <2>4. d \in Seq(DOMAIN mem) /\ Len(d) = n + 1 /\ d[n + 1] = old /\ \A k \in 1..n : d[k] = c[k]
    BY <1>1, <2>3
  <2>5. ASSUME NEW k \in 1..(n + 1) PROVE d[k] = mem[Link(i, d, k - 1)].supersedes
    <3>1. Link(i, d, k - 1) = Link(i, c, k - 1)
      <4>1. k - 1 = 0 \/ k - 1 \in 1..n
        BY <1>1
      <4>. QED  BY <2>4, <4>1 DEF Link
    <3>2. CASE k \in 1..n
      BY <1>1, <2>4, <3>1, <3>2
    <3>3. CASE k = n + 1
      <4>1. k - 1 = n
        BY <1>1, <3>3
      <4>. QED  BY <2>4, <3>1, <3>3, <4>1 DEF old
    <3>4. k \in 1..n \/ k = n + 1
      BY <1>1
    <3>. QED  BY <3>2, <3>3, <3>4
  <2>. HIDE DEF d
  <2>6. Len(d) <= m + 1 /\ ~ (Len(d) < m + 1)
    BY <1>1, <2>1, <2>4
  <2>7. Lineage(mem, i, m + 1, d)
    BY <2>4, <2>5, <2>6 DEF Lineage, Chain
  <2>. QED  BY <1>2, <1>4, <2>7
<1>. QED  BY <1>3, <1>4

\* There is one lineage of each length.
LEMMA OneLineage ==
  ASSUME NEW mem, Linked(mem), NEW i \in DOMAIN mem, NEW m \in Nat,
         NEW c, Lineage(mem, i, m, c), NEW d, Lineage(mem, i, m, d)
  PROVE  c = d
<1>0. \A b : Lineage(mem, i, m, b) =>
        /\ b \in Seq(DOMAIN mem) /\ Len(b) \in Nat /\ Len(b) <= m /\ DOMAIN b = 1..Len(b)
        /\ \A k \in 1..Len(b) : b[k] = mem[Link(i, b, k - 1)].supersedes /\ b[k] # NoId
        /\ Len(b) < m => mem[Link(i, b, Len(b))].supersedes = NoId
  <2>. SUFFICES ASSUME NEW b, Lineage(mem, i, m, b)
                PROVE  /\ b \in Seq(DOMAIN mem) /\ Len(b) \in Nat /\ Len(b) <= m /\ DOMAIN b = 1..Len(b)
                       /\ \A k \in 1..Len(b) : b[k] = mem[Link(i, b, k - 1)].supersedes /\ b[k] # NoId
                       /\ Len(b) < m => mem[Link(i, b, Len(b))].supersedes = NoId
    OBVIOUS
  <2>1. b \in Seq(DOMAIN mem) /\ NoId \notin DOMAIN mem
    BY DEF Lineage, Chain, Linked
  <2>2. \A k \in 1..Len(b) : b[k] # NoId
    BY <2>1
  <2>. QED  BY <2>1, <2>2 DEF Lineage, Chain
<1>1. ASSUME NEW a, NEW b, Lineage(mem, i, m, a), Lineage(mem, i, m, b)
      PROVE  \A k \in 1..Len(a) : k <= Len(b) => a[k] = b[k]
  <2>. DEFINE Bad == {k \in 1..Len(a) : k <= Len(b) /\ a[k] # b[k]}
  <2>. SUFFICES ASSUME Bad # {} PROVE FALSE
    OBVIOUS
  <2>1. PICK k \in Bad : \A j \in Bad : k <= j
    <3>1. Bad \in SUBSET Nat
      OBVIOUS
    <3>. HIDE DEF Bad
    <3>. QED  BY <3>1, LeastOf
  <2>2. k \in 1..Len(a) /\ k \in 1..Len(b) /\ a[k] # b[k] /\ Len(a) \in Nat /\ Len(b) \in Nat
    BY <1>0, <1>1
  <2>3. Link(i, a, k - 1) = Link(i, b, k - 1)
    <3>1. CASE k - 1 = 0
      BY <3>1 DEF Link
    <3>2. CASE k - 1 # 0
      <4>1. k - 1 \in 1..Len(a) /\ k - 1 <= Len(b) /\ ~ (k <= k - 1)
        BY <2>2, <3>2
      <4>2. k - 1 \notin Bad
        BY <2>1, <4>1
      <4>3. a[k - 1] = b[k - 1]
        BY <4>1, <4>2
      <4>. QED  BY <3>2, <4>3 DEF Link
    <3>. QED  BY <3>1, <3>2
  <2>4. a[k] = mem[Link(i, a, k - 1)].supersedes /\ b[k] = mem[Link(i, b, k - 1)].supersedes
    BY <1>0, <1>1, <2>2
  <2>. QED  BY <2>2, <2>3, <2>4
<1>2. ASSUME NEW a, NEW b, Lineage(mem, i, m, a), Lineage(mem, i, m, b) PROVE ~ (Len(a) < Len(b))
  <2>. SUFFICES ASSUME Len(a) < Len(b) PROVE FALSE
    OBVIOUS
  <2>. DEFINE n == Len(a)
  <2>1. n \in Nat /\ Len(b) \in Nat /\ Len(b) <= m /\ n < Len(b)
    BY <1>0, <1>2
  <2>2. n < m /\ n + 1 \in 1..Len(b) /\ n + 1 - 1 = n
    BY <2>1
  <2>3. mem[Link(i, a, n)].supersedes = NoId
    BY <1>0, <1>2, <2>2
  <2>4. b[n + 1] = mem[Link(i, b, n + 1 - 1)].supersedes /\ b[n + 1] # NoId
    BY <1>0, <1>2, <2>2
  <2>5. Link(i, a, n) = Link(i, b, n)
    <3>1. n # 0 => n \in 1..Len(a) /\ n <= Len(b)
      BY <2>1
    <3>2. n # 0 => a[n] = b[n]
      BY <1>1, <1>2, <3>1
    <3>. QED  BY <3>2 DEF Link
  <2>. QED  BY <2>2, <2>3, <2>4, <2>5
<1>3. Len(c) = Len(d)
  BY <1>0, <1>2
<1>4. \A k \in 1..Len(c) : c[k] = d[k]
  BY <1>0, <1>1, <1>3
<1>. QED  BY <1>0, <1>3, <1>4

\* What why shows as the predecessors is the lineage.
LEMMA PredecessorsAre ==
  ASSUME NEW mem, Linked(mem), NEW i \in DOMAIN mem
  PROVE  Lineage(mem, i, MAX_CHAIN, Predecessors(mem, i))
<1>. DEFINE N == MAX_CHAIN
            V == Seq(DOMAIN mem)
            Fold(g) == [n \in 0..N |-> IF n = 0 THEN <<>> ELSE Follow(mem, i, g[n - 1])]
            chain == CHOOSE g : g = Fold(g)
            op == [p \in (1..N) \X V |-> Follow(mem, i, p[2])]
<1>1. N \in Nat
  BY ReadersAssumption
<1>2. Predecessors(mem, i) = chain[N]
  BY Zenon DEF Predecessors
<1>. HIDE DEF N
<1>3. op \in [(1..N) \X V -> V] /\ <<>> \in V
  <2>1. \A c \in V : Follow(mem, i, c) \in V
    <3>. SUFFICES ASSUME NEW c \in V PROVE Follow(mem, i, c) \in V
      OBVIOUS
    <3>. DEFINE old == mem[IF c = <<>> THEN i ELSE Last(c)].supersedes
    <3>1. (IF c = <<>> THEN i ELSE Last(c)) \in DOMAIN mem
      BY DEF Last
    <3>2. old # NoId => old \in DOMAIN mem
      BY <3>1 DEF Linked
    <3>3. Follow(mem, i, c) = IF old = NoId \/ old = i \/ Contains(c, old) THEN c ELSE Append(c, old)
      BY Zenon DEF Follow
    <3>. HIDE DEF old
    <3>4. old \in DOMAIN mem => Append(c, old) \in V
      BY AppendProperties
    <3>. HIDE DEF V
    <3>. QED  BY <3>2, <3>3, <3>4
  <2>2. \A p \in (1..N) \X V : Follow(mem, i, p[2]) \in V
    <3>. HIDE DEF V
    <3>. QED  BY <2>1
  <2>3. <<>> \in V
    OBVIOUS
  <2>. HIDE DEF V
  <2>. QED  BY <2>2, <2>3
<1>4. chain = Fold(chain)
  <2>1. PICK g \in [0..N -> V] : g[0] = <<>> /\ \A n \in 1..N : g[n] = op[<<n, g[n - 1]>>]
    <3>. HIDE DEF op, V
    <3>1. PICK h : Recursion(h, N, V, <<>>, op)
      BY <1>1, <1>3, RecursionExists
    <3>. QED  BY <3>1 DEF Recursion
  <2>2. ASSUME NEW n \in 1..N PROVE g[n] = Follow(mem, i, g[n - 1])
    <3>1. g[n - 1] \in V
      BY <1>1, <2>1
    <3>2. <<n, g[n - 1]>> \in (1..N) \X V
      BY <3>1
    <3>. HIDE DEF V
    <3>. QED  BY <2>1, <3>2
  <2>3. \A n \in 0..N : g[n] = IF n = 0 THEN <<>> ELSE Follow(mem, i, g[n - 1])
    BY <1>1, <2>1, <2>2
  <2>4. g = Fold(g)
    <3>. HIDE DEF V
    <3>. QED  BY <1>1, <2>1, <2>3
  <2>. HIDE DEF Fold
  <2>. QED  BY <2>4
<1>. HIDE DEF chain, op, V
<1>5. chain[0] = <<>> /\ \A n \in 1..N : chain[n] = Follow(mem, i, chain[n - 1])
  BY <1>1, <1>4
<1>. DEFINE holds(n) == Lineage(mem, i, n, chain[n])
            Fails == {n \in 0..N : ~ holds(n)}
<1>6. holds(0)
  <2>1. <<>> \in Seq(DOMAIN mem) /\ Len(<<>>) = 0
    OBVIOUS
  <2>2. Lineage(mem, i, 0, <<>>)
    BY <2>1 DEF Lineage, Chain
  <2>. QED  BY <1>5, <2>2
<1>7. ASSUME NEW n \in 1..N, holds(n - 1) PROVE holds(n)
  <2>1. n - 1 \in Nat /\ n - 1 + 1 = n
    BY <1>1
  <2>2. Lineage(mem, i, n - 1 + 1, Follow(mem, i, chain[n - 1]))
    BY <1>7, <2>1, LineageStep
  <2>. QED  BY <1>5, <2>1, <2>2
<1>. HIDE DEF holds
<1>8. Fails = {}
  <2>1. SUFFICES ASSUME Fails # {} PROVE FALSE
    OBVIOUS
  <2>2. PICK n \in Fails : \A k \in Fails : n <= k
    <3>1. Fails \in SUBSET Nat
      OBVIOUS
    <3>. HIDE DEF Fails
    <3>. QED  BY <2>1, <3>1, LeastOf
  <2>3. n \in 0..N /\ ~ holds(n)
    OBVIOUS
  <2>4. n \in 1..N /\ n - 1 \in 0..N /\ ~ (n <= n - 1)
    BY <1>1, <1>6, <2>3
  <2>5. holds(n - 1)
    BY <2>2, <2>4
  <2>. QED  BY <1>7, <2>3, <2>4, <2>5
<1>9. holds(N)
  <2>1. N \in 0..N
    BY <1>1
  <2>. QED  BY <1>8, <2>1
<1>. QED  BY <1>2, <1>9 DEF holds, N

LEMMA FirstPredecessor ==
  ASSUME NEW mem, Linked(mem), NEW i \in DOMAIN mem, NEW c, c = Predecessors(mem, i)
  PROVE  /\ mem[i].supersedes = NoId => c = <<>>
         /\ mem[i].supersedes # NoId =>
              mem[i].supersedes \in DOMAIN mem /\ c[1] = mem[i].supersedes
<1>1. /\ MAX_CHAIN \in Nat /\ MAX_CHAIN > 0 /\ c \in Seq(DOMAIN mem) /\ Len(c) \in Nat
      /\ \A k \in 1..Len(c) : c[k] = mem[Link(i, c, k - 1)].supersedes
      /\ Len(c) < MAX_CHAIN => mem[Link(i, c, Len(c))].supersedes = NoId
  <2>1. Lineage(mem, i, MAX_CHAIN, c)
    BY PredecessorsAre
  <2>. QED  BY <2>1, ReadersAssumption DEF Lineage, Chain
<1>2. Link(i, c, 0) = i
  BY DEF Link
<1>3. Len(c) >= 1 => c[1] = mem[i].supersedes /\ c[1] \in DOMAIN mem
  <2>. SUFFICES ASSUME Len(c) >= 1 PROVE c[1] = mem[i].supersedes /\ c[1] \in DOMAIN mem
    OBVIOUS
  <2>1. 1 \in 1..Len(c) /\ 1 - 1 = 0
    BY <1>1
  <2>2. c[1] = mem[Link(i, c, 1 - 1)].supersedes
    BY <1>1, <2>1
  <2>. QED  BY <1>1, <1>2, <2>1, <2>2
<1>4. Len(c) = 0 => mem[i].supersedes = NoId /\ c = <<>>
  BY <1>1, <1>2
<1>5. NoId \notin DOMAIN mem
  BY DEF Linked
<1>6. Len(c) = 0 \/ Len(c) >= 1
  BY <1>1
<1>. QED  BY <1>3, <1>4, <1>5, <1>6

\* The lineage of i is the one of the memory it replaced, with that memory
\* before it and as long as a lineage may be.
GoesBackBy(mem, i, old, older) ==
  Predecessors(mem, i) = <<old>> \o SubSeq(older, 1, Min({Len(older), MAX_CHAIN - 1}))


\* The lineage of a trace is the trace it replaced and the lineage of that one.
LEMMA LineageGoesOn ==
  ASSUME NEW mem, Linked(mem), NEW i \in DOMAIN mem,
         NEW old \in DOMAIN mem, old = mem[i].supersedes,
         NEW older, older = Predecessors(mem, old)
  PROVE  GoesBackBy(mem, i, old, older)
<1>. DEFINE M == MAX_CHAIN
            n == Min({Len(older), M - 1})
            w == SubSeq(older, 1, n)
            c == <<old>> \o w
<1>1. /\ M \in Nat /\ M > 0 /\ older \in Seq(DOMAIN mem) /\ Len(older) \in Nat
      /\ \A k \in 1..Len(older) : older[k] = mem[Link(old, older, k - 1)].supersedes
      /\ Len(older) < M => mem[Link(old, older, Len(older))].supersedes = NoId
  <2>1. Lineage(mem, old, MAX_CHAIN, older)
    BY PredecessorsAre
  <2>. QED  BY <2>1, ReadersAssumption DEF Lineage, Chain
<1>. HIDE DEF M
<1>2. n = IF Len(older) <= M - 1 THEN Len(older) ELSE M - 1
  <2>1. Len(older) \in Int /\ M - 1 \in Int
    BY <1>1
  <2>. QED  BY ONLY <2>1, MinMaxOfTwo
<1>. HIDE DEF n
<1>3. n \in Nat /\ n <= Len(older) /\ n + 1 <= M /\ (n + 1 < M => n = Len(older))
  BY <1>1, <1>2
<1>4. w \in Seq(DOMAIN mem) /\ Len(w) = n /\ \A k \in 1..n : w[k] = older[k]
  <2>1. 1 \in 1..(Len(older) + 1) /\ n \in 0..Len(older)
    BY <1>1, <1>3
  <2>2. \A k \in 1..n : k \in 1..Len(older) /\ 1 + k - 1 = k
    BY <1>1, <1>3
  <2>. QED  BY <1>1, <1>3, <2>1, <2>2
<1>. HIDE DEF w
<1>5. /\ c \in Seq(DOMAIN mem) /\ Len(c) = n + 1 /\ c[1] = old
      /\ \A k \in 1..n : c[k + 1] = older[k]
  <2>1. <<old>> \in Seq(DOMAIN mem) /\ Len(<<old>>) = 1 /\ <<old>>[1] = old
    OBVIOUS
  <2>. QED  BY <1>3, <1>4, <2>1
<1>. HIDE DEF c
<1>6. ASSUME NEW k \in 0..n PROVE Link(i, c, k + 1) = Link(old, older, k)
  <2>1. CASE k = 0
    BY <1>5, <2>1 DEF Link
  <2>2. CASE k # 0
    <3>1. k \in 1..n /\ k + 1 # 0
      BY <1>3, <2>2
    <3>. QED  BY <1>5, <2>2, <3>1 DEF Link
  <2>. QED  BY <2>1, <2>2
<1>7. ASSUME NEW k \in 1..(n + 1) PROVE c[k] = mem[Link(i, c, k - 1)].supersedes
  <2>1. CASE k = 1
    BY <1>5, <2>1 DEF Link
  <2>2. CASE k # 1
    <3>1. PICK j \in 1..n : k = j + 1
      <4>1. k - 1 \in 1..n /\ k = k - 1 + 1
        BY <1>3, <2>2
      <4>. QED  BY <4>1
    <3>2. c[k] = older[j]
      BY <1>5, <3>1
    <3>3. j \in 1..Len(older) /\ j - 1 \in 0..n /\ j - 1 + 1 = k - 1
      BY <1>1, <1>3, <3>1
    <3>4. older[j] = mem[Link(old, older, j - 1)].supersedes
      BY <1>1, <3>3
    <3>5. Link(i, c, j - 1 + 1) = Link(old, older, j - 1)
      BY <1>6, <3>3
    <3>. QED  BY <3>2, <3>3, <3>4, <3>5
  <2>. QED  BY <2>1, <2>2
<1>8. n + 1 < M => mem[Link(i, c, n + 1)].supersedes = NoId
  <2>. SUFFICES ASSUME n + 1 < M PROVE mem[Link(i, c, n + 1)].supersedes = NoId
    OBVIOUS
  <2>1. n \in 0..n /\ n = Len(older) /\ Len(older) < M
    BY <1>1, <1>3
  <2>. QED  BY <1>1, <1>6, <2>1
<1>9. Lineage(mem, i, M, c)
  BY <1>3, <1>5, <1>7, <1>8 DEF Lineage, Chain
<1>10. Lineage(mem, i, M, Predecessors(mem, i))
  BY PredecessorsAre DEF M
<1>11. Predecessors(mem, i) = c
  BY <1>1, <1>9, <1>10, OneLineage
<1>12. c = <<old>> \o SubSeq(older, 1, Min({Len(older), MAX_CHAIN - 1}))
  BY Zenon DEF c, w, n, M
<1>. QED  BY <1>11, <1>12, Zenon DEF GoesBackBy

-----------------------------------------------------------------------------
(* What the commands say of one memory: successors *)

LEMMA SuccessorIs ==
  ASSUME NEW mem, DOMAIN mem = 1..Len(mem), Len(mem) \in Nat, NEW old, NEW policy,
         NEW x, x = Successor(mem, old, policy), x # NoId
  PROVE  /\ x \in DOMAIN mem /\ mem[x].supersedes = old /\ mem[x].status # "purged"
         /\ Visible(mem[x], policy) /\ old # NoId /\ mem[old].status = "superseded"
<1>. DEFINE S == {i \in DOMAIN mem :
                    /\ mem[i].supersedes = old /\ mem[i].status # "purged" /\ Visible(mem[i], policy)
                    /\ old # NoId /\ mem[old].status = "superseded"}
            T == {NoId} \cup S
<1>1. x = Max(T)
  BY DEF Successor
<1>2. IsFiniteSet(S) /\ S \subseteq Int
  <2>1. IsFiniteSet(DOMAIN mem) /\ DOMAIN mem \subseteq Int
    BY UpTo
  <2>2. S \subseteq DOMAIN mem
    OBVIOUS
  <2>. HIDE DEF S
  <2>. QED  BY <2>1, <2>2, FS_Subset
<1>3. IsFiniteSet(T) /\ T # {} /\ T \subseteq Int
  <2>1. IsFiniteSet({NoId})
    BY FS_Singleton
  <2>2. NoId \in Int
    BY DEF NoId
  <2>. HIDE DEF S
  <2>. QED  BY <1>2, <2>1, <2>2, FS_Union
<1>4. x \in T
  <2>. HIDE DEF T
  <2>. QED  BY <1>1, <1>3, MaxOf
<1>. QED  BY <1>4

\* What replaced a trace that recall may show is the same in why.
LEMMA SuccessorsAgree ==
  ASSUME NEW mem, DOMAIN mem = 1..Len(mem), Len(mem) \in Nat, Linked(mem), NEW policy,
         NEW i \in DOMAIN mem, mem[i].status \in {"active", "superseded"}
  PROVE  provenance_chain(mem, i, policy).successor = Successor(mem, i, policy)
<1>. DEFINE L == Len(mem)
            W == {j \in DOMAIN mem :
                    mem[j].supersedes = i /\ mem[j].status # "purged" /\ Visible(mem[j], policy)}
            S == {j \in DOMAIN mem :
                    /\ mem[j].supersedes = i /\ mem[j].status # "purged" /\ Visible(mem[j], policy)
                    /\ i # NoId /\ mem[i].status = "superseded"}
<1>1. /\ provenance_chain(mem, i, policy).successor = Min({L + 1} \cup W) % (L + 1)
      /\ Successor(mem, i, policy) = Max({NoId} \cup S)
  BY DEF provenance_chain, Successor
<1>2. i # NoId
  BY DEF Linked
<1>3. S = W
  <2>. SUFFICES ASSUME NEW j \in W PROVE mem[i].status = "superseded"
    BY <1>2
  <2>1. mem[j].supersedes = i /\ j \in DOMAIN mem
    OBVIOUS
  <2>2. mem[mem[j].supersedes].status # "active"
    BY <1>2, <2>1 DEF Linked
  <2>. QED  BY <2>1, <2>2
<1>4. W = {} \/ \E j \in 1..L : W = {j}
  <2>. SUFFICES ASSUME NEW j \in W PROVE W = {j}
    OBVIOUS
  <2>1. \A k \in W : mem[k].supersedes = i /\ k \in DOMAIN mem
    OBVIOUS
  <2>. HIDE DEF W
  <2>2. \A k \in W : k = j
    BY <1>2, <2>1 DEF Linked
  <2>. QED  BY <2>2
<1>. HIDE DEF W, S, L
<1>5. L \in Nat
  BY DEF L
<1>6. CASE W = {}
  <2>1. {L + 1} \cup W = {L + 1, L + 1} /\ {NoId} \cup S = {0, 0}
    BY <1>3, <1>6 DEF NoId
  <2>2. L + 1 \in Int /\ 0 \in Int
    BY <1>5
  <2>3. Min({L + 1, L + 1}) = L + 1 /\ Max({0, 0}) = 0
    BY ONLY <2>2, MinMaxOfTwo
  <2>4. (L + 1) % (L + 1) = 0
    BY <1>5
  <2>. QED  BY <1>1, <2>1, <2>3, <2>4
<1>7. CASE W # {}
  <2>1. PICK j \in 1..L : W = {j}
    BY <1>4, <1>7
  <2>2. {L + 1} \cup W = {L + 1, j} /\ {NoId} \cup S = {0, j}
    BY <1>3, <2>1 DEF NoId
  <2>3. L + 1 \in Int /\ 0 \in Int /\ j \in Int /\ ~ (L + 1 <= j) /\ ~ (0 >= j)
    BY <1>5
  <2>4. Min({L + 1, j}) = j /\ Max({0, j}) = j
    BY ONLY <2>3, MinMaxOfTwo
  <2>5. j % (L + 1) = j
    BY <1>5
  <2>. QED  BY <1>1, <2>2, <2>4, <2>5
<1>. QED  BY <1>6, <1>7

\* Where the candidates come from.
LEMMA CandidateStatus ==
  ASSUME NEW mem, NEW query, NEW policy, NEW i \in Candidates(mem, query, policy)
  PROVE  i \in DOMAIN mem /\ mem[i].status \in {"active", "superseded"} /\ Visible(mem[i], policy)
BY DEF Candidates

\* Each of what is recalled is a candidate with its links.
LEMMA RecalledIs ==
  ASSUME NEW mem, NEW query, NEW policy, MemoryType(mem), QueryType(query), PolicyType(policy),
         answer = recall(mem, query, policy), NEW k \in DOMAIN answer
  PROVE  /\ answer[k].id \in Candidates(mem, query, policy)
         /\ \E r : r.id = answer[k].id /\ answer[k] = Annotated(mem, r, policy)
<1>1. HasCue(query) \/ ~ query.spoken
  <2>. SUFFICES ASSUME ~ HasCue(query), query.spoken PROVE FALSE
    OBVIOUS
  <2>1. answer = <<>>
    BY DEF recall
  <2>. QED  BY <2>1
<1>. PICK s : s = diversify(mem, query, policy)
  OBVIOUS
<1>2. answer = [n \in DOMAIN s |-> Annotated(mem, s[n], policy)]
  BY <1>1, Zenon DEF recall
<1>3. k \in DOMAIN s /\ answer[k] = Annotated(mem, s[k], policy)
  BY <1>2
<1>4. answer[k].id = s[k].id
  BY <1>3 DEF Annotated
<1>5. s[k].id \in Candidates(mem, query, policy)
  <2>1. Standing(mem, query, policy, Places(query, policy), s, Candidates(mem, query, policy))
    BY DiversifyIs, Zenon
  <2>. QED  BY <1>3, <2>1, Zenon DEF Standing
<1>. QED  BY <1>3, <1>4, <1>5

\* What a result says of links and conflicts.
Annotates(r, mem, policy, i) ==
  /\ i \in DOMAIN mem /\ mem[i].status \in {"active", "superseded"} /\ Visible(mem[i], policy)
  /\ r.supersedes = IF Successor(mem, mem[i].supersedes, policy) = i THEN mem[i].supersedes ELSE NoId
  /\ r.superseded_by = Successor(mem, i, policy)
  /\ r.conflicts = IF mem[i].status = "active"
                   THEN conflicting_ids(mem, i, {j \in Active(mem) : Visible(mem[j], policy)}) ELSE {}

LEMMA AnnotatedIs ==
  ASSUME NEW mem, NEW query, NEW policy, MemoryType(mem), QueryType(query), PolicyType(policy),
         answer = recall(mem, query, policy), NEW k \in DOMAIN answer
  PROVE  Annotates(answer[k], mem, policy, answer[k].id)
<1>. DEFINE i == answer[k].id
<1>1. i \in DOMAIN mem /\ mem[i].status \in {"active", "superseded"} /\ Visible(mem[i], policy)
  BY RecalledIs, CandidateStatus
<1>2. PICK r : r.id = i /\ answer[k] = Annotated(mem, r, policy)
  BY RecalledIs
<1>. QED  BY <1>1, <1>2 DEF Annotated, Annotates

LEMMA LinksAlwaysAgree ==
  ASSUME NEW mem, NEW query, NEW policy, MemoryType(mem), QueryType(query), PolicyType(policy),
         DOMAIN mem = 1..Len(mem), Len(mem) \in Nat, Linked(mem), answer = recall(mem, query, policy)
  PROVE  LinksAgree(mem, policy)
<1>. SUFFICES ASSUME NEW k \in DOMAIN answer
              PROVE  /\ answer[k].supersedes # NoId =>
                          /\ provenance_chain(mem, answer[k].id, policy).predecessors[1] = answer[k].supersedes
                          /\ mem[answer[k].supersedes].status = "superseded"
                          /\ \A j \in DOMAIN answer : answer[j].id = answer[k].supersedes =>
                               answer[j].superseded_by = answer[k].id
                     /\ provenance_chain(mem, answer[k].id, policy).successor = answer[k].superseded_by
                     /\ answer[k].superseded_by # NoId => mem[answer[k].id].status = "superseded"
  BY DEF LinksAgree
<1>0. \A j \in DOMAIN answer : Annotates(answer[j], mem, policy, answer[j].id)
  BY AnnotatedIs, Zenon
<1>. PICK i : i = answer[k].id
  OBVIOUS
<1>. DEFINE old == mem[i].supersedes
<1>1. /\ i \in DOMAIN mem /\ mem[i].status \in {"active", "superseded"}
      /\ answer[k].supersedes = IF Successor(mem, old, policy) = i THEN old ELSE NoId
      /\ answer[k].superseded_by = Successor(mem, i, policy)
  BY <1>0 DEF Annotates
<1>2. provenance_chain(mem, i, policy).successor = answer[k].superseded_by
  BY <1>1, SuccessorsAgree
<1>3. answer[k].superseded_by # NoId => mem[i].status = "superseded"
  BY <1>1, SuccessorIs
<1>4. ASSUME answer[k].supersedes # NoId
      PROVE  /\ provenance_chain(mem, i, policy).predecessors[1] = answer[k].supersedes
             /\ mem[answer[k].supersedes].status = "superseded"
             /\ \A j \in DOMAIN answer : answer[j].id = answer[k].supersedes =>
                  answer[j].superseded_by = i
  <2>1. Successor(mem, old, policy) = i /\ answer[k].supersedes = old /\ old # NoId
    BY <1>1, <1>4
  <2>2. i # NoId
    BY <1>1 DEF Linked
  <2>3. mem[old].status = "superseded"
    BY <2>1, <2>2, SuccessorIs
  <2>4. provenance_chain(mem, i, policy).predecessors = Predecessors(mem, i)
    BY DEF provenance_chain
  <2>5. Predecessors(mem, i)[1] = old
    BY <1>1, <2>1, FirstPredecessor
  <2>6. ASSUME NEW j \in DOMAIN answer, answer[j].id = old PROVE answer[j].superseded_by = i
    <3>. PICK m : m = answer[j].id
      OBVIOUS
    <3>1. answer[j].superseded_by = Successor(mem, m, policy)
      BY <1>0 DEF Annotates
    <3>. QED  BY <2>1, <2>6, <3>1
  <2>. QED  BY <2>1, <2>3, <2>4, <2>5, <2>6
<1>. QED  BY <1>2, <1>3, <1>4

-----------------------------------------------------------------------------
(* What the commands say of one memory: conflicts *)

\* The traces that may be in a conflict.
Claimants(mem, policy) == {i \in Active(mem) : Visible(mem[i], policy) /\ mem[i].claim # NoClaim}

LEMMA TwoAreMore ==
  ASSUME NEW S, IsFiniteSet(S), NEW a \in S, NEW b \in S, a # b
  PROVE  Cardinality(S) > 1
<1>1. Cardinality(S) \in Nat
  BY FS_CardinalityType
<1>2. Cardinality(S) # 0
  BY FS_EmptySet
<1>3. Cardinality(S) # 1
  BY FS_Singleton
<1>. QED  BY <1>1, <1>2, <1>3

\* Who is named under a value of a contested key.
LEMMA ConflictsName ==
  ASSUME NEW mem, NEW policy, NEW c \in active_conflicts(mem, policy), NEW v \in c.values
  PROVE  v.ids = {i \in Claimants(mem, policy) : Key(mem[i]) = c.key /\ Value(mem[i]) = v.value}
<1>. DEFINE claims == Claimants(mem, policy)
            of(key) == {i \in claims : Key(mem[i]) = key}
            values(key) == {Value(mem[i]) : i \in of(key)}
            entry(key) == [key |-> key,
                           values |-> {[value |-> w, ids |-> {i \in of(key) : Value(mem[i]) = w}] :
                                         w \in values(key)}]
<1>1. active_conflicts(mem, policy) =
        {entry(key) : key \in {key \in {Key(mem[i]) : i \in claims} : Cardinality(values(key)) > 1}}
  BY Zenon DEF active_conflicts, Claimants
<1>2. PICK key : c = entry(key)
  <2>. HIDE DEF entry, values, claims
  <2>. QED  BY <1>1
<1>. HIDE DEF claims
<1>3. PICK w : v = [value |-> w, ids |-> {i \in of(key) : Value(mem[i]) = w}]
  BY <1>2
<1>4. c.key = key /\ v.value = w /\ v.ids = {i \in of(key) : Value(mem[i]) = w}
  BY <1>2, <1>3
<1>. QED  BY <1>4 DEF claims

\* Two values of one key are reported.
LEMMA ConflictsReport ==
  ASSUME NEW mem, IsFiniteSet(DOMAIN mem), NEW policy,
         NEW i \in Claimants(mem, policy), NEW j \in Claimants(mem, policy),
         Key(mem[i]) = Key(mem[j]), Value(mem[i]) # Value(mem[j])
  PROVE  \E c \in active_conflicts(mem, policy) :
           /\ c.key = Key(mem[i])
           /\ \E v \in c.values : v.value = Value(mem[i])
           /\ \E v \in c.values : v.value = Value(mem[j])
<1>. DEFINE claims == Claimants(mem, policy)
            of(key) == {n \in claims : Key(mem[n]) = key}
            values(key) == {Value(mem[n]) : n \in of(key)}
            entry(key) == [key |-> key,
                           values |-> {[value |-> w, ids |-> {n \in of(key) : Value(mem[n]) = w}] :
                                         w \in values(key)}]
            k == Key(mem[i])
<1>1. active_conflicts(mem, policy) =
        {entry(key) : key \in {key \in {Key(mem[n]) : n \in claims} : Cardinality(values(key)) > 1}}
  BY Zenon DEF active_conflicts, Claimants
<1>2. claims \subseteq DOMAIN mem
  BY DEF Claimants, Active
<1>3. i \in claims /\ j \in claims
  OBVIOUS
<1>. HIDE DEF claims
<1>4. Value(mem[i]) \in values(k) /\ Value(mem[j]) \in values(k) /\ k \in {Key(mem[n]) : n \in claims}
  BY <1>3
<1>5. Cardinality(values(k)) > 1
  <2>. DEFINE f == [n \in DOMAIN mem |-> Value(mem[n])]
  <2>1. IsFiniteSet(of(k)) /\ \A n \in of(k) : f[n] = Value(mem[n])
    <3>1. of(k) \subseteq DOMAIN mem
      BY <1>2
    <3>2. \A n \in of(k) : f[n] = Value(mem[n])
      BY <3>1
    <3>. QED  BY <3>1, <3>2, FS_Subset
  <2>2. values(k) = {f[n] : n \in of(k)}
    BY <2>1
  <2>. HIDE DEF f
  <2>3. IsFiniteSet({f[n] : n \in of(k)})
    <3>. PICK s : s = of(k)
      OBVIOUS
    <3>1. IsFiniteSet({f[n] : n \in s})
      BY <2>1, ImageIsFinite
    <3>. QED  BY <3>1
  <2>. HIDE DEF values
  <2>. QED  BY <1>4, <2>2, <2>3, TwoAreMore
<1>6. entry(k) \in active_conflicts(mem, policy)
  <2>. HIDE DEF entry, values, k
  <2>. QED  BY <1>1, <1>4, <1>5
<1>7. /\ entry(k).key = k
      /\ entry(k).values = {[value |-> w, ids |-> {n \in of(k) : Value(mem[n]) = w}] : w \in values(k)}
  OBVIOUS
<1>. HIDE DEF entry
<1>8. ASSUME NEW w \in values(k) PROVE \E v \in entry(k).values : v.value = w
  <2>. DEFINE v == [value |-> w, ids |-> {n \in of(k) : Value(mem[n]) = w}]
  <2>. HIDE DEF values
  <2>1. v \in entry(k).values
    BY <1>7
  <2>. QED  BY <2>1
<1>. HIDE DEF values
<1>. QED  BY <1>4, <1>6, <1>7, <1>8

\* What recall shows beside i, and what conflicts names beside it.
Beside(mem, policy, i) ==
  IF mem[i].status = "active"
  THEN conflicting_ids(mem, i, {j \in Active(mem) : Visible(mem[j], policy)}) ELSE {}

NamedBeside(mem, policy, i) ==
  UNION {UNION {v.ids : v \in {v \in c.values : i \notin v.ids}} :
           c \in {c \in active_conflicts(mem, policy) : \E v \in c.values : i \in v.ids}}

LEMMA ConflictsOf ==
  ASSUME NEW mem, IsFiniteSet(DOMAIN mem), NEW policy,
         NEW i \in DOMAIN mem, Visible(mem[i], policy)
  PROVE  Beside(mem, policy, i) = NamedBeside(mem, policy, i)
<1>. DEFINE claims == Claimants(mem, policy)
            A == Beside(mem, policy, i)
            B == NamedBeside(mem, policy, i)
            D == active_conflicts(mem, policy)
<1>1. \A j : j \in A <=> /\ i \in claims /\ j \in claims
                         /\ Key(mem[i]) = Key(mem[j]) /\ Value(mem[i]) # Value(mem[j])
  BY DEF Beside, conflicting_ids, claims_conflict, Claimants, Active
<1>2. \A c \in D : \A v \in c.values : \A j :
        j \in v.ids <=> j \in claims /\ Key(mem[j]) = c.key /\ Value(mem[j]) = v.value
  <2>1. \A c \in D : \A v \in c.values :
          v.ids = {j \in claims : Key(mem[j]) = c.key /\ Value(mem[j]) = v.value}
    BY ConflictsName
  <2>. HIDE DEF claims, D
  <2>. QED  BY <2>1
<1>3. \A j : j \in B <=> \E c \in D : /\ \E v \in c.values : i \in v.ids
                                      /\ \E v \in c.values : i \notin v.ids /\ j \in v.ids
  <2>1. B = UNION {UNION {v.ids : v \in {v \in c.values : i \notin v.ids}} :
                     c \in {c \in D : \E v \in c.values : i \in v.ids}}
    BY Zenon DEF NamedBeside
  <2>. HIDE DEF B, D
  <2>. QED  BY <2>1
<1>. HIDE DEF A, B, D, claims
<1>4. ASSUME NEW j \in B PROVE j \in A
  <2>1. PICK c \in D : /\ \E v \in c.values : i \in v.ids
                       /\ \E v \in c.values : i \notin v.ids /\ j \in v.ids
    BY <1>3
  <2>2. PICK v \in c.values : i \in v.ids
    BY <2>1
  <2>3. PICK w \in c.values : i \notin w.ids /\ j \in w.ids
    BY <2>1
  <2>4. i \in claims /\ Key(mem[i]) = c.key
    BY <1>2, <2>2
  <2>5. j \in claims /\ Key(mem[j]) = c.key /\ Value(mem[j]) = w.value
    BY <1>2, <2>3
  <2>6. Value(mem[i]) # w.value
    BY <1>2, <2>3, <2>4
  <2>. QED  BY <1>1, <2>4, <2>5, <2>6
<1>5. ASSUME NEW j \in A PROVE j \in B
  <2>1. /\ i \in claims /\ j \in claims /\ Key(mem[i]) = Key(mem[j]) /\ Value(mem[i]) # Value(mem[j])
    BY <1>1
  <2>2. PICK c \in D : /\ c.key = Key(mem[i])
                       /\ \E v \in c.values : v.value = Value(mem[i])
                       /\ \E v \in c.values : v.value = Value(mem[j])
    BY <2>1, ConflictsReport DEF claims, D
  <2>3. PICK v \in c.values : v.value = Value(mem[i])
    BY <2>2
  <2>4. PICK w \in c.values : w.value = Value(mem[j])
    BY <2>2
  <2>5. i \in v.ids
    BY <1>2, <2>1, <2>2, <2>3
  <2>6. j \in w.ids /\ i \notin w.ids
    BY <1>2, <2>1, <2>2, <2>4
  <2>. QED  BY <1>3, <2>5, <2>6
<1>6. A = B
  BY <1>4, <1>5
<1>. QED  BY <1>6 DEF A, B

LEMMA ConflictsAlwaysAgree ==
  ASSUME NEW mem, NEW query, NEW policy, MemoryType(mem), QueryType(query), PolicyType(policy),
         answer = recall(mem, query, policy)
  PROVE  ConflictsAgree(mem, policy)
<1>. SUFFICES ASSUME NEW k \in DOMAIN answer
              PROVE  answer[k].conflicts =
                       UNION {UNION {v.ids : v \in {v \in c.values : answer[k].id \notin v.ids}} :
                                c \in {c \in active_conflicts(mem, policy) :
                                         \E v \in c.values : answer[k].id \in v.ids}}
  BY Zenon DEF ConflictsAgree
<1>0. Annotates(answer[k], mem, policy, answer[k].id)
  BY AnnotatedIs, Zenon
<1>1. /\ answer[k].id \in DOMAIN mem /\ Visible(mem[answer[k].id], policy)
      /\ answer[k].conflicts = Beside(mem, policy, answer[k].id)
  BY <1>0, Zenon DEF Annotates, Beside
<1>2. IsFiniteSet(DOMAIN mem)
  BY DEF MemoryType
<1>3. answer[k].conflicts = NamedBeside(mem, policy, answer[k].id)
  BY <1>1, <1>2, ConflictsOf, Zenon
<1>. QED  BY <1>3, Zenon DEF NamedBeside

-----------------------------------------------------------------------------
(* What the commands say of one memory: commitments *)

\* The order of the agenda.
Sooner(mem, i, j) ==
  \/ mem[i].deadline < mem[j].deadline
  \/ mem[i].deadline = mem[j].deadline /\ i < j

LEMMA SoonerOrders ==
  ASSUME NEW mem, NEW S \in SUBSET Nat, \A i \in S : mem[i].deadline \in Int
  PROVE  Orders({p \in S \X S : Sooner(mem, p[1], p[2])}, S)
<1>. DEFINE R == {p \in S \X S : Sooner(mem, p[1], p[2])}
            d(i) == mem[i].deadline
            before(i, j) == d(i) < d(j) \/ (d(i) = d(j) /\ i < j)
<1>1. \A i, j \in S : <<i, j>> \in R <=> before(i, j)
  BY DEF Sooner
<1>2. \A i \in S : i \in Nat /\ d(i) \in Int
  OBVIOUS
<1>. HIDE DEF R, d
<1>3. ASSUME NEW i \in S, NEW j \in S, i # j PROVE <<i, j>> \in R \/ <<j, i>> \in R
  <2>1. before(i, j) \/ before(j, i)
    BY <1>2, <1>3
  <2>. QED  BY <1>1, <2>1
<1>4. ASSUME NEW i \in S, NEW j \in S, NEW k \in S, <<i, j>> \in R, <<j, k>> \in R
      PROVE  <<i, k>> \in R
  <2>1. before(i, j) /\ before(j, k)
    BY <1>1, <1>4
  <2>2. before(i, k)
    BY <1>2, <2>1
  <2>. QED  BY <1>1, <2>2
<1>5. ASSUME NEW i \in S PROVE <<i, i>> \notin R
  <2>1. ~ before(i, i)
    BY <1>2
  <2>. QED  BY <1>1, <2>1
<1>6. Orders(R, S)
  BY <1>3, <1>4, <1>5 DEF Orders
<1>. QED  BY <1>6 DEF R

\* The commitments up to the horizon.
DueBy(mem, horizon) ==
  {i \in Active(mem) : /\ mem[i].kind = "commitment" /\ mem[i].deadline # NoDeadline
                       /\ mem[i].deadline <= horizon}

\* The agenda: each of them once, and the sooner ones first.
IsAgenda(due, mem, now, horizon, ids) ==
  /\ horizon >= now /\ DOMAIN due = DOMAIN ids /\ DOMAIN ids \subseteq Nat
  /\ \A k \in DOMAIN ids :
       /\ ids[k] \in DueBy(mem, horizon)
       /\ due[k].id = ids[k] /\ due[k].overdue = (mem[ids[k]].deadline <= now)
  /\ \A i \in DueBy(mem, horizon) : \E k \in DOMAIN ids : ids[k] = i
  /\ \A j, k \in DOMAIN ids : j < k <=> Sooner(mem, ids[j], ids[k])

LEMMA AgendaIs ==
  ASSUME NEW mem, IsFiniteSet(DOMAIN mem), DOMAIN mem \subseteq Nat,
         \A i \in DOMAIN mem : mem[i].deadline \in Nat \cup {NoDeadline},
         NEW now \in 0..MAX_TIME, NEW within \in Nat, NEW due, due = commitments_due(mem, now, within)
  PROVE  \E horizon \in Nat : \E ids : IsAgenda(due, mem, now, horizon, ids)
<1>. DEFINE horizon == saturating_add(now, within)
            S == DueBy(mem, horizon)
            R == {p \in S \X S : Sooner(mem, p[1], p[2])}
            ids == Arranged(S, R)
            item(i) == [id |-> i, overdue |-> mem[i].deadline <= now, due_in |-> mem[i].deadline - now]
<1>1. due = [k \in DOMAIN ids |-> item(ids[k])]
  BY Zenon DEF commitments_due, DueBy, Sooner
<1>2. horizon \in Nat /\ horizon >= now
  <2>1. now \in Nat /\ MAX_TIME \in Nat /\ now <= MAX_TIME /\ now + within \in Nat /\ now + within >= now
    BY DeadlinesAssumption
  <2>2. MAX_TIME \in Int /\ now + within \in Int
    BY <2>1
  <2>3. Min({MAX_TIME, now + within}) = IF MAX_TIME <= now + within THEN MAX_TIME ELSE now + within
    BY ONLY <2>2, MinMaxOfTwo
  <2>. QED  BY <2>1, <2>3 DEF saturating_add
<1>. HIDE DEF horizon
<1>3. IsFiniteSet(S) /\ S \in SUBSET Nat /\ \A i \in S : mem[i].deadline \in Int
  <2>1. S \subseteq DOMAIN mem
    BY DEF DueBy, Active
  <2>. HIDE DEF S
  <2>2. \A i \in S : mem[i].deadline \in Int
    BY <2>1 DEF NoDeadline
  <2>. QED  BY <2>1, <2>2, FS_Subset
<1>. HIDE DEF S
<1>4. Orders(R, S)
  BY <1>3, SoonerOrders
<1>5. \A i, j \in S : <<i, j>> \in R <=> Sooner(mem, i, j)
  OBVIOUS
<1>. HIDE DEF R, ids
<1>6. /\ Cardinality(S) \in Nat /\ ids \in [1..Cardinality(S) -> S]
      /\ \A i \in S : \E k \in 1..Cardinality(S) : ids[k] = i
      /\ \A j, k \in 1..Cardinality(S) : j < k <=> <<ids[j], ids[k]>> \in R
  BY <1>3, <1>4, ArrangedIs DEF ids
<1>7. DOMAIN ids = 1..Cardinality(S) /\ \A k \in DOMAIN ids : ids[k] \in S
  BY <1>6
<1>8. \A j, k \in DOMAIN ids : j < k <=> Sooner(mem, ids[j], ids[k])
  BY <1>5, <1>6, <1>7
<1>9. DOMAIN due = DOMAIN ids /\ \A k \in DOMAIN ids :
         due[k].id = ids[k] /\ due[k].overdue = (mem[ids[k]].deadline <= now)
  BY <1>1
<1>10. DOMAIN ids \subseteq Nat
  BY <1>6, <1>7
<1>11. IsAgenda(due, mem, now, horizon, ids)
  <2>1. \A i \in S : \E k \in DOMAIN ids : ids[k] = i
    BY <1>6, <1>7
  <2>. QED  BY <1>2, <1>7, <1>8, <1>9, <1>10, <2>1, Zenon DEF IsAgenda, S
<1>. QED  BY <1>2, <1>11

\* An overdue commitment needs no cue.
LEMMA OverdueIsCandidate ==
  ASSUME NEW mem, NEW query, NEW policy, NEW i \in Active(mem), LateCommitment(mem[i], query.now),
         Visible(mem[i], policy), query.kinds = {} \/ "commitment" \in query.kinds
  PROVE  i \in Candidates(mem, query, policy)
<1>1. Urgency(mem[i], query.now, policy) = One
  BY DEF LateCommitment, Urgency
<1>2. Recallable(mem[i], query, policy)
  <2>1. One >= One
    BY DEF One
  <2>. QED  BY <1>1, <2>1 DEF Recallable, Overdue
<1>. QED  BY <1>2 DEF Candidates, Active, LateCommitment

LEMMA OverdueAlwaysFirst ==
  ASSUME NEW a \in Agendas, answer = commitments_due(a.memory, a.query.now, a.within)
  PROVE  OverdueFirst(a)
<1>. DEFINE mem == a.memory
            now == a.query.now
            policy == Loaded(a.file)
<1>1. /\ IsFiniteSet(DOMAIN mem) /\ DOMAIN mem \subseteq Nat
      /\ \A i \in DOMAIN mem : mem[i].deadline \in Nat \cup {NoDeadline}
      /\ now \in 0..MAX_TIME /\ a.within \in Nat
  BY ReadersAssumption
<1>2. answer = commitments_due(mem, now, a.within)
  OBVIOUS
<1>. HIDE DEF policy
<1>. PICK horizon \in Nat : \E ids : IsAgenda(answer, mem, now, horizon, ids)
  BY <1>1, <1>2, AgendaIs, Zenon
<1>. PICK ids : IsAgenda(answer, mem, now, horizon, ids)
  OBVIOUS
<1>3. /\ horizon >= now /\ DOMAIN answer = DOMAIN ids /\ DOMAIN ids \subseteq Nat
      /\ \A k \in DOMAIN ids :
           /\ ids[k] \in DueBy(mem, horizon)
           /\ answer[k].id = ids[k] /\ answer[k].overdue = (mem[ids[k]].deadline <= now)
      /\ \A i \in DueBy(mem, horizon) : \E k \in DOMAIN ids : ids[k] = i
      /\ \A j, k \in DOMAIN ids : j < k <=> Sooner(mem, ids[j], ids[k])
  BY Zenon DEF IsAgenda
<1>. HIDE DEF mem, now
<1>4. now \in Nat /\ \A i \in DOMAIN mem : mem[i].deadline \in Int
  BY <1>1, DeadlinesAssumption DEF NoDeadline
<1>5. \A i \in DueBy(mem, horizon) :
        i \in Active(mem) /\ i \in DOMAIN mem /\ mem[i].kind = "commitment" /\ mem[i].deadline # NoDeadline
  BY DEF DueBy, Active
<1>6. ASSUME NEW i \in DOMAIN mem, mem[i].status = "active", LateCommitment(mem[i], now)
      PROVE  \E k \in DOMAIN answer : answer[k].id = i /\ answer[k].overdue
  <2>1. mem[i].deadline <= now /\ mem[i].deadline <= horizon
    BY <1>3, <1>4, <1>6 DEF LateCommitment
  <2>2. i \in DueBy(mem, horizon)
    BY <1>6, <2>1 DEF DueBy, Active, LateCommitment
  <2>3. PICK k \in DOMAIN ids : ids[k] = i
    BY <1>3, <2>2
  <2>4. answer[k].id = i /\ answer[k].overdue = (mem[i].deadline <= now)
    BY <1>3, <2>3
  <2>. QED  BY <1>3, <2>1, <2>3, <2>4
<1>7. ASSUME NEW j \in DOMAIN answer, NEW k \in DOMAIN answer, answer[k].overdue, ~ answer[j].overdue
      PROVE  k < j
  <2>1. /\ j \in DOMAIN ids /\ k \in DOMAIN ids
        /\ answer[j].overdue = (mem[ids[j]].deadline <= now)
        /\ answer[k].overdue = (mem[ids[k]].deadline <= now)
    BY <1>3
  <2>2. mem[ids[k]].deadline <= now /\ ~ (mem[ids[j]].deadline <= now)
    BY <1>7, <2>1
  <2>3. mem[ids[k]].deadline \in Int /\ mem[ids[j]].deadline \in Int
    BY <1>3, <1>4, <1>5, <2>1
  <2>4. Sooner(mem, ids[k], ids[j])
    BY <1>4, <2>2, <2>3 DEF Sooner
  <2>. QED  BY <1>3, <2>1, <2>4
<1>8. ASSUME NEW k \in DOMAIN answer, answer[k].overdue, Visible(mem[answer[k].id], policy),
             a.query.kinds = {} \/ "commitment" \in a.query.kinds
      PROVE  answer[k].id \in Candidates(mem, a.query, policy)
  <2>1. PICK i : i = ids[k]
    OBVIOUS
  <2>2. /\ i \in DueBy(mem, horizon) /\ answer[k].id = i
        /\ answer[k].overdue = (mem[i].deadline <= now)
    BY <1>3, <2>1
  <2>3. i \in Active(mem) /\ mem[i].kind = "commitment" /\ mem[i].deadline # NoDeadline
    BY <1>5, <2>2
  <2>4. LateCommitment(mem[i], a.query.now)
    BY <1>8, <2>2, <2>3 DEF LateCommitment, now
  <2>. QED  BY <1>8, <2>2, <2>3, <2>4, OverdueIsCandidate
<1>. QED  BY <1>6, <1>7, <1>8, Zenon DEF OverdueFirst, mem, now, policy

\* For every memory whose traces are linked as corrections link them, recall, why,
\* conflicts and commitments tell one story (recall.rs, annotate_links; why.rs;
\* claims.rs; prospective.rs).
THEOREM ReadersAlwaysAgree == ReadSpec => []ReadersAgree
<1>1. ASSUME ReadInv PROVE ReadersAgree
  <2>1. ASSUME request.command = "recall"
        PROVE  /\ LinksAgree(request.input.memory, Loaded(request.input.file))
               /\ ConflictsAgree(request.input.memory, Loaded(request.input.file))
    <3>. DEFINE l == request.input
                policy == Loaded(l.file)
    <3>1. /\ l \in Lookups \cup Lineages /\ from_json_accepts(l.file)
          /\ answer = recall(l.memory, l.query, policy)
      BY <1>1, <2>1 DEF ReadInv
    <3>. HIDE DEF policy
    <3>2. /\ MemoryType(l.memory) /\ QueryType(l.query) /\ Linked(l.memory)
          /\ DOMAIN l.memory = 1..Len(l.memory) /\ Len(l.memory) \in Nat
      BY <3>1, LookupsAre
    <3>3. PolicyType(policy)
      BY <3>1, LookupsAre DEF policy
    <3>4. LinksAgree(l.memory, policy) /\ ConflictsAgree(l.memory, policy)
      BY <3>1, <3>2, <3>3, LinksAlwaysAgree, ConflictsAlwaysAgree
    <3>. QED  BY <3>4 DEF policy
  <2>2. ASSUME request.command = "why"
        PROVE  LineageIsWhole(request.input.memory, request.input.id, Loaded(request.input.file))
    <3>1. PICK l \in Lineages : \E i \in DOMAIN l.memory :
            /\ request.input = [memory |-> l.memory, file |-> l.file, id |-> i]
            /\ answer = provenance_chain(l.memory, i, Loaded(l.file))
      BY <1>1, <2>2 DEF ReadInv
    <3>2. PICK i \in DOMAIN l.memory :
            /\ request.input = [memory |-> l.memory, file |-> l.file, id |-> i]
            /\ answer = provenance_chain(l.memory, i, Loaded(l.file))
      BY <3>1
    <3>3. Linked(l.memory)
      BY LookupsAre
    <3>. DEFINE mem == l.memory
                policy == Loaded(l.file)
                old == mem[i].supersedes
    <3>4. answer.predecessors = Predecessors(mem, i)
      BY <3>2 DEF provenance_chain
    <3>5. provenance_chain(mem, old, policy).predecessors = Predecessors(mem, old)
      BY DEF provenance_chain
    <3>. HIDE DEF mem, policy
    <3>6. Linked(mem) /\ i \in DOMAIN mem
      BY <3>3 DEF mem
    <3>7. CASE old = NoId
      <4>1. Predecessors(mem, i) = <<>>
        BY <3>6, <3>7, FirstPredecessor
      <4>2. LineageIsWhole(mem, i, policy)
        BY <3>4, <3>7, <4>1 DEF LineageIsWhole
      <4>. QED  BY <3>2, <4>2 DEF mem, policy
    <3>8. CASE old # NoId
      <4>1. old \in DOMAIN mem
        BY <3>6, <3>8, FirstPredecessor
      <4>. PICK o : o = old
        BY Zenon
      <4>. PICK older : older = Predecessors(mem, o)
        BY Zenon
      <4>2. GoesBackBy(mem, i, o, older)
        <5>1. o \in DOMAIN mem /\ o = mem[i].supersedes
          BY <4>1, Zenon
        <5>. HIDE DEF old
        <5>. QED  BY <3>6, <5>1, LineageGoesOn, Zenon
      <4>3. LineageIsWhole(mem, i, policy)
        BY <3>4, <3>5, <3>8, <4>2 DEF LineageIsWhole, GoesBackBy
      <4>. QED  BY <3>2, <4>3 DEF mem, policy
    <3>. QED  BY <3>7, <3>8
  <2>3. ASSUME request.command = "commitments" PROVE OverdueFirst(request.input)
    <3>1. /\ request.input \in Agendas
          /\ answer = commitments_due(request.input.memory, request.input.query.now,
                                      request.input.within)
      BY <1>1, <2>3 DEF ReadInv
    <3>. QED  BY <3>1, OverdueAlwaysFirst
  <2>. QED  BY <2>1, <2>2, <2>3, Zenon DEF ReadersAgree
<1>. QED  BY <1>1, AnswersFollow, PTL

-----------------------------------------------------------------------------
(* The Truth Gate: one sentence at a time *)

\* The tokens of a message; the provers do not know of a string that it is one.
Tokens == STRING \cup {".", "<insert x>", "done"}

\* w stands in m behind its first d tokens, with the end of a sentence, or of
\* the message, on either side.
Within(w, m, d) ==
  /\ w \in Seq(Tokens) /\ m \in Seq(Tokens) /\ d \in Nat /\ d + Len(w) <= Len(m)
  /\ \A k \in 1..Len(w) : m[k + d] = w[k]
  /\ d = 0 \/ m[d] = "."
  /\ d + Len(w) = Len(m) \/ m[d + Len(w) + 1] = "."

\* What there is to know of lengths.
LEMMA WithinIs ==
  ASSUME NEW w, NEW m, NEW d, Within(w, m, d), NEW i \in 1..Len(w)
  PROVE  /\ d \in Nat /\ i \in Nat /\ Len(w) \in Nat /\ Len(m) \in Nat /\ i + d \in 1..Len(m)
         /\ m[i + d] = w[i]
         /\ \A k \in 1..Len(w) : k + d \in 1..Len(m) /\ m[k + d] = w[k]
         /\ d = 0 \/ m[d] = "."
         /\ d + Len(w) = Len(m) \/ m[d + Len(w) + 1] = "."
BY DEF Within

\* The words between two places of w.
LEMMA WordsWithin ==
  ASSUME NEW w, NEW m, NEW d, Within(w, m, d), NEW from \in 1..(Len(w) + 1), NEW to \in 0..Len(w)
  PROVE  Words(m, from + d, to + d) = Words(w, from, to)
<1>1. SubSeq(m, from + d, to + d) = SubSeq(w, from, to)
  <2>1. /\ w \in Seq(Tokens) /\ m \in Seq(Tokens) /\ d \in Nat /\ d + Len(w) <= Len(m)
        /\ Len(w) \in Nat /\ Len(m) \in Nat /\ \A k \in 1..Len(w) : m[k + d] = w[k]
    BY DEF Within
  <2>2. CASE to < from
    <3>1. to + d < from + d
      BY <2>1, <2>2
    <3>. QED  BY <2>1, <2>2, <3>1
  <2>3. CASE from <= to
    <3>1. from \in 1..Len(w) /\ to \in 1..Len(w) /\ from + d \in 1..Len(m) /\ to + d \in 1..Len(m)
      BY <2>1, <2>3
    <3>2. to - from + 1 = to + d - (from + d) + 1
      BY <2>1
    <3>3. ASSUME NEW k \in 1..(to - from + 1) PROVE m[from + d + k - 1] = w[from + k - 1]
      <4>1. from + k - 1 \in 1..Len(w) /\ from + d + k - 1 = from + k - 1 + d
        BY <2>1, <3>1, <3>3
      <4>. QED  BY <2>1, <4>1
    <3>. QED  BY <2>1, <2>3, <3>1, <3>2, <3>3
  <2>. QED  BY <2>1, <2>2, <2>3
<1>. QED  BY <1>1 DEF Words

\* The word at j negates the one at i.
NegatesFrom(m, i, negators, j) ==
  /\ m[j] \in negators
  /\ Words(m, j + 1, i - 1) + Glued(m, i) < 3
  /\ \A k \in j..i : m[k] \notin SentenceEnds

LEMMA NegatedWithin ==
  ASSUME NEW w, NEW m, NEW d, Within(w, m, d), NEW i \in 1..Len(w), NEW negators
  PROVE  Negated(m, i + d, negators) <=> Negated(w, i, negators)
<1>1. /\ d \in Nat /\ i \in Nat /\ Len(w) \in Nat /\ Len(m) \in Nat /\ i <= Len(w)
      /\ \A k \in 1..Len(w) : k + d \in 1..Len(m) /\ m[k + d] = w[k]
      /\ d = 0 \/ m[d] = "."
  BY DEF Within
<1>2. Glued(m, i + d) = Glued(w, i)
  <2>1. (i + d > 1 /\ m[(i + d) - 1] = "open quote") <=> (i > 1 /\ w[i - 1] = "open quote")
    <3>1. CASE i > 1
      <4>1. i - 1 \in 1..Len(w) /\ i - 1 + d = (i + d) - 1 /\ i + d > 1
        BY <1>1, <3>1
      <4>2. m[i - 1 + d] = w[i - 1]
        BY <1>1, <4>1
      <4>. QED  BY <3>1, <4>1, <4>2
    <3>2. CASE ~ (i > 1)
      <4>1. i = 1 /\ (i + d) - 1 = d /\ (i + d > 1 => d # 0)
        BY <1>1, <3>2
      <4>. QED  BY <1>1, <3>2, <4>1
    <3>. QED  BY <3>1, <3>2
  <2>2. m[i + d] = w[i]
    BY <1>1
  <2>3. CASE w[i] = "/todo" \/ (i > 1 /\ w[i - 1] = "open quote")
    <3>1. m[i + d] = "/todo" \/ (i + d > 1 /\ m[(i + d) - 1] = "open quote")
      BY <2>1, <2>2, <2>3
    <3>2. Glued(m, i + d) = 1 /\ Glued(w, i) = 1
      BY <2>3, <3>1, Zenon DEF Glued
    <3>. QED  BY <3>2
  <2>4. CASE ~ (w[i] = "/todo" \/ (i > 1 /\ w[i - 1] = "open quote"))
    <3>1. ~ (m[i + d] = "/todo" \/ (i + d > 1 /\ m[(i + d) - 1] = "open quote"))
      BY <2>1, <2>2, <2>4
    <3>2. Glued(m, i + d) = 0 /\ Glued(w, i) = 0
      BY <2>4, <3>1, Zenon DEF Glued
    <3>. QED  BY <3>2
  <2>. QED  BY <2>3, <2>4
<1>3. ASSUME NEW j \in 1..(i - 1)
      PROVE  /\ j + d \in 1..((i + d) - 1)
             /\ NegatesFrom(m, i + d, negators, j + d) <=> NegatesFrom(w, i, negators, j)
  <2>1. j + d \in 1..((i + d) - 1) /\ m[j + d] = w[j]
    BY <1>1
  <2>2. Words(m, j + d + 1, (i + d) - 1) = Words(w, j + 1, i - 1)
    <3>1. j + 1 \in 1..(Len(w) + 1) /\ i - 1 \in 0..Len(w) /\ j + 1 + d = j + d + 1 /\ i - 1 + d = (i + d) - 1
      BY <1>1
    <3>2. Words(m, j + 1 + d, i - 1 + d) = Words(w, j + 1, i - 1)
      BY <3>1, WordsWithin
    <3>. QED  BY <3>1, <3>2
  <2>3. ASSUME NEW k \in j..i PROVE k + d \in (j + d)..(i + d) /\ m[k + d] = w[k]
    BY <1>1
  <2>4. ASSUME NEW k \in (j + d)..(i + d) PROVE k - d \in j..i /\ m[k] = w[k - d]
    <3>1. k - d \in j..i /\ k - d \in 1..Len(w) /\ k - d + d = k
      BY <1>1
    <3>2. m[k - d + d] = w[k - d]
      BY <1>1, <3>1
    <3>. QED  BY <3>1, <3>2
  <2>5. (\A k \in (j + d)..(i + d) : m[k] \notin SentenceEnds)
          <=> (\A k \in j..i : w[k] \notin SentenceEnds)
    BY <2>3, <2>4
  <2>6. Words(m, j + d + 1, (i + d) - 1) + Glued(m, i + d) = Words(w, j + 1, i - 1) + Glued(w, i)
    BY <1>2, <2>2
  <2>7. NegatesFrom(m, i + d, negators, j + d) <=>
          /\ m[j + d] \in negators
          /\ Words(m, j + d + 1, (i + d) - 1) + Glued(m, i + d) < 3
          /\ \A k \in (j + d)..(i + d) : m[k] \notin SentenceEnds
    BY Zenon DEF NegatesFrom
  <2>8. NegatesFrom(w, i, negators, j) <=>
          /\ w[j] \in negators
          /\ Words(w, j + 1, i - 1) + Glued(w, i) < 3
          /\ \A k \in j..i : w[k] \notin SentenceEnds
    BY Zenon DEF NegatesFrom
  <2>. QED  BY <2>1, <2>5, <2>6, <2>7, <2>8, Zenon
<1>4. \A x, k : Negated(x, k, negators) <=> \E j \in 1..(k - 1) : NegatesFrom(x, k, negators, j)
  BY Zenon DEF Negated, NegatesFrom
<1>5. ASSUME NEW n \in 1..((i + d) - 1), NegatesFrom(m, i + d, negators, n)
      PROVE  \E j \in 1..(i - 1) : n = j + d
  <2>1. n > d
    <3>. SUFFICES ASSUME n <= d PROVE FALSE
      BY <1>1
    <3>1. d \in n..(i + d) /\ d # 0
      BY <1>1
    <3>2. m[d] \notin SentenceEnds
      BY <1>5, <3>1 DEF NegatesFrom
    <3>. QED  BY <1>1, <3>1, <3>2 DEF SentenceEnds
  <2>2. n - d \in 1..(i - 1) /\ n = n - d + d
    BY <1>1, <2>1
  <2>. QED  BY <2>2
<1>6. ASSUME Negated(m, i + d, negators) PROVE Negated(w, i, negators)
  <2>1. PICK n \in 1..((i + d) - 1) : NegatesFrom(m, i + d, negators, n)
    BY <1>4, <1>6
  <2>2. PICK j \in 1..(i - 1) : n = j + d
    BY <1>5, <2>1
  <2>3. NegatesFrom(w, i, negators, j)
    BY <1>3, <2>1, <2>2
  <2>. QED  BY <1>4, <2>3
<1>7. ASSUME Negated(w, i, negators) PROVE Negated(m, i + d, negators)
  <2>1. PICK j \in 1..(i - 1) : NegatesFrom(w, i, negators, j)
    BY <1>4, <1>7
  <2>2. j + d \in 1..((i + d) - 1) /\ NegatesFrom(m, i + d, negators, j + d)
    BY <1>3, <2>1
  <2>. QED  BY <1>4, <2>2
<1>. QED  BY <1>6, <1>7

-----------------------------------------------------------------------------

\* A token of A ahead of i, or behind it, with tokens of B only in between.
Ahead(m, i, A, B) ==
  \E j \in (i + 1)..Len(m) : m[j] \in A /\ \A k \in (i + 1)..(j - 1) : m[k] \in B

Behind(m, i, A, B) ==
  \E j \in 1..(i - 1) : m[j] \in A /\ \A k \in (j + 1)..(i - 1) : m[k] \in B

LEMMA AheadWithin ==
  ASSUME NEW w, NEW m, NEW d, Within(w, m, d), NEW i \in 1..Len(w),
         NEW A, NEW B, "." \notin A, "." \notin B
  PROVE  Ahead(m, i + d, A, B) <=> Ahead(w, i, A, B)
<1>1. /\ d \in Nat /\ i \in Nat /\ Len(w) \in Nat /\ Len(m) \in Nat /\ i <= Len(w)
      /\ \A k \in 1..Len(w) : k + d \in 1..Len(m) /\ m[k + d] = w[k]
      /\ d + Len(w) = Len(m) \/ m[d + Len(w) + 1] = "."
      /\ d + Len(w) <= Len(m)
  BY DEF Within
<1>2. ASSUME NEW j \in (i + 1)..Len(w)
      PROVE  /\ j + d \in (i + d + 1)..Len(m) /\ m[j + d] = w[j]
             /\ (\A k \in (i + d + 1)..((j + d) - 1) : m[k] \in B) <=> (\A k \in (i + 1)..(j - 1) : w[k] \in B)
  <2>1. j + d \in (i + d + 1)..Len(m) /\ m[j + d] = w[j]
    BY <1>1
  <2>2. ASSUME NEW k \in (i + 1)..(j - 1) PROVE k + d \in (i + d + 1)..((j + d) - 1) /\ m[k + d] = w[k]
    BY <1>1
  <2>3. ASSUME NEW k \in (i + d + 1)..((j + d) - 1) PROVE k - d \in (i + 1)..(j - 1) /\ m[k] = w[k - d]
    <3>1. k - d \in (i + 1)..(j - 1) /\ k - d \in 1..Len(w) /\ (k - d) + d = k
      BY <1>1
    <3>2. m[(k - d) + d] = w[k - d]
      BY <1>1, <3>1
    <3>. QED  BY <3>1, <3>2
  <2>. QED  BY <2>1, <2>2, <2>3
<1>3. ASSUME NEW n \in (i + d + 1)..Len(m), m[n] \in A,
             \A k \in (i + d + 1)..(n - 1) : m[k] \in B
      PROVE  \E j \in (i + 1)..Len(w) : n = j + d
  <2>1. n <= d + Len(w)
    <3>. SUFFICES ASSUME n > d + Len(w) PROVE FALSE
      BY <1>1
    <3>1. m[d + Len(w) + 1] = "." /\ d + Len(w) + 1 \in (i + d + 1)..n
      BY <1>1
    <3>2. d + Len(w) + 1 # n
      BY <1>3, <3>1
    <3>3. d + Len(w) + 1 \in (i + d + 1)..(n - 1)
      BY <1>1, <3>1, <3>2
    <3>. QED  BY <1>3, <3>1, <3>3
  <2>2. n - d \in (i + 1)..Len(w) /\ n = (n - d) + d
    BY <1>1, <2>1
  <2>. QED  BY <2>2
<1>4. ASSUME Ahead(m, i + d, A, B) PROVE Ahead(w, i, A, B)
  <2>1. PICK n \in (i + d + 1)..Len(m) : m[n] \in A /\ \A k \in (i + d + 1)..(n - 1) : m[k] \in B
    BY <1>4 DEF Ahead
  <2>2. PICK j \in (i + 1)..Len(w) : n = j + d
    BY <1>3, <2>1
  <2>3. w[j] \in A /\ \A k \in (i + 1)..(j - 1) : w[k] \in B
    BY <1>2, <2>1, <2>2
  <2>. QED  BY <2>3 DEF Ahead
<1>5. ASSUME Ahead(w, i, A, B) PROVE Ahead(m, i + d, A, B)
  <2>1. PICK j \in (i + 1)..Len(w) : w[j] \in A /\ \A k \in (i + 1)..(j - 1) : w[k] \in B
    BY <1>5 DEF Ahead
  <2>2. j + d \in (i + d + 1)..Len(m) /\ m[j + d] \in A /\ \A k \in (i + d + 1)..((j + d) - 1) : m[k] \in B
    BY <1>2, <2>1
  <2>. QED  BY <2>2 DEF Ahead
<1>. QED  BY <1>4, <1>5

LEMMA BehindWithin ==
  ASSUME NEW w, NEW m, NEW d, Within(w, m, d), NEW i \in 1..Len(w),
         NEW A, NEW B, "." \notin A, "." \notin B
  PROVE  Behind(m, i + d, A, B) <=> Behind(w, i, A, B)
<1>1. /\ d \in Nat /\ i \in Nat /\ Len(w) \in Nat /\ Len(m) \in Nat /\ i <= Len(w)
      /\ \A k \in 1..Len(w) : k + d \in 1..Len(m) /\ m[k + d] = w[k]
      /\ d = 0 \/ m[d] = "."
  BY DEF Within
<1>2. ASSUME NEW j \in 1..(i - 1)
      PROVE  /\ j + d \in 1..((i + d) - 1) /\ m[j + d] = w[j]
             /\ (\A k \in (j + d + 1)..((i + d) - 1) : m[k] \in B) <=> (\A k \in (j + 1)..(i - 1) : w[k] \in B)
  <2>1. j + d \in 1..((i + d) - 1) /\ m[j + d] = w[j]
    BY <1>1
  <2>2. ASSUME NEW k \in (j + 1)..(i - 1) PROVE k + d \in (j + d + 1)..((i + d) - 1) /\ m[k + d] = w[k]
    BY <1>1
  <2>3. ASSUME NEW k \in (j + d + 1)..((i + d) - 1) PROVE k - d \in (j + 1)..(i - 1) /\ m[k] = w[k - d]
    <3>1. k - d \in (j + 1)..(i - 1) /\ k - d \in 1..Len(w) /\ (k - d) + d = k
      BY <1>1
    <3>2. m[(k - d) + d] = w[k - d]
      BY <1>1, <3>1
    <3>. QED  BY <3>1, <3>2
  <2>. QED  BY <2>1, <2>2, <2>3
<1>3. ASSUME NEW n \in 1..((i + d) - 1), m[n] \in A,
             \A k \in (n + 1)..((i + d) - 1) : m[k] \in B
      PROVE  \E j \in 1..(i - 1) : n = j + d
  <2>1. n > d
    <3>. SUFFICES ASSUME n <= d PROVE FALSE
      BY <1>1
    <3>1. m[d] = "."
      BY <1>1
    <3>2. d # n
      BY <1>3, <3>1
    <3>3. d \in (n + 1)..((i + d) - 1)
      BY <1>1, <3>2
    <3>. QED  BY <1>3, <3>1, <3>3
  <2>2. n - d \in 1..(i - 1) /\ n = (n - d) + d
    BY <1>1, <2>1
  <2>. QED  BY <2>2
<1>4. ASSUME Behind(m, i + d, A, B) PROVE Behind(w, i, A, B)
  <2>1. PICK n \in 1..((i + d) - 1) : m[n] \in A /\ \A k \in (n + 1)..((i + d) - 1) : m[k] \in B
    BY <1>4 DEF Behind
  <2>2. PICK j \in 1..(i - 1) : n = j + d
    BY <1>3, <2>1
  <2>3. w[j] \in A /\ \A k \in (j + 1)..(i - 1) : w[k] \in B
    BY <1>2, <2>1, <2>2
  <2>. QED  BY <2>3 DEF Behind
<1>5. ASSUME Behind(w, i, A, B) PROVE Behind(m, i + d, A, B)
  <2>1. PICK j \in 1..(i - 1) : w[j] \in A /\ \A k \in (j + 1)..(i - 1) : w[k] \in B
    BY <1>5 DEF Behind
  <2>2. j + d \in 1..((i + d) - 1) /\ m[j + d] \in A /\ \A k \in (j + d + 1)..((i + d) - 1) : m[k] \in B
    BY <1>2, <2>1
  <2>. QED  BY <2>2 DEF Behind
<1>. QED  BY <1>4, <1>5

-----------------------------------------------------------------------------

LEMMA NextIs ==
  ASSUME NEW m \in Seq(Tokens), NEW i \in 1..Len(m), NEW words
  PROVE  NextIn(m, i, words) <=> Ahead(m, i, words \ Quotes, Quotes)
<1>. DEFINE J == {j \in (i + 1)..(Len(m) + 1) : j > Len(m) \/ m[j] \notin Quotes}
            n == NextOf(m, i)
<1>0. Len(m) \in Nat /\ i \in Nat /\ i <= Len(m)
  OBVIOUS
<1>1. n \in J /\ \A j \in J : n <= j
  <2>1. J \in SUBSET Nat /\ Len(m) + 1 \in J
    BY <1>0
  <2>2. n = Min(J)
    BY DEF NextOf
  <2>. HIDE DEF J, n
  <2>. QED  BY <2>1, <2>2, MinOf
<1>. HIDE DEF n
<1>2. NextIn(m, i, words) <=> n <= Len(m) /\ m[n] \in words
  BY DEF NextIn, n
<1>3. n \in (i + 1)..(Len(m) + 1) /\ (n > Len(m) \/ m[n] \notin Quotes)
  BY <1>1
<1>4. ASSUME NEW k \in (i + 1)..(n - 1) PROVE k <= Len(m) /\ m[k] \in Quotes
  <2>1. k \in (i + 1)..(Len(m) + 1) /\ k <= Len(m) /\ ~ (n <= k)
    BY <1>0, <1>3
  <2>2. k \notin J
    BY <1>1, <2>1
  <2>. QED  BY <2>1, <2>2
<1>5. ASSUME n <= Len(m), m[n] \in words PROVE Ahead(m, i, words \ Quotes, Quotes)
  <2>1. n \in (i + 1)..Len(m) /\ m[n] \in words \ Quotes
    BY <1>0, <1>3, <1>5
  <2>. QED  BY <1>4, <2>1 DEF Ahead
<1>6. ASSUME Ahead(m, i, words \ Quotes, Quotes) PROVE n <= Len(m) /\ m[n] \in words
  <2>1. PICK j \in (i + 1)..Len(m) : m[j] \in words \ Quotes /\ \A k \in (i + 1)..(j - 1) : m[k] \in Quotes
    BY <1>6 DEF Ahead
  <2>2. j \in J
    BY <1>0, <2>1
  <2>3. n <= j
    BY <1>1, <2>2
  <2>4. n = j
    <3>. SUFFICES ASSUME n # j PROVE FALSE
      OBVIOUS
    <3>1. n \in (i + 1)..(j - 1) /\ ~ (n > Len(m))
      BY <1>0, <1>3, <2>3
    <3>. QED  BY <1>3, <2>1, <3>1
  <2>. QED  BY <1>0, <2>1, <2>4
<1>. QED  BY <1>2, <1>5, <1>6

LEMMA PreviousIs ==
  ASSUME NEW m \in Seq(Tokens), NEW i \in 1..Len(m), NEW words
  PROVE  PreviousIn(m, i, words) <=> Behind(m, i, words \ Quotes, Quotes)
<1>. DEFINE J == {j \in 0..(i - 1) : j = 0 \/ m[j] \notin Quotes}
            n == PreviousOf(m, i)
<1>0. Len(m) \in Nat /\ i \in Nat /\ i >= 1
  OBVIOUS
<1>1. n \in J /\ \A j \in J : j <= n
  <2>0. 0 \in Int /\ i - 1 \in Int
    BY <1>0
  <2>4. IsFiniteSet(0..(i - 1))
    BY <2>0, FS_Interval
  <2>1. J \subseteq 0..(i - 1) /\ 0 \in J /\ J \subseteq Int
    BY <1>0
  <2>2. n = Max(J)
    BY DEF PreviousOf
  <2>. HIDE DEF J, n
  <2>3. IsFiniteSet(J)
    BY <2>1, <2>4, FS_Subset
  <2>. QED  BY <2>1, <2>2, <2>3, MaxOf
<1>. HIDE DEF n
<1>2. PreviousIn(m, i, words) <=> n >= 1 /\ m[n] \in words
  BY DEF PreviousIn, n
<1>3. n \in 0..(i - 1) /\ (n = 0 \/ m[n] \notin Quotes)
  BY <1>1
<1>4. ASSUME NEW k \in (n + 1)..(i - 1) PROVE m[k] \in Quotes
  <2>1. k \in 0..(i - 1) /\ ~ (k <= n)
    BY <1>0, <1>3
  <2>2. k \notin J
    BY <1>1, <2>1
  <2>. QED  BY <2>1, <2>2
<1>5. ASSUME n >= 1, m[n] \in words PROVE Behind(m, i, words \ Quotes, Quotes)
  <2>1. n \in 1..(i - 1) /\ m[n] \in words \ Quotes
    BY <1>0, <1>3, <1>5
  <2>. QED  BY <1>4, <2>1 DEF Behind
<1>6. ASSUME Behind(m, i, words \ Quotes, Quotes) PROVE n >= 1 /\ m[n] \in words
  <2>1. PICK j \in 1..(i - 1) : m[j] \in words \ Quotes /\ \A k \in (j + 1)..(i - 1) : m[k] \in Quotes
    BY <1>6 DEF Behind
  <2>2. j \in J
    BY <1>0, <2>1
  <2>3. j <= n
    BY <1>1, <2>2
  <2>4. n = j
    <3>. SUFFICES ASSUME n # j PROVE FALSE
      OBVIOUS
    <3>1. n \in (j + 1)..(i - 1) /\ n # 0
      BY <1>0, <1>3, <2>3
    <3>. QED  BY <1>3, <2>1, <3>1
  <2>. QED  BY <1>0, <2>1, <2>4
<1>. QED  BY <1>2, <1>5, <1>6

LEMMA ClauseTailIs ==
  ASSUME NEW m \in Seq(Tokens), NEW i \in 1..Len(m), NEW j
  PROVE  j \in ClauseTail(m, i) <=>
           j \in (i + 1)..Len(m) /\ \A k \in (i + 1)..j : m[k] \notin ClauseEnds
<1>. DEFINE J == {k \in (i + 1)..(Len(m) + 1) : k > Len(m) \/ m[k] \in ClauseEnds}
            n == Min(J)
<1>0. Len(m) \in Nat /\ i \in Nat /\ i <= Len(m)
  OBVIOUS
<1>1. n \in J /\ \A k \in J : n <= k
  <2>1. J \in SUBSET Nat /\ Len(m) + 1 \in J
    BY <1>0
  <2>. HIDE DEF J
  <2>. QED  BY <2>1, MinOf
<1>2. ClauseTail(m, i) = (i + 1)..(n - 1)
  BY DEF ClauseTail
<1>. HIDE DEF n
<1>3. n \in (i + 1)..(Len(m) + 1) /\ (n > Len(m) \/ m[n] \in ClauseEnds)
  BY <1>1
<1>4. ASSUME NEW k \in (i + 1)..(n - 1) PROVE k <= Len(m) /\ m[k] \notin ClauseEnds
  <2>1. k \in (i + 1)..(Len(m) + 1) /\ k <= Len(m) /\ ~ (n <= k)
    BY <1>0, <1>3
  <2>2. k \notin J
    BY <1>1, <2>1
  <2>. QED  BY <2>1, <2>2
<1>5. ASSUME j \in (i + 1)..(n - 1)
      PROVE  j \in (i + 1)..Len(m) /\ \A k \in (i + 1)..j : m[k] \notin ClauseEnds
  <2>1. j \in (i + 1)..Len(m)
    BY <1>0, <1>4, <1>5
  <2>2. \A k \in (i + 1)..j : k \in (i + 1)..(n - 1)
    BY <1>0, <1>3, <1>5
  <2>. QED  BY <1>4, <2>1, <2>2
<1>6. ASSUME j \in (i + 1)..Len(m), \A k \in (i + 1)..j : m[k] \notin ClauseEnds
      PROVE  j \in (i + 1)..(n - 1)
  <2>. SUFFICES ASSUME n <= j PROVE FALSE
    BY <1>0, <1>3, <1>6
  <2>1. n \in (i + 1)..j /\ ~ (n > Len(m))
    BY <1>0, <1>3, <1>6
  <2>. QED  BY <1>3, <1>6, <2>1
<1>. QED  BY <1>2, <1>5, <1>6

LEMMA ClauseHeadIs ==
  ASSUME NEW m \in Seq(Tokens), NEW i \in 1..Len(m), NEW j
  PROVE  j \in ClauseHead(m, i) <=>
           j \in 1..(i - 1) /\ \A k \in j..(i - 1) : m[k] \notin ClauseEnds
<1>. DEFINE J == {k \in 0..(i - 1) : k = 0 \/ m[k] \in ClauseEnds}
            n == Max(J)
<1>0. Len(m) \in Nat /\ i \in Nat /\ i >= 1
  OBVIOUS
<1>1. n \in J /\ \A k \in J : k <= n
  <2>0. 0 \in Int /\ i - 1 \in Int
    BY <1>0
  <2>4. IsFiniteSet(0..(i - 1))
    BY <2>0, FS_Interval
  <2>1. J \subseteq 0..(i - 1) /\ 0 \in J /\ J \subseteq Int
    BY <1>0
  <2>. HIDE DEF J
  <2>2. IsFiniteSet(J)
    BY <2>1, <2>4, FS_Subset
  <2>. QED  BY <2>1, <2>2, MaxOf
<1>2. ClauseHead(m, i) = (n + 1)..(i - 1)
  BY DEF ClauseHead
<1>. HIDE DEF n
<1>3. n \in 0..(i - 1) /\ (n = 0 \/ m[n] \in ClauseEnds)
  BY <1>1
<1>4. ASSUME NEW k \in (n + 1)..(i - 1) PROVE k \in 1..(i - 1) /\ m[k] \notin ClauseEnds
  <2>1. k \in 1..(i - 1) /\ k \in 0..(i - 1) /\ ~ (k <= n)
    BY <1>0, <1>3
  <2>2. k \notin J
    BY <1>1, <2>1
  <2>. QED  BY <2>1, <2>2
<1>5. ASSUME j \in (n + 1)..(i - 1)
      PROVE  j \in 1..(i - 1) /\ \A k \in j..(i - 1) : m[k] \notin ClauseEnds
  <2>1. j \in 1..(i - 1)
    BY <1>4, <1>5
  <2>2. \A k \in j..(i - 1) : k \in (n + 1)..(i - 1)
    BY <1>0, <1>3, <1>5
  <2>. QED  BY <1>4, <2>1, <2>2
<1>6. ASSUME j \in 1..(i - 1), \A k \in j..(i - 1) : m[k] \notin ClauseEnds
      PROVE  j \in (n + 1)..(i - 1)
  <2>. SUFFICES ASSUME j <= n PROVE FALSE
    BY <1>0, <1>3, <1>6
  <2>1. n \in j..(i - 1) /\ n # 0
    BY <1>0, <1>3, <1>6
  <2>. QED  BY <1>3, <1>6, <2>1
<1>. QED  BY <1>2, <1>5, <1>6

LEMMA OpenIs ==
  ASSUME NEW m \in Seq(Tokens), NEW i \in 1..Len(m)
  PROVE  /\ OpenAfter(m, i) <=> Ahead(m, i, {StillOpen}, Tokens \ ClauseEnds)
         /\ OpenAround(m, i) <=> OpenAfter(m, i) \/ Behind(m, i, {StillOpen}, Tokens \ ClauseEnds)
         /\ ResolvedAfter(m, i) <=>
              Ahead(m, i, {Resolution},
                    Tokens \ (ClauseEnds \cup {",", "and", "but", "let me know and"}))
<1>0. Len(m) \in Nat /\ i \in Nat /\ i <= Len(m) /\ i >= 1 /\ \A k \in 1..Len(m) : m[k] \in Tokens
  OBVIOUS
<1>1. StillOpen \notin ClauseEnds /\ Resolution \notin ClauseEnds \cup {",", "and", "but", "let me know and"}
  BY DEF StillOpen, ClauseEnds, Resolution
<1>2. ASSUME NEW a, NEW C, ClauseEnds \subseteq C, a \notin C
      PROVE  (\E j \in ClauseTail(m, i) : m[j] = a /\ \A k \in (i + 1)..j : m[k] \notin C)
               <=> Ahead(m, i, {a}, Tokens \ C)
  <2>1. ASSUME NEW j \in ClauseTail(m, i), m[j] = a, \A k \in (i + 1)..j : m[k] \notin C
        PROVE  Ahead(m, i, {a}, Tokens \ C)
    <3>1. j \in (i + 1)..Len(m)
      BY ClauseTailIs
    <3>2. \A k \in (i + 1)..(j - 1) : k \in (i + 1)..j /\ k \in 1..Len(m)
      BY <1>0, <3>1
    <3>. QED  BY <1>0, <2>1, <3>1, <3>2 DEF Ahead
  <2>2. ASSUME Ahead(m, i, {a}, Tokens \ C)
        PROVE  \E j \in ClauseTail(m, i) : m[j] = a /\ \A k \in (i + 1)..j : m[k] \notin C
    <3>1. PICK j \in (i + 1)..Len(m) : m[j] = a /\ \A k \in (i + 1)..(j - 1) : m[k] \in Tokens \ C
      BY <2>2 DEF Ahead
    <3>2. \A k \in (i + 1)..j : m[k] \notin C
      <4>1. \A k \in (i + 1)..j : k \in (i + 1)..(j - 1) \/ k = j
        BY <1>0
      <4>. QED  BY <1>2, <3>1, <4>1
    <3>3. j \in ClauseTail(m, i)
      BY <1>2, <3>2, ClauseTailIs
    <3>. QED  BY <3>1, <3>2, <3>3
  <2>. QED  BY <2>1, <2>2
<1>3. OpenAfter(m, i) <=> Ahead(m, i, {StillOpen}, Tokens \ ClauseEnds)
  <2>1. \A j \in ClauseTail(m, i) : \A k \in (i + 1)..j : m[k] \notin ClauseEnds
    BY ClauseTailIs
  <2>2. (\E j \in ClauseTail(m, i) : m[j] = StillOpen /\ \A k \in (i + 1)..j : m[k] \notin ClauseEnds)
          <=> Ahead(m, i, {StillOpen}, Tokens \ ClauseEnds)
    BY <1>1, <1>2
  <2>. QED  BY <2>1, <2>2 DEF OpenAfter
<1>4. (\E j \in ClauseHead(m, i) : m[j] = StillOpen) <=> Behind(m, i, {StillOpen}, Tokens \ ClauseEnds)
  <2>1. ASSUME NEW j \in ClauseHead(m, i), m[j] = StillOpen
        PROVE  Behind(m, i, {StillOpen}, Tokens \ ClauseEnds)
    <3>1. j \in 1..(i - 1) /\ \A k \in j..(i - 1) : m[k] \notin ClauseEnds
      BY ClauseHeadIs
    <3>2. \A k \in (j + 1)..(i - 1) : k \in j..(i - 1) /\ k \in 1..Len(m)
      BY <1>0, <3>1
    <3>. QED  BY <1>0, <2>1, <3>1, <3>2 DEF Behind
  <2>2. ASSUME Behind(m, i, {StillOpen}, Tokens \ ClauseEnds)
        PROVE  \E j \in ClauseHead(m, i) : m[j] = StillOpen
    <3>1. PICK j \in 1..(i - 1) : m[j] = StillOpen /\ \A k \in (j + 1)..(i - 1) : m[k] \in Tokens \ ClauseEnds
      BY <2>2 DEF Behind
    <3>2. \A k \in j..(i - 1) : m[k] \notin ClauseEnds
      <4>1. \A k \in j..(i - 1) : k \in (j + 1)..(i - 1) \/ k = j
        BY <1>0
      <4>. QED  BY <1>1, <3>1, <4>1
    <3>3. j \in ClauseHead(m, i)
      BY <3>2, ClauseHeadIs
    <3>. QED  BY <3>1, <3>3
  <2>. QED  BY <2>1, <2>2
<1>5. ResolvedAfter(m, i) <=>
        Ahead(m, i, {Resolution}, Tokens \ (ClauseEnds \cup {",", "and", "but", "let me know and"}))
  <2>. DEFINE C == ClauseEnds \cup {",", "and", "but", "let me know and"}
  <2>1. \A j \in ClauseTail(m, i) : \A k \in (i + 1)..j : m[k] \notin ClauseEnds
    BY ClauseTailIs
  <2>2. (\E j \in ClauseTail(m, i) : m[j] = Resolution /\ \A k \in (i + 1)..j : m[k] \notin C)
          <=> Ahead(m, i, {Resolution}, Tokens \ C)
    <3>. HIDE DEF C
    <3>1. ClauseEnds \subseteq C /\ Resolution \notin C
      BY <1>1 DEF C
    <3>. QED  BY <1>2, <3>1
  <2>. QED  BY <2>1, <2>2 DEF ResolvedAfter
<1>. QED  BY <1>3, <1>4, <1>5 DEF OpenAround

\* Whether the token right before another one, or right after it, is one that
\* ends no sentence.
RightBefore(m, i, t) == i > 1 /\ m[i - 1] = t

RightAfter(m, i, t) == i < Len(m) /\ m[i + 1] = t

LEMMA NeighboursWithin ==
  ASSUME NEW w, NEW m, NEW d, Within(w, m, d), NEW i \in 1..Len(w), NEW t, t # "."
  PROVE  /\ RightBefore(m, i + d, t) <=> RightBefore(w, i, t)
         /\ RightAfter(m, i + d, t) <=> RightAfter(w, i, t)
<1>1. /\ d \in Nat /\ i \in Nat /\ Len(w) \in Nat /\ Len(m) \in Nat /\ i <= Len(w) /\ i >= 1
      /\ \A k \in 1..Len(w) : k + d \in 1..Len(m) /\ m[k + d] = w[k]
      /\ d = 0 \/ m[d] = "."
      /\ d + Len(w) = Len(m) \/ m[d + Len(w) + 1] = "."
  BY DEF Within
<1>2. (i + d > 1 /\ m[(i + d) - 1] = t) <=> (i > 1 /\ w[i - 1] = t)
  <2>1. CASE i > 1
    <3>1. i - 1 \in 1..Len(w) /\ (i - 1) + d = (i + d) - 1 /\ i + d > 1
      BY <1>1, <2>1
    <3>2. m[(i - 1) + d] = w[i - 1]
      BY <1>1, <3>1
    <3>. QED  BY <2>1, <3>1, <3>2
  <2>2. CASE ~ (i > 1)
    <3>1. (i + d) - 1 = d /\ (i + d > 1 => d # 0)
      BY <1>1, <2>2
    <3>. QED  BY <1>1, <2>2, <3>1
  <2>. QED  BY <2>1, <2>2
<1>3. (i + d < Len(m) /\ m[i + d + 1] = t) <=> (i < Len(w) /\ w[i + 1] = t)
  <2>1. CASE i < Len(w)
    <3>1. i + 1 \in 1..Len(w) /\ (i + 1) + d = i + d + 1
      BY <1>1, <2>1
    <3>2. (i + 1) + d \in 1..Len(m) /\ m[(i + 1) + d] = w[i + 1]
      BY <1>1, <3>1
    <3>3. i + d < Len(m)
      BY <1>1, <3>1, <3>2
    <3>. QED  BY <2>1, <3>1, <3>2, <3>3
  <2>2. CASE ~ (i < Len(w))
    <3>1. i + d + 1 = d + Len(w) + 1 /\ (i + d < Len(m) => d + Len(w) # Len(m))
      <4>1. d \in Nat /\ i \in Nat /\ Len(w) \in Nat /\ Len(m) \in Nat /\ i = Len(w)
        BY <1>1, <2>2
      <4>. QED  BY ONLY <4>1
    <3>. QED  BY <1>1, <2>2, <3>1
  <2>. QED  BY <2>1, <2>2
<1>. QED  BY <1>2, <1>3 DEF RightBefore, RightAfter

\* The form control at j owns the placeholder at i.
OwnsFrom(m, i, j) ==
  /\ m[j] \in PLACEHOLDER_INPUT_OWNERS
  /\ \A k \in (j + 1)..(i - 1) : m[k] \in Quotes \cup PLACEHOLDER_OWNER_FILLERS
  /\ Words(m, j, i - 1) <= PLACEHOLDER_OWNER_REACH

LEMMA OwnedWithin ==
  ASSUME NEW w, NEW m, NEW d, Within(w, m, d), NEW i \in 1..Len(w)
  PROVE  InputOwns(m, i + d) <=> InputOwns(w, i)
<1>. DEFINE B == Quotes \cup PLACEHOLDER_OWNER_FILLERS
<1>1. /\ d \in Nat /\ i \in Nat /\ Len(w) \in Nat /\ Len(m) \in Nat /\ i <= Len(w)
      /\ \A k \in 1..Len(w) : k + d \in 1..Len(m) /\ m[k + d] = w[k]
      /\ d = 0 \/ m[d] = "."
  BY DEF Within
<1>2. "." \notin B /\ "." \notin PLACEHOLDER_INPUT_OWNERS
  BY DEF Quotes, PLACEHOLDER_OWNER_FILLERS, PLACEHOLDER_INPUT_OWNERS
<1>3. \A x, k, j : OwnsFrom(x, k, j) <=>
        /\ x[j] \in PLACEHOLDER_INPUT_OWNERS
        /\ \A l \in (j + 1)..(k - 1) : x[l] \in B
        /\ Words(x, j, k - 1) <= PLACEHOLDER_OWNER_REACH
  BY Zenon DEF OwnsFrom, B
<1>. HIDE DEF B
<1>4. ASSUME NEW j \in 1..(i - 1)
      PROVE  j + d \in 1..((i + d) - 1) /\ (OwnsFrom(m, i + d, j + d) <=> OwnsFrom(w, i, j))
  <2>1. j + d \in 1..((i + d) - 1) /\ m[j + d] = w[j]
    BY <1>1
  <2>2. Words(m, j + d, (i + d) - 1) = Words(w, j, i - 1)
    <3>1. j \in 1..(Len(w) + 1) /\ i - 1 \in 0..Len(w) /\ (i - 1) + d = (i + d) - 1
      BY <1>1
    <3>2. Words(m, j + d, (i - 1) + d) = Words(w, j, i - 1)
      BY <3>1, WordsWithin
    <3>. QED  BY <3>1, <3>2
  <2>3. ASSUME NEW k \in (j + 1)..(i - 1) PROVE k + d \in (j + d + 1)..((i + d) - 1) /\ m[k + d] = w[k]
    BY <1>1
  <2>4. ASSUME NEW k \in (j + d + 1)..((i + d) - 1) PROVE k - d \in (j + 1)..(i - 1) /\ m[k] = w[k - d]
    <3>1. k - d \in (j + 1)..(i - 1) /\ k - d \in 1..Len(w) /\ (k - d) + d = k
      BY <1>1
    <3>2. m[(k - d) + d] = w[k - d]
      BY <1>1, <3>1
    <3>. QED  BY <3>1, <3>2
  <2>5. (\A k \in (j + d + 1)..((i + d) - 1) : m[k] \in B) <=> (\A k \in (j + 1)..(i - 1) : w[k] \in B)
    BY <2>3, <2>4
  <2>6. OwnsFrom(m, i + d, j + d) <=> OwnsFrom(w, i, j)
    BY <1>3, <2>1, <2>2, <2>5, Zenon
  <2>. QED  BY <2>1, <2>6
<1>5. ASSUME NEW n \in 1..((i + d) - 1), OwnsFrom(m, i + d, n)
      PROVE  \E j \in 1..(i - 1) : n = j + d
  <2>1. n > d
    <3>. SUFFICES ASSUME n <= d PROVE FALSE
      BY <1>1
    <3>1. m[d] = "."
      BY <1>1
    <3>2. d # n
      BY <1>2, <1>3, <1>5, <3>1
    <3>3. d \in (n + 1)..((i + d) - 1)
      BY <1>1, <3>2
    <3>. QED  BY <1>2, <1>3, <1>5, <3>1, <3>3
  <2>2. n - d \in 1..(i - 1) /\ n = (n - d) + d
    BY <1>1, <2>1
  <2>. QED  BY <2>2
<1>6. \A x, k : InputOwns(x, k) <=> \E j \in 1..(k - 1) : OwnsFrom(x, k, j)
  BY Zenon DEF InputOwns, OwnsFrom
<1>7. ASSUME InputOwns(m, i + d) PROVE InputOwns(w, i)
  <2>1. PICK n \in 1..((i + d) - 1) : OwnsFrom(m, i + d, n)
    BY <1>6, <1>7
  <2>2. PICK j \in 1..(i - 1) : n = j + d
    BY <1>5, <2>1
  <2>3. OwnsFrom(w, i, j)
    BY <1>4, <2>1, <2>2
  <2>. QED  BY <1>6, <2>3
<1>8. ASSUME InputOwns(w, i) PROVE InputOwns(m, i + d)
  <2>1. PICK j \in 1..(i - 1) : OwnsFrom(w, i, j)
    BY <1>6, <1>8
  <2>2. j + d \in 1..((i + d) - 1) /\ OwnsFrom(m, i + d, j + d)
    BY <1>4, <2>1
  <2>. QED  BY <1>6, <2>2
<1>. QED  BY <1>7, <1>8

-----------------------------------------------------------------------------
(* The Truth Gate: markers *)

LEMMA OpenWithin ==
  ASSUME NEW w, NEW m, NEW d, Within(w, m, d), NEW i \in 1..Len(w)
  PROVE  /\ OpenAfter(m, i + d) <=> OpenAfter(w, i)
         /\ OpenAround(m, i + d) <=> OpenAround(w, i)
         /\ ResolvedAfter(m, i + d) <=> ResolvedAfter(w, i)
<1>. DEFINE B == Tokens \ ClauseEnds
            C == Tokens \ (ClauseEnds \cup {",", "and", "but", "let me know and"})
<1>1. i + d \in 1..Len(m) /\ m \in Seq(Tokens) /\ w \in Seq(Tokens)
  BY WithinIs DEF Within
<1>2. "." \notin B /\ "." \notin C /\ "." \notin {StillOpen} /\ "." \notin {Resolution}
  BY DEF ClauseEnds, StillOpen, Resolution
<1>3. \A x \in Seq(Tokens), k \in Nat : k \in 1..Len(x) =>
         /\ OpenAfter(x, k) <=> Ahead(x, k, {StillOpen}, B)
         /\ OpenAround(x, k) <=> OpenAfter(x, k) \/ Behind(x, k, {StillOpen}, B)
         /\ ResolvedAfter(x, k) <=> Ahead(x, k, {Resolution}, C)
  BY OpenIs
<1>. HIDE DEF B, C
<1>4. /\ Ahead(m, i + d, {StillOpen}, B) <=> Ahead(w, i, {StillOpen}, B)
      /\ Ahead(m, i + d, {Resolution}, C) <=> Ahead(w, i, {Resolution}, C)
  BY <1>2, AheadWithin
<1>5. Behind(m, i + d, {StillOpen}, B) <=> Behind(w, i, {StillOpen}, B)
  BY <1>2, BehindWithin
<1>6. i \in Nat /\ i + d \in Nat
  BY <1>1
<1>. QED  BY <1>1, <1>3, <1>4, <1>5, <1>6

LEMMA WordsBesideWithin ==
  ASSUME NEW w, NEW m, NEW d, Within(w, m, d), NEW i \in 1..Len(w), NEW words, "." \notin words
  PROVE  /\ NextIn(m, i + d, words) <=> NextIn(w, i, words)
         /\ PreviousIn(m, i + d, words) <=> PreviousIn(w, i, words)
<1>1. i + d \in 1..Len(m) /\ m \in Seq(Tokens) /\ w \in Seq(Tokens)
  BY WithinIs DEF Within
<1>2. "." \notin Quotes /\ "." \notin words \ Quotes
  BY DEF Quotes
<1>3. /\ Ahead(m, i + d, words \ Quotes, Quotes) <=> Ahead(w, i, words \ Quotes, Quotes)
      /\ Behind(m, i + d, words \ Quotes, Quotes) <=> Behind(w, i, words \ Quotes, Quotes)
  BY <1>2, AheadWithin, BehindWithin
<1>4. /\ NextIn(m, i + d, words) <=> Ahead(m, i + d, words \ Quotes, Quotes)
      /\ NextIn(w, i, words) <=> Ahead(w, i, words \ Quotes, Quotes)
  BY <1>1, NextIs
<1>5. /\ PreviousIn(m, i + d, words) <=> Behind(m, i + d, words \ Quotes, Quotes)
      /\ PreviousIn(w, i, words) <=> Behind(w, i, words \ Quotes, Quotes)
  BY <1>1, PreviousIs
<1>. QED  BY <1>3, <1>4, <1>5

\* A marker says in a message what it says in its sentence, except that a
\* placeholder is named by a word of the next.
LEMMA MarkerWithin ==
  ASSUME NEW w, NEW m, NEW d, Within(w, m, d), NEW i \in 1..Len(w),
         m[i + d] = "placeholder" =>
           (LooseNextIn(m, i + d, PLACEHOLDER_UI_TERMS) <=> LooseNextIn(w, i, PLACEHOLDER_UI_TERMS))
  PROVE  FlagsOpenWork(m, i + d) <=> FlagsOpenWork(w, i)
<1>1. m[i + d] = w[i]
  BY WithinIs
<1>2. Negated(m, i + d, UNFINISHED_NEGATORS) <=> Negated(w, i, UNFINISHED_NEGATORS)
  BY NegatedWithin
<1>3. MarkerSyntax(m, i + d) <=> MarkerSyntax(w, i)
  <2>1. RightAfter(m, i + d, ":") <=> RightAfter(w, i, ":")
    BY NeighboursWithin
  <2>. QED  BY <1>1, <2>1, Zenon DEF MarkerSyntax, RightAfter
<1>4. InPath(m, i + d) <=> InPath(w, i)
  BY <1>1 DEF InPath
<1>5. (i + d > 1 /\ m[(i + d) - 1] = "open quote") <=> (i > 1 /\ w[i - 1] = "open quote")
  <2>1. RightBefore(m, i + d, "open quote") <=> RightBefore(w, i, "open quote")
    BY NeighboursWithin
  <2>. QED  BY <2>1, Zenon DEF RightBefore
<1>6. InputOwns(m, i + d) <=> InputOwns(w, i)
  BY OwnedWithin
<1>7. /\ OpenAfter(m, i + d) <=> OpenAfter(w, i)
      /\ OpenAround(m, i + d) <=> OpenAround(w, i)
      /\ ResolvedAfter(m, i + d) <=> ResolvedAfter(w, i)
  BY OpenWithin
<1>8. /\ PreviousIn(m, i + d, PLACEHOLDER_UI_OWNERS) <=> PreviousIn(w, i, PLACEHOLDER_UI_OWNERS)
      /\ NextIn(m, i + d, COMING_SOON_UI_TERMS) <=> NextIn(w, i, COMING_SOON_UI_TERMS)
      /\ NextIn(m, i + d, NAME_NOUNS) <=> NextIn(w, i, NAME_NOUNS)
      /\ NextIn(m, i + d, MARKER_NOUNS) <=> NextIn(w, i, MARKER_NOUNS)
  <2>1. /\ "." \notin PLACEHOLDER_UI_OWNERS /\ "." \notin COMING_SOON_UI_TERMS
        /\ "." \notin NAME_NOUNS /\ "." \notin MARKER_NOUNS
    BY DEF PLACEHOLDER_UI_OWNERS, COMING_SOON_UI_TERMS, NAME_NOUNS, MARKER_NOUNS
  <2>. QED  BY <2>1, WordsBesideWithin
<1>. QED  BY <1>1, <1>2, <1>3, <1>4, <1>5, <1>6, <1>7, <1>8 DEF FlagsOpenWork

-----------------------------------------------------------------------------
(* The Truth Gate: promises *)

\* The last token of C before i and after `from', or `from'; the first after i.
LastOf(m, from, i, C) == Max({j \in from..(i - 1) : j = from \/ m[j] \in C})

FirstOf(m, i, to, C) == Min({j \in (i + 1)..to : j = to \/ m[j] \in C})

IsLast(m, from, i, C, n) ==
  /\ n \in from..(i - 1) /\ (n = from \/ m[n] \in C)
  /\ \A k \in (n + 1)..(i - 1) : m[k] \notin C

IsFirst(m, i, to, C, n) ==
  /\ n \in (i + 1)..to /\ (n = to \/ m[n] \in C)
  /\ \A k \in (i + 1)..(n - 1) : m[k] \notin C

LEMMA LastIs ==
  ASSUME NEW m, NEW i \in Nat, NEW from \in Nat, from < i, NEW C
  PROVE  IsLast(m, from, i, C, LastOf(m, from, i, C))
<1>. DEFINE J == {j \in from..(i - 1) : j = from \/ m[j] \in C}
            n == Max(J)
<1>1. n \in J /\ \A j \in J : j <= n
  <2>1. from \in Int /\ i - 1 \in Int
    OBVIOUS
  <2>2. IsFiniteSet(from..(i - 1))
    BY <2>1, FS_Interval
  <2>3. J \subseteq from..(i - 1) /\ from \in J /\ J \subseteq Int
    OBVIOUS
  <2>. HIDE DEF J
  <2>4. IsFiniteSet(J)
    BY <2>2, <2>3, FS_Subset
  <2>. QED  BY <2>3, <2>4, MaxOf
<1>2. n = LastOf(m, from, i, C)
  BY DEF LastOf
<1>. HIDE DEF n
<1>3. n \in from..(i - 1) /\ (n = from \/ m[n] \in C)
  BY <1>1
<1>4. ASSUME NEW k \in (n + 1)..(i - 1) PROVE m[k] \notin C
  <2>1. k \in from..(i - 1) /\ ~ (k <= n)
    BY <1>3
  <2>. QED  BY <1>1, <2>1
<1>. QED  BY <1>2, <1>3, <1>4 DEF IsLast

LEMMA FirstIs ==
  ASSUME NEW m, NEW i \in Nat, NEW to \in Nat, i < to, NEW C
  PROVE  IsFirst(m, i, to, C, FirstOf(m, i, to, C))
<1>. DEFINE J == {j \in (i + 1)..to : j = to \/ m[j] \in C}
            n == Min(J)
<1>1. n \in J /\ \A j \in J : n <= j
  <2>1. J \in SUBSET Nat /\ to \in J
    OBVIOUS
  <2>. HIDE DEF J
  <2>. QED  BY <2>1, MinOf
<1>2. n = FirstOf(m, i, to, C)
  BY DEF FirstOf
<1>. HIDE DEF n
<1>3. n \in (i + 1)..to /\ (n = to \/ m[n] \in C)
  BY <1>1
<1>4. ASSUME NEW k \in (i + 1)..(n - 1) PROVE m[k] \notin C
  <2>1. k \in (i + 1)..to /\ ~ (n <= k)
    BY <1>3
  <2>. QED  BY <1>1, <2>1
<1>. QED  BY <1>2, <1>3, <1>4 DEF IsFirst

\* There is only one.
LEMMA OnlyOne ==
  ASSUME NEW m, NEW i \in Nat, NEW C
  PROVE  /\ \A from \in Nat : \A a, b : IsLast(m, from, i, C, a) /\ IsLast(m, from, i, C, b) => a = b
         /\ \A to \in Nat : \A a, b : IsFirst(m, i, to, C, a) /\ IsFirst(m, i, to, C, b) => a = b
<1>1. ASSUME NEW from \in Nat, NEW a, NEW b, IsLast(m, from, i, C, a), IsLast(m, from, i, C, b)
      PROVE  a = b
  <2>1. a \in from..(i - 1) /\ b \in from..(i - 1)
    BY <1>1 DEF IsLast
  <2>2. ~ (a < b)
    <3>. SUFFICES ASSUME a < b PROVE FALSE
      OBVIOUS
    <3>1. b \in (a + 1)..(i - 1) /\ b # from
      BY <2>1
    <3>. QED  BY <1>1, <3>1 DEF IsLast
  <2>3. ~ (b < a)
    <3>. SUFFICES ASSUME b < a PROVE FALSE
      OBVIOUS
    <3>1. a \in (b + 1)..(i - 1) /\ a # from
      BY <2>1
    <3>. QED  BY <1>1, <3>1 DEF IsLast
  <2>. QED  BY <2>1, <2>2, <2>3
<1>2. ASSUME NEW to \in Nat, NEW a, NEW b, IsFirst(m, i, to, C, a), IsFirst(m, i, to, C, b)
      PROVE  a = b
  <2>1. a \in (i + 1)..to /\ b \in (i + 1)..to
    BY <1>2 DEF IsFirst
  <2>2. ~ (a < b)
    <3>. SUFFICES ASSUME a < b PROVE FALSE
      OBVIOUS
    <3>1. a \in (i + 1)..(b - 1) /\ a # to
      BY <2>1
    <3>. QED  BY <1>2, <3>1 DEF IsFirst
  <2>3. ~ (b < a)
    <3>. SUFFICES ASSUME b < a PROVE FALSE
      OBVIOUS
    <3>1. b \in (i + 1)..(a - 1) /\ b # to
      BY <2>1
    <3>. QED  BY <1>2, <3>1 DEF IsFirst
  <2>. QED  BY <2>1, <2>2, <2>3
<1>. QED  BY <1>1, <1>2

\* Between two places of w, the last and the first are those of m.
LEMMA LastWithin ==
  ASSUME NEW w, NEW m, NEW d, Within(w, m, d), NEW i \in 1..Len(w), NEW from \in 0..(i - 1), NEW C
  PROVE  LastOf(m, from + d, i + d, C) = LastOf(w, from, i, C) + d
<1>1. /\ d \in Nat /\ i \in Nat /\ Len(w) \in Nat /\ i <= Len(w) /\ i >= 1
      /\ \A k \in 1..Len(w) : m[k + d] = w[k]
  BY DEF Within
<1>. PICK n : n = LastOf(w, from, i, C)
  OBVIOUS
<1>2. from \in Nat /\ from < i
  BY <1>1
<1>3. IsLast(w, from, i, C, n)
  BY <1>1, <1>2, LastIs
<1>4. n \in from..(i - 1) /\ (n = from \/ w[n] \in C) /\ \A k \in (n + 1)..(i - 1) : w[k] \notin C
  BY <1>3 DEF IsLast
<1>5. n + d \in (from + d)..((i + d) - 1)
  BY <1>1, <1>2, <1>4
<1>6. n + d = from + d \/ m[n + d] \in C
  <2>1. n = from \/ n \in 1..Len(w)
    BY <1>1, <1>2, <1>4
  <2>. QED  BY <1>1, <1>4, <2>1
<1>7. ASSUME NEW k \in (n + d + 1)..((i + d) - 1) PROVE m[k] \notin C
  <2>1. k - d \in (n + 1)..(i - 1) /\ k - d \in 1..Len(w) /\ (k - d) + d = k
    BY <1>1, <1>2, <1>4
  <2>2. m[(k - d) + d] = w[k - d]
    BY <1>1, <2>1
  <2>. QED  BY <1>4, <2>1, <2>2
<1>8. IsLast(m, from + d, i + d, C, n + d)
  BY <1>5, <1>6, <1>7 DEF IsLast
<1>9. i + d \in Nat /\ from + d \in Nat /\ from + d < i + d
  BY <1>1, <1>2
<1>10. IsLast(m, from + d, i + d, C, LastOf(m, from + d, i + d, C))
  BY <1>9, LastIs
<1>. QED  BY <1>8, <1>9, <1>10, OnlyOne

LEMMA FirstWithin ==
  ASSUME NEW w, NEW m, NEW d, Within(w, m, d), NEW i \in 1..Len(w),
         NEW to \in (i + 1)..(Len(w) + 1), NEW C
  PROVE  FirstOf(m, i + d, to + d, C) = FirstOf(w, i, to, C) + d
<1>1. /\ d \in Nat /\ i \in Nat /\ Len(w) \in Nat /\ i <= Len(w) /\ i >= 1
      /\ \A k \in 1..Len(w) : m[k + d] = w[k]
  BY DEF Within
<1>. PICK n : n = FirstOf(w, i, to, C)
  OBVIOUS
<1>2. to \in Nat /\ i < to /\ to <= Len(w) + 1
  BY <1>1
<1>3. IsFirst(w, i, to, C, n)
  BY <1>1, <1>2, FirstIs
<1>4. n \in (i + 1)..to /\ (n = to \/ w[n] \in C) /\ \A k \in (i + 1)..(n - 1) : w[k] \notin C
  BY <1>3 DEF IsFirst
<1>5. n + d \in (i + d + 1)..(to + d)
  BY <1>1, <1>2, <1>4
<1>6. n + d = to + d \/ m[n + d] \in C
  <2>1. n = to \/ n \in 1..Len(w)
    BY <1>1, <1>2, <1>4
  <2>. QED  BY <1>1, <1>4, <2>1
<1>7. ASSUME NEW k \in (i + d + 1)..((n + d) - 1) PROVE m[k] \notin C
  <2>1. k - d \in (i + 1)..(n - 1) /\ k - d \in 1..Len(w) /\ (k - d) + d = k
    BY <1>1, <1>2, <1>4
  <2>2. m[(k - d) + d] = w[k - d]
    BY <1>1, <2>1
  <2>. QED  BY <1>4, <2>1, <2>2
<1>8. IsFirst(m, i + d, to + d, C, n + d)
  BY <1>5, <1>6, <1>7 DEF IsFirst
<1>9. i + d \in Nat /\ to + d \in Nat /\ i + d < to + d
  BY <1>1, <1>2
<1>10. IsFirst(m, i + d, to + d, C, FirstOf(m, i + d, to + d, C))
  BY <1>9, FirstIs
<1>. QED  BY <1>8, <1>9, <1>10, OnlyOne

\* And no clause goes beyond its sentence.
LEMMA ClauseWithin ==
  ASSUME NEW w, NEW m, NEW d, Within(w, m, d), NEW i \in 1..Len(w), NEW C, "." \in C
  PROVE  /\ LastOf(m, 0, i + d, C) = LastOf(w, 0, i, C) + d
         /\ FirstOf(m, i + d, Len(m) + 1, C) = FirstOf(w, i, Len(w) + 1, C) + d
<1>1. /\ d \in Nat /\ i \in Nat /\ Len(w) \in Nat /\ Len(m) \in Nat /\ i <= Len(w) /\ i >= 1
      /\ d = 0 \/ m[d] = "."
      /\ d + Len(w) = Len(m) \/ m[d + Len(w) + 1] = "."
      /\ d + Len(w) <= Len(m)
  BY DEF Within
<1>2. /\ i + d \in Nat /\ 0 \in Nat /\ d < i + d /\ 0 < i + d
      /\ Len(m) + 1 \in Nat /\ Len(w) + 1 + d \in Nat /\ i + d < Len(m) + 1 /\ i + d < Len(w) + 1 + d
      /\ Len(w) + 1 + d <= Len(m) + 1
  BY ONLY <1>1
<1>3. LastOf(m, 0, i + d, C) = LastOf(m, d, i + d, C)
  <2>. PICK n : n = LastOf(m, d, i + d, C)
    OBVIOUS
  <2>1. IsLast(m, d, i + d, C, n)
    BY <1>1, <1>2, LastIs
  <2>2. n \in 0..((i + d) - 1) /\ (n = 0 \/ m[n] \in C)
    BY <1>1, <2>1 DEF IsLast
  <2>3. IsLast(m, 0, i + d, C, n)
    BY <2>1, <2>2 DEF IsLast
  <2>4. IsLast(m, 0, i + d, C, LastOf(m, 0, i + d, C))
    BY <1>2, LastIs
  <2>. QED  BY <1>2, <2>3, <2>4, OnlyOne
<1>4. FirstOf(m, i + d, Len(m) + 1, C) = FirstOf(m, i + d, Len(w) + 1 + d, C)
  <2>. PICK n : n = FirstOf(m, i + d, Len(w) + 1 + d, C)
    OBVIOUS
  <2>1. IsFirst(m, i + d, Len(w) + 1 + d, C, n)
    BY <1>2, FirstIs
  <2>2. n \in (i + d + 1)..(Len(w) + 1 + d) /\ (n = Len(w) + 1 + d \/ m[n] \in C)
    BY <2>1 DEF IsFirst
  <2>3. n \in (i + d + 1)..(Len(m) + 1)
    BY <1>2, <2>2
  <2>4. n = Len(m) + 1 \/ m[n] \in C
    <3>1. Len(w) + 1 + d = d + Len(w) + 1
      BY ONLY <1>1
    <3>2. CASE d + Len(w) = Len(m)
      BY <2>2, <3>1, <3>2
    <3>3. CASE d + Len(w) # Len(m)
      BY <1>1, <2>2, <3>1, <3>3
    <3>. QED  BY <3>2, <3>3
  <2>5. IsFirst(m, i + d, Len(m) + 1, C, n)
    BY <2>1, <2>3, <2>4 DEF IsFirst
  <2>6. IsFirst(m, i + d, Len(m) + 1, C, FirstOf(m, i + d, Len(m) + 1, C))
    BY <1>2, FirstIs
  <2>. QED  BY <1>2, <2>5, <2>6, OnlyOne
<1>5. LastOf(m, d, i + d, C) = LastOf(w, 0, i, C) + d
  <2>1. 0 \in 0..(i - 1) /\ 0 + d = d
    BY <1>1
  <2>2. LastOf(m, 0 + d, i + d, C) = LastOf(w, 0, i, C) + d
    BY <2>1, LastWithin
  <2>. QED  BY <2>1, <2>2
<1>6. FirstOf(m, i + d, Len(w) + 1 + d, C) = FirstOf(w, i, Len(w) + 1, C) + d
  <2>1. Len(w) + 1 \in (i + 1)..(Len(w) + 1)
    BY <1>1
  <2>. QED  BY <2>1, FirstWithin
<1>. QED  BY <1>3, <1>4, <1>5, <1>6

Bounds == ClauseEnds \cup {Promise}

Commas == {","}

\* The token that follows a comma and what joins the clause to the one before.
Resumes(m, before) == IF m[before + 1] \in {"and", "but"} THEN before + 2 ELSE before + 1

\* The words before the last comma leave the decision to the user.
OffersFirst(m, from, comma, before) ==
  /\ comma > from
  /\ Resumes(m, before) < comma
  /\ m[Resumes(m, before)] \in UserGates
  /\ \/ m[comma + 1] \notin {"and", "but"}
     \/ m[before + 1] \in {"let me know if you'd like", "let me know and"}


\* A gate between the commas around the promise, or one that opens the part of
\* the clause before it.
OfferBetween(m, from, comma, before, after) ==
  \/ \E j \in (comma + 1)..(after - 1) : m[j] \in UserGates
  \/ OffersFirst(m, from, comma, before)

LEMMA OfferIs ==
  ASSUME NEW m \in Seq(Tokens), NEW i \in 1..Len(m),
         NEW from, from = LastOf(m, 0, i, Bounds),
         NEW to, to = FirstOf(m, i, Len(m) + 1, Bounds),
         NEW comma, comma = LastOf(m, from, i, Commas)
  PROVE  /\ IsOffer(m, i) <=>
              OfferBetween(m, from, comma, LastOf(m, from, comma, Commas), FirstOf(m, i, to, Commas))
         /\ from \in 0..(i - 1) /\ to \in (i + 1)..(Len(m) + 1) /\ comma \in from..(i - 1)
         /\ FirstOf(m, i, to, Commas) \in (i + 1)..to
         /\ comma > from => LastOf(m, from, comma, Commas) \in from..(comma - 1)
         /\ \A k \in (from + 1)..(to - 1) : k = i \/ m[k] \notin Bounds
<1>0. Len(m) \in Nat /\ i \in Nat /\ 0 < i /\ i < Len(m) + 1 /\ Len(m) + 1 \in Nat
  OBVIOUS
<1>1. \A x, l, k : LastOf(x, l, k, Commas) = CommaBefore(x, k, l)
  <2>1. \A x, l, k : {j \in l..(k - 1) : j = l \/ x[j] \in Commas}
                       = {j \in l..(k - 1) : j = l \/ x[j] = ","}
    BY Zenon DEF Commas
  <2>. QED  BY <2>1, Zenon DEF LastOf, CommaBefore
<1>2. \A k : FirstOf(m, i, k, Commas) = CommaAfter(m, i, k)
  <2>1. \A k : {j \in (i + 1)..k : j = k \/ m[j] \in Commas} = {j \in (i + 1)..k : j = k \/ m[j] = ","}
    BY Zenon DEF Commas
  <2>. QED  BY <2>1, Zenon DEF FirstOf, CommaAfter
<1>3. from = Max({j \in 0..(i - 1) : j = 0 \/ m[j] \in ClauseEnds \cup {Promise}})
  BY DEF LastOf, Bounds
<1>4. to = Min({j \in (i + 1)..(Len(m) + 1) : j > Len(m) \/ m[j] \in ClauseEnds \cup {Promise}})
  <2>1. ASSUME NEW j \in (i + 1)..(Len(m) + 1) PROVE j = Len(m) + 1 <=> j > Len(m)
    BY <1>0
  <2>2. {j \in (i + 1)..(Len(m) + 1) : j > Len(m) \/ m[j] \in ClauseEnds \cup {Promise}}
          = {j \in (i + 1)..(Len(m) + 1) : j = Len(m) + 1 \/ m[j] \in ClauseEnds \cup {Promise}}
    BY <2>1
  <2>. QED  BY <2>2 DEF FirstOf, Bounds
<1>5. IsLast(m, 0, i, Bounds, from) /\ IsFirst(m, i, Len(m) + 1, Bounds, to)
  BY <1>0, LastIs, FirstIs
<1>6. from \in 0..(i - 1) /\ to \in (i + 1)..(Len(m) + 1)
  BY <1>5 DEF IsLast, IsFirst
<1>7. comma \in from..(i - 1)
  <2>1. from \in Nat /\ from < i
    BY <1>0, <1>6
  <2>. QED  BY <1>0, <2>1, LastIs DEF IsLast
<1>8. FirstOf(m, i, to, Commas) \in (i + 1)..to
  <2>1. to \in Nat /\ i < to
    BY <1>0, <1>6
  <2>. QED  BY <1>0, <2>1, FirstIs DEF IsFirst
<1>9. ASSUME comma > from PROVE LastOf(m, from, comma, Commas) \in from..(comma - 1)
  <2>1. from \in Nat /\ comma \in Nat /\ from < comma
    BY <1>6, <1>7, <1>9
  <2>. QED  BY <2>1, LastIs DEF IsLast
<1>10. ASSUME NEW k \in (from + 1)..(to - 1) PROVE k = i \/ m[k] \notin Bounds
  <2>1. k \in (from + 1)..(i - 1) \/ k = i \/ k \in (i + 1)..(to - 1)
    BY <1>0, <1>6
  <2>. QED  BY <1>5, <2>1 DEF IsLast, IsFirst
<1>11. IsOffer(m, i) <=>
         OfferBetween(m, from, comma, LastOf(m, from, comma, Commas), FirstOf(m, i, to, Commas))
  <2>1. comma = CommaBefore(m, i, from) /\ CommaBefore(m, comma, from) = LastOf(m, from, comma, Commas)
        /\ CommaAfter(m, i, to) = FirstOf(m, i, to, Commas)
    BY <1>1, <1>2
  <2>. QED  BY <1>3, <1>4, <2>1, Zenon DEF IsOffer, OfferBetween, OffersFirst, Resumes
<1>. QED  BY <1>6, <1>7, <1>8, <1>9, <1>10, <1>11

LEMMA OfferWithin ==
  ASSUME NEW w, NEW m, NEW d, Within(w, m, d), NEW i \in 1..Len(w)
  PROVE  IsOffer(m, i + d) <=> IsOffer(w, i)
<1>1. /\ d \in Nat /\ i \in Nat /\ Len(w) \in Nat /\ Len(m) \in Nat /\ i <= Len(w) /\ i >= 1
      /\ \A k \in 1..Len(w) : m[k + d] = w[k]
      /\ m \in Seq(Tokens) /\ w \in Seq(Tokens) /\ i + d \in 1..Len(m)
  <2>1. i + d \in 1..Len(m)
    BY WithinIs
  <2>. QED  BY <2>1 DEF Within
<1>. PICK from : from = LastOf(w, 0, i, Bounds)
  OBVIOUS
<1>. PICK to : to = FirstOf(w, i, Len(w) + 1, Bounds)
  OBVIOUS
<1>. PICK comma : comma = LastOf(w, from, i, Commas)
  OBVIOUS
<1>. PICK before : before = LastOf(w, from, comma, Commas)
  OBVIOUS
<1>. PICK after : after = FirstOf(w, i, to, Commas)
  OBVIOUS
<1>. PICK beforem : beforem = LastOf(m, from + d, comma + d, Commas)
  OBVIOUS
<1>2. /\ IsOffer(w, i) <=> OfferBetween(w, from, comma, before, after)
      /\ from \in 0..(i - 1) /\ to \in (i + 1)..(Len(w) + 1) /\ comma \in from..(i - 1)
      /\ after \in (i + 1)..to /\ (comma > from => before \in from..(comma - 1))
  BY <1>1, OfferIs
<1>3. from + d = LastOf(m, 0, i + d, Bounds) /\ to + d = FirstOf(m, i + d, Len(m) + 1, Bounds)
  <2>1. "." \in Bounds
    BY DEF Bounds, ClauseEnds
  <2>. QED  BY <2>1, ClauseWithin
<1>4. comma + d = LastOf(m, from + d, i + d, Commas) /\ after + d = FirstOf(m, i + d, to + d, Commas)
  BY <1>2, LastWithin, FirstWithin
<1>5. /\ d \in Nat /\ i \in Nat /\ Len(w) \in Nat /\ i <= Len(w) /\ i >= 1
      /\ from \in 0..(i - 1) /\ to \in (i + 1)..(Len(w) + 1) /\ comma \in from..(i - 1)
      /\ after \in (i + 1)..to
  BY <1>1, <1>2, Zenon
<1>6. IsOffer(m, i + d) <=> OfferBetween(m, from + d, comma + d, beforem, after + d)
  BY <1>1, <1>3, <1>4, OfferIs
<1>7. ASSUME comma > from PROVE beforem = before + d
  <2>1. comma \in 1..Len(w) /\ from \in 0..(comma - 1)
    BY ONLY <1>5, <1>7
  <2>. QED  BY <2>1, LastWithin
<1>8. (\E j \in (comma + d + 1)..((after + d) - 1) : m[j] \in UserGates)
        <=> (\E j \in (comma + 1)..(after - 1) : w[j] \in UserGates)
  <2>1. ASSUME NEW j \in (comma + 1)..(after - 1)
        PROVE  j + d \in (comma + d + 1)..((after + d) - 1) /\ m[j + d] = w[j]
    <3>1. j \in 1..Len(w) /\ j + d \in (comma + d + 1)..((after + d) - 1)
      BY ONLY <1>5, j \in (comma + 1)..(after - 1)
    <3>. QED  BY <1>1, <3>1, Zenon
  <2>2. ASSUME NEW j \in (comma + d + 1)..((after + d) - 1)
        PROVE  j - d \in (comma + 1)..(after - 1) /\ m[j] = w[j - d]
    <3>1. j - d \in (comma + 1)..(after - 1) /\ (j - d) + d = j
      BY ONLY <1>5, j \in (comma + d + 1)..((after + d) - 1)
    <3>2. m[(j - d) + d] = w[j - d]
      BY <2>1, <3>1
    <3>. QED  BY <3>1, <3>2
  <2>. QED  BY <2>1, <2>2
<1>9. OffersFirst(m, from + d, comma + d, beforem) <=> OffersFirst(w, from, comma, before)
  <2>1. comma + d > from + d <=> comma > from
    BY ONLY <1>5
  <2>2. ASSUME comma > from PROVE OffersFirst(m, from + d, comma + d, beforem) <=> OffersFirst(w, from, comma, before)
    <3>1. beforem = before + d /\ before \in from..(comma - 1)
      BY <1>2, <1>7, <2>2
    <3>2. m[beforem + 1] = w[before + 1]
      <4>1. before + 1 \in 1..Len(w) /\ (before + 1) + d = (before + d) + 1
        BY ONLY <1>5, <3>1
      <4>. QED  BY <1>1, <3>1, <4>1, Zenon
    <3>3. m[comma + d + 1] = w[comma + 1]
      <4>1. comma + 1 \in 1..Len(w) /\ (comma + 1) + d = comma + d + 1
        BY ONLY <1>5
      <4>. QED  BY <1>1, <4>1, Zenon
    <3>. PICK o : o = Resumes(w, before)
      OBVIOUS
    <3>4. Resumes(m, beforem) = o + d /\ o \in Nat /\ o >= 1
      <4>1. before \in Nat /\ d \in Nat
        BY ONLY <1>5, <3>1
      <4>2. CASE w[before + 1] \in {"and", "but"}
        <5>1. o = before + 2 /\ Resumes(m, beforem) = beforem + 2
          BY <3>2, <4>2, Zenon DEF Resumes
        <5>. QED  BY ONLY <3>1, <4>1, <5>1
      <4>3. CASE w[before + 1] \notin {"and", "but"}
        <5>1. o = before + 1 /\ Resumes(m, beforem) = beforem + 1
          BY <3>2, <4>3, Zenon DEF Resumes
        <5>. QED  BY ONLY <3>1, <4>1, <5>1
      <4>. QED  BY <4>2, <4>3
    <3>5. (o + d < comma + d <=> o < comma) /\ (o < comma => m[o + d] = w[o])
      <4>0. o \in Nat /\ o >= 1
        BY <3>4, Zenon
      <4>1. o < comma => o \in 1..Len(w)
        BY ONLY <1>5, <4>0
      <4>2. o + d < comma + d <=> o < comma
        BY ONLY <1>5, <4>0
      <4>. QED  BY <1>1, <4>1, <4>2, Zenon
    <3>. QED  BY <2>1, <3>2, <3>3, <3>4, <3>5, Zenon DEF OffersFirst
  <2>. QED  BY <2>1, <2>2, Zenon DEF OffersFirst
<1>. QED  BY <1>2, <1>6, <1>8, <1>9, Zenon DEF OfferBetween

\* A promise that is left to the user has something for the user to decide in
\* its own clause, with no other promise in between.
LEMMA OfferHasGate ==
  ASSUME NEW m \in Seq(Tokens), NEW i \in 1..Len(m), IsOffer(m, i)
  PROVE  \E j \in 1..Len(m) :
           /\ m[j] \in UserGates
           /\ \A k \in (Min({i, j}) + 1)..(Max({i, j}) - 1) : m[k] \notin Bounds
<1>. PICK from : from = LastOf(m, 0, i, Bounds)
  OBVIOUS
<1>. PICK to : to = FirstOf(m, i, Len(m) + 1, Bounds)
  OBVIOUS
<1>. PICK comma : comma = LastOf(m, from, i, Commas)
  OBVIOUS
<1>. PICK before : before = LastOf(m, from, comma, Commas)
  OBVIOUS
<1>. PICK after : after = FirstOf(m, i, to, Commas)
  OBVIOUS
<1>1. /\ OfferBetween(m, from, comma, before, after)
      /\ from \in 0..(i - 1) /\ to \in (i + 1)..(Len(m) + 1) /\ comma \in from..(i - 1)
      /\ after \in (i + 1)..to /\ (comma > from => before \in from..(comma - 1))
      /\ \A k \in (from + 1)..(to - 1) : k = i \/ m[k] \notin Bounds
  BY OfferIs
<1>2. \E j \in (from + 1)..(to - 1) : m[j] \in UserGates
  <2>1. CASE \E j \in (comma + 1)..(after - 1) : m[j] \in UserGates
    <3>1. PICK j \in (comma + 1)..(after - 1) : m[j] \in UserGates
      BY <2>1
    <3>2. i \in Int /\ Len(m) \in Int
      OBVIOUS
    <3>3. /\ from \in 0..(i - 1) /\ to \in (i + 1)..(Len(m) + 1) /\ comma \in from..(i - 1)
          /\ after \in (i + 1)..to
      BY <1>1, Zenon
    <3>4. j \in (from + 1)..(to - 1)
      BY ONLY <3>2, <3>3, j \in (comma + 1)..(after - 1)
    <3>. QED  BY <3>1, <3>4
  <2>2. CASE ~ \E j \in (comma + 1)..(after - 1) : m[j] \in UserGates
    <3>. PICK opens : opens = Resumes(m, before)
      OBVIOUS
    <3>1. comma > from /\ opens < comma /\ m[opens] \in UserGates
      BY <1>1, <2>2, Zenon DEF OfferBetween, OffersFirst
    <3>2. opens = before + 1 \/ opens = before + 2
      BY Zenon DEF Resumes
    <3>3. opens \in (from + 1)..(to - 1)
      <4>1. i \in Int /\ Len(m) \in Int
        OBVIOUS
      <4>2. /\ from \in 0..(i - 1) /\ to \in (i + 1)..(Len(m) + 1) /\ comma \in from..(i - 1)
            /\ (comma > from => before \in from..(comma - 1))
        BY <1>1, Zenon
      <4>3. comma > from /\ opens < comma
        BY <3>1, Zenon
      <4>. QED  BY ONLY <3>2, <4>1, <4>2, <4>3
    <3>. QED  BY <3>1, <3>3
  <2>. QED  BY <2>1, <2>2
<1>3. PICK j \in (from + 1)..(to - 1) : m[j] \in UserGates
  BY <1>2
<1>4. /\ i \in Int /\ j \in Int /\ j \in 1..Len(m) /\ Len(m) \in Nat
      /\ from < i /\ i < to /\ from < j /\ j < to /\ from \in Nat /\ to \in Nat
  BY <1>1
<1>5. ASSUME NEW k \in (Min({i, j}) + 1)..(Max({i, j}) - 1) PROVE m[k] \notin Bounds
  <2>1. /\ Min({i, j}) = IF i <= j THEN i ELSE j
        /\ Max({i, j}) = IF i >= j THEN i ELSE j
    BY ONLY <1>4, MinMaxOfTwo
  <2>2. k \in (from + 1)..(to - 1) /\ k # i
    <3>1. CASE i <= j
      <4>1. Min({i, j}) = i /\ Max({i, j}) = j
        BY <1>4, <2>1, <3>1
      <4>2. k \in (i + 1)..(j - 1)
        BY <1>5, <4>1, Zenon
      <4>. QED  BY <1>4, <4>2
    <3>2. CASE ~ (i <= j)
      <4>1. Min({i, j}) = j /\ Max({i, j}) = i
        BY <1>4, <2>1, <3>2
      <4>2. k \in (j + 1)..(i - 1)
        BY <1>5, <4>1, Zenon
      <4>. QED  BY <1>4, <4>2
    <3>. QED  BY <3>1, <3>2
  <2>. QED  BY <1>1, <2>2
<1>. QED  BY <1>3, <1>4, <1>5

-----------------------------------------------------------------------------
(* The Truth Gate: the message and its sentences *)

ClaimsAt(m, i) == m[i] = Completion /\ ~Negated(m, i, COMPLETION_NEGATORS)

OpenAt(m, i) ==
  \/ m[i] \in Marker /\ FlagsOpenWork(m, i)
  \/ m[i] = Promise /\ ~IsOffer(m, i)

Claims(m) == \E i \in 1..Len(m) : ClaimsAt(m, i)

AdmitsWork(m) == \E i \in 1..Len(m) : OpenAt(m, i)

Plain(m) == m \in Seq(Tokens) /\ \A i \in 1..Len(m) : m[i] # Code

LEMMA TokenWithin ==
  ASSUME NEW w, NEW m, NEW d, Within(w, m, d), NEW i \in 1..Len(w),
         m[i + d] = "placeholder" =>
           (LooseNextIn(m, i + d, PLACEHOLDER_UI_TERMS) <=> LooseNextIn(w, i, PLACEHOLDER_UI_TERMS))
  PROVE  /\ ClaimsAt(m, i + d) <=> ClaimsAt(w, i)
         /\ OpenAt(m, i + d) <=> OpenAt(w, i)
<1>1. m[i + d] = w[i]
  BY WithinIs
<1>2. Negated(m, i + d, COMPLETION_NEGATORS) <=> Negated(w, i, COMPLETION_NEGATORS)
  BY NegatedWithin
<1>3. FlagsOpenWork(m, i + d) <=> FlagsOpenWork(w, i)
  BY MarkerWithin
<1>4. IsOffer(m, i + d) <=> IsOffer(w, i)
  BY OfferWithin
<1>. QED  BY <1>1, <1>2, <1>3, <1>4, Zenon DEF ClaimsAt, OpenAt

\* Two sentences, or two parts of a message, with a full stop in between.
Joined(a, b) == a \o <<".">> \o b

LEMMA JoinedIs ==
  ASSUME NEW a \in Seq(Tokens), NEW b \in Seq(Tokens), NEW m, m = Joined(a, b)
  PROVE  /\ m \in Seq(Tokens) /\ Len(m) = Len(a) + 1 + Len(b) /\ m[Len(a) + 1] = "."
         /\ Len(a) \in Nat /\ Len(b) \in Nat
         /\ Within(a, m, 0) /\ Within(b, m, Len(a) + 1)
<1>1. /\ m \in Seq(Tokens) /\ Len(m) = Len(a) + 1 + Len(b) /\ m[Len(a) + 1] = "."
      /\ Len(a) \in Nat /\ Len(b) \in Nat /\ Len(m) \in Nat
  <2>. PICK c : c = a \o <<".">>
    OBVIOUS
  <2>1. c \in Seq(Tokens) /\ Len(c) = Len(a) + 1 /\ c[Len(a) + 1] = "." /\ Len(a) \in Nat
    <3>. PICK e : e = <<".">>
      OBVIOUS
    <3>1. c = a \o e
      BY Zenon
    <3>2. e \in Seq(Tokens) /\ Len(e) = 1 /\ e[1] = "."
      <4>1. "." \in Tokens
        BY DEF Tokens
      <4>. PICK stop \in Tokens : stop = "."
        BY <4>1
      <4>2. e = <<stop>>
        BY Zenon
      <4>. QED  BY <4>2
    <3>3. c \in Seq(Tokens) /\ Len(c) = Len(a) + 1 /\ Len(a) \in Nat
      BY <3>1, <3>2
    <3>4. c[Len(a) + 1] = e[1]
      BY <3>1, <3>2, <3>3
    <3>. QED  BY <3>2, <3>3, <3>4
  <2>2. m = c \o b
    BY DEF Joined
  <2>. QED  BY <2>1, <2>2
<1>2. \A k \in 1..Len(a) : m[k + 0] = a[k]
  BY DEF Joined
<1>3. ASSUME NEW k \in 1..Len(b) PROVE m[k + (Len(a) + 1)] = b[k]
  BY DEF Joined
<1>4. Within(a, m, 0)
  <2>1. 0 \in Nat /\ 0 + Len(a) <= Len(m) /\ 0 + Len(a) + 1 = Len(a) + 1
    BY ONLY <1>1
  <2>. QED  BY <1>1, <1>2, <2>1 DEF Within
<1>5. Within(b, m, Len(a) + 1)
  <2>1. Len(a) + 1 \in Nat /\ Len(a) + 1 + Len(b) <= Len(m)
    BY ONLY <1>1
  <2>. QED  BY <1>1, <1>3, <2>1 DEF Within
<1>. QED  BY <1>1, <1>4, <1>5

\* The word that names a placeholder is in the sentence of the placeholder, or
\* right at the beginning of the next.
LEMMA NamedWithin ==
  ASSUME NEW a \in Seq(Tokens), NEW b \in Seq(Tokens), ~PlaceholderThenText(a, b),
         NEW m, m = Joined(a, b), NEW i \in 1..Len(a), a[i] = "placeholder"
  PROVE  LooseNextIn(m, i, PLACEHOLDER_UI_TERMS) <=> LooseNextIn(a, i, PLACEHOLDER_UI_TERMS)
<1>1. /\ Len(a) \in Nat /\ Len(b) \in Nat /\ Len(m) = Len(a) + 1 + Len(b) /\ m[Len(a) + 1] = "."
      /\ \A k \in 1..Len(a) : m[k] = a[k]
      /\ \A k \in 1..Len(b) : m[k + (Len(a) + 1)] = b[k]
  <2>1. /\ Len(a) \in Nat /\ Len(b) \in Nat /\ Len(m) = Len(a) + 1 + Len(b) /\ m[Len(a) + 1] = "."
        /\ Within(a, m, 0) /\ Within(b, m, Len(a) + 1)
    BY JoinedIs
  <2>2. \A k \in 1..Len(a) : m[k + 0] = a[k]
    BY <2>1, Zenon DEF Within
  <2>3. \A k \in 1..Len(b) : m[k + (Len(a) + 1)] = b[k]
    BY <2>1, Zenon DEF Within
  <2>4. \A k \in 1..Len(a) : m[k] = a[k]
    <3>. SUFFICES ASSUME NEW k \in 1..Len(a) PROVE m[k] = a[k]
      OBVIOUS
    <3>1. k + 0 = k
      OBVIOUS
    <3>. QED  BY <2>2, <3>1
  <2>. QED  BY <2>1, <2>3, <2>4
<1>. PICK terms : terms = PLACEHOLDER_UI_TERMS
  OBVIOUS
<1>2. \A x : LooseNextIn(x, i, terms) <=>
        \E j \in (i + 1)..Len(x) :
          x[j] \in terms /\ \A k \in (i + 1)..(j - 1) : x[k] \in Punctuation
  BY DEF LooseNextIn
<1>3. "." \notin terms /\ \A x : x \in terms => x = "text"
  BY DEF PLACEHOLDER_UI_TERMS
<1>4. ASSUME LooseNextIn(a, i, terms) PROVE LooseNextIn(m, i, terms)
  <2>1. PICK j \in (i + 1)..Len(a) : a[j] \in terms /\ \A k \in (i + 1)..(j - 1) : a[k] \in Punctuation
    BY <1>2, <1>4
  <2>2. j \in (i + 1)..Len(m) /\ j \in 1..Len(a) /\ \A k \in (i + 1)..(j - 1) : k \in 1..Len(a)
    BY <1>1
  <2>3. m[j] \in terms /\ \A k \in (i + 1)..(j - 1) : m[k] \in Punctuation
    BY <1>1, <2>1, <2>2
  <2>. QED  BY <1>2, <2>2, <2>3
<1>5. ASSUME LooseNextIn(m, i, terms) PROVE LooseNextIn(a, i, terms)
  <2>1. PICK j \in (i + 1)..Len(m) : m[j] \in terms /\ \A k \in (i + 1)..(j - 1) : m[k] \in Punctuation
    BY <1>2, <1>5
  <2>2. j <= Len(a)
    <3>. SUFFICES ASSUME j > Len(a) PROVE FALSE
      BY <1>1
    <3>1. j # Len(a) + 1
      BY <1>1, <1>3, <2>1
    <3>. PICK n : n = j - (Len(a) + 1)
      OBVIOUS
    <3>2. n \in 1..Len(b) /\ n + (Len(a) + 1) = j
      <4>1. Len(a) \in Nat /\ Len(b) \in Nat /\ i \in Nat /\ j \in (i + 1)..(Len(a) + 1 + Len(b))
        BY <1>1
      <4>. QED  BY ONLY <3>1, <4>1, j > Len(a), n = j - (Len(a) + 1)
    <3>3. b[n] = "text"
      BY <1>1, <1>3, <2>1, <3>2
    <3>4. ASSUME NEW k \in 1..(n - 1) PROVE b[k] \in Punctuation
      <4>1. k \in 1..Len(b) /\ k + (Len(a) + 1) \in (i + 1)..(j - 1)
        BY <1>1, <3>2
      <4>. QED  BY <1>1, <2>1, <4>1
    <3>5. ASSUME NEW k \in (i + 1)..Len(a) PROVE a[k] \in Punctuation
      <4>1. k \in 1..Len(a) /\ k \in (i + 1)..(j - 1)
        BY <1>1
      <4>. QED  BY <1>1, <2>1, <4>1
    <3>6. DOMAIN a = 1..Len(a) /\ DOMAIN b = 1..Len(b)
      OBVIOUS
    <3>7. \E k \in DOMAIN a : a[k] = "placeholder" /\ \A l \in (k + 1)..Len(a) : a[l] \in Punctuation
      BY <3>5, <3>6
    <3>8. \E k \in DOMAIN b : b[k] = "text" /\ \A l \in 1..(k - 1) : b[l] \in Punctuation
      BY <3>2, <3>3, <3>4, <3>6
    <3>. QED  BY <3>7, <3>8 DEF PlaceholderThenText
  <2>3. j \in (i + 1)..Len(a) /\ j \in 1..Len(a) /\ \A k \in (i + 1)..(j - 1) : k \in 1..Len(a)
    BY <1>1, <2>2
  <2>4. a[j] \in terms /\ \A k \in (i + 1)..(j - 1) : a[k] \in Punctuation
    BY <1>1, <2>1, <2>3
  <2>. QED  BY <1>2, <2>3, <2>4
<1>. QED  BY <1>4, <1>5

\* In the last sentence nothing comes after it.
LEMMA NamedAtTheEnd ==
  ASSUME NEW a \in Seq(Tokens), NEW b \in Seq(Tokens), NEW m, m = Joined(a, b), NEW i \in 1..Len(b)
  PROVE  LooseNextIn(m, i + (Len(a) + 1), PLACEHOLDER_UI_TERMS)
           <=> LooseNextIn(b, i, PLACEHOLDER_UI_TERMS)
<1>. PICK d : d = Len(a) + 1
  OBVIOUS
<1>1. /\ d \in Nat /\ Len(b) \in Nat /\ Len(m) = d + Len(b)
      /\ \A k \in 1..Len(b) : m[k + d] = b[k]
  <2>1. Len(a) \in Nat /\ Len(b) \in Nat /\ Len(m) = Len(a) + 1 + Len(b) /\ Within(b, m, Len(a) + 1)
    BY JoinedIs
  <2>. QED  BY <2>1 DEF Within
<1>. PICK terms : terms = PLACEHOLDER_UI_TERMS
  OBVIOUS
<1>2. \A x, l : LooseNextIn(x, l, terms) <=>
        \E j \in (l + 1)..Len(x) :
          x[j] \in terms /\ \A k \in (l + 1)..(j - 1) : x[k] \in Punctuation
  BY DEF LooseNextIn
<1>3. ASSUME NEW j \in (i + 1)..Len(b)
      PROVE  /\ j + d \in (i + d + 1)..Len(m) /\ m[j + d] = b[j]
             /\ (\A k \in (i + d + 1)..((j + d) - 1) : m[k] \in Punctuation)
                  <=> (\A k \in (i + 1)..(j - 1) : b[k] \in Punctuation)
  <2>1. j \in 1..Len(b) /\ j + d \in (i + d + 1)..Len(m)
    BY <1>1
  <2>2. ASSUME NEW k \in (i + 1)..(j - 1) PROVE k + d \in (i + d + 1)..((j + d) - 1) /\ m[k + d] = b[k]
    BY <1>1
  <2>3. ASSUME NEW k \in (i + d + 1)..((j + d) - 1) PROVE k - d \in (i + 1)..(j - 1) /\ m[k] = b[k - d]
    <3>1. k - d \in (i + 1)..(j - 1) /\ k - d \in 1..Len(b) /\ (k - d) + d = k
      BY <1>1
    <3>2. m[(k - d) + d] = b[k - d]
      BY <1>1, <3>1
    <3>. QED  BY <3>1, <3>2
  <2>. QED  BY <1>1, <2>1, <2>2, <2>3
<1>4. ASSUME LooseNextIn(b, i, terms) PROVE LooseNextIn(m, i + d, terms)
  <2>1. PICK j \in (i + 1)..Len(b) : b[j] \in terms /\ \A k \in (i + 1)..(j - 1) : b[k] \in Punctuation
    BY <1>2, <1>4
  <2>2. j + d \in (i + d + 1)..Len(m) /\ m[j + d] \in terms
        /\ \A k \in (i + d + 1)..((j + d) - 1) : m[k] \in Punctuation
    BY <1>3, <2>1
  <2>. QED  BY <1>2, <2>2
<1>5. ASSUME LooseNextIn(m, i + d, terms) PROVE LooseNextIn(b, i, terms)
  <2>1. PICK n \in (i + d + 1)..Len(m) :
          m[n] \in terms /\ \A k \in (i + d + 1)..(n - 1) : m[k] \in Punctuation
    BY <1>2, <1>5
  <2>. PICK j : j = n - d
    OBVIOUS
  <2>2. j \in (i + 1)..Len(b) /\ n = j + d
    BY <1>1
  <2>3. b[j] \in terms /\ \A k \in (i + 1)..(j - 1) : b[k] \in Punctuation
    BY <1>3, <2>1, <2>2
  <2>. QED  BY <1>2, <2>2, <2>3
<1>. QED  BY <1>4, <1>5

\* Joined claims what one of its parts claims, and admits what one admits.
LEMMA JudgedApart ==
  ASSUME NEW a \in Seq(Tokens), NEW b \in Seq(Tokens), ~PlaceholderThenText(a, b)
  PROVE  /\ Claims(Joined(a, b)) <=> Claims(a) \/ Claims(b)
         /\ AdmitsWork(Joined(a, b)) <=> AdmitsWork(a) \/ AdmitsWork(b)
<1>. PICK m : m = Joined(a, b)
  OBVIOUS
<1>. PICK d : d = Len(a) + 1
  OBVIOUS
<1>1. /\ m \in Seq(Tokens) /\ Len(m) = d + Len(b) /\ m[d] = "." /\ d \in Nat /\ Len(b) \in Nat
      /\ Len(a) \in Nat /\ Within(a, m, 0) /\ Within(b, m, d)
  <2>1. /\ m \in Seq(Tokens) /\ Len(m) = Len(a) + 1 + Len(b) /\ m[Len(a) + 1] = "."
        /\ Len(a) \in Nat /\ Len(b) \in Nat
        /\ Within(a, m, 0) /\ Within(b, m, Len(a) + 1)
    BY JoinedIs
  <2>. QED  BY <2>1
<1>2. ASSUME NEW i \in 1..Len(a)
      PROVE  i \in 1..Len(m) /\ (ClaimsAt(m, i) <=> ClaimsAt(a, i)) /\ (OpenAt(m, i) <=> OpenAt(a, i))
  <2>1. i + 0 = i /\ i \in 1..Len(m)
    BY <1>1
  <2>2. m[i] = a[i]
    BY <1>1, <2>1, WithinIs
  <2>3. m[i] = "placeholder" =>
          (LooseNextIn(m, i, PLACEHOLDER_UI_TERMS) <=> LooseNextIn(a, i, PLACEHOLDER_UI_TERMS))
    BY <2>2, NamedWithin
  <2>4. (ClaimsAt(m, i + 0) <=> ClaimsAt(a, i)) /\ (OpenAt(m, i + 0) <=> OpenAt(a, i))
    BY <1>1, <2>1, <2>3, TokenWithin
  <2>. QED  BY <2>1, <2>4
<1>3. ASSUME NEW i \in 1..Len(b)
      PROVE  /\ i + d \in 1..Len(m)
             /\ (ClaimsAt(m, i + d) <=> ClaimsAt(b, i)) /\ (OpenAt(m, i + d) <=> OpenAt(b, i))
  <2>1. i + d \in 1..Len(m)
    BY <1>1
  <2>2. LooseNextIn(m, i + d, PLACEHOLDER_UI_TERMS) <=> LooseNextIn(b, i, PLACEHOLDER_UI_TERMS)
    <3>1. LooseNextIn(m, i + (Len(a) + 1), PLACEHOLDER_UI_TERMS)
            <=> LooseNextIn(b, i, PLACEHOLDER_UI_TERMS)
      BY NamedAtTheEnd
    <3>. QED  BY <3>1
  <2>3. (ClaimsAt(m, i + d) <=> ClaimsAt(b, i)) /\ (OpenAt(m, i + d) <=> OpenAt(b, i))
    <3>1. Within(b, m, d)
      BY <1>1
    <3>2. m[i + d] = "placeholder" =>
            (LooseNextIn(m, i + d, PLACEHOLDER_UI_TERMS) <=> LooseNextIn(b, i, PLACEHOLDER_UI_TERMS))
      BY <2>2
    <3>. QED  BY <3>1, <3>2, TokenWithin
  <2>. QED  BY <2>1, <2>3
<1>4. ASSUME NEW i \in 1..Len(m), ClaimsAt(m, i) \/ OpenAt(m, i)
      PROVE  i \in 1..Len(a) \/ \E j \in 1..Len(b) : i = j + d
  <2>1. i # d
    <3>1. "." # Completion /\ "." \notin Marker /\ "." # Promise
      BY DEF Completion, Marker, Promise
    <3>. QED  BY <1>1, <1>4, <3>1 DEF ClaimsAt, OpenAt
  <2>2. CASE i < d
    BY <1>1, <2>2
  <2>3. CASE i > d
    <3>1. i - d \in 1..Len(b) /\ i = (i - d) + d
      BY <1>1, <2>3
    <3>. QED  BY <3>1
  <2>. QED  BY <1>1, <2>1, <2>2, <2>3
<1>5. Claims(m) <=> Claims(a) \/ Claims(b)
  <2>1. ASSUME Claims(m) PROVE Claims(a) \/ Claims(b)
    <3>1. PICK i \in 1..Len(m) : ClaimsAt(m, i)
      BY <2>1 DEF Claims
    <3>. QED  BY <1>2, <1>3, <1>4, <3>1 DEF Claims
  <2>2. ASSUME Claims(a) \/ Claims(b) PROVE Claims(m)
    BY <1>2, <1>3, <2>2 DEF Claims
  <2>. QED  BY <2>1, <2>2
<1>6. AdmitsWork(m) <=> AdmitsWork(a) \/ AdmitsWork(b)
  <2>1. ASSUME AdmitsWork(m) PROVE AdmitsWork(a) \/ AdmitsWork(b)
    <3>1. PICK i \in 1..Len(m) : OpenAt(m, i)
      BY <2>1 DEF AdmitsWork
    <3>. QED  BY <1>2, <1>3, <1>4, <3>1 DEF AdmitsWork
  <2>2. ASSUME AdmitsWork(a) \/ AdmitsWork(b) PROVE AdmitsWork(m)
    BY <1>2, <1>3, <2>2 DEF AdmitsWork
  <2>. QED  BY <2>1, <2>2
<1>. QED  BY <1>5, <1>6

\* What is left of the first n tokens.
Grown(said, s, n) == IF said[n] = Code THEN s ELSE Append(s, said[n])

Kept(said, f) ==
  /\ normalize(said) = f[Len(said)]
  /\ f[0] = <<>> /\ \A n \in 1..Len(said) : f[n] = Grown(said, f[n - 1], n)
  /\ \A n \in 0..Len(said) : f[n] \in Seq(Tokens) /\ Plain(f[n])

LEMMA GrownIs ==
  ASSUME NEW said \in Seq(Tokens), NEW n \in 1..Len(said), NEW s, Plain(s)
  PROVE  Plain(Grown(said, s, n))
<1>1. s \in Seq(Tokens) /\ said[n] \in Tokens /\ \A k \in 1..Len(s) : s[k] # Code
  BY DEF Plain
<1>2. CASE said[n] = Code
  BY <1>2 DEF Grown
<1>3. CASE said[n] # Code
  <2>. PICK t : t = Append(s, said[n])
    OBVIOUS
  <2>1. t \in Seq(Tokens) /\ Len(t) = Len(s) + 1
        /\ \A k \in 1..Len(t) : t[k] = IF k <= Len(s) THEN s[k] ELSE said[n]
    BY <1>1
  <2>2. Plain(t)
    BY <1>1, <1>3, <2>1 DEF Plain
  <2>. QED  BY <1>3, <2>2 DEF Grown
<1>. QED  BY <1>2, <1>3

LEMMA KeptExists ==
  ASSUME NEW said \in Seq(Tokens)
  PROVE  \E f : Kept(said, f)
<1>. DEFINE N == Len(said)
            V == {s \in Seq(Tokens) : Plain(s)}
            Fold(g) == [n \in 0..N |->
                          IF n = 0 THEN <<>>
                          ELSE IF said[n] = Code THEN g[n - 1] ELSE Append(g[n - 1], said[n])]
            kept == CHOOSE g : g = Fold(g)
            op == [p \in (1..N) \X V |-> Grown(said, p[2], p[1])]
<1>1. N \in Nat
  OBVIOUS
<1>2. normalize(said) = kept[N]
  BY Zenon DEF normalize
<1>3. ASSUME NEW s \in V, NEW n \in 1..N PROVE Grown(said, s, n) \in V
  <2>1. Plain(Grown(said, s, n))
    BY GrownIs
  <2>. QED  BY <2>1 DEF Plain
<1>. HIDE DEF N
<1>4. op \in [(1..N) \X V -> V] /\ <<>> \in V
  <2>1. <<>> \in V
    BY DEF Plain
  <2>. HIDE DEF V
  <2>2. \A p \in (1..N) \X V : Grown(said, p[2], p[1]) \in V
    BY <1>3
  <2>. QED  BY <2>1, <2>2
<1>5. kept = Fold(kept)
  <2>1. PICK g \in [0..N -> V] : g[0] = <<>> /\ \A n \in 1..N : g[n] = op[<<n, g[n - 1]>>]
    <3>. HIDE DEF op, V
    <3>1. PICK h : Recursion(h, N, V, <<>>, op)
      BY <1>1, <1>4, RecursionExists
    <3>. QED  BY <3>1 DEF Recursion
  <2>2. ASSUME NEW n \in 1..N PROVE g[n] = Grown(said, g[n - 1], n)
    <3>1. g[n - 1] \in V
      BY <1>1, <2>1
    <3>2. <<n, g[n - 1]>> \in (1..N) \X V
      BY <3>1
    <3>. HIDE DEF V
    <3>. QED  BY <2>1, <3>2
  <2>3. \A n \in 0..N : g[n] = IF n = 0 THEN <<>>
                               ELSE IF said[n] = Code THEN g[n - 1] ELSE Append(g[n - 1], said[n])
    <3>. SUFFICES ASSUME NEW n \in 0..N
                  PROVE  g[n] = IF n = 0 THEN <<>>
                                ELSE IF said[n] = Code THEN g[n - 1] ELSE Append(g[n - 1], said[n])
      OBVIOUS
    <3>1. n = 0 \/ n \in 1..N
      BY <1>1
    <3>2. CASE n = 0
      BY <2>1, <3>2
    <3>3. CASE n \in 1..N
      <4>1. n # 0
        BY <1>1, <3>3
      <4>2. g[n] = Grown(said, g[n - 1], n)
        BY <2>2, <3>3, Zenon
      <4>. QED  BY <4>1, <4>2, Zenon DEF Grown
    <3>. QED  BY <3>1, <3>2, <3>3
  <2>4. g = Fold(g)
    <3>. HIDE DEF V
    <3>. QED  BY <1>1, <2>1, <2>3
  <2>. HIDE DEF Fold
  <2>. QED  BY <2>4
<1>. HIDE DEF kept, op
<1>6. kept[0] = <<>> /\ \A n \in 1..N : kept[n] = Grown(said, kept[n - 1], n)
  <2>1. 0 \in 0..N /\ \A n \in 1..N : n \in 0..N /\ n # 0
    BY <1>1
  <2>2. kept[0] = <<>>
    BY <1>5, <2>1
  <2>3. ASSUME NEW n \in 1..N PROVE kept[n] = Grown(said, kept[n - 1], n)
    BY <1>5, <2>1, Zenon DEF Grown
  <2>. QED  BY <2>2, <2>3
<1>. DEFINE Fails == {n \in 0..N : kept[n] \notin V}
<1>. HIDE DEF V
<1>7. Fails = {}
  <2>1. SUFFICES ASSUME Fails # {} PROVE FALSE
    OBVIOUS
  <2>2. PICK n \in Fails : \A k \in Fails : n <= k
    <3>1. Fails \in SUBSET Nat
      BY <1>1
    <3>. HIDE DEF Fails
    <3>. QED  BY <2>1, <3>1, LeastOf
  <2>3. n \in 1..N /\ n - 1 \in 0..N /\ ~ (n <= n - 1)
    BY <1>1, <1>4, <1>6
  <2>4. kept[n - 1] \in V
    BY <2>2, <2>3
  <2>5. kept[n] \in V
    BY <1>3, <1>6, <2>3, <2>4
  <2>. QED  BY <2>5
<1>8. \A n \in 0..N : kept[n] \in Seq(Tokens) /\ Plain(kept[n])
  BY <1>7 DEF V
<1>9. Kept(said, kept)
  BY <1>2, <1>6, <1>8 DEF Kept, N
<1>. QED  BY <1>9

\* What is left of a message has no code in it, and is all of it if there was none.
LEMMA NormalizeIs ==
  ASSUME NEW said \in Seq(Tokens)
  PROVE  Plain(normalize(said)) /\ (Plain(said) => normalize(said) = said)
<1>. PICK f : Kept(said, f)
  BY KeptExists
<1>. DEFINE N == Len(said)
            holds(n) == Len(f[n]) = n /\ \A k \in 1..n : f[n][k] = said[k]
            Fails == {n \in 0..N : ~ holds(n)}
<1>1. /\ N \in Nat /\ normalize(said) = f[N]
      /\ f[0] = <<>> /\ \A n \in 1..N : f[n] = Grown(said, f[n - 1], n) /\ said[n] \in Tokens
      /\ \A n \in 0..N : f[n] \in Seq(Tokens) /\ Plain(f[n])
  BY DEF Kept
<1>2. Plain(said) => \A n \in 1..N : said[n] # Code
  BY DEF Plain
<1>. HIDE DEF N
<1>3. N \in 0..N
  BY <1>1
<1>4. ASSUME Plain(said) PROVE f[N] = said
  <2>1. holds(0)
    <3>1. Len(<<>>) = 0 /\ \A k \in 1..0 : FALSE
      OBVIOUS
    <3>. QED  BY <1>1, <3>1
  <2>2. ASSUME NEW n \in 1..N, holds(n - 1) PROVE holds(n)
    <3>. PICK s : s = f[n - 1]
      OBVIOUS
    <3>1. n \in Nat /\ n >= 1 /\ n - 1 \in 0..N
      BY <1>1
    <3>2. s \in Seq(Tokens) /\ Len(s) = n - 1 /\ \A k \in 1..(n - 1) : s[k] = said[k]
      BY <1>1, <2>2, <3>1
    <3>3. f[n] = Append(s, said[n]) /\ said[n] \in Tokens
      BY <1>1, <1>2, <1>4 DEF Grown
    <3>. HIDE DEF holds
    <3>4. Len(f[n]) = n /\ f[n][n] = said[n] /\ \A k \in 1..(n - 1) : f[n][k] = s[k]
      BY <3>1, <3>2, <3>3
    <3>5. \A k \in 1..n : k \in 1..(n - 1) \/ k = n
      BY <3>1
    <3>. QED  BY <3>2, <3>4, <3>5 DEF holds
  <2>. HIDE DEF holds
  <2>3. Fails = {}
    <3>1. SUFFICES ASSUME Fails # {} PROVE FALSE
      OBVIOUS
    <3>2. PICK n \in Fails : \A k \in Fails : n <= k
      <4>1. Fails \in SUBSET Nat
        BY <1>1
      <4>. HIDE DEF Fails
      <4>. QED  BY <3>1, <4>1, LeastOf
    <3>3. n \in 1..N /\ n - 1 \in 0..N /\ ~ (n <= n - 1)
      BY <1>1, <2>1
    <3>4. holds(n - 1)
      BY <3>2, <3>3
    <3>. QED  BY <2>2, <3>3, <3>4
  <2>4. holds(N)
    BY <1>3, <2>3
  <2>5. Len(f[N]) = Len(said) /\ \A k \in 1..Len(f[N]) : f[N][k] = said[k]
    BY <2>4 DEF holds, N
  <2>6. f[N] \in Seq(Tokens)
    BY <1>1, <1>3
  <2>. QED  BY <2>5, <2>6, SeqEqual
<1>. QED  BY <1>1, <1>3, <1>4

\* The beginning and the end of a message, without the token at i.
CutAt(said, i, a, b) ==
  /\ Len(said) \in Nat /\ i \in Nat /\ i >= 1 /\ i <= Len(said)
  /\ a \in Seq(Tokens) /\ Len(a) = i - 1 /\ \A k \in 1..(i - 1) : a[k] = said[k]
  /\ b \in Seq(Tokens) /\ Len(b) = Len(said) - i
  /\ \A k \in 1..(Len(said) - i) : b[k] = said[i + k]

LEMMA SubSeqIs ==
  ASSUME NEW said \in Seq(Tokens), NEW i \in 1..Len(said),
         NEW a, a = SubSeq(said, 1, i - 1), NEW b, b = SubSeq(said, i + 1, Len(said))
  PROVE  CutAt(said, i, a, b)
<1>1. Len(said) \in Nat /\ i \in Nat /\ i >= 1 /\ i <= Len(said)
  OBVIOUS
<1>2. a \in Seq(Tokens) /\ Len(a) = i - 1 /\ \A k \in 1..(i - 1) : a[k] = said[k]
  BY <1>1
<1>3. b \in Seq(Tokens) /\ Len(b) = Len(said) - i
      /\ \A k \in 1..(Len(said) - i) : b[k] = said[i + k]
  BY <1>1
<1>. QED  BY <1>1, <1>2, <1>3 DEF CutAt

\* A message is what it is without a piece of its code.
LEMMA NormalizeSkips ==
  ASSUME NEW said \in Seq(Tokens), NEW i \in 1..Len(said), said[i] = Code
  PROVE  normalize(RemoveAt(said, i)) = normalize(said)
<1>. PICK r : r = RemoveAt(said, i)
  OBVIOUS
<1>. DEFINE N == Len(said)
<1>1. /\ N \in Nat /\ i \in Nat /\ i >= 1 /\ i <= N
      /\ r \in Seq(Tokens) /\ Len(r) = N - 1
      /\ \A k \in 1..(i - 1) : r[k] = said[k]
      /\ \A k \in (i + 1)..N : r[k - 1] = said[k]
  <2>. PICK a : a = SubSeq(said, 1, i - 1)
    OBVIOUS
  <2>. PICK b : b = SubSeq(said, i + 1, N)
    OBVIOUS
  <2>1. /\ N \in Nat /\ i \in Nat /\ i >= 1 /\ i <= N
        /\ a \in Seq(Tokens) /\ Len(a) = i - 1 /\ \A k \in 1..(i - 1) : a[k] = said[k]
        /\ b \in Seq(Tokens) /\ Len(b) = N - i /\ \A k \in 1..(N - i) : b[k] = said[i + k]
    <3>1. CutAt(said, i, a, b)
      BY SubSeqIs
    <3>. QED  BY <3>1, Zenon DEF CutAt
  <2>2. r = a \o b
    BY DEF RemoveAt
  <2>. HIDE DEF N
  <2>3. /\ r \in Seq(Tokens) /\ Len(r) = N - 1
        /\ \A k \in 1..(i - 1) : r[k] = a[k]
        /\ \A k \in 1..(N - i) : r[(i - 1) + k] = b[k]
    <3>1. a \in Seq(Tokens) /\ b \in Seq(Tokens) /\ Len(a) = i - 1 /\ Len(b) = N - i
          /\ N \in Nat /\ i \in Nat
      BY <2>1
    <3>2. /\ r \in Seq(Tokens) /\ Len(r) = Len(a) + Len(b)
          /\ \A k \in 1..Len(a) : r[k] = a[k]
          /\ \A k \in 1..Len(b) : r[Len(a) + k] = b[k]
      BY ONLY <2>2, <3>1
    <3>3. Len(r) = N - 1
      BY ONLY <3>1, <3>2
    <3>. QED  BY <3>1, <3>2, <3>3, Zenon
  <2>4. ASSUME NEW k \in (i + 1)..N PROVE r[k - 1] = said[k]
    <3>1. k - i \in 1..(N - i) /\ (i - 1) + (k - i) = k - 1 /\ i + (k - i) = k
      BY <2>1
    <3>2. r[(i - 1) + (k - i)] = b[k - i] /\ b[k - i] = said[i + (k - i)]
      BY <2>1, <2>3, <3>1
    <3>. QED  BY <3>1, <3>2
  <2>. QED  BY <2>1, <2>3, <2>4
<1>. PICK f : Kept(said, f)
  BY KeptExists
<1>. PICK g : Kept(r, g)
  BY <1>1, KeptExists
<1>2. /\ normalize(said) = f[N] /\ normalize(r) = g[N - 1]
      /\ f[0] = <<>> /\ g[0] = <<>>
      /\ \A n \in 1..N : f[n] = Grown(said, f[n - 1], n)
      /\ \A n \in 1..(N - 1) : g[n] = Grown(r, g[n - 1], n)
  BY <1>1 DEF Kept
<1>. HIDE DEF N
<1>. DEFINE before(n) == IF n < i THEN n ELSE n - 1
            holds(n) == f[n] = g[before(n)]
            Fails == {n \in 0..N : ~ holds(n)}
<1>3. holds(0)
  BY <1>1, <1>2
<1>4. ASSUME NEW n \in 1..N, holds(n - 1) PROVE holds(n)
  <2>1. f[n] = Grown(said, f[n - 1], n)
    BY <1>2
  <2>2. CASE n < i
    <3>1. before(n) = n /\ before(n - 1) = n - 1 /\ n \in 1..(N - 1) /\ n \in 1..(i - 1)
      BY <1>1, <2>2
    <3>2. r[n] = said[n] /\ g[n] = Grown(r, g[n - 1], n) /\ f[n - 1] = g[n - 1]
      BY <1>1, <1>2, <1>4, <3>1
    <3>. QED  BY <2>1, <3>1, <3>2, Zenon DEF Grown
  <2>3. CASE n = i
    <3>1. before(n) = n - 1 /\ before(n - 1) = n - 1
      BY <1>1, <2>3
    <3>2. f[n] = f[n - 1]
      BY <2>1, <2>3, Zenon DEF Grown
    <3>. QED  BY <1>4, <3>1, <3>2
  <2>4. CASE n > i
    <3>1. before(n) = n - 1 /\ before(n - 1) = n - 1 - 1 /\ n - 1 \in 1..(N - 1) /\ n \in (i + 1)..N
      BY <1>1, <2>4
    <3>2. r[n - 1] = said[n] /\ g[n - 1] = Grown(r, g[n - 1 - 1], n - 1) /\ f[n - 1] = g[n - 1 - 1]
      BY <1>1, <1>2, <1>4, <3>1
    <3>. QED  BY <2>1, <3>1, <3>2, Zenon DEF Grown
  <2>. QED  BY <1>1, <2>2, <2>3, <2>4
<1>. HIDE DEF holds
<1>5. Fails = {}
  <2>1. SUFFICES ASSUME Fails # {} PROVE FALSE
    OBVIOUS
  <2>2. PICK n \in Fails : \A k \in Fails : n <= k
    <3>1. Fails \in SUBSET Nat
      BY <1>1
    <3>. HIDE DEF Fails
    <3>. QED  BY <2>1, <3>1, LeastOf
  <2>3. n \in 1..N /\ n - 1 \in 0..N /\ ~ (n <= n - 1)
    BY <1>1, <1>3
  <2>4. holds(n - 1)
    BY <2>2, <2>3
  <2>. QED  BY <1>4, <2>3, <2>4
<1>6. holds(N)
  <2>1. N \in 0..N
    BY <1>1
  <2>. QED  BY <1>5, <2>1
<1>7. before(N) = N - 1
  BY <1>1
<1>. QED  BY <1>2, <1>6, <1>7 DEF holds

\* A message is blocked when it claims completion and admits open work.
LEMMA RulesAre ==
  ASSUME NEW said \in Seq(Tokens), NEW m, m = normalize(said)
  PROVE  rules_match(said).rule # "none" <=> Claims(m) /\ AdmitsWork(m)
<1>. DEFINE claims == \E i \in 1..Len(m) : m[i] = Completion /\ ~Negated(m, i, COMPLETION_NEGATORS)
            markers == {i \in 1..Len(m) : m[i] \in Marker /\ FlagsOpenWork(m, i)}
            work == {i \in 1..Len(m) : m[i] = Promise /\ ~IsOffer(m, i)}
            found == IF ~claims \/ markers \cup work = {} THEN NoMatch
                     ELSE IF markers # {} THEN [rule |-> "unfinished", at |-> Min(markers)]
                     ELSE [rule |-> "promise", at |-> Min(work)]
<1>1. rules_match(said) = found
  BY Zenon DEF rules_match
<1>2. claims <=> Claims(m)
  BY Zenon DEF Claims, ClaimsAt
<1>3. markers \cup work # {} <=> AdmitsWork(m)
  BY DEF AdmitsWork, OpenAt
<1>4. found.rule # "none" <=> ~ (~claims \/ markers \cup work = {})
  <2>. HIDE DEF claims, markers, work
  <2>1. CASE ~claims \/ markers \cup work = {}
    BY <2>1 DEF NoMatch
  <2>2. CASE ~ (~claims \/ markers \cup work = {})
    <3>1. found.rule \in {"unfinished", "promise"}
      BY <2>2
    <3>2. "unfinished" # "none" /\ "promise" # "none"
      OBVIOUS
    <3>. QED  BY <2>2, <3>1, <3>2
  <2>. QED  BY <2>1, <2>2
<1>. HIDE DEF claims, markers, work, found
<1>. QED  BY <1>1, <1>2, <1>3, <1>4

LEMMA OneToken ==
  ASSUME NEW t \in Tokens, t # Code, NEW m, m = <<t>>
  PROVE  Plain(m) /\ Len(m) = 1 /\ m[1] = t /\ \A i : i \in 1..Len(m) <=> i = 1
<1>1. m \in Seq(Tokens) /\ Len(m) = 1 /\ m[1] = t
  OBVIOUS
<1>2. \A i : i \in 1..1 <=> i = 1
  OBVIOUS
<1>. QED  BY <1>1, <1>2 DEF Plain

LEMMA JoinedPlain ==
  ASSUME NEW a, NEW b, Plain(a), Plain(b)
  PROVE  Plain(Joined(a, b))
<1>. PICK m : m = Joined(a, b)
  OBVIOUS
<1>1. a \in Seq(Tokens) /\ b \in Seq(Tokens)
  BY DEF Plain
<1>2. /\ m \in Seq(Tokens) /\ Len(m) = Len(a) + 1 + Len(b) /\ m[Len(a) + 1] = "."
      /\ Len(a) \in Nat /\ Len(b) \in Nat
      /\ Within(a, m, 0) /\ Within(b, m, Len(a) + 1)
  BY <1>1, JoinedIs
<1>3. ASSUME NEW i \in 1..Len(m) PROVE m[i] # Code
  <2>1. CASE i \in 1..Len(a)
    <3>1. i + 0 = i /\ m[i + 0] = a[i]
      BY <1>2, <2>1, WithinIs
    <3>. QED  BY <2>1, <3>1 DEF Plain
  <2>2. CASE i = Len(a) + 1
    BY <1>2, <2>2 DEF Code
  <2>3. CASE i > Len(a) + 1
    <3>. PICK j : j = i - (Len(a) + 1)
      OBVIOUS
    <3>1. j \in 1..Len(b) /\ j + (Len(a) + 1) = i
      BY ONLY <1>2, <2>3, i \in 1..Len(m), j = i - (Len(a) + 1)
    <3>2. m[j + (Len(a) + 1)] = b[j]
      BY <1>2, <3>1, WithinIs
    <3>. QED  BY <3>1, <3>2 DEF Plain
  <2>. QED  BY <1>2, <2>1, <2>2, <2>3
<1>. QED  BY <1>2, <1>3 DEF Plain

LEMMA TwoTokens ==
  ASSUME NEW x \in Tokens, NEW y \in Tokens
  PROVE  <<x>> \o <<y>> = <<x, y>> /\ <<x>> \in Seq(Tokens) /\ <<y>> \in Seq(Tokens)
<1>1. <<x>> \in Seq(Tokens) /\ <<y>> \in Seq(Tokens) /\ <<x, y>> \in Seq(Tokens)
  OBVIOUS
<1>2. <<x>> \o <<y>> \in Seq(Tokens) /\ Len(<<x>> \o <<y>>) = 2 /\ Len(<<x, y>>) = 2
  BY <1>1
<1>3. (<<x>> \o <<y>>)[1] = x /\ (<<x>> \o <<y>>)[2] = y
  BY <1>1
<1>4. \A i \in 1..2 : i = 1 \/ i = 2
  OBVIOUS
<1>5. \A i \in 1..2 : (<<x>> \o <<y>>)[i] = <<x, y>>[i]
  BY <1>3, <1>4
<1>. QED  BY <1>1, <1>2, <1>5, SeqEqual

\* A token that says that work is open, after a full stop, leaves it to the
\* message whether it is blocked.
LEMMA OpenBehind ==
  ASSUME NEW a, Plain(a), NEW t \in Marker \cap Tokens, t # Code, t # "text", t # Completion,
         \A m : m[1] = t /\ ~Negated(m, 1, UNFINISHED_NEGATORS) => FlagsOpenWork(m, 1)
  PROVE  rules_match(a \o <<".", t>>).rule # "none" <=> Claims(a)
<1>. PICK b : b = <<t>>
  OBVIOUS
<1>. PICK m : m = Joined(a, b)
  OBVIOUS
<1>2. Plain(b) /\ Len(b) = 1 /\ b[1] = t /\ \A i : i \in 1..Len(b) <=> i = 1
  BY OneToken
<1>3. a \in Seq(Tokens) /\ b \in Seq(Tokens)
  BY <1>2 DEF Plain
<1>4. m = a \o <<".", t>>
  <2>. PICK stop : stop = "."
    OBVIOUS
  <2>1. stop \in Tokens
    BY DEF Tokens
  <2>2. <<stop>> \o b = <<stop, t>> /\ <<stop>> \in Seq(Tokens)
    BY <2>1, TwoTokens
  <2>3. a \o <<stop>> \o b = a \o (<<stop>> \o b)
    BY <1>3, <2>2, ConcatAssociative
  <2>. QED  BY <2>2, <2>3, Zenon DEF Joined
<1>5. ~PlaceholderThenText(a, b)
  <2>1. DOMAIN b = 1..Len(b)
    BY <1>3
  <2>. QED  BY <1>2, <2>1 DEF PlaceholderThenText
<1>6. ~Claims(b)
  BY <1>2 DEF Claims, ClaimsAt
<1>7. AdmitsWork(b)
  <2>1. \A j : j \notin 1..(1 - 1)
    OBVIOUS
  <2>2. ~Negated(b, 1, UNFINISHED_NEGATORS)
    BY <2>1, Zenon DEF Negated
  <2>3. FlagsOpenWork(b, 1)
    BY <1>2, <2>2
  <2>4. OpenAt(b, 1) /\ 1 \in 1..Len(b)
    BY <1>2, <2>3 DEF OpenAt
  <2>. QED  BY <2>4 DEF AdmitsWork
<1>8. Claims(m) <=> Claims(a)
  BY <1>3, <1>5, <1>6, JudgedApart
<1>9. AdmitsWork(m)
  BY <1>3, <1>5, <1>7, JudgedApart
<1>10. Plain(m)
  BY <1>2, JoinedPlain
<1>11. m \in Seq(Tokens) /\ normalize(m) = m
  BY <1>10, NormalizeIs DEF Plain
<1>12. rules_match(m).rule # "none" <=> Claims(m) /\ AdmitsWork(m)
  BY <1>11, RulesAre
<1>. QED  BY <1>4, <1>8, <1>9, <1>12

LEMMA CompletionIsClaimed ==
  ASSUME NEW a, Plain(a)
  PROVE  ClaimsCompletion(a) <=> Claims(a)
<1>. PICK t : t = "<insert x>"
  OBVIOUS
<1>1. t \in Marker \cap Tokens
  BY Zenon DEF Tokens, Marker
<1>2. t # Code /\ t # "text" /\ t # Completion
  BY Zenon DEF Code, Completion
<1>3. \A m : m[1] = t /\ ~Negated(m, 1, UNFINISHED_NEGATORS) => FlagsOpenWork(m, 1)
  BY Zenon DEF FlagsOpenWork
<1>4. rules_match(a \o <<".", t>>).rule # "none" <=> Claims(a)
  BY <1>1, <1>2, <1>3, OpenBehind, Zenon
<1>. QED  BY <1>4, Zenon DEF ClaimsCompletion

LEMMA WorkIsAdmitted ==
  ASSUME NEW a, Plain(a)
  PROVE  AdmitsOpenWork(a) <=> AdmitsWork(a)
<1>. PICK t : t = "done"
  OBVIOUS
<1>. PICK b : b = <<t>>
  OBVIOUS
<1>. PICK m : m = Joined(b, a)
  OBVIOUS
<1>1. t \in Tokens /\ t # Code /\ t # "placeholder" /\ t = Completion /\ t \notin Marker /\ t # Promise
  BY DEF Tokens, Code, Completion, Marker, Promise
<1>2. Plain(b) /\ Len(b) = 1 /\ b[1] = t /\ \A i : i \in 1..Len(b) <=> i = 1
  BY <1>1, OneToken
<1>3. a \in Seq(Tokens) /\ b \in Seq(Tokens)
  BY <1>2 DEF Plain
<1>4. m = <<t, ".">> \o a
  <2>. PICK stop : stop = "."
    OBVIOUS
  <2>1. stop \in Tokens
    BY DEF Tokens
  <2>2. b \o <<stop>> = <<t, stop>>
    BY <1>1, <2>1, TwoTokens
  <2>. QED  BY <2>2, Zenon DEF Joined
<1>5. ~PlaceholderThenText(b, a)
  <2>1. DOMAIN b = 1..Len(b)
    BY <1>3
  <2>. QED  BY <1>1, <1>2, <2>1 DEF PlaceholderThenText
<1>6. Claims(b)
  <2>1. ~Negated(b, 1, COMPLETION_NEGATORS)
    BY DEF Negated
  <2>2. ClaimsAt(b, 1) /\ 1 \in 1..Len(b)
    BY <1>1, <1>2, <2>1 DEF ClaimsAt
  <2>. QED  BY <2>2 DEF Claims
<1>7. ~AdmitsWork(b)
  BY <1>1, <1>2 DEF AdmitsWork, OpenAt
<1>8. Claims(m) /\ (AdmitsWork(m) <=> AdmitsWork(a))
  BY <1>3, <1>5, <1>6, <1>7, JudgedApart
<1>9. Plain(m)
  BY <1>2, JoinedPlain
<1>10. m \in Seq(Tokens) /\ normalize(m) = m
  BY <1>9, NormalizeIs DEF Plain
<1>11. rules_match(m).rule # "none" <=> Claims(m) /\ AdmitsWork(m)
  BY <1>10, RulesAre
<1>12. AdmitsOpenWork(a) <=> rules_match(m).rule # "none"
  BY <1>4, Zenon DEF AdmitsOpenWork
<1>. QED  BY <1>8, <1>11, <1>12

LEMMA LargerSeq ==
  ASSUME NEW S, NEW T, S \subseteq T, NEW s \in Seq(S)
  PROVE  s \in Seq(T)
OBVIOUS

\* A message that claims completion and is let through leaves each of its promises to the user.
LEMMA PromisesAreLeft ==
  ASSUME NEW said \in Seq(Tokens), NEW m, m = normalize(said),
         ClaimsCompletion(m), rules_match(said).rule = "none",
         NEW i \in DOMAIN m, m[i] = Promise
  PROVE  \E j \in {j \in DOMAIN m : m[j] \in UserGates} :
           \A k \in (Min({i, j}) + 1)..(Max({i, j}) - 1) : m[k] \notin ClauseEnds \cup {Promise}
<1>1. Plain(m) /\ m \in Seq(Tokens) /\ DOMAIN m = 1..Len(m)
  <2>1. Plain(m)
    BY NormalizeIs
  <2>2. m \in Seq(Tokens)
    BY <2>1 DEF Plain
  <2>. QED  BY <2>1, <2>2
<1>2. Claims(m)
  BY <1>1, CompletionIsClaimed
<1>3. ~AdmitsWork(m)
  BY <1>2, RulesAre
<1>4. IsOffer(m, i)
  BY <1>1, <1>3 DEF AdmitsWork, OpenAt
<1>5. PICK j \in 1..Len(m) :
        /\ m[j] \in UserGates
        /\ \A k \in (Min({i, j}) + 1)..(Max({i, j}) - 1) : m[k] \notin Bounds
  BY <1>1, <1>4, OfferHasGate
<1>. QED  BY <1>1, <1>5, Zenon DEF Bounds

\* The parts of a message on either side of a full stop, without their code.
LEMMA PartsArePlain ==
  ASSUME NEW m, Plain(m), NEW i \in 1..Len(m), NEW a, NEW b, CutAt(m, i, a, b)
  PROVE  Plain(a) /\ Plain(b)
<1>1. /\ Len(m) \in Nat /\ i \in Nat /\ i >= 1 /\ i <= Len(m)
      /\ a \in Seq(Tokens) /\ Len(a) = i - 1 /\ \A k \in 1..(i - 1) : a[k] = m[k]
      /\ b \in Seq(Tokens) /\ Len(b) = Len(m) - i
      /\ \A k \in 1..(Len(m) - i) : b[k] = m[i + k]
  BY Zenon DEF CutAt
<1>2. \A k \in 1..Len(m) : m[k] # Code
  BY DEF Plain
<1>3. Plain(a)
  <2>1. \A k \in 1..Len(a) : k \in 1..(i - 1) /\ k \in 1..Len(m)
    BY <1>1
  <2>. QED  BY <1>1, <1>2, <2>1 DEF Plain
<1>4. Plain(b)
  <2>1. \A k \in 1..Len(b) : k \in 1..(Len(m) - i) /\ i + k \in 1..Len(m)
    BY <1>1
  <2>. QED  BY <1>1, <1>2, <2>1 DEF Plain
<1>. QED  BY <1>3, <1>4

LEMMA PartsJoin ==
  ASSUME NEW m \in Seq(Tokens), NEW i \in 1..Len(m), NEW a, NEW b, CutAt(m, i, a, b),
         NEW c, c = Joined(a, b), c[i] = m[i]
  PROVE  c = m
<1>1. /\ Len(m) \in Nat /\ i \in Nat /\ i >= 1 /\ i <= Len(m)
      /\ a \in Seq(Tokens) /\ Len(a) = i - 1 /\ \A k \in 1..(i - 1) : a[k] = m[k]
      /\ b \in Seq(Tokens) /\ Len(b) = Len(m) - i
      /\ \A k \in 1..(Len(m) - i) : b[k] = m[i + k]
  BY Zenon DEF CutAt
<1>2. /\ c \in Seq(Tokens) /\ Len(c) = Len(a) + 1 + Len(b)
      /\ Within(a, c, 0) /\ Within(b, c, Len(a) + 1)
  BY <1>1, JoinedIs
<1>3. Len(c) = Len(m)
  BY <1>1, <1>2
<1>4. ASSUME NEW k \in 1..Len(c) PROVE c[k] = m[k]
  <2>1. CASE k < i
    <3>1. k \in 1..Len(a) /\ k \in 1..(i - 1) /\ k + 0 = k
      BY <1>1, <2>1
    <3>2. c[k + 0] = a[k]
      BY <1>2, <3>1, WithinIs
    <3>. QED  BY <1>1, <3>1, <3>2
  <2>2. CASE k = i
    BY <2>2
  <2>3. CASE k > i
    <3>. PICK n : n = k - i
      OBVIOUS
    <3>1. n \in 1..Len(b) /\ n \in 1..(Len(m) - i) /\ n + (Len(a) + 1) = k /\ i + n = k
      BY <1>1, <1>3, <2>3
    <3>2. c[n + (Len(a) + 1)] = b[n]
      <4>1. \A l \in 1..Len(b) : c[l + (Len(a) + 1)] = b[l]
        BY <1>2, Zenon DEF Within
      <4>. QED  BY <3>1, <4>1, Zenon
    <3>. QED  BY <1>1, <3>1, <3>2
  <2>. QED  BY <1>1, <1>3, <2>1, <2>2, <2>3
<1>. QED  BY <1>2, <1>3, <1>4, SeqEqual

\* They are judged apart.
RuledApart(match, a, b) ==
  match.rule # "none" <=> /\ ClaimsCompletion(a) \/ ClaimsCompletion(b)
                          /\ AdmitsOpenWork(a) \/ AdmitsOpenWork(b)

LEMMA PartsAreJudged ==
  ASSUME NEW said \in Seq(Tokens), NEW m, m = normalize(said), NEW i \in 1..Len(m), m[i] = ".",
         NEW a, NEW b, CutAt(m, i, a, b), ~PlaceholderThenText(a, b)
  PROVE  RuledApart(rules_match(said), a, b)
<1>1. Plain(m)
  BY NormalizeIs
<1>2. m \in Seq(Tokens)
  BY <1>1, Zenon DEF Plain
<1>3. Plain(a) /\ Plain(b)
  BY <1>1, PartsArePlain, Zenon
<1>4. a \in Seq(Tokens) /\ b \in Seq(Tokens)
  BY <1>3, Zenon DEF Plain
<1>5. m = Joined(a, b)
  <2>. PICK c : c = Joined(a, b)
    BY Zenon
  <2>1. c[Len(a) + 1] = "."
    BY <1>4, JoinedIs, Zenon
  <2>2. Len(a) + 1 = i
    <3>1. Len(a) = i - 1 /\ i \in Nat
      BY Zenon DEF CutAt
    <3>. QED  BY ONLY <3>1
  <2>3. c[i] = m[i]
    <3>1. c[i] = "."
      BY <2>1, <2>2
    <3>. QED  BY <3>1
  <2>4. c = m
    BY <1>2, <2>3, PartsJoin
  <2>. QED  BY <2>4, Zenon
<1>6. /\ Claims(m) <=> Claims(a) \/ Claims(b)
      /\ AdmitsWork(m) <=> AdmitsWork(a) \/ AdmitsWork(b)
  BY <1>4, <1>5, JudgedApart
<1>7. /\ ClaimsCompletion(a) <=> Claims(a)
      /\ ClaimsCompletion(b) <=> Claims(b)
  BY <1>3, CompletionIsClaimed, Zenon
<1>8. /\ AdmitsOpenWork(a) <=> AdmitsWork(a)
      /\ AdmitsOpenWork(b) <=> AdmitsWork(b)
  BY <1>3, WorkIsAdmitted, Zenon
<1>9. rules_match(said).rule # "none" <=> Claims(m) /\ AdmitsWork(m)
  BY RulesAre, Zenon
<1>. QED  BY <1>6, <1>7, <1>8, <1>9, Zenon DEF RuledApart

LEMMA PartsJudgedApart ==
  ASSUME NEW said \in Seq(Tokens), NEW m, m = normalize(said), NEW i \in DOMAIN m, m[i] = ".",
         NEW a, a = SubSeq(m, 1, i - 1), NEW b, b = SubSeq(m, i + 1, Len(m)), ~PlaceholderThenText(a, b)
  PROVE  RuledApart(rules_match(said), a, b)
<1>1. Plain(m)
  BY NormalizeIs
<1>2. m \in Seq(Tokens)
  BY <1>1, Zenon DEF Plain
<1>3. i \in 1..Len(m)
  BY <1>2
<1>4. CutAt(m, i, a, b)
  BY <1>2, <1>3, SubSeqIs
<1>. QED  BY <1>3, <1>4, PartsAreJudged, Zenon

\* No sentence of a message changes what another one says, a promise passes
\* only if it is left to the user, and nothing is blocked that claims nothing
\* (hook.rs, rules_match).
THEOREM GateIsAlwaysHonest == ReadSpec => []GateIsHonest
<1>1. ReadInv => GateIsHonest
  <2>. SUFFICES ASSUME ReadInv, request.command = "gate-explain" PROVE GateIsHonest
    BY DEF GateIsHonest
  <2>. PICK said : said = request.input
    OBVIOUS
  <2>. PICK m : m = normalize(said)
    OBVIOUS
  <2>1. said \in Seq(Tokens) /\ answer = rules_match(said)
    <3>1. said \in Messages /\ answer = rules_match(said)
      BY Zenon DEF ReadInv
    <3>2. Messages \subseteq Seq(STRING)
      BY ReadersAssumption, Zenon
    <3>3. STRING \subseteq Tokens
      BY DEF Tokens
    <3>4. said \in Seq(STRING)
      BY <3>1, <3>2
    <3>5. said \in Seq(Tokens)
      BY <3>3, <3>4, LargerSeq, Zenon
    <3>. QED  BY <3>1, <3>5
  <2>2. DOMAIN said = 1..Len(said) /\ Len(said) \in Nat
    BY <2>1
  <2>3. CodeIsNotRead(said)
    <3>1. ASSUME ~Contains(said, Code) PROVE normalize(said) = said
      <4>1. Plain(said)
        BY <2>1, <3>1, Zenon DEF Plain, Contains
      <4>. QED  BY <2>1, <4>1, NormalizeIs
    <3>2. ASSUME NEW i \in {i \in DOMAIN said : said[i] = Code}
          PROVE  normalize(RemoveAt(said, i)) = normalize(said)
      BY <2>1, <2>2, NormalizeSkips
    <3>. QED  BY <3>1, <3>2 DEF CodeIsNotRead
  <2>4. SentencesJudgedApart(m)
    <3>1. ASSUME NEW i \in DOMAIN m, m[i] = ".",
                 NEW a, a = SubSeq(m, 1, i - 1), NEW b, b = SubSeq(m, i + 1, Len(m)),
                 ~PlaceholderThenText(a, b)
          PROVE  answer.rule # "none" <=> /\ ClaimsCompletion(a) \/ ClaimsCompletion(b)
                                          /\ AdmitsOpenWork(a) \/ AdmitsOpenWork(b)
      <4>1. RuledApart(rules_match(said), a, b)
        BY <2>1, <3>1, PartsJudgedApart
      <4>. QED  BY <2>1, <4>1, Zenon DEF RuledApart
    <3>. QED  BY <3>1, Zenon DEF SentencesJudgedApart
  <2>5. PromisesLeftToTheUser(m)
    BY <2>1, PromisesAreLeft, Zenon DEF PromisesLeftToTheUser
  <2>6. answer.rule # "none" => Contains(m, "done")
    BY <2>1, RulesAre, Zenon DEF Claims, ClaimsAt, Completion, Contains
  <2>. QED  BY <2>3, <2>4, <2>5, <2>6, Zenon DEF GateIsHonest
<1>. QED  BY <1>1, AnswersFollow, PTL

-----------------------------------------------------------------------------
(* Skills *)

\* The first of the checks that fails is the problem.
LEMMA FirstProblemIs ==
  ASSUME NEW checks, NEW N \in Nat, DOMAIN checks = 1..N
  PROVE  \/ FirstProblem(checks) = "none" /\ \A i \in 1..N : ~checks[i][2]
         \/ \E i \in 1..N : checks[i][2] /\ FirstProblem(checks) = checks[i][1]
<1>. DEFINE failing == {i \in 1..N : checks[i][2]}
<1>1. FirstProblem(checks) = IF failing = {} THEN "none" ELSE checks[Min(failing)][1]
  BY Zenon DEF FirstProblem
<1>2. CASE failing = {}
  BY <1>1, <1>2
<1>3. CASE failing # {}
  <2>1. failing \in SUBSET Nat
    OBVIOUS
  <2>. HIDE DEF failing
  <2>2. Min(failing) \in failing
    BY <1>3, <2>1, MinOf
  <2>3. FirstProblem(checks) = checks[Min(failing)][1]
    BY <1>1, <1>3
  <2>. QED  BY <2>2, <2>3, Zenon DEF failing
<1>. QED  BY <1>2, <1>3

Seven(s, a1, a2, a3, a4, a5, a6, a7) ==
  /\ s = <<a1, a2, a3, a4, a5, a6, a7>> /\ DOMAIN s = 1..7
  /\ s[1] = a1 /\ s[2] = a2 /\ s[3] = a3 /\ s[4] = a4
  /\ s[5] = a5 /\ s[6] = a6 /\ s[7] = a7

LEMMA SevenIs ==
  ASSUME NEW a1, NEW a2, NEW a3, NEW a4, NEW a5, NEW a6, NEW a7
  PROVE  \E s : Seven(s, a1, a2, a3, a4, a5, a6, a7)
<1>1. DOMAIN <<a1, a2, a3, a4, a5, a6, a7>> = 1..7
  OBVIOUS
<1>. PICK s : s = <<a1, a2, a3, a4, a5, a6, a7>>
  BY Zenon
<1>2. /\ s[1] = a1 /\ s[2] = a2 /\ s[3] = a3 /\ s[4] = a4
      /\ s[5] = a5 /\ s[6] = a6 /\ s[7] = a7
  OBVIOUS
<1>. QED  BY <1>1, <1>2, Zenon DEF Seven

Eight(s, a1, a2, a3, a4, a5, a6, a7, a8) ==
  /\ s = <<a1, a2, a3, a4, a5, a6, a7, a8>> /\ DOMAIN s = 1..8
  /\ s[1] = a1 /\ s[2] = a2 /\ s[3] = a3 /\ s[4] = a4
  /\ s[5] = a5 /\ s[6] = a6 /\ s[7] = a7 /\ s[8] = a8

LEMMA EightIs ==
  ASSUME NEW a1, NEW a2, NEW a3, NEW a4, NEW a5, NEW a6, NEW a7, NEW a8
  PROVE  \E s : Eight(s, a1, a2, a3, a4, a5, a6, a7, a8)
<1>1. DOMAIN <<a1, a2, a3, a4, a5, a6, a7, a8>> = 1..8
  OBVIOUS
<1>. PICK s : s = <<a1, a2, a3, a4, a5, a6, a7, a8>>
  BY Zenon
<1>2. /\ s[1] = a1 /\ s[2] = a2 /\ s[3] = a3 /\ s[4] = a4
      /\ s[5] = a5 /\ s[6] = a6 /\ s[7] = a7 /\ s[8] = a8
  OBVIOUS
<1>. QED  BY <1>1, <1>2, Zenon DEF Eight

\* What the answer about one skill says.
SkillOutcome(dir, skill) ==
  /\ SkillProblem(dir, skill) = "none" =>
       skill_command_problems(skill.lines) = {} /\ ~check_skill_links(skill)
  /\ SkillProblem(dir, skill) = "command" => skill_command_problems(skill.lines) # {}
  /\ SkillProblem(dir, skill) = "link" => check_skill_links(skill)

LEMMA SkillProblemIs ==
  ASSUME NEW dir, NEW skill
  PROVE  SkillOutcome(dir, skill)
<1>. DEFINE c1 == <<"no SKILL.md", ~skill.written>>
            c2 == <<"no name", skill.name = Missing>>
            c3 == <<"not its directory", skill.name # dir>>
            c4 == <<"no description", skill.description = Missing>>
            c5 == <<"not wired", ~skill_wires_to_kernel(skill.lines)>>
            c6 == <<"command", skill_command_problems(skill.lines) # {}>>
            c7 == <<"link", check_skill_links(skill)>>
<1>1. SkillProblem(dir, skill) = FirstProblem(<<c1, c2, c3, c4, c5, c6, c7>>)
  BY DEF SkillProblem
<1>2. /\ c1[1] = "no SKILL.md" /\ c2[1] = "no name" /\ c3[1] = "not its directory"
      /\ c4[1] = "no description" /\ c5[1] = "not wired" /\ c6[1] = "command" /\ c7[1] = "link"
  OBVIOUS
<1>3. /\ c6[2] <=> skill_command_problems(skill.lines) # {}
      /\ c7[2] <=> check_skill_links(skill)
  OBVIOUS
<1>. HIDE DEF c1, c2, c3, c4, c5, c6, c7
<1>4. PICK checks : Seven(checks, c1, c2, c3, c4, c5, c6, c7)
  BY SevenIs, Zenon
<1>5. /\ SkillProblem(dir, skill) = FirstProblem(checks) /\ DOMAIN checks = 1..7
      /\ checks[1] = c1 /\ checks[2] = c2 /\ checks[3] = c3 /\ checks[4] = c4
      /\ checks[5] = c5 /\ checks[6] = c6 /\ checks[7] = c7
  BY <1>1, <1>4, Zenon DEF Seven
<1>6. 7 \in Nat /\ 6 \in 1..7 /\ 7 \in 1..7
      /\ \A i \in 1..7 : i = 1 \/ i = 2 \/ i = 3 \/ i = 4 \/ i = 5 \/ i = 6 \/ i = 7
  BY ONLY TRUE
<1>7. \/ FirstProblem(checks) = "none" /\ \A i \in 1..7 : ~checks[i][2]
      \/ \E i \in 1..7 : checks[i][2] /\ FirstProblem(checks) = checks[i][1]
  BY <1>5, <1>6, FirstProblemIs, Zenon
<1>8. ASSUME NEW i \in 1..7, checks[i][2]
      PROVE  /\ checks[i][1] # "none"
             /\ checks[i][1] = "command" => c6[2]
             /\ checks[i][1] = "link" => c7[2]
  BY <1>2, <1>5, <1>6, <1>8
<1>9. "none" # "command" /\ "none" # "link"
  OBVIOUS
<1>. QED  BY <1>3, <1>5, <1>6, <1>7, <1>8, <1>9, Zenon DEF SkillOutcome

\* A release has other problems than its skills.
LEMMA ReleaseProblemIs ==
  ASSUME NEW repo
  PROVE  ReleaseProblem(repo) \notin {"command", "link"}
<1>. DEFINE c1 == <<"file", Required \ repo.files # {}>>
            c2 == <<"json", repo.broken # {}>>
            c3 == <<"no version", Missing \in {repo.cargo, repo.version.codex, repo.version.claude, repo.version.kimi}>>
            c4 == <<"version", \E m \in DOMAIN repo.version : repo.version[m] \notin {repo.cargo, Missing}>>
            c5 == <<"no name", \E m \in DOMAIN repo.name : repo.name[m] = Missing>>
            c6 == <<"name", \E m \in DOMAIN repo.name : repo.name[m] # PLUGIN_NAME>>
            c7 == <<"script", repo.scripts \ repo.files # {}>>
            c8 == <<"no cases", repo.cases = 0>>
<1>1. ReleaseProblem(repo) = FirstProblem(<<c1, c2, c3, c4, c5, c6, c7, c8>>)
  BY DEF ReleaseProblem
<1>2. /\ c1[1] = "file" /\ c2[1] = "json" /\ c3[1] = "no version" /\ c4[1] = "version"
      /\ c5[1] = "no name" /\ c6[1] = "name" /\ c7[1] = "script" /\ c8[1] = "no cases"
  OBVIOUS
<1>. HIDE DEF c1, c2, c3, c4, c5, c6, c7, c8
<1>3. PICK checks : Eight(checks, c1, c2, c3, c4, c5, c6, c7, c8)
  BY EightIs, Zenon
<1>4. /\ ReleaseProblem(repo) = FirstProblem(checks) /\ DOMAIN checks = 1..8
      /\ checks[1] = c1 /\ checks[2] = c2 /\ checks[3] = c3 /\ checks[4] = c4
      /\ checks[5] = c5 /\ checks[6] = c6 /\ checks[7] = c7 /\ checks[8] = c8
  BY <1>1, <1>3, Zenon DEF Eight
<1>5. 8 \in Nat
      /\ \A i \in 1..8 : i = 1 \/ i = 2 \/ i = 3 \/ i = 4 \/ i = 5 \/ i = 6 \/ i = 7 \/ i = 8
  BY ONLY TRUE
<1>6. FirstProblem(checks) = "none" \/ \E i \in 1..8 : FirstProblem(checks) = checks[i][1]
  BY <1>4, <1>5, FirstProblemIs, Zenon
<1>7. ASSUME NEW i \in 1..8 PROVE checks[i][1] \notin {"command", "link"}
  BY <1>2, <1>4, <1>5
<1>8. "none" \notin {"command", "link"}
  OBVIOUS
<1>. QED  BY <1>4, <1>6, <1>7, <1>8, Zenon

\* What validation finds of the skills.
Validated(repo, problem) ==
  /\ problem = "none" => \A dir \in DOMAIN repo.skills : SkillProblem(dir, repo.skills[dir]) = "none"
  /\ problem \in {"command", "link"} =>
       \E dir \in DOMAIN repo.skills : SkillProblem(dir, repo.skills[dir]) = problem

LEMMA ValidatedIs ==
  ASSUME NEW repo, NEW problem \in validate(repo)
  PROVE  Validated(repo, problem)
BY ReleaseProblemIs DEF validate, Validated

\* Counting one place further.
LEMMA CountStep ==
  ASSUME NEW n \in Nat \ {0}, NEW C \in SUBSET (1..n), NEW D, D = C \cap (1..(n - 1))
  PROVE  /\ Cardinality(C) \in Nat /\ Cardinality(D) \in Nat
         /\ Cardinality(C) = Cardinality(D) + IF n \in C THEN 1 ELSE 0
<1>1. IsFiniteSet(C)
  BY UpTo, FS_Subset
<1>2. Cardinality(C) \in Nat
  BY <1>1, FS_CardinalityType
<1>3. \A k \in 1..n : k \in 1..(n - 1) <=> k # n
  OBVIOUS
<1>4. CASE n \notin C
  <2>1. D = C
    BY <1>3, <1>4, Zenon
  <2>. QED  BY ONLY <1>2, <1>4, <2>1
<1>5. CASE n \in C
  <2>1. D = C \ {n}
    <3>1. n \notin 1..(n - 1)
      OBVIOUS
    <3>. QED  BY <1>3, <3>1, Zenon
  <2>2. Cardinality(D) = Cardinality(C) - 1 /\ IsFiniteSet(D)
    BY <1>1, <1>5, <2>1, FS_RemoveElement, Zenon
  <2>3. Cardinality(D) \in Nat
    BY <2>2, FS_CardinalityType
  <2>. QED  BY ONLY <1>2, <1>5, <2>2, <2>3
<1>. QED  BY <1>4, <1>5

\* Whether a line is in fenced code is what the loop says.
LEMMA FenceStep ==
  ASSUME NEW lines, NEW n \in Nat \ {0}
  PROVE  InFence(lines, n + 1) <=> IF IsFence(lines[n]) THEN ~InFence(lines, n) ELSE InFence(lines, n)
<1>. DEFINE C == {k \in 1..n : IsFence(lines[k])}
<1>1. /\ C \in SUBSET (1..n) /\ (n + 1) - 1 = n
      /\ n \in C <=> IsFence(lines[n])
      /\ C \cap (1..(n - 1)) = {k \in 1..(n - 1) : IsFence(lines[k])}
  OBVIOUS
<1>2. InFence(lines, n + 1) <=> Cardinality(C) % 2 = 1
  BY <1>1, Zenon DEF InFence
<1>3. InFence(lines, n) <=> Cardinality(C \cap (1..(n - 1))) % 2 = 1
  BY <1>1, Zenon DEF InFence
<1>. HIDE DEF C
<1>. PICK c : c = Cardinality(C)
  OBVIOUS
<1>. PICK d : d = Cardinality(C \cap (1..(n - 1)))
  OBVIOUS
<1>4. c \in Nat /\ d \in Nat /\ c = d + IF n \in C THEN 1 ELSE 0
  BY <1>1, CountStep
<1>5. n \in C => (c % 2 = 1 <=> ~(d % 2 = 1))
  BY ONLY <1>4
<1>6. n \notin C => c = d
  BY ONLY <1>4
<1>. QED  BY <1>1, <1>2, <1>3, <1>5, <1>6, Zenon

\* Lines of tokens.
Tokened == Seq(Seq([kind : STRING, name : STRING]))

\* The loop over the lines, with what a fence is to a reader.
LEMMA RefsAre ==
  ASSUME NEW lines \in Tokened
  PROVE  skill_command_refs(lines) =
           {code \in UNION {CodeOn(lines[n], InFence(lines, n)) : n \in DOMAIN lines} : IsCommand(code)}
<1>. DEFINE N == Len(lines)
            Fold(g) == [n \in 0..N |-> IF n = 0 THEN FALSE
                                       ELSE IF IsFence(lines[n]) THEN ~g[n - 1] ELSE g[n - 1]]
            f == CHOOSE g : g = Fold(g)
            h == [n \in 0..N |-> InFence(lines, n + 1)]
<1>1. N \in Nat /\ DOMAIN lines = 1..N
  BY DEF Tokened
<1>2. skill_command_refs(lines) =
        {code \in UNION {CodeOn(lines[n], f[n - 1]) : n \in DOMAIN lines} : IsCommand(code)}
  BY Zenon DEF skill_command_refs
<1>. HIDE DEF N
<1>3. h = Fold(h)
  <2>1. ASSUME NEW n \in 0..N
        PROVE  InFence(lines, n + 1) = IF n = 0 THEN FALSE
                                       ELSE IF IsFence(lines[n]) THEN ~h[n - 1] ELSE h[n - 1]
    <3>1. CASE n = 0
      <4>1. {k \in 1..((0 + 1) - 1) : IsFence(lines[k])} = {}
        OBVIOUS
      <4>2. Cardinality({}) = 0
        BY FS_EmptySet
      <4>3. ~InFence(lines, 0 + 1)
        BY <4>1, <4>2 DEF InFence
      <4>4. InFence(lines, 0 + 1) \in BOOLEAN
        BY DEF InFence
      <4>. QED  BY <3>1, <4>3, <4>4
    <3>2. CASE n # 0
      <4>1. n \in Nat \ {0} /\ n - 1 \in 0..N /\ (n - 1) + 1 = n
        BY <1>1, <3>2
      <4>2. h[n - 1] = InFence(lines, n)
        BY <4>1, Zenon
      <4>3. InFence(lines, n) \in BOOLEAN /\ InFence(lines, n + 1) \in BOOLEAN
        BY DEF InFence
      <4>4. InFence(lines, n + 1) <=> IF IsFence(lines[n]) THEN ~InFence(lines, n) ELSE InFence(lines, n)
        BY <4>1, FenceStep
      <4>. HIDE DEF h
      <4>. QED  BY <3>2, <4>2, <4>3, <4>4
    <3>. QED  BY <3>1, <3>2
  <2>. DEFINE e(n) == IF n = 0 THEN FALSE ELSE IF IsFence(lines[n]) THEN ~h[n - 1] ELSE h[n - 1]
  <2>2. \A n \in 0..N : InFence(lines, n + 1) = e(n)
    BY <2>1
  <2>. HIDE DEF e
  <2>3. [n \in 0..N |-> InFence(lines, n + 1)] = [n \in 0..N |-> e(n)]
    BY <2>2, Zenon
  <2>. QED  BY <2>3, Zenon DEF e
<1>4. f = Fold(f)
  <2>. HIDE DEF Fold, h
  <2>. QED  BY <1>3, Zenon
<1>5. ASSUME NEW n \in 0..N PROVE f[n] = h[n]
  <2>. DEFINE Bad == {m \in 0..N : f[m] # h[m]}
  <2>1. SUFFICES ASSUME Bad # {} PROVE FALSE
    OBVIOUS
  <2>2. PICK m \in Bad : \A k \in Bad : m <= k
    <3>1. Bad \in SUBSET Nat
      <4>. HIDE DEF f, h
      <4>. QED  BY <1>1
    <3>. HIDE DEF Bad
    <3>. QED  BY <2>1, <3>1, LeastOf
  <2>. HIDE DEF f, h
  <2>3. m \in 0..N /\ f[m] # h[m] /\ (m # 0 => m - 1 \in 0..N /\ f[m - 1] = h[m - 1])
    BY <1>1, <2>2
  <2>4. \A g : g = Fold(g) => g[m] = IF m = 0 THEN FALSE
                                     ELSE IF IsFence(lines[m]) THEN ~g[m - 1] ELSE g[m - 1]
    BY <2>3, Zenon
  <2>. HIDE DEF Fold
  <2>5. CASE m = 0
    BY <1>3, <1>4, <2>3, <2>4, <2>5, Zenon
  <2>6. CASE m # 0 /\ IsFence(lines[m])
    <3>1. f[m] = ~f[m - 1] /\ h[m] = ~h[m - 1]
      BY <1>3, <1>4, <2>4, <2>6, Zenon
    <3>. QED  BY <2>3, <2>6, <3>1, Zenon
  <2>7. CASE m # 0 /\ ~IsFence(lines[m])
    <3>1. f[m] = f[m - 1] /\ h[m] = h[m - 1]
      BY <1>3, <1>4, <2>4, <2>7, Zenon
    <3>. QED  BY <2>3, <2>7, <3>1, Zenon
  <2>. QED  BY <2>5, <2>6, <2>7
<1>6. ASSUME NEW n \in DOMAIN lines PROVE f[n - 1] = InFence(lines, n)
  <2>1. n - 1 \in 0..N /\ (n - 1) + 1 = n
    BY <1>1
  <2>2. h[n - 1] = InFence(lines, n)
    BY <2>1, Zenon
  <2>. HIDE DEF f, h
  <2>. QED  BY <1>5, <2>1, <2>2, Zenon
<1>. HIDE DEF f
<1>7. UNION {CodeOn(lines[n], f[n - 1]) : n \in DOMAIN lines}
        = UNION {CodeOn(lines[n], InFence(lines, n)) : n \in DOMAIN lines}
  BY <1>6, Zenon
<1>. QED  BY <1>2, <1>7, Zenon

\* What stands between two places is a command if it starts with one.
LEMMA CommandIs ==
  ASSUME NEW S, NEW line \in Seq(S), NEW from \in 1..Len(line), NEW to \in from..Len(line)
  PROVE  IsCommand(SubSeq(line, from, to)) <=> line[from].kind = "hikmah"
<1>. PICK c : c = SubSeq(line, from, to)
  OBVIOUS
<1>1. Len(line) \in Nat /\ from \in Nat /\ to \in Nat /\ from <= to /\ to <= Len(line) /\ from >= 1
  OBVIOUS
<1>2. c \in Seq(S) /\ Len(c) = (to - from) + 1 /\ \A k \in 1..((to - from) + 1) : c[k] = line[(from + k) - 1]
  BY <1>1
<1>3. 1 \in 1..((to - from) + 1) /\ (from + 1) - 1 = from /\ (to - from) + 1 # 0
  BY ONLY <1>1
<1>4. c[1] = line[from]
  BY <1>2, <1>3, Zenon
<1>5. c # <<>>
  BY ONLY <1>2, <1>3
<1>. QED  BY <1>4, <1>5, Zenon DEF IsCommand

\* A reader of line n sees a command there.
Seen(lines, n, code) ==
  \E from, to \in DOMAIN lines[n] : ReadAsCommand(lines, n, from, to) /\ code = SubSeq(lines[n], from, to)

\* Whole lines of fenced code.
LEMMA FencedIsSeen ==
  ASSUME NEW lines \in Tokened, NEW n \in DOMAIN lines, InFence(lines, n), ~IsFence(lines[n]), NEW code
  PROVE  code \in CodeOn(lines[n], InFence(lines, n)) /\ IsCommand(code) <=> Seen(lines, n, code)
<1>. DEFINE S == [kind : STRING, name : STRING]
<1>. PICK line : line = lines[n]
  OBVIOUS
<1>1. line \in Seq(S) /\ Len(line) \in Nat /\ DOMAIN line = 1..Len(line)
  BY DEF Tokened
<1>. HIDE DEF S
<1>2. \A from, to : ReadAsCommand(lines, n, from, to) <=>
        /\ from <= to /\ to = Len(line) /\ line[from].kind = "hikmah"
        /\ from = 1 \/ (from = 2 /\ line[1].kind = "dollar")
  <2>1. ASSUME NEW from, NEW to, to = Len(line), from = 1 \/ from = 2 PROVE to <= Len(line)
    BY <1>1, <2>1
  <2>. QED  BY <2>1, Zenon DEF ReadAsCommand
<1>3. code \in CodeOn(line, InFence(lines, n)) <=>
        code = IF line # <<>> /\ line[1].kind = "dollar" THEN Tail(line) ELSE line
  BY Zenon DEF CodeOn
<1>4. CASE line = <<>>
  <2>1. Len(line) = 0 /\ DOMAIN line = {}
    BY <1>1, <1>4
  <2>2. ~Seen(lines, n, code)
    BY <2>1, Zenon DEF Seen
  <2>3. code \in CodeOn(line, InFence(lines, n)) => code = <<>>
    BY <1>3, <1>4
  <2>. QED  BY <2>2, <2>3, Zenon DEF IsCommand
<1>5. CASE line # <<>> /\ line[1].kind = "dollar"
  <2>1. "dollar" # "hikmah"
    OBVIOUS
  <2>2. Len(line) >= 1
    BY <1>1, <1>5
  <2>3. Tail(line) = SubSeq(line, 2, Len(line))
    BY <1>1, <1>5, TailIsSubSeq, Zenon
  <2>4. CASE Len(line) = 1
    <3>1. SubSeq(line, 2, Len(line)) = <<>>
      <4>1. Len(line) \in Int /\ 2 \in Int /\ Len(line) < 2
        BY <1>1, <2>4
      <4>. QED  BY <4>1, SubSeqEmpty, Zenon
    <3>2. ~Seen(lines, n, code)
      <4>1. \A from, to : from <= to /\ to = Len(line) /\ from = 2 => FALSE
        BY <2>4
      <4>. QED  BY <1>2, <1>5, <2>1, <4>1, Zenon DEF Seen
    <3>. QED  BY <1>3, <1>5, <2>3, <3>1, <3>2, Zenon DEF IsCommand
  <2>5. CASE Len(line) # 1
    <3>1. 2 \in 1..Len(line) /\ Len(line) \in 2..Len(line) /\ Len(line) \in 1..Len(line) /\ 2 <= Len(line)
      BY <1>1, <2>2, <2>5
    <3>2. IsCommand(Tail(line)) <=> line[2].kind = "hikmah"
      BY <1>1, <2>3, <3>1, CommandIs, Zenon
    <3>3. Seen(lines, n, code) <=> line[2].kind = "hikmah" /\ code = Tail(line)
      <4>1. ASSUME Seen(lines, n, code) PROVE line[2].kind = "hikmah" /\ code = Tail(line)
        <5>1. PICK from \in DOMAIN line, to \in DOMAIN line :
                ReadAsCommand(lines, n, from, to) /\ code = SubSeq(line, from, to)
          BY <4>1, Zenon DEF Seen
        <5>2. /\ to = Len(line) /\ line[from].kind = "hikmah" /\ (from = 1 \/ from = 2)
          BY <1>2, <5>1, Zenon
        <5>3. from = 2
          BY <1>5, <2>1, <5>2, Zenon
        <5>4. line[2].kind = "hikmah"
          BY <5>2, <5>3, Zenon
        <5>5. SubSeq(line, from, to) = SubSeq(line, 2, Len(line))
          BY ONLY <5>2, <5>3, Zenon
        <5>. QED  BY ONLY <2>3, <5>1, <5>4, <5>5, Zenon
      <4>2. ASSUME line[2].kind = "hikmah", code = Tail(line) PROVE Seen(lines, n, code)
        BY <1>1, <1>2, <1>5, <2>3, <3>1, <4>2, Zenon DEF Seen
      <4>. QED  BY <4>1, <4>2
    <3>. QED  BY <1>3, <1>5, <3>2, <3>3, Zenon
  <2>. QED  BY <2>4, <2>5
<1>6. CASE line # <<>> /\ line[1].kind # "dollar"
  <2>1. 1 \in 1..Len(line) /\ Len(line) \in 1..Len(line) /\ 1 <= Len(line)
    BY <1>1, <1>6
  <2>2. SubSeq(line, 1, Len(line)) = line
    BY <1>1, SubSeqFull, Zenon
  <2>3. IsCommand(line) <=> line[1].kind = "hikmah"
    BY <1>1, <2>1, <2>2, CommandIs, Zenon
  <2>4. Seen(lines, n, code) <=> line[1].kind = "hikmah" /\ code = line
    <3>1. ASSUME Seen(lines, n, code) PROVE line[1].kind = "hikmah" /\ code = line
      BY <1>2, <1>6, <2>2, <3>1, Zenon DEF Seen
    <3>2. ASSUME line[1].kind = "hikmah", code = line PROVE Seen(lines, n, code)
      BY <1>1, <1>2, <2>1, <2>2, <3>2, Zenon DEF Seen
    <3>. QED  BY <3>1, <3>2
  <2>. QED  BY <1>3, <1>6, <2>3, <2>4, Zenon
<1>. QED  BY <1>4, <1>5, <1>6

\* The number of backticks does not change at a token that is none.
LEMMA TicksStay ==
  ASSUME NEW line, NEW i \in Nat \ {0}, line[i + 1].kind # "tick"
  PROVE  Ticks(line, i + 1) = Ticks(line, i)
<1>1. {k \in 1..(i + 1) : line[k].kind = "tick"} = {k \in 1..i : line[k].kind = "tick"}
  <2>1. \A k : k \in 1..(i + 1) <=> k \in 1..i \/ k = i + 1
    OBVIOUS
  <2>. QED  BY <2>1, Zenon
<1>. QED  BY <1>1, Zenon DEF Ticks

\* Code between backticks.
LEMMA SpanIsSeen ==
  ASSUME NEW lines \in Tokened, NEW n \in DOMAIN lines, ~InFence(lines, n), ~IsFence(lines[n]), NEW code
  PROVE  code \in CodeOn(lines[n], InFence(lines, n)) /\ IsCommand(code) <=> Seen(lines, n, code)
<1>. DEFINE S == [kind : STRING, name : STRING]
<1>. PICK line : line = lines[n]
  OBVIOUS
<1>1. line \in Seq(S) /\ Len(line) \in Nat /\ DOMAIN line = 1..Len(line)
  BY DEF Tokened
<1>. HIDE DEF S
<1>. DEFINE N == Len(line)
            After(i) == {k \in (i + 1)..(N + 1) : k > N \/ line[k].kind = "tick"}
<1>2. \A from, to : ReadAsCommand(lines, n, from, to) <=>
        /\ to <= N /\ from <= to /\ line[from].kind = "hikmah"
        /\ from > 1 /\ line[from - 1].kind = "tick" /\ Ticks(line, from) % 2 = 1
        /\ \A k \in from..to : line[k].kind # "tick"
        /\ to = N \/ line[to + 1].kind = "tick"
  BY Zenon DEF ReadAsCommand
<1>3. code \in CodeOn(line, InFence(lines, n)) <=>
        \E i \in 1..N : Opens(line, i) /\ code = SpanAt(line, i)
  BY <1>1, Zenon DEF CodeOn
<1>4. "hikmah" # "tick"
  OBVIOUS
<1>5. ASSUME NEW i \in 1..N, Opens(line, i), code = SpanAt(line, i), IsCommand(code)
      PROVE  Seen(lines, n, code)
  <2>1. After(i) \in SUBSET Nat /\ N + 1 \in After(i)
    BY <1>1
  <2>. PICK e : e = Min(After(i))
    OBVIOUS
  <2>2. e \in After(i) /\ \A k \in After(i) : e <= k
    <3>. HIDE DEF After
    <3>. QED  BY <2>1, MinOf
  <2>3. /\ N \in Nat /\ e \in Nat /\ i \in Nat /\ i >= 1 /\ i <= N /\ i + 1 <= e /\ e <= N + 1
        /\ e > N \/ line[e].kind = "tick"
    BY <1>1, <2>2
  <2>4. code = SubSeq(line, i + 1, e - 1)
    BY <1>5, Zenon DEF SpanAt
  <2>5. e - 1 >= i + 1
    <3>1. SUFFICES ASSUME e - 1 < i + 1 PROVE FALSE
      BY <2>3
    <3>2. i + 1 \in Int /\ e - 1 \in Int
      BY <2>3
    <3>3. code = <<>>
      BY <2>4, <3>1, <3>2, SubSeqEmpty
    <3>. QED  BY <1>5, <3>3, Zenon DEF IsCommand
  <2>6. /\ i + 1 \in 1..N /\ e - 1 \in (i + 1)..N /\ e - 1 \in 1..N /\ (i + 1) - 1 = i /\ i + 1 > 1
        /\ e - 1 <= N /\ i + 1 <= e - 1 /\ (e - 1) + 1 = e /\ i \in Nat \ {0}
        /\ e > N => e - 1 = N
    BY ONLY <2>3, <2>5
  <2>7. line[i + 1].kind = "hikmah"
    BY <1>1, <1>5, <2>4, <2>6, CommandIs, Zenon
  <2>8. Ticks(line, i + 1) % 2 = 1 /\ line[i].kind = "tick"
    <3>1. line[i].kind = "tick" /\ Ticks(line, i) % 2 = 1
      BY <1>5, Zenon DEF Opens
    <3>2. Ticks(line, i + 1) = Ticks(line, i)
      BY <1>4, <2>6, <2>7, TicksStay, Zenon
    <3>. QED  BY <3>1, <3>2
  <2>9. ASSUME NEW k \in (i + 1)..(e - 1) PROVE line[k].kind # "tick"
    <3>1. k \in (i + 1)..(N + 1) /\ ~ (e <= k)
      BY ONLY <2>3, k \in (i + 1)..(e - 1)
    <3>2. k \notin After(i)
      BY <2>2, <3>1, Zenon
    <3>. QED  BY <3>1, <3>2, Zenon
  <2>10. ReadAsCommand(lines, n, i + 1, e - 1)
    <3>1. line[(i + 1) - 1].kind = "tick"
      BY <2>6, <2>8, Zenon
    <3>2. e - 1 = N \/ line[(e - 1) + 1].kind = "tick"
      BY <2>3, <2>6, Zenon
    <3>. QED  BY <1>2, <2>6, <2>7, <2>8, <2>9, <3>1, <3>2, Zenon
  <2>. QED  BY <1>1, <2>4, <2>6, <2>10, Zenon DEF Seen
<1>6. ASSUME NEW from \in 1..N, NEW to \in 1..N, ReadAsCommand(lines, n, from, to),
             code = SubSeq(line, from, to)
      PROVE  IsCommand(code) /\ \E i \in 1..N : Opens(line, i) /\ code = SpanAt(line, i)
  <2>. PICK i : i = from - 1
    OBVIOUS
  <2>1. /\ to <= N /\ from <= to /\ line[from].kind = "hikmah"
        /\ from > 1 /\ line[i].kind = "tick" /\ Ticks(line, from) % 2 = 1
        /\ \A k \in from..to : line[k].kind # "tick"
        /\ to = N \/ line[to + 1].kind = "tick"
    BY <1>2, <1>6, Zenon
  <2>2. /\ N \in Nat /\ i \in 1..N /\ i \in Nat \ {0} /\ i + 1 = from /\ to \in from..N
        /\ to \in Nat /\ to + 1 \in Nat /\ (to + 1) - 1 = to /\ to + 1 \in (i + 1)..(N + 1)
        /\ (to = N => to + 1 > N)
    <3>1. N \in Nat /\ from \in 1..N /\ to \in 1..N /\ to <= N /\ from <= to /\ from > 1 /\ i = from - 1
      BY <1>1, <2>1, Zenon
    <3>. QED  BY ONLY <3>1
  <2>3. IsCommand(code)
    BY <1>1, <1>6, <2>1, <2>2, CommandIs, Zenon
  <2>4. Opens(line, i)
    <3>1. Ticks(line, i + 1) = Ticks(line, i)
      BY <1>4, <2>1, <2>2, TicksStay, Zenon
    <3>. QED  BY <2>1, <2>2, <3>1, Zenon DEF Opens
  <2>5. Min(After(i)) = to + 1
    <3>1. to + 1 \in After(i)
      BY <2>1, <2>2, Zenon
    <3>2. ASSUME NEW k \in After(i) PROVE to + 1 <= k
      <4>1. k \in (i + 1)..(N + 1) /\ (k > N \/ line[k].kind = "tick")
        OBVIOUS
      <4>2. k \notin from..to
        <5>1. ASSUME k \in from..to PROVE k <= N
          BY ONLY <2>2, <5>1
        <5>2. k <= N => ~(k > N)
          BY ONLY <2>2, <4>1
        <5>. QED  BY <2>1, <4>1, <5>1, <5>2, Zenon
      <4>. QED  BY ONLY <2>2, <4>1, <4>2
    <3>3. After(i) \in SUBSET Nat
      BY <2>2
    <3>. HIDE DEF After
    <3>4. Min(After(i)) \in After(i) /\ \A y \in After(i) : Min(After(i)) <= y
      BY <3>1, <3>3, MinOf
    <3>5. Min(After(i)) <= to + 1 /\ to + 1 <= Min(After(i)) /\ Min(After(i)) \in Nat
      BY <3>1, <3>2, <3>3, <3>4
    <3>. QED  BY ONLY <2>2, <3>5
  <2>6. code = SpanAt(line, i)
    BY <1>6, <2>2, <2>5, Zenon DEF SpanAt
  <2>. QED  BY <2>2, <2>3, <2>4, <2>6
<1>7. Seen(lines, n, code) => \E from, to \in 1..N :
        ReadAsCommand(lines, n, from, to) /\ code = SubSeq(line, from, to)
  BY <1>1, Zenon DEF Seen
<1>. QED  BY <1>3, <1>5, <1>6, <1>7, Zenon

\* Validation reads the command lines that a reader of the skill sees.
LEMMA RefsAreSeen ==
  ASSUME NEW lines \in Tokened
  PROVE  skill_command_refs(lines) = CommandLines(lines)
<1>1. ASSUME NEW n \in DOMAIN lines, NEW code
      PROVE  code \in CodeOn(lines[n], InFence(lines, n)) /\ IsCommand(code) <=> Seen(lines, n, code)
  <2>1. CASE IsFence(lines[n])
    <3>1. CodeOn(lines[n], InFence(lines, n)) = {}
      BY <2>1, Zenon DEF CodeOn
    <3>2. ~Seen(lines, n, code)
      BY <2>1, Zenon DEF Seen, ReadAsCommand
    <3>. QED  BY <3>1, <3>2
  <2>. QED  BY <2>1, FencedIsSeen, SpanIsSeen, Zenon
<1>2. \A code : code \in skill_command_refs(lines) <=>
        \E n \in DOMAIN lines : code \in CodeOn(lines[n], InFence(lines, n)) /\ IsCommand(code)
  <2>. DEFINE OnLine(n) == CodeOn(lines[n], InFence(lines, n))
              All == UNION {OnLine(n) : n \in DOMAIN lines}
  <2>1. skill_command_refs(lines) = {code \in All : IsCommand(code)}
    BY RefsAre, Zenon
  <2>. HIDE DEF OnLine
  <2>2. \A code : code \in All <=> \E n \in DOMAIN lines : code \in OnLine(n)
    BY Zenon
  <2>. HIDE DEF All
  <2>. QED  BY <2>1, <2>2, Zenon DEF OnLine
<1>3. \A code : code \in CommandLines(lines) <=> \E n \in DOMAIN lines : Seen(lines, n, code)
  <2>. SUFFICES ASSUME NEW code
                PROVE  code \in CommandLines(lines) <=> \E n \in DOMAIN lines : Seen(lines, n, code)
    OBVIOUS
  <2>. DEFINE Pairs(n) == {p \in (DOMAIN lines[n]) \X (DOMAIN lines[n]) : ReadAsCommand(lines, n, p[1], p[2])}
  <2>1. code \in CommandLines(lines) <=>
          \E n \in DOMAIN lines : \E p \in Pairs(n) : code = SubSeq(lines[n], p[1], p[2])
    <3>. DEFINE OnLine(n) == {SubSeq(lines[n], p[1], p[2]) : p \in Pairs(n)}
    <3>1. CommandLines(lines) = UNION {OnLine(n) : n \in DOMAIN lines}
      BY DEF CommandLines
    <3>2. \A n : code \in OnLine(n) <=> \E p \in Pairs(n) : code = SubSeq(lines[n], p[1], p[2])
      <4>. HIDE DEF Pairs
      <4>. QED  BY Zenon
    <3>. HIDE DEF OnLine, Pairs
    <3>. QED  BY <3>1, <3>2, Zenon
  <2>2. ASSUME NEW n \in DOMAIN lines, NEW p \in Pairs(n), code = SubSeq(lines[n], p[1], p[2])
        PROVE  Seen(lines, n, code)
    <3>1. p[1] \in DOMAIN lines[n] /\ p[2] \in DOMAIN lines[n] /\ ReadAsCommand(lines, n, p[1], p[2])
      <4>1. p \in (DOMAIN lines[n]) \X (DOMAIN lines[n]) /\ ReadAsCommand(lines, n, p[1], p[2])
        BY Zenon
      <4>2. p[1] \in DOMAIN lines[n] /\ p[2] \in DOMAIN lines[n]
        BY ONLY <4>1
      <4>. QED  BY <4>1, <4>2
    <3>. QED  BY <2>2, <3>1, Zenon DEF Seen
  <2>3. ASSUME NEW n \in DOMAIN lines, Seen(lines, n, code)
        PROVE  \E p \in Pairs(n) : code = SubSeq(lines[n], p[1], p[2])
    <3>1. PICK from \in DOMAIN lines[n], to \in DOMAIN lines[n] :
            ReadAsCommand(lines, n, from, to) /\ code = SubSeq(lines[n], from, to)
      BY <2>3, Zenon DEF Seen
    <3>2. PICK p : p = <<from, to>>
      BY Zenon
    <3>3. p[1] = from /\ p[2] = to
      BY ONLY <3>2
    <3>4. p \in (DOMAIN lines[n]) \X (DOMAIN lines[n])
      BY ONLY <3>2, from \in DOMAIN lines[n], to \in DOMAIN lines[n]
    <3>. QED  BY <3>1, <3>3, <3>4, Zenon
  <2>. QED  BY <2>1, <2>2, <2>3, Zenon
<1>. QED  BY <1>1, <1>2, <1>3, Zenon

\* How far a command line was followed.
Paths == {<<>>} \cup {<<c>> : c \in Cli[<<>>].subcommands}
Walks == [command : Paths, skip : BOOLEAN, stopped : BOOLEAN, wrong : BOOLEAN]

IsOption(t) == t.kind \in {"option", "assigned"}
Has(path, t) == t.name \in DOMAIN Cli[path].options
Takes(path, t) == t.kind = "option" /\ Cli[path].options[t.name]

\* What r is after s and one more token.
Goes(s, t, r) ==
  /\ s.stopped => r = s
  /\ ~s.stopped /\ s.skip =>
       r.command = s.command /\ ~r.skip /\ ~r.stopped /\ (r.wrong <=> s.wrong)
  /\ ~s.stopped /\ ~s.skip /\ IsOption(t) /\ ~Has(s.command, t) =>
       r.command = s.command /\ ~r.skip /\ ~r.stopped /\ r.wrong
  /\ ~s.stopped /\ ~s.skip /\ IsOption(t) /\ Has(s.command, t) =>
       /\ r.command = s.command /\ ~r.stopped /\ (r.wrong <=> s.wrong)
       /\ r.skip <=> s.command = <<>> /\ Cli[<<>>].subcommands # {} /\ Takes(<<>>, t)
  /\ ~s.stopped /\ ~s.skip /\ ~IsOption(t) /\ (s.command # <<>> \/ Cli[<<>>].subcommands = {}) => r = s
  /\ ~s.stopped /\ ~s.skip /\ ~IsOption(t) /\ s.command = <<>> /\ Cli[<<>>].subcommands # {} =>
       IF t.kind = "placeholder" THEN r.stopped /\ (r.wrong <=> s.wrong)
       ELSE IF t.name \in Cli[<<>>].subcommands
       THEN r.command = <<t.name>> /\ ~r.skip /\ ~r.stopped /\ (r.wrong <=> s.wrong)
       ELSE r.wrong /\ r.stopped

LEMMA PathsAre ==
  ASSUME NEW path \in Paths
  PROVE  /\ path \in DOMAIN Cli
         /\ path # <<>> => Cli[path].subcommands = {}
         /\ \A c : <<c>> # <<>>
<1>1. \A c : <<c>> # <<>>
  OBVIOUS
<1>2. \A c \in Cli[<<>>].subcommands : <<c>> \in DOMAIN Cli /\ Cli[<<c>>].subcommands = {}
  BY ValidateAssumption, Zenon
<1>3. <<>> \in DOMAIN Cli
  BY ValidateAssumption, Zenon
<1>. QED  BY <1>1, <1>2, <1>3, Zenon DEF Paths

\* One token further along a command line.
LEMMA WalkGoes ==
  ASSUME NEW s \in Walks, NEW t, NEW r, r = WalkPast(s, t)
  PROVE  r \in Walks /\ Goes(s, t, r)
<1>. DEFINE p == s.command
<1>1. /\ p \in Paths /\ s.skip \in BOOLEAN /\ s.stopped \in BOOLEAN /\ s.wrong \in BOOLEAN
      /\ p \in DOMAIN Cli /\ (p # <<>> => Cli[p].subcommands = {})
      /\ s = [command |-> p, skip |-> s.skip, stopped |-> s.stopped, wrong |-> s.wrong]
  <2>1. p \in Paths /\ s.skip \in BOOLEAN /\ s.stopped \in BOOLEAN /\ s.wrong \in BOOLEAN
        /\ s = [command |-> p, skip |-> s.skip, stopped |-> s.stopped, wrong |-> s.wrong]
    BY DEF Walks
  <2>. QED  BY <2>1, PathsAre, Zenon
<1>2. CASE s.stopped
  <2>1. r = s
    BY <1>2, Zenon DEF WalkPast
  <2>. QED  BY <1>2, <2>1, Zenon DEF Goes
<1>3. CASE ~s.stopped /\ s.skip
  <2>1. r = [s EXCEPT !.skip = FALSE]
    BY <1>3, Zenon DEF WalkPast
  <2>2. r = [command |-> p, skip |-> FALSE, stopped |-> s.stopped, wrong |-> s.wrong]
    BY <1>1, <2>1
  <2>3. r \in Walks /\ r.command = p /\ ~r.skip /\ r.stopped = s.stopped /\ r.wrong = s.wrong
    BY <1>1, <2>2 DEF Walks
  <2>. QED  BY <1>3, <2>3, Zenon DEF Goes
<1>4. CASE ~s.stopped /\ ~s.skip /\ IsOption(t) /\ ~Has(p, t)
  <2>1. r = [s EXCEPT !.wrong = TRUE]
    BY <1>4, Zenon DEF WalkPast, IsOption, Has
  <2>2. r = [command |-> p, skip |-> s.skip, stopped |-> s.stopped, wrong |-> TRUE]
    BY <1>1, <2>1
  <2>3. r \in Walks /\ r.command = p /\ r.skip = s.skip /\ r.stopped = s.stopped /\ r.wrong
    BY <1>1, <2>2 DEF Walks
  <2>. QED  BY <1>4, <2>3, Zenon DEF Goes
<1>5. CASE ~s.stopped /\ ~s.skip /\ IsOption(t) /\ Has(p, t)
  <2>. PICK v : v = ValueFollows(p, t)
    OBVIOUS
  <2>1. v \in BOOLEAN /\ (v <=> p = <<>> /\ Cli[<<>>].subcommands # {} /\ Takes(<<>>, t))
    BY <1>1 DEF ValueFollows, Takes
  <2>2. r = [s EXCEPT !.skip = v]
    BY <1>5, Zenon DEF WalkPast, IsOption, Has
  <2>3. r = [command |-> p, skip |-> v, stopped |-> s.stopped, wrong |-> s.wrong]
    BY <1>1, <2>2
  <2>4. r \in Walks /\ r.command = p /\ r.skip = v /\ r.stopped = s.stopped /\ r.wrong = s.wrong
    BY <1>1, <2>1, <2>3 DEF Walks
  <2>. QED  BY <1>5, <2>1, <2>4, Zenon DEF Goes
<1>6. CASE ~s.stopped /\ ~s.skip /\ ~IsOption(t) /\ Cli[p].subcommands = {}
  <2>1. r = s
    BY <1>6, Zenon DEF WalkPast, IsOption
  <2>2. p # <<>> \/ Cli[<<>>].subcommands = {}
    BY <1>6, Zenon
  <2>. QED  BY <1>6, <2>1, <2>2, Zenon DEF Goes
<1>7. CASE ~s.stopped /\ ~s.skip /\ ~IsOption(t) /\ Cli[p].subcommands # {}
  <2>1. p = <<>>
    BY <1>1, <1>7
  <2>2. CASE t.kind = "placeholder"
    <3>1. r = [s EXCEPT !.stopped = TRUE]
      BY <1>7, <2>2, Zenon DEF WalkPast, IsOption
    <3>2. r = [command |-> p, skip |-> s.skip, stopped |-> TRUE, wrong |-> s.wrong]
      BY <1>1, <3>1
    <3>3. r \in Walks /\ r.stopped /\ r.wrong = s.wrong
      BY <1>1, <3>2 DEF Walks
    <3>. QED  BY <1>7, <2>1, <2>2, <3>3, Zenon DEF Goes
  <2>3. CASE t.kind # "placeholder" /\ t.name \in Cli[p].subcommands
    <3>1. r = [s EXCEPT !.command = Append(@, t.name)]
      BY <1>7, <2>3, Zenon DEF WalkPast, IsOption
    <3>2. Append(<<>>, t.name) = <<t.name>>
      OBVIOUS
    <3>. PICK q : q = <<t.name>>
      BY Zenon
    <3>3. r = [command |-> q, skip |-> s.skip, stopped |-> s.stopped, wrong |-> s.wrong]
      <4>1. r = [s EXCEPT !.command = q]
        BY <2>1, <3>1, <3>2, Zenon
      <4>. QED  BY <1>1, <4>1
    <3>4. q \in Paths
      BY <2>1, <2>3, Zenon DEF Paths
    <3>5. r \in Walks /\ r.command = q /\ r.skip = s.skip /\ r.stopped = s.stopped /\ r.wrong = s.wrong
      BY <1>1, <3>3, <3>4 DEF Walks
    <3>. QED  BY <1>7, <2>1, <2>3, <3>5, Zenon DEF Goes
  <2>4. CASE t.kind # "placeholder" /\ t.name \notin Cli[p].subcommands
    <3>1. r = [s EXCEPT !.wrong = TRUE, !.stopped = TRUE]
      BY <1>7, <2>4, Zenon DEF WalkPast, IsOption
    <3>2. r = [command |-> p, skip |-> s.skip, stopped |-> TRUE, wrong |-> TRUE]
      BY <1>1, <3>1
    <3>3. r \in Walks /\ r.stopped /\ r.wrong
      BY <1>1, <3>2 DEF Walks
    <3>. QED  BY <1>7, <2>1, <2>4, <3>3, Zenon DEF Goes
  <2>. QED  BY <2>2, <2>3, <2>4
<1>. QED  BY <1>2, <1>3, <1>4, <1>5, <1>6, <1>7

\* Where a walk begins.
Start == [command |-> <<>>, skip |-> FALSE, stopped |-> FALSE, wrong |-> FALSE]

\* The walk through a command line, token by token.
Walked(code, w) ==
  /\ Walk(code) = w[Len(code)] /\ w[1] = Start
  /\ \A n \in 1..Len(code) : w[n] \in Walks
  /\ \A n \in 2..Len(code) : Goes(w[n - 1], code[n], w[n])

\* A command line has a walk, and its end is what validation looks at.
LEMMA WalkExists ==
  ASSUME NEW S, NEW code \in Seq(S), code # <<>>
  PROVE  \E w : Walked(code, w)
<1>. DEFINE N == Len(code)
            Fold(g) == [n \in 1..N |-> IF n = 1 THEN Start ELSE WalkPast(g[n - 1], code[n])]
            f == CHOOSE g : g = Fold(g)
            op == [p \in (1..(N - 1)) \X Walks |-> WalkPast(p[2], code[p[1] + 1])]
<1>1. N \in Nat /\ N >= 1 /\ N - 1 \in Nat
  OBVIOUS
<1>2. Walk(code) = f[N]
  BY Zenon DEF Walk, Start
<1>3. Start \in Walks
  <2>1. <<>> \in Paths
    BY Zenon DEF Paths
  <2>. QED  BY <2>1 DEF Start, Walks
<1>. HIDE DEF N
<1>4. op \in [(1..(N - 1)) \X Walks -> Walks]
  <2>1. \A p \in (1..(N - 1)) \X Walks : WalkPast(p[2], code[p[1] + 1]) \in Walks
    BY WalkGoes
  <2>. QED  BY <2>1, Zenon
<1>5. f = Fold(f)
  <2>. HIDE DEF op
  <2>1. PICK h : Recursion(h, N - 1, Walks, Start, op)
    BY <1>1, <1>3, <1>4, RecursionExists
  <2>. DEFINE g == [n \in 1..N |-> h[n - 1]]
              e(n) == IF n = 1 THEN Start ELSE WalkPast(g[n - 1], code[n])
  <2>2. h \in [0..(N - 1) -> Walks] /\ h[0] = Start /\ \A n \in 1..(N - 1) : h[n] = op[<<n, h[n - 1]>>]
    BY <2>1, Zenon DEF Recursion
  <2>3. ASSUME NEW n \in 1..N PROVE h[n - 1] = e(n)
    <3>1. CASE n = 1
      <4>1. 1 - 1 = 0
        OBVIOUS
      <4>. QED  BY <2>2, <3>1, <4>1, Zenon
    <3>2. CASE n # 1
      <4>. PICK m : m = n - 1
        OBVIOUS
      <4>1. m \in 1..(N - 1) /\ m \in 1..N /\ m - 1 \in 0..(N - 1) /\ m + 1 = n
        BY <1>1, <3>2
      <4>2. h[m - 1] \in Walks
        BY <2>2, <4>1
      <4>. PICK v : v = h[m - 1]
        OBVIOUS
      <4>3. op[<<m, v>>] = WalkPast(v, code[n])
        <5>. PICK p : p = <<m, v>>
          BY Zenon
        <5>1. p \in (1..(N - 1)) \X Walks /\ p[1] = m /\ p[2] = v
          BY <4>1, <4>2
        <5>2. op[p] = WalkPast(p[2], code[p[1] + 1])
          BY <5>1, Zenon DEF op
        <5>. QED  BY <4>1, <5>1, <5>2, Zenon
      <4>4. h[m] = WalkPast(v, code[n])
        BY <2>2, <4>1, <4>3, Zenon
      <4>5. g[m] = v
        BY <4>1, Zenon
      <4>. QED  BY <3>2, <4>4, <4>5, Zenon
    <3>. QED  BY <3>1, <3>2
  <2>. HIDE DEF e
  <2>4. g = [n \in 1..N |-> e(n)]
    BY <2>3, Zenon
  <2>5. g = Fold(g)
    BY <2>4, Zenon DEF e
  <2>. HIDE DEF Fold, g
  <2>. QED  BY <2>5, Zenon
<1>. HIDE DEF f, op
<1>6. /\ f[1] = Start
      /\ \A n \in 2..N : f[n] = WalkPast(f[n - 1], code[n])
  <2>1. 1 \in 1..N /\ \A n \in 2..N : n \in 1..N /\ n # 1
    BY <1>1
  <2>. QED  BY <1>5, <2>1, Zenon
<1>. DEFINE Fails == {n \in 1..N : f[n] \notin Walks}
<1>7. Fails = {}
  <2>1. SUFFICES ASSUME Fails # {} PROVE FALSE
    OBVIOUS
  <2>2. PICK n \in Fails : \A k \in Fails : n <= k
    <3>1. Fails \in SUBSET Nat
      BY <1>1
    <3>. HIDE DEF Fails
    <3>. QED  BY <2>1, <3>1, LeastOf
  <2>3. n \in 2..N /\ n - 1 \in 1..N /\ ~ (n <= n - 1)
    BY <1>1, <1>3, <1>6
  <2>4. f[n - 1] \in Walks
    BY <2>2, <2>3
  <2>. QED  BY <1>6, <2>3, <2>4, WalkGoes
<1>8. \A n \in 1..N : f[n] \in Walks
  BY <1>7
<1>9. \A n \in 2..N : Goes(f[n - 1], code[n], f[n])
  <2>1. ASSUME NEW n \in 2..N PROVE n - 1 \in 1..N
    BY <1>1
  <2>. QED  BY <1>6, <1>8, <2>1, WalkGoes, Zenon
<1>. QED  BY <1>2, <1>6, <1>8, <1>9, Zenon DEF Walked, N

\* What holds of a number and goes on to the next one.
LEMMA GoesOn ==
  ASSUME NEW lo \in Nat, NEW hi \in Nat, NEW T, lo \in T,
         \A n \in (lo + 1)..hi : n - 1 \in T => n \in T
  PROVE  \A n \in lo..hi : n \in T
<1>. DEFINE Bad == {n \in lo..hi : n \notin T}
<1>1. SUFFICES ASSUME Bad # {} PROVE FALSE
  OBVIOUS
<1>2. PICK n \in Bad : \A k \in Bad : n <= k
  <2>1. Bad \in SUBSET Nat
    OBVIOUS
  <2>. HIDE DEF Bad
  <2>. QED  BY <1>1, <2>1, LeastOf
<1>3. n \in (lo + 1)..hi /\ n - 1 \in lo..hi /\ ~ (n <= n - 1)
  OBVIOUS
<1>4. n - 1 \in T
  BY <1>2, <1>3
<1>. QED  BY <1>3, <1>4

\* After the subcommand, only its options matter.
LEMMA AfterSubcommand ==
  ASSUME NEW code, NEW w, Walked(code, w), Len(code) \in Nat, NEW at \in 2..Len(code),
         NEW path, path # <<>>,
         w[at].command = path, ~w[at].skip, ~w[at].stopped
  PROVE  \A n \in at..Len(code) : w[n].command = path /\ ~w[n].skip /\ ~w[n].stopped
<1>. DEFINE N == Len(code)
            T == {n \in at..N : w[n].command = path /\ ~w[n].skip /\ ~w[n].stopped}
<1>1. at \in Nat /\ N \in Nat /\ at \in at..N
  OBVIOUS
<1>2. at \in T
  BY <1>1
<1>3. ASSUME NEW n \in (at + 1)..N, n - 1 \in T PROVE n \in T
  <2>1. n \in 2..N /\ n \in at..N
    OBVIOUS
  <2>2. Goes(w[n - 1], code[n], w[n])
    BY <2>1, Zenon DEF Walked
  <2>3. w[n - 1].command = path /\ ~w[n - 1].skip /\ ~w[n - 1].stopped
    BY <1>3
  <2>4. w[n].command = path /\ ~w[n].skip /\ ~w[n].stopped
    BY <2>2, <2>3, Zenon DEF Goes
  <2>. QED  BY <2>1, <2>4
<1>. HIDE DEF T
<1>4. \A n \in at..N : n \in T
  BY <1>1, <1>2, <1>3, GoesOn
<1>. QED  BY <1>4, Zenon DEF T

\* A reading of a command line.
Reading(code, at, values) ==
  /\ \A k \in (2..(at - 1)) \ values : IsOption(code[k]) /\ Has(<<>>, code[k])
  /\ \A k \in 2..Len(code) :
       k \in values <=> k > 2 /\ k - 1 < at /\ k - 1 \notin values /\ Takes(<<>>, code[k - 1])
  /\ at <= Len(code) => ~IsOption(code[at])
  /\ at <= Len(code) /\ code[at].kind # "placeholder" =>
       /\ code[at].name \in Cli[<<>>].subcommands
       /\ \A k \in (at + 1)..Len(code) : IsOption(code[k]) => Has(<<code[at].name>>, code[k])

\* A line can be run that has a reading.
LEMMA CanBeRunIs ==
  ASSUME NEW code
  PROVE  CanBeRun(code) <=> \E at \in 2..(Len(code) + 1) : \E values \in SUBSET (2..(at - 1)) :
                              Reading(code, at, values)
BY Zenon DEF CanBeRun, Reading, IsOption, Has, Takes

\* What has a reading is followed without a problem.
LEMMA ReadingIsFollowed ==
  ASSUME NEW code, NEW w, Walked(code, w), Len(code) \in Nat \ {0},
         NEW at \in 2..(Len(code) + 1), NEW values \in SUBSET (2..(at - 1)), Reading(code, at, values)
  PROVE  ~w[Len(code)].wrong
<1>. DEFINE N == Len(code)
            T == {n \in 1..(at - 1) : /\ w[n].command = <<>> /\ ~w[n].stopped /\ ~w[n].wrong
                                      /\ n + 1 <= N => (w[n].skip <=> n + 1 \in values)}
<1>1. N \in Nat /\ N >= 1 /\ at \in Nat /\ at >= 2 /\ at <= N + 1
  OBVIOUS
<1>. HIDE DEF N
<1>2. /\ w[1] = Start /\ \A n \in 2..N : Goes(w[n - 1], code[n], w[n])
  BY Zenon DEF Walked, N
<1>3. \A k \in 2..N :
        k \in values <=> k > 2 /\ k - 1 < at /\ k - 1 \notin values /\ Takes(<<>>, code[k - 1])
  BY Zenon DEF Reading, N
<1>4. Cli[<<>>].subcommands # {}
  BY ValidateAssumption, Zenon
<1>5. 1 \in T
  <2>1. w[1].command = <<>> /\ ~w[1].stopped /\ ~w[1].wrong /\ ~w[1].skip
    BY <1>2 DEF Start
  <2>2. ASSUME 1 + 1 <= N PROVE 1 + 1 \notin values
    <3>1. 1 + 1 \in 2..N /\ ~ (1 + 1 > 2)
      BY ONLY <1>1, <2>2
    <3>. QED  BY <1>3, <3>1, Zenon
  <2>3. 1 \in 1..(at - 1)
    BY ONLY <1>1
  <2>. QED  BY <2>1, <2>2, <2>3, Zenon
<1>6. ASSUME NEW n \in (1 + 1)..(at - 1), n - 1 \in T PROVE n \in T
  <2>1. /\ n \in 2..N /\ n \in 1..(at - 1) /\ (n - 1) + 1 = n /\ n <= N /\ n \in 2..(at - 1)
        /\ (n + 1) - 1 = n /\ n < at /\ n + 1 > 2 /\ (n + 1 <= N => n + 1 \in 2..N)
    BY ONLY <1>1, n \in (1 + 1)..(at - 1)
  <2>2. Goes(w[n - 1], code[n], w[n])
    BY <1>2, <2>1
  <2>3. /\ w[n - 1].command = <<>> /\ ~w[n - 1].stopped /\ ~w[n - 1].wrong
        /\ w[n - 1].skip <=> n \in values
    <3>1. /\ w[n - 1].command = <<>> /\ ~w[n - 1].stopped /\ ~w[n - 1].wrong
          /\ (n - 1) + 1 <= N => (w[n - 1].skip <=> (n - 1) + 1 \in values)
      BY <1>6, Zenon
    <3>. QED  BY <2>1, <3>1, Zenon
  <2>4. n + 1 <= N => (n + 1 \in values <=> n \notin values /\ Takes(<<>>, code[n]))
    <3>1. ASSUME n + 1 <= N
          PROVE  n + 1 \in values <=> n + 1 > 2 /\ (n + 1) - 1 < at /\ (n + 1) - 1 \notin values
                                      /\ Takes(<<>>, code[(n + 1) - 1])
      BY <1>3, <2>1, <3>1, Zenon
    <3>. QED  BY <2>1, <3>1, Zenon
  <2>5. CASE n \in values
    <3>1. w[n].command = <<>> /\ ~w[n].stopped /\ ~w[n].wrong /\ ~w[n].skip
      BY <2>2, <2>3, <2>5, Zenon DEF Goes
    <3>. QED  BY <2>1, <2>4, <2>5, <3>1, Zenon
  <2>6. CASE n \notin values
    <3>1. IsOption(code[n]) /\ Has(<<>>, code[n])
      BY <2>1, <2>6, Zenon DEF Reading
    <3>2. /\ w[n].command = <<>> /\ ~w[n].stopped /\ ~w[n].wrong
          /\ w[n].skip <=> Takes(<<>>, code[n])
      BY <1>4, <2>2, <2>3, <2>6, <3>1, Zenon DEF Goes
    <3>. QED  BY <2>1, <2>4, <2>6, <3>2, Zenon
  <2>. QED  BY <2>5, <2>6
<1>7. \A n \in 1..(at - 1) : n \in T
  <2>1. 1 \in Nat /\ at - 1 \in Nat
    BY <1>1
  <2>. HIDE DEF T
  <2>. QED  BY <1>5, <1>6, <2>1, GoesOn
<1>8. CASE at = N + 1
  <2>1. N \in 1..(at - 1)
    BY ONLY <1>1, <1>8
  <2>2. N \in T
    BY <1>7, <2>1
  <2>3. ~w[N].wrong
    BY <2>2
  <2>. QED  BY <2>3 DEF N
<1>9. CASE at # N + 1
  <2>1. /\ at \in 2..N /\ at <= N /\ at - 1 \in 1..(at - 1) /\ (at - 1) + 1 = at /\ at \in at..N /\ N \in at..N
        /\ at \notin 2..(at - 1)
    BY ONLY <1>1, <1>9
  <2>2. w[at - 1].command = <<>> /\ ~w[at - 1].stopped /\ ~w[at - 1].wrong /\ ~w[at - 1].skip
    <3>1. at - 1 \in T
      BY <1>7, <2>1
    <3>2. /\ w[at - 1].command = <<>> /\ ~w[at - 1].stopped /\ ~w[at - 1].wrong
          /\ (at - 1) + 1 <= N => (w[at - 1].skip <=> (at - 1) + 1 \in values)
      BY <3>1, Zenon
    <3>3. at \notin values
      BY <2>1
    <3>. QED  BY <2>1, <3>2, <3>3, Zenon
  <2>3. Goes(w[at - 1], code[at], w[at]) /\ ~IsOption(code[at])
    <3>1. ~IsOption(code[at])
      BY <2>1, Zenon DEF Reading, N
    <3>. QED  BY <1>2, <2>1, <3>1
  <2>4. CASE code[at].kind = "placeholder"
    <3>. DEFINE U == {n \in at..N : w[n].stopped /\ ~w[n].wrong}
    <3>1. w[at].stopped /\ ~w[at].wrong
      BY <1>4, <2>2, <2>3, <2>4, Zenon DEF Goes
    <3>2. at \in U
      BY <2>1, <3>1, Zenon
    <3>3. ASSUME NEW n \in (at + 1)..N, n - 1 \in U PROVE n \in U
      <4>1. n \in 2..N /\ n \in at..N
        BY ONLY <1>1, n \in (at + 1)..N
      <4>2. Goes(w[n - 1], code[n], w[n])
        BY <1>2, <4>1
      <4>3. w[n] = w[n - 1]
        BY <3>3, <4>2, Zenon DEF Goes
      <4>. QED  BY <3>3, <4>1, <4>3, Zenon
    <3>. HIDE DEF U
    <3>4. \A n \in at..N : n \in U
      BY <1>1, <3>2, <3>3, GoesOn
    <3>5. ~w[N].wrong
      BY <2>1, <3>4, Zenon DEF U
    <3>. QED  BY <3>5 DEF N
  <2>5. CASE code[at].kind # "placeholder"
    <3>. PICK path : path = <<code[at].name>>
      BY Zenon
    <3>1. code[at].name \in Cli[<<>>].subcommands
          /\ \A k \in (at + 1)..N : IsOption(code[k]) => Has(path, code[k])
      BY <2>1, <2>5, Zenon DEF Reading, N
    <3>2. w[at].command = path /\ ~w[at].skip /\ ~w[at].stopped /\ ~w[at].wrong
      BY <1>4, <2>2, <2>3, <2>5, <3>1, Zenon DEF Goes
    <3>3. path # <<>>
      OBVIOUS
    <3>4. \A n \in at..N : w[n].command = path /\ ~w[n].skip /\ ~w[n].stopped
      <4>1. Len(code) \in Nat /\ at \in 2..Len(code)
        BY <2>1 DEF N
      <4>. QED  BY <3>2, <3>3, <4>1, AfterSubcommand, Zenon DEF N
    <3>. DEFINE U == {n \in at..N : ~w[n].wrong}
    <3>5. at \in U
      BY <2>1, <3>2, Zenon
    <3>6. ASSUME NEW n \in (at + 1)..N, n - 1 \in U PROVE n \in U
      <4>1. n \in 2..N /\ n \in at..N /\ n - 1 \in at..N
        BY ONLY <1>1, n \in (at + 1)..N
      <4>2. Goes(w[n - 1], code[n], w[n])
        BY <1>2, <4>1
      <4>3. w[n - 1].command = path /\ ~w[n - 1].skip /\ ~w[n - 1].stopped /\ ~w[n - 1].wrong
        BY <3>4, <3>6, <4>1, Zenon
      <4>4. ~w[n].wrong
        <5>1. IsOption(code[n]) => Has(path, code[n])
          BY <3>1, Zenon
        <5>. QED  BY <3>3, <4>2, <4>3, <5>1, Zenon DEF Goes
      <4>. QED  BY <4>1, <4>4, Zenon
    <3>. HIDE DEF U
    <3>7. \A n \in at..N : n \in U
      BY <1>1, <3>5, <3>6, GoesOn
    <3>8. ~w[N].wrong
      BY <2>1, <3>7, Zenon DEF U
    <3>. QED  BY <3>8 DEF N
  <2>. QED  BY <2>4, <2>5
<1>. QED  BY <1>8, <1>9

\* A problem found stays found.
LEMMA WrongStays ==
  ASSUME NEW code, NEW w, Walked(code, w), Len(code) \in Nat \ {0}, ~w[Len(code)].wrong
  PROVE  \A n \in 1..Len(code) : ~w[n].wrong
<1>. DEFINE N == Len(code)
<1>1. SUFFICES ASSUME NEW m \in 1..N, w[m].wrong PROVE FALSE
  BY DEF N
<1>. DEFINE T == {n \in m..N : w[n].wrong}
<1>2. N \in Nat /\ m \in Nat /\ m \in m..N /\ N \in m..N
  OBVIOUS
<1>3. m \in T
  BY <1>1, <1>2, Zenon
<1>4. ASSUME NEW n \in (m + 1)..N, n - 1 \in T PROVE n \in T
  <2>1. n \in 2..N /\ n \in m..N
    BY <1>2
  <2>2. Goes(w[n - 1], code[n], w[n]) /\ w[n - 1].wrong
    BY <1>4, <2>1, Zenon DEF Walked
  <2>3. w[n].wrong
    BY <2>2, Zenon DEF Goes
  <2>. QED  BY <2>1, <2>3, Zenon
<1>. HIDE DEF T
<1>5. \A n \in m..N : n \in T
  BY <1>2, <1>3, <1>4, GoesOn
<1>6. w[N].wrong
  BY <1>2, <1>5, Zenon DEF T
<1>. QED  BY <1>6 DEF N

\* What is followed without a problem has a reading: the subcommand stands where
\* the first token is that is neither an option nor the value of one.
LEMMA FollowedHasReading ==
  ASSUME NEW code, NEW w, Walked(code, w), Len(code) \in Nat \ {0}, ~w[Len(code)].wrong
  PROVE  \E at \in 2..(Len(code) + 1) : \E values \in SUBSET (2..(at - 1)) : Reading(code, at, values)
<1>. DEFINE N == Len(code)
            Ends == {k \in 2..(N + 1) : k <= N => ~w[k - 1].skip /\ ~IsOption(code[k])}
<1>1. N \in Nat /\ N >= 1
  OBVIOUS
<1>2. \A n \in 1..N : ~w[n].wrong
  BY WrongStays DEF N
<1>. HIDE DEF N
<1>3. /\ w[1] = Start /\ \A n \in 2..N : Goes(w[n - 1], code[n], w[n])
  BY Zenon DEF Walked, N
<1>4. Cli[<<>>].subcommands # {}
  BY ValidateAssumption, Zenon
<1>5. PICK at \in Ends : \A k \in Ends : at <= k
  <2>1. N + 1 \in 2..(N + 1) /\ ~ (N + 1 <= N)
    BY ONLY <1>1
  <2>2. N + 1 \in Ends
    BY <2>1, Zenon
  <2>3. Ends \in SUBSET Nat
    BY <1>1
  <2>. HIDE DEF Ends
  <2>. QED  BY <2>2, <2>3, LeastOf
<1>6. /\ at \in 2..(N + 1) /\ at \in Nat /\ at >= 2 /\ at <= N + 1
      /\ at <= N => ~w[at - 1].skip /\ ~IsOption(code[at])
  BY <1>1, <1>5
<1>7. ASSUME NEW k \in 2..(at - 1) PROVE w[k - 1].skip \/ IsOption(code[k])
  <2>1. k \in 2..(N + 1) /\ k <= N /\ ~ (at <= k)
    BY ONLY <1>1, <1>6, k \in 2..(at - 1)
  <2>2. k \notin Ends
    BY <1>5, <2>1, Zenon
  <2>. QED  BY <2>1, <2>2, Zenon
<1>. HIDE DEF Ends
<1>. DEFINE T == {n \in 1..(at - 1) : w[n].command = <<>> /\ ~w[n].stopped}
<1>8. \A n \in 1..(at - 1) : n \in T
  <2>1. 1 \in T
    <3>1. w[1].command = <<>> /\ ~w[1].stopped
      BY <1>3 DEF Start
    <3>2. 1 \in 1..(at - 1)
      BY ONLY <1>6
    <3>. QED  BY <3>1, <3>2, Zenon
  <2>2. ASSUME NEW n \in (1 + 1)..(at - 1), n - 1 \in T PROVE n \in T
    <3>1. n \in 2..N /\ n \in 1..(at - 1) /\ n \in 2..(at - 1)
      BY ONLY <1>1, <1>6, n \in (1 + 1)..(at - 1)
    <3>2. Goes(w[n - 1], code[n], w[n]) /\ (w[n - 1].skip \/ IsOption(code[n]))
      BY <1>3, <1>7, <3>1, Zenon
    <3>3. w[n - 1].command = <<>> /\ ~w[n - 1].stopped
      BY <2>2, Zenon
    <3>4. w[n].command = <<>> /\ ~w[n].stopped
      BY <3>2, <3>3, Zenon DEF Goes
    <3>. QED  BY <3>1, <3>4, Zenon
  <2>3. 1 \in Nat /\ at - 1 \in Nat
    BY <1>6
  <2>. HIDE DEF T
  <2>. QED  BY <2>1, <2>2, <2>3, GoesOn
<1>9. ASSUME NEW n \in 1..(at - 1) PROVE w[n].command = <<>> /\ ~w[n].stopped
  BY <1>8, Zenon
<1>. HIDE DEF T
<1>. DEFINE values == {k \in 2..(at - 1) : w[k - 1].skip}
<1>10. ASSUME NEW k \in (2..(at - 1)) \ values PROVE IsOption(code[k]) /\ Has(<<>>, code[k])
  <2>1. k \in 2..(at - 1) /\ k \in 2..N /\ k \in 1..N /\ k - 1 \in 1..(at - 1)
    BY <1>1, <1>6
  <2>2. ~w[k - 1].skip /\ IsOption(code[k])
    BY <1>7, <2>1, Zenon
  <2>3. Has(<<>>, code[k])
    <3>1. Goes(w[k - 1], code[k], w[k]) /\ ~w[k].wrong /\ w[k - 1].command = <<>> /\ ~w[k - 1].stopped
      BY <1>2, <1>3, <1>9, <2>1
    <3>. QED  BY <2>2, <3>1, Zenon DEF Goes
  <2>. QED  BY <2>2, <2>3
<1>11. ASSUME NEW k \in 2..N
       PROVE  k \in values <=> k > 2 /\ k - 1 < at /\ k - 1 \notin values /\ Takes(<<>>, code[k - 1])
  <2>1. CASE k > at
    <3>1. ~ (k - 1 < at) /\ k \notin 2..(at - 1)
      BY ONLY <1>6, <2>1, k \in 2..N, <1>1
    <3>. QED  BY <3>1, Zenon
  <2>2. CASE k <= at
    <3>1. k - 1 < at /\ k <= N /\ (k = at \/ k \in 2..(at - 1)) /\ at \notin 2..(at - 1)
      BY ONLY <1>1, <1>6, <2>2, k \in 2..N
    <3>2. k \in values <=> w[k - 1].skip
      BY <1>6, <3>1, Zenon
    <3>3. CASE k = 2
      <4>1. ~ (k > 2) /\ k - 1 = 1
        BY ONLY <3>3
      <4>2. ~w[1].skip
        BY <1>3 DEF Start
      <4>. QED  BY <3>2, <4>1, <4>2, Zenon
    <3>4. CASE k # 2
      <4>. PICK l : l = k - 1
        OBVIOUS
      <4>1. k > 2 /\ l \in 2..(at - 1) /\ l \in 2..N /\ l - 1 \in 1..(at - 1)
        BY ONLY <1>1, <1>6, <2>2, <3>4, k \in 2..N, l = k - 1
      <4>2. Goes(w[l - 1], code[l], w[l]) /\ w[l - 1].command = <<>> /\ ~w[l - 1].stopped
        BY <1>3, <1>9, <4>1
      <4>3. CASE w[l - 1].skip
        <5>1. ~w[l].skip /\ l \in values
          BY <4>1, <4>2, <4>3, Zenon DEF Goes
        <5>. QED  BY <3>2, <5>1, Zenon
      <4>4. CASE ~w[l - 1].skip
        <5>1. l \notin values
          BY <4>4, Zenon
        <5>2. IsOption(code[l]) /\ Has(<<>>, code[l])
          BY <1>10, <4>1, <5>1, Zenon
        <5>3. w[l].skip <=> Takes(<<>>, code[l])
          BY <1>4, <4>2, <4>4, <5>2, Zenon DEF Goes
        <5>. HIDE DEF values
        <5>. QED  BY <3>1, <3>2, <4>1, <5>1, <5>3, Zenon
      <4>. QED  BY <4>3, <4>4
    <3>. QED  BY <3>3, <3>4
  <2>. QED  BY <1>1, <1>6, <2>1, <2>2
<1>12. ASSUME at <= N, code[at].kind # "placeholder"
       PROVE  /\ code[at].name \in Cli[<<>>].subcommands
              /\ \A k \in (at + 1)..N : IsOption(code[k]) => Has(<<code[at].name>>, code[k])
  <2>1. at \in 2..N /\ at \in 1..N /\ at - 1 \in 1..(at - 1)
    BY ONLY <1>1, <1>6, <1>12
  <2>2. /\ Goes(w[at - 1], code[at], w[at]) /\ ~w[at].wrong
        /\ w[at - 1].command = <<>> /\ ~w[at - 1].stopped /\ ~w[at - 1].skip /\ ~IsOption(code[at])
    BY <1>2, <1>3, <1>6, <1>9, <1>12, <2>1, Zenon
  <2>3. code[at].name \in Cli[<<>>].subcommands
    BY <1>4, <1>12, <2>2, Zenon DEF Goes
  <2>. PICK path : path = <<code[at].name>>
    BY Zenon
  <2>4. w[at].command = path /\ ~w[at].skip /\ ~w[at].stopped
    BY <1>4, <1>12, <2>2, <2>3, Zenon DEF Goes
  <2>5. path # <<>>
    OBVIOUS
  <2>6. \A n \in at..N : w[n].command = path /\ ~w[n].skip /\ ~w[n].stopped
    <3>1. Len(code) \in Nat /\ at \in 2..Len(code)
      BY <2>1 DEF N
    <3>. QED  BY <2>4, <2>5, <3>1, AfterSubcommand, Zenon DEF N
  <2>7. ASSUME NEW k \in (at + 1)..N, IsOption(code[k]) PROVE Has(path, code[k])
    <3>1. k \in 2..N /\ k \in 1..N /\ k - 1 \in at..N
      BY ONLY <1>1, <1>6, k \in (at + 1)..N
    <3>2. Goes(w[k - 1], code[k], w[k]) /\ ~w[k].wrong
          /\ w[k - 1].command = path /\ ~w[k - 1].skip /\ ~w[k - 1].stopped
      BY <1>2, <1>3, <2>6, <3>1, Zenon
    <3>. QED  BY <2>7, <3>2, Zenon DEF Goes
  <2>. QED  BY <2>3, <2>7
<1>13. values \in SUBSET (2..(at - 1))
  BY Zenon
<1>. HIDE DEF values
<1>14. Reading(code, at, values)
  BY <1>6, <1>10, <1>11, <1>12, Zenon DEF Reading, N
<1>. QED  BY <1>6, <1>13, <1>14, Zenon DEF N

\* Validation objects to the command lines that cannot be run.
LEMMA FollowedCanBeRun ==
  ASSUME NEW S, NEW code \in Seq(S), code # <<>>
  PROVE  Walk(code).wrong <=> ~CanBeRun(code)
<1>1. PICK w : Walked(code, w)
  BY WalkExists
<1>2. Walk(code) = w[Len(code)]
  BY <1>1, Zenon DEF Walked
<1>3. Len(code) \in Nat \ {0}
  OBVIOUS
<1>4. ~w[Len(code)].wrong => CanBeRun(code)
  BY <1>1, <1>3, FollowedHasReading, CanBeRunIs, Zenon
<1>5. CanBeRun(code) => ~w[Len(code)].wrong
  BY <1>1, <1>3, ReadingIsFollowed, CanBeRunIs, Zenon
<1>. QED  BY <1>2, <1>4, <1>5, Zenon

\* The depth one step further.
LEMMA DepthStep ==
  ASSUME NEW steps, NEW n \in Nat
  PROVE  /\ Depth(steps, n) \in Int /\ Depth(steps, n + 1) \in Int /\ Depth(steps, 0) = 0
         /\ Down(steps[n + 1]) => Depth(steps, n + 1) = Depth(steps, n) + 1
         /\ steps[n + 1] = ".." => Depth(steps, n + 1) = Depth(steps, n) - 1
         /\ steps[n + 1] = "." => Depth(steps, n + 1) = Depth(steps, n)
<1>. DEFINE Downs(k) == {j \in 1..k : Down(steps[j])}
            Ups(k) == {j \in 1..k : steps[j] = ".."}
<1>1. \A k : Depth(steps, k) = Cardinality(Downs(k)) - Cardinality(Ups(k))
  BY Zenon DEF Depth
<1>2. /\ n + 1 \in Nat \ {0} /\ (n + 1) - 1 = n /\ n + 1 \in 1..(n + 1)
      /\ \A j : j \in 1..n => j \in 1..(n + 1)
  OBVIOUS
<1>3. /\ Downs(n + 1) \in SUBSET (1..(n + 1)) /\ Downs(n) = Downs(n + 1) \cap (1..((n + 1) - 1))
      /\ Ups(n + 1) \in SUBSET (1..(n + 1)) /\ Ups(n) = Ups(n + 1) \cap (1..((n + 1) - 1))
  <2>1. /\ Downs(n) = Downs(n + 1) \cap (1..n) /\ Ups(n) = Ups(n + 1) \cap (1..n)
        /\ Downs(n + 1) \in SUBSET (1..(n + 1)) /\ Ups(n + 1) \in SUBSET (1..(n + 1))
    BY <1>2, Zenon
  <2>. QED  BY <1>2, <2>1, Zenon
<1>4. /\ n + 1 \in Downs(n + 1) <=> Down(steps[n + 1])
      /\ n + 1 \in Ups(n + 1) <=> steps[n + 1] = ".."
  BY <1>2, Zenon
<1>5. /\ "." # ".." /\ ~Down(".") /\ ~Down("..")
      /\ Down(steps[n + 1]) => steps[n + 1] # ".."
  BY DEF Down
<1>6. Depth(steps, 0) = 0
  <2>1. Downs(0) = {} /\ Ups(0) = {}
    OBVIOUS
  <2>. HIDE DEF Downs, Ups
  <2>2. Cardinality({}) = 0
    BY FS_EmptySet
  <2>. QED  BY <1>1, <2>1, <2>2
<1>. HIDE DEF Downs, Ups
<1>. PICK c, d, u, v : c = Cardinality(Downs(n + 1)) /\ d = Cardinality(Downs(n))
                       /\ u = Cardinality(Ups(n + 1)) /\ v = Cardinality(Ups(n))
  OBVIOUS
<1>7. /\ c \in Nat /\ d \in Nat /\ u \in Nat /\ v \in Nat
      /\ c = d + IF n + 1 \in Downs(n + 1) THEN 1 ELSE 0
      /\ u = v + IF n + 1 \in Ups(n + 1) THEN 1 ELSE 0
  BY <1>2, <1>3, CountStep
<1>. PICK up, now : up = Depth(steps, n) /\ now = Depth(steps, n + 1)
  OBVIOUS
<1>8. up = d - v /\ now = c - u
  BY <1>1, Zenon
<1>9. CASE Down(steps[n + 1])
  <2>1. c = d + 1 /\ u = v
    BY ONLY <1>4, <1>5, <1>7, <1>9
  <2>2. up \in Int /\ now \in Int /\ now = up + 1
    BY ONLY <1>7, <1>8, <2>1
  <2>. QED  BY <1>5, <1>6, <1>9, <2>2
<1>10. CASE steps[n + 1] = ".."
  <2>1. c = d /\ u = v + 1
    BY ONLY <1>4, <1>5, <1>7, <1>10
  <2>2. up \in Int /\ now \in Int /\ now = up - 1
    BY ONLY <1>7, <1>8, <2>1
  <2>. QED  BY <1>5, <1>6, <1>10, <2>2
<1>11. CASE steps[n + 1] = "."
  <2>1. c = d /\ u = v
    BY ONLY <1>4, <1>5, <1>7, <1>11
  <2>2. up \in Int /\ now \in Int /\ now = up
    BY ONLY <1>7, <1>8, <2>1
  <2>. QED  BY <1>5, <1>6, <1>11, <2>2
<1>12. Down(steps[n + 1]) \/ steps[n + 1] = ".." \/ steps[n + 1] = "."
  BY DEF Down
<1>. QED  BY <1>9, <1>10, <1>11, <1>12

\* A step down that none of the steps up to n goes back above.
Keeps(steps, n, k) ==
  Down(steps[k]) /\ \A j \in k..n : Depth(steps, j) >= Depth(steps, k)

\* The path is made of the steps kept, in the order of their depth.
Stands(steps, n, path) ==
  /\ path \in Seq(STRING) /\ Len(path) = Depth(steps, n)
  /\ \A d \in 1..Len(path) : \E k \in 1..n :
       Keeps(steps, n, k) /\ Depth(steps, k) = d /\ path[d] = steps[k]

\* Where one part of a link leads from a path.
Enters(path, part, r) ==
  /\ part = "." => r.path = path /\ ~r.escapes
  /\ part = ".." /\ path = <<>> => r.escapes
  /\ part = ".." /\ path # <<>> => r.path = Front(path) /\ ~r.escapes
  /\ Down(part) => r.path = Append(path, part) /\ ~r.escapes

\* Validation enters a part like that.
LEMMA EnterIs ==
  ASSUME NEW path, NEW part,
         NEW s, s = [path |-> path, escapes |-> FALSE], NEW r, r = Enter(s, part)
  PROVE  Enters(path, part, r)
<1>1. s.path = path /\ s.escapes = FALSE
  OBVIOUS
<1>2. "." # ".."
  OBVIOUS
<1>3. ASSUME part = "." PROVE r = s
  BY <1>2, <1>3 DEF Enter
<1>4. ASSUME part = "..", path = <<>> PROVE r = [s EXCEPT !.escapes = TRUE]
  BY <1>1, <1>2, <1>4 DEF Enter
<1>5. ASSUME part = "..", path # <<>> PROVE r = [s EXCEPT !.path = Front(@)]
  BY <1>1, <1>2, <1>5 DEF Enter
<1>6. ASSUME Down(part) PROVE r = [s EXCEPT !.path = Append(@, part)]
  BY <1>6 DEF Enter, Down
<1>7. \A x : [s EXCEPT !.path = x].path = x /\ [s EXCEPT !.path = x].escapes = FALSE
  OBVIOUS
<1>8. [s EXCEPT !.escapes = TRUE].escapes
  OBVIOUS
<1>9. ASSUME part = "..", path # <<>> PROVE r = [s EXCEPT !.path = Front(path)]
  BY <1>1, <1>5, <1>9, Zenon
<1>10. ASSUME Down(part) PROVE r = [s EXCEPT !.path = Append(path, part)]
  BY <1>1, <1>6, <1>10, Zenon
<1>. QED  BY <1>1, <1>3, <1>4, <1>7, <1>8, <1>9, <1>10, Zenon DEF Enters

\* A path without its last part.
LEMMA FrontIs ==
  ASSUME NEW S, NEW path \in Seq(S), path # <<>>, NEW q, q = Front(path)
  PROVE  /\ q \in Seq(S) /\ Len(path) >= 1 /\ Len(q) = Len(path) - 1
         /\ \A d \in 1..(Len(path) - 1) : q[d] = path[d]
<1>1. Len(path) \in Nat /\ Len(path) >= 1
  BY ONLY path \in Seq(S), path # <<>>
<1>. PICK m : m = Len(path) - 1
  BY Zenon
<1>2. m \in Nat /\ m <= Len(path)
  BY ONLY <1>1, m = Len(path) - 1
<1>3. q = SubSeq(path, 1, m)
  BY Zenon DEF Front
<1>4. q \in Seq(S) /\ Len(q) = m /\ \A d \in 1..m : q[d] = path[d]
  BY ONLY path \in Seq(S), <1>1, <1>2, <1>3
<1>. QED  BY <1>1, <1>4, Zenon

\* q is the path with one part more.
Longer(path, part, q) ==
  /\ q \in Seq(STRING) /\ Len(q) = Len(path) + 1 /\ q[Len(path) + 1] = part
  /\ \A d \in 1..Len(path) : q[d] = path[d]

\* A path with one part more.
LEMMA AppendIs ==
  ASSUME NEW path \in Seq(STRING), NEW part \in STRING, NEW q, q = Append(path, part)
  PROVE  Longer(path, part, q)
<1>1. /\ q \in Seq(STRING) /\ Len(q) = Len(path) + 1
      /\ \A d \in 1..Len(path) : q[d] = path[d]
  BY AppendProperties, Zenon
<1>2. q[Len(path) + 1] = part
  BY AppendProperties, Zenon
<1>. QED  BY <1>1, <1>2, Zenon DEF Longer

\* One step: up to nowhere it escapes, otherwise the path stands.
LEMMA StandsStep ==
  ASSUME NEW steps, NEW n \in Nat, NEW path, Stands(steps, n, path), steps[n + 1] \in STRING,
         NEW s, s = [path |-> path, escapes |-> FALSE], NEW r, r = Enter(s, steps[n + 1])
  PROVE  IF steps[n + 1] = ".." /\ path = <<>>
         THEN r.escapes /\ Depth(steps, n + 1) < 0
         ELSE ~r.escapes /\ Stands(steps, n + 1, r.path)
<1>. PICK part : part = steps[n + 1]
  OBVIOUS
<1>1. path \in Seq(STRING) /\ Len(path) = Depth(steps, n) /\ Len(path) \in Nat
  BY DEF Stands
<1>2. \A d \in 1..Len(path) : \E k \in 1..n :
        Keeps(steps, n, k) /\ Depth(steps, k) = d /\ path[d] = steps[k]
  BY Zenon DEF Stands
<1>3. /\ Depth(steps, n) \in Int /\ Depth(steps, n + 1) \in Int
      /\ Down(part) => Depth(steps, n + 1) = Depth(steps, n) + 1
      /\ part = ".." => Depth(steps, n + 1) = Depth(steps, n) - 1
      /\ part = "." => Depth(steps, n + 1) = Depth(steps, n)
  BY DepthStep
<1>4. /\ part = "." => r.path = path /\ ~r.escapes
      /\ part = ".." /\ path = <<>> => r.escapes
      /\ part = ".." /\ path # <<>> => r.path = Front(path) /\ ~r.escapes
      /\ Down(part) => r.path = Append(path, part) /\ ~r.escapes
  <2>1. Enters(path, part, r)
    BY EnterIs, Zenon
  <2>. QED  BY <2>1, Zenon DEF Enters
<1>5. /\ "." # ".." /\ (part = "." \/ part = ".." \/ Down(part))
      /\ ~Down(".") /\ ~Down("..")
  BY DEF Down
\* What stays kept when the depth does not fall below it.
<1>6. ASSUME NEW k \in 1..n, Keeps(steps, n, k), Depth(steps, n + 1) >= Depth(steps, k)
      PROVE  Keeps(steps, n + 1, k) /\ k \in 1..(n + 1)
  <2>1. \A j \in k..(n + 1) : j \in k..n \/ j = n + 1
    OBVIOUS
  <2>2. Keeps(steps, n + 1, k)
    BY <1>6, <2>1, Zenon DEF Keeps
  <2>3. k \in 1..(n + 1)
    OBVIOUS
  <2>. QED  BY <2>2, <2>3
<1>7. CASE part = "."
  <2>1. r.path = path /\ ~r.escapes /\ Depth(steps, n + 1) = Len(path)
    BY <1>1, <1>3, <1>4, <1>7, Zenon
  <2>2. ASSUME NEW d \in 1..Len(path)
        PROVE  \E k \in 1..(n + 1) : Keeps(steps, n + 1, k) /\ Depth(steps, k) = d /\ path[d] = steps[k]
    <3>1. PICK k \in 1..n : Keeps(steps, n, k) /\ Depth(steps, k) = d /\ path[d] = steps[k]
      BY <1>2, Zenon
    <3>2. Len(path) >= d
      BY ONLY <1>1, d \in 1..Len(path)
    <3>3. Keeps(steps, n + 1, k) /\ k \in 1..(n + 1)
      BY <1>6, <2>1, <3>1, <3>2, Zenon
    <3>. QED  BY <3>1, <3>3, Zenon
  <2>3. Stands(steps, n + 1, r.path)
    BY <1>1, <2>1, <2>2, Zenon DEF Stands
  <2>. QED  BY <1>5, <1>7, <2>1, <2>3, Zenon
<1>8. CASE part = ".." /\ path = <<>>
  <2>1. Len(path) = 0
    BY <1>8
  <2>2. Depth(steps, n + 1) < 0
    BY ONLY <1>1, <1>3, <1>8, <2>1
  <2>. QED  BY <1>4, <1>8, <2>2, Zenon
<1>9. CASE part = ".." /\ path # <<>>
  <2>. PICK q : q = r.path
    OBVIOUS
  <2>1. q = Front(path) /\ ~r.escapes
    BY <1>4, <1>9, Zenon
  <2>2. Len(path) >= 1
    BY <1>1, <1>9
  <2>3. q \in Seq(STRING) /\ Len(q) = Len(path) - 1 /\ \A d \in 1..(Len(path) - 1) : q[d] = path[d]
    BY <1>1, <1>9, <2>1, FrontIs, Zenon
  <2>4. Depth(steps, n + 1) = Len(q)
    BY ONLY <1>1, <1>3, <1>9, <2>3
  <2>5. ASSUME NEW d \in 1..Len(q)
        PROVE  \E k \in 1..(n + 1) : Keeps(steps, n + 1, k) /\ Depth(steps, k) = d /\ q[d] = steps[k]
    <3>1. d \in 1..Len(path) /\ d \in 1..(Len(path) - 1) /\ Len(q) >= d
      BY ONLY <1>1, <2>3, d \in 1..Len(q)
    <3>2. PICK k \in 1..n : Keeps(steps, n, k) /\ Depth(steps, k) = d /\ path[d] = steps[k]
      BY <1>2, <3>1, Zenon
    <3>3. Keeps(steps, n + 1, k) /\ k \in 1..(n + 1)
      BY <1>6, <2>4, <3>1, <3>2, Zenon
    <3>. QED  BY <2>3, <3>1, <3>2, <3>3, Zenon
  <2>6. Stands(steps, n + 1, q)
    BY <2>3, <2>4, <2>5, Zenon DEF Stands
  <2>. QED  BY <1>9, <2>1, <2>6, Zenon
<1>10. CASE Down(part)
  <2>. PICK q : q = r.path
    OBVIOUS
  <2>1. q = Append(path, part) /\ ~r.escapes /\ part \in STRING
    BY <1>4, <1>10, Zenon
  <2>2. /\ q \in Seq(STRING) /\ Len(q) = Len(path) + 1 /\ q[Len(path) + 1] = part
        /\ \A d \in 1..Len(path) : q[d] = path[d]
    <3>1. Longer(path, part, q)
      BY <1>1, <2>1, AppendIs, Zenon
    <3>. QED  BY <3>1, Zenon DEF Longer
  <2>3. Depth(steps, n + 1) = Len(q)
    BY ONLY <1>1, <1>3, <1>10, <2>2
  <2>4. ASSUME NEW d \in 1..Len(q)
        PROVE  \E k \in 1..(n + 1) : Keeps(steps, n + 1, k) /\ Depth(steps, k) = d /\ q[d] = steps[k]
    <3>1. Len(q) >= d /\ (d \in 1..Len(path) \/ d = Len(path) + 1)
      BY ONLY <1>1, <2>2, d \in 1..Len(q)
    <3>2. CASE d \in 1..Len(path)
      <4>1. PICK k \in 1..n : Keeps(steps, n, k) /\ Depth(steps, k) = d /\ path[d] = steps[k]
        BY <1>2, <3>2, Zenon
      <4>2. Keeps(steps, n + 1, k) /\ k \in 1..(n + 1)
        BY <1>6, <2>3, <3>1, <4>1, Zenon
      <4>. QED  BY <2>2, <3>2, <4>1, <4>2, Zenon
    <3>3. CASE d = Len(path) + 1
      <4>1. n + 1 \in 1..(n + 1) /\ \A j \in (n + 1)..(n + 1) : j = n + 1
        OBVIOUS
      <4>2. Depth(steps, n + 1) >= Depth(steps, n + 1)
        BY <1>3
      <4>3. Keeps(steps, n + 1, n + 1)
        BY <1>10, <4>1, <4>2, Zenon DEF Keeps
      <4>4. Depth(steps, n + 1) = d /\ q[d] = steps[n + 1]
        BY <2>2, <2>3, <3>3, Zenon
      <4>. QED  BY <4>1, <4>3, <4>4, Zenon
    <3>. QED  BY <3>1, <3>2, <3>3
  <2>5. Stands(steps, n + 1, q)
    BY <2>2, <2>3, <2>4, Zenon DEF Stands
  <2>. QED  BY <1>5, <1>10, <2>1, <2>5, Zenon
<1>. QED  BY <1>5, <1>7, <1>8, <1>9, <1>10

\* The directory a link starts in stands.
LEMMA StartStands ==
  ASSUME NEW from \in Seq(STRING), \A k \in DOMAIN from : Down(from[k]),
         NEW steps, \A k \in 1..Len(from) : steps[k] = from[k]
  PROVE  /\ \A k \in 0..Len(from) : Depth(steps, k) = k
         /\ Stands(steps, Len(from), from)
<1>. DEFINE M == Len(from)
            T == {k \in 0..M : Depth(steps, k) = k}
<1>1. M \in Nat /\ DOMAIN from = 1..M
  OBVIOUS
<1>2. \A k \in 1..M : Down(steps[k]) /\ steps[k] = from[k]
  BY <1>1
<1>. HIDE DEF M
<1>3. \A k \in 0..M : k \in T
  <2>1. 0 \in T
    <3>1. Depth(steps, 0) = 0
      BY DepthStep
    <3>. QED  BY <1>1, <3>1
  <2>2. ASSUME NEW k \in (0 + 1)..M, k - 1 \in T PROVE k \in T
    <3>. PICK l : l = k - 1
      OBVIOUS
    <3>1. l \in Nat /\ l + 1 = k /\ k \in 1..M /\ k \in 0..M
      BY <1>1
    <3>2. Depth(steps, l + 1) = Depth(steps, l) + 1
      BY <1>2, <3>1, DepthStep
    <3>3. Depth(steps, l) = l
      BY <2>2
    <3>. QED  BY <3>1, <3>2, <3>3
  <2>. HIDE DEF T
  <2>. QED  BY <1>1, <2>1, <2>2, GoesOn
<1>4. \A k \in 0..M : Depth(steps, k) = k
  BY <1>3
<1>5. ASSUME NEW d \in 1..M PROVE Keeps(steps, M, d) /\ Depth(steps, d) = d /\ from[d] = steps[d]
  <2>1. \A j \in d..M : j \in 0..M /\ j >= d
    BY <1>1
  <2>2. d \in 0..M
    BY <1>1
  <2>3. Depth(steps, d) = d
    BY <1>4, <2>2
  <2>4. ASSUME NEW j \in d..M PROVE Depth(steps, j) >= Depth(steps, d)
    <3>1. Depth(steps, j) = j /\ j >= d
      BY <1>4, <2>1
    <3>. QED  BY <2>3, <3>1
  <2>. QED  BY <1>2, <2>3, <2>4, Zenon DEF Keeps
<1>6. M \in 0..M
  BY <1>1
<1>. QED  BY <1>4, <1>5, <1>6, Zenon DEF Stands, M

\* How far a link was followed.
Spots == [path : Seq(STRING), escapes : BOOLEAN]

\* What escaped stays escaped.
LEMMA EnterStays ==
  ASSUME NEW s \in Spots, NEW part \in STRING, NEW r, r = Enter(s, part)
  PROVE  r \in Spots /\ (s.escapes => r.escapes)
<1>1. s.path \in Seq(STRING) /\ s.escapes \in BOOLEAN /\ s = [path |-> s.path, escapes |-> s.escapes]
  BY DEF Spots
<1>2. ASSUME NEW q \in Seq(STRING), r = [s EXCEPT !.path = q] PROVE r \in Spots /\ (s.escapes => r.escapes)
  <2>1. r = [path |-> q, escapes |-> s.escapes]
    BY <1>1, <1>2
  <2>. QED  BY <1>1, <2>1 DEF Spots
<1>3. CASE part = "."
  <2>1. r = s
    BY <1>3 DEF Enter
  <2>. QED  BY <2>1
<1>4. CASE part = ".." /\ s.path = <<>>
  <2>1. r = [s EXCEPT !.escapes = TRUE]
    BY <1>4 DEF Enter
  <2>2. r = [path |-> s.path, escapes |-> TRUE]
    BY <1>1, <2>1
  <2>. QED  BY <1>1, <2>2 DEF Spots
<1>5. CASE part = ".." /\ s.path # <<>>
  <2>1. r = [s EXCEPT !.path = Front(@)]
    BY <1>5 DEF Enter
  <2>2. Front(s.path) \in Seq(STRING)
    BY <1>1, <1>5, FrontIs, Zenon
  <2>3. r = [s EXCEPT !.path = Front(s.path)]
    BY <2>1, Zenon
  <2>. QED  BY <1>2, <2>2, <2>3, Zenon
<1>6. CASE part # "." /\ part # ".."
  <2>1. r = [s EXCEPT !.path = Append(@, part)]
    BY <1>6 DEF Enter
  <2>2. Append(s.path, part) \in Seq(STRING)
    BY <1>1, AppendProperties, Zenon
  <2>3. r = [s EXCEPT !.path = Append(s.path, part)]
    BY <2>1, Zenon
  <2>. QED  BY <1>2, <2>2, <2>3, Zenon
<1>. QED  BY <1>3, <1>4, <1>5, <1>6

\* The way of a link, part by part.
Way(from, parts, f) ==
  /\ f[0] = [path |-> from, escapes |-> FALSE]
  /\ \A n \in 1..Len(parts) : f[n] = Enter(f[n - 1], parts[n])
  /\ \A n \in 0..Len(parts) : f[n] \in Spots

\* A link has a way, and its end decides whether the link is a problem.
LEMMA WayExists ==
  ASSUME NEW skill, NEW link, link.from \in Seq(STRING), link.parts \in Seq(STRING), link.kind = "relative"
  PROVE  \E f : /\ Way(link.from, link.parts, f)
                /\ LinkProblem(skill, link) <=> LET end == f[Len(link.parts)]
                                                IN end.escapes \/ ~InSkill(skill, end.path)
<1>. PICK parts : parts = link.parts
  BY Zenon
<1>. DEFINE N == Len(parts)
            Start0 == [path |-> link.from, escapes |-> FALSE]
            Fold(g) == [n \in 0..N |-> IF n = 0 THEN Start0 ELSE Enter(g[n - 1], parts[n])]
            f == CHOOSE g : g = Fold(g)
            op == [p \in (1..N) \X Spots |-> Enter(p[2], parts[p[1]])]
<1>1. N \in Nat /\ \A n \in 1..N : parts[n] \in STRING
  BY ONLY link.parts \in Seq(STRING), parts = link.parts
<1>2. LinkProblem(skill, link) <=> f[N].escapes \/ ~InSkill(skill, f[N].path)
  <2>1. "relative" \notin {"url", "anchor"} /\ "relative" # "absolute"
    OBVIOUS
  <2>2. link.kind \notin {"url", "anchor"} /\ link.kind # "absolute"
    BY <2>1, Zenon
  <2>3. LinkProblem(skill, link) = CASE link.kind \in {"url", "anchor"} -> FALSE
                                     [] link.kind = "absolute" -> TRUE
                                     [] OTHER -> f[N].escapes \/ ~InSkill(skill, f[N].path)
    BY Zenon DEF LinkProblem
  <2>. HIDE DEF f, N
  <2>. QED  BY ONLY <2>2, <2>3
<1>. HIDE DEF N
<1>3. Start0 \in Spots
  BY DEF Spots
<1>. HIDE DEF Start0
<1>4. op \in [(1..N) \X Spots -> Spots]
  <2>1. ASSUME NEW p \in (1..N) \X Spots PROVE Enter(p[2], parts[p[1]]) \in Spots
    <3>1. p[1] \in 1..N /\ p[2] \in Spots
      OBVIOUS
    <3>. QED  BY <1>1, <3>1, EnterStays, Zenon
  <2>. QED  BY <2>1, Zenon
<1>5. f = Fold(f)
  <2>. HIDE DEF op
  <2>1. PICK h : Recursion(h, N, Spots, Start0, op)
    BY <1>1, <1>3, <1>4, RecursionExists, Zenon
  <2>. DEFINE e(n) == IF n = 0 THEN Start0 ELSE Enter(h[n - 1], parts[n])
  <2>2. h \in [0..N -> Spots] /\ h[0] = Start0 /\ \A n \in 1..N : h[n] = op[<<n, h[n - 1]>>]
    BY <2>1, Zenon DEF Recursion
  <2>3. ASSUME NEW n \in 0..N PROVE h[n] = e(n)
    <3>1. CASE n = 0
      BY <2>2, <3>1, Zenon
    <3>2. CASE n # 0
      <4>1. n \in 1..N /\ n - 1 \in 0..N
        BY ONLY <1>1, <3>2, n \in 0..N
      <4>. PICK v : v = h[n - 1]
        BY Zenon
      <4>2. v \in Spots
        BY <2>2, <4>1, Zenon
      <4>. PICK p : p = <<n, v>>
        BY Zenon
      <4>3. p \in (1..N) \X Spots /\ p[1] = n /\ p[2] = v
        BY ONLY <4>1, <4>2, p = <<n, v>>
      <4>4. op[p] = Enter(p[2], parts[p[1]])
        BY <4>3, Zenon DEF op
      <4>5. h[n] = op[p]
        BY <2>2, <4>1, Zenon
      <4>6. h[n] = Enter(v, parts[n])
        BY <4>3, <4>4, <4>5, Zenon
      <4>. QED  BY <3>2, <4>6, Zenon
    <3>. QED  BY <3>1, <3>2
  <2>. HIDE DEF e
  <2>4. h = [n \in 0..N |-> e(n)]
    <3>1. h = [n \in 0..N |-> h[n]]
      BY <2>2, Zenon
    <3>. QED  BY <2>3, <3>1, Zenon
  <2>5. h = Fold(h)
    BY <2>4, Zenon DEF e
  <2>. HIDE DEF Fold
  <2>. QED  BY <2>5, Zenon
<1>. HIDE DEF f, op
<1>6. f[0] = Start0 /\ \A n \in 1..N : f[n] = Enter(f[n - 1], parts[n])
  <2>1. 0 \in 0..N /\ \A n \in 1..N : n \in 0..N /\ n # 0
    BY ONLY <1>1
  <2>. QED  BY <1>5, <2>1, Zenon
<1>. DEFINE T == {n \in 0..N : f[n] \in Spots}
<1>7. \A n \in 0..N : n \in T
  <2>1. 0 \in T
    <3>1. 0 \in 0..N
      BY ONLY <1>1
    <3>. QED  BY <1>3, <1>6, <3>1, Zenon
  <2>2. ASSUME NEW n \in (0 + 1)..N, n - 1 \in T PROVE n \in T
    <3>1. n \in 1..N /\ n \in 0..N
      BY ONLY <1>1, n \in (0 + 1)..N
    <3>2. f[n - 1] \in Spots /\ f[n] = Enter(f[n - 1], parts[n]) /\ parts[n] \in STRING
      BY <1>1, <1>6, <2>2, <3>1, Zenon
    <3>3. f[n] \in Spots
      BY <3>2, EnterStays, Zenon
    <3>. QED  BY <3>1, <3>3, Zenon
  <2>. HIDE DEF T
  <2>3. 0 \in Nat
    OBVIOUS
  <2>. QED  BY <1>1, <2>1, <2>2, <2>3, GoesOn
<1>8. Way(link.from, parts, f)
  BY <1>6, <1>7, Zenon DEF Way, N, Start0
<1>. QED  BY <1>2, <1>8, Zenon DEF N

\* A link escapes where its depth falls below nothing; if it does not, the path
\* it reaches stands.
Reaches(steps, end) ==
  /\ DOMAIN steps = 1..Len(steps) /\ Len(steps) \in Nat
  /\ end.escapes <=> \E k \in DOMAIN steps : Depth(steps, k) < 0
  /\ ~end.escapes => Stands(steps, Len(steps), end.path)

LEMMA WayStands ==
  ASSUME NEW from \in Seq(STRING), \A k \in DOMAIN from : from[k] \notin {".", ".."},
         NEW parts \in Seq(STRING), NEW f, Way(from, parts, f), NEW steps, steps = from \o parts,
         NEW end, end = f[Len(parts)]
  PROVE  Reaches(steps, end)
<1>. DEFINE M == Len(from)
            P == Len(parts)
            N == Len(steps)
<1>1. /\ M \in Nat /\ P \in Nat /\ N = M + P /\ steps \in Seq(STRING) /\ DOMAIN steps = 1..N
      /\ \A k \in 1..M : steps[k] = from[k]
      /\ \A k \in 1..P : steps[M + k] = parts[k]
      /\ \A k \in 1..P : parts[k] \in STRING
  <2>1. M \in Nat /\ P \in Nat /\ steps \in Seq(STRING) /\ N = M + P
        /\ \A k \in 1..(M + P) : steps[k] = IF k <= M THEN from[k] ELSE parts[k - M]
    <3>1. M \in Nat /\ P \in Nat
      BY ONLY from \in Seq(STRING), parts \in Seq(STRING)
    <3>2. (from \o parts) \in Seq(STRING)
      BY ConcatProperties, Zenon
    <3>3. Len(from \o parts) = Len(from) + Len(parts)
      BY ConcatProperties, Zenon
    <3>4. \A k \in 1..(Len(from) + Len(parts)) :
            (from \o parts)[k] = IF k <= Len(from) THEN from[k] ELSE parts[k - Len(from)]
      BY ConcatProperties, Zenon
    <3>. QED  BY <3>1, <3>2, <3>3, <3>4, Zenon
  <2>2. DOMAIN steps = 1..N /\ \A k \in 1..P : parts[k] \in STRING
    BY ONLY steps \in Seq(STRING), parts \in Seq(STRING), <2>1
  <2>. HIDE DEF M, P, N
  <2>3. ASSUME NEW k \in 1..M PROVE steps[k] = from[k]
    <3>1. k \in 1..(M + P) /\ k <= M
      BY ONLY <2>1, k \in 1..M
    <3>. QED  BY <2>1, <3>1, Zenon
  <2>4. ASSUME NEW k \in 1..P PROVE steps[M + k] = parts[k]
    <3>1. M + k \in 1..(M + P) /\ ~ (M + k <= M) /\ (M + k) - M = k
      BY ONLY <2>1, k \in 1..P
    <3>2. steps[M + k] = IF M + k <= M THEN from[M + k] ELSE parts[(M + k) - M]
      BY <2>1, <3>1, Zenon
    <3>. QED  BY <3>1, <3>2, Zenon
  <2>. QED  BY <2>1, <2>2, <2>3, <2>4, Zenon
<1>2. /\ f[0] = [path |-> from, escapes |-> FALSE]
      /\ \A n \in 1..P : f[n] = Enter(f[n - 1], parts[n])
      /\ \A n \in 0..P : f[n] \in Spots
  BY Zenon DEF Way
<1>3. /\ \A k \in 0..M : Depth(steps, k) = k
      /\ Stands(steps, M, from)
  <2>1. \A k \in DOMAIN from : Down(from[k])
    BY Zenon DEF Down
  <2>. QED  BY <1>1, <2>1, StartStands, Zenon
<1>. HIDE DEF M, P, N
<1>. DEFINE T == {n \in 0..P : IF \E k \in 1..(M + n) : Depth(steps, k) < 0
                               THEN f[n].escapes
                               ELSE ~f[n].escapes /\ Stands(steps, M + n, f[n].path)}
<1>4. 0 \in T
  <2>1. 0 \in 0..P /\ M + 0 = M
    BY ONLY <1>1
  <2>2. \A k \in 1..M : ~ (Depth(steps, k) < 0)
    <3>1. ASSUME NEW k \in 1..M PROVE k \in 0..M /\ ~ (k < 0)
      BY ONLY <1>1, k \in 1..M
    <3>. QED  BY <1>3, <3>1, Zenon
  <2>3. f[0].path = from /\ ~f[0].escapes
    BY ONLY <1>2
  <2>. QED  BY <1>3, <2>1, <2>2, <2>3, Zenon
<1>5. ASSUME NEW n \in (0 + 1)..P, n - 1 \in T PROVE n \in T
  <2>. PICK l : l = n - 1
    BY Zenon
  <2>. PICK i : i = M + l
    BY Zenon
  <2>1. /\ l \in 0..P /\ n \in 1..P /\ n \in 0..P /\ i \in Nat /\ M + l = i /\ M + n = i + 1 /\ i + 1 \in 1..(i + 1)
        /\ \A k \in 1..i : k \in 1..(i + 1)
        /\ \A k \in 1..(i + 1) : k \in 1..i \/ k = i + 1
    BY ONLY <1>1, n \in (0 + 1)..P, l = n - 1, i = M + l
  <2>2. IF \E k \in 1..i : Depth(steps, k) < 0
        THEN f[l].escapes
        ELSE ~f[l].escapes /\ Stands(steps, i, f[l].path)
    <3>1. l \in T
      BY <1>5, Zenon
    <3>2. IF \E k \in 1..(M + l) : Depth(steps, k) < 0
          THEN f[l].escapes
          ELSE ~f[l].escapes /\ Stands(steps, M + l, f[l].path)
      BY <3>1, Zenon
    <3>. QED  BY <2>1, <3>2, Zenon
  <2>3. /\ f[n] = Enter(f[l], parts[n]) /\ f[l] \in Spots /\ parts[n] \in STRING
        /\ steps[i + 1] = parts[n]
    BY <1>1, <1>2, <2>1, Zenon
  <2>4. CASE \E k \in 1..i : Depth(steps, k) < 0
    <3>1. f[n].escapes
      BY <2>2, <2>3, <2>4, EnterStays, Zenon
    <3>2. \E k \in 1..(i + 1) : Depth(steps, k) < 0
      BY <2>1, <2>4, Zenon
    <3>. QED  BY <2>1, <3>1, <3>2, Zenon
  <2>5. CASE ~ \E k \in 1..i : Depth(steps, k) < 0
    <3>. PICK path : path = f[l].path
      BY Zenon
    <3>1. f[l] = [path |-> path, escapes |-> FALSE] /\ Stands(steps, i, path)
      <4>1. ~f[l].escapes /\ Stands(steps, i, path)
        BY <2>2, <2>5, Zenon
      <4>2. f[l] = [path |-> path, escapes |-> f[l].escapes] /\ f[l].escapes \in BOOLEAN
        BY <2>3 DEF Spots
      <4>. QED  BY <4>1, <4>2
    <3>2. IF steps[i + 1] = ".." /\ path = <<>>
          THEN f[n].escapes /\ Depth(steps, i + 1) < 0
          ELSE ~f[n].escapes /\ Stands(steps, i + 1, f[n].path)
      BY <2>1, <2>3, <3>1, StandsStep, Zenon
    <3>3. CASE steps[i + 1] = ".." /\ path = <<>>
      <4>1. \E k \in 1..(i + 1) : Depth(steps, k) < 0
        BY <2>1, <3>2, <3>3, Zenon
      <4>. QED  BY <2>1, <3>2, <3>3, <4>1, Zenon
    <3>4. CASE ~ (steps[i + 1] = ".." /\ path = <<>>)
      <4>1. ~f[n].escapes /\ Stands(steps, i + 1, f[n].path)
        BY <3>2, <3>4, Zenon
      <4>2. ~ (Depth(steps, i + 1) < 0)
        <5>. PICK q : q = f[n].path
          BY Zenon
        <5>1. q \in Seq(STRING) /\ Len(q) = Depth(steps, i + 1)
          BY <4>1, Zenon DEF Stands
        <5>2. Len(q) \in Nat
          BY ONLY <5>1
        <5>. QED  BY ONLY <5>1, <5>2
      <4>3. ~ \E k \in 1..(i + 1) : Depth(steps, k) < 0
        BY <2>1, <2>5, <4>2, Zenon
      <4>. QED  BY <2>1, <4>1, <4>3, Zenon
    <3>. QED  BY <3>3, <3>4
  <2>. QED  BY <2>4, <2>5
<1>6. P \in T
  <2>. HIDE DEF T
  <2>1. 0 \in Nat /\ P \in 0..P
    BY ONLY <1>1
  <2>. QED  BY <1>1, <1>4, <1>5, <2>1, GoesOn
<1>7. IF \E k \in 1..N : Depth(steps, k) < 0
      THEN end.escapes ELSE ~end.escapes /\ Stands(steps, N, end.path)
  <2>1. f[P] = end
    BY Zenon DEF P
  <2>2. IF \E k \in 1..(M + P) : Depth(steps, k) < 0
        THEN f[P].escapes
        ELSE ~f[P].escapes /\ Stands(steps, M + P, f[P].path)
    BY <1>6, Zenon
  <2>3. M + P = N
    BY <1>1, Zenon
  <2>. QED  BY <2>1, <2>2, <2>3, Zenon
<1>. HIDE DEF T
<1>8. Len(steps) = N
  BY Zenon DEF N
<1>9. DOMAIN steps = 1..N /\ N \in Nat
  BY ONLY <1>1
<1>10. end.escapes <=> \E k \in DOMAIN steps : Depth(steps, k) < 0
  <2>1. end.escapes <=> \E k \in 1..N : Depth(steps, k) < 0
    BY ONLY <1>7, Zenon
  <2>. QED  BY ONLY <1>9, <2>1, Zenon
<1>11. ~end.escapes => Stands(steps, N, end.path)
  BY ONLY <1>7, Zenon
<1>12. DOMAIN steps = 1..Len(steps) /\ Len(steps) \in Nat
  BY ONLY <1>8, <1>9, Zenon
<1>13. ~end.escapes => Stands(steps, Len(steps), end.path)
  BY ONLY <1>8, <1>11, Zenon
<1>. QED  BY ONLY <1>10, <1>12, <1>13, Zenon DEF Reaches

\* Numbers K that d counts off in their order.
Counts(d, K, m) ==
  /\ \A k \in K : d[k] \in 1..m
  /\ \A c \in 1..m : \E k \in K : d[k] = c
  /\ \A k, l \in K : k < l => d[k] < d[l]

\* They are m, and d is how many there are up to one.
CountedOff(d, K, m) ==
  /\ Cardinality(K) = m
  /\ \A k \in K : Cardinality({j \in K : j <= k}) = d[k]

LEMMA RankIs ==
  ASSUME NEW K \in SUBSET Nat, IsFiniteSet(K), NEW m \in Nat, NEW d, Counts(d, K, m)
  PROVE  CountedOff(d, K, m)
<1>. /\ \A k \in K : d[k] \in 1..m
     /\ \A c \in 1..m : \E k \in K : d[k] = c
     /\ \A k, l \in K : k < l => d[k] < d[l]
  BY Zenon DEF Counts
<1>. DEFINE B(c) == {j \in K : d[j] <= c}
<1>1. ASSUME NEW c \in 0..m PROVE Cardinality(B(c)) = c
  <2>. PICK T : T = B(c)
    OBVIOUS
  <2>. DEFINE g == [j \in T |-> d[j]]
  <2>1. /\ \A j \in T : j \in K /\ d[j] \in 1..c
        /\ \A n \in 1..c : \E j \in T : d[j] = n
    <3>1. \A j \in K : d[j] \in 1..m /\ d[j] <= c => d[j] \in 1..c
      OBVIOUS
    <3>2. \A n \in 1..c : n \in 1..m /\ n <= c
      OBVIOUS
    <3>. QED  BY <3>1, <3>2, Zenon
  <2>2. \A j, k \in T : d[j] = d[k] => j = k
    <3>. SUFFICES ASSUME NEW j \in T, NEW k \in T, d[j] = d[k] PROVE j = k
      OBVIOUS
    <3>1. j \in K /\ k \in K /\ d[j] \in 1..c /\ d[k] \in 1..c
      BY <2>1, Zenon
    <3>2. /\ ~ (d[j] < d[k]) /\ ~ (d[k] < d[j])
      BY ONLY <3>1, d[j] = d[k], c \in 0..m, m \in Nat
    <3>3. ~ (j < k) /\ ~ (k < j)
      BY <3>1, <3>2, Zenon
    <3>. QED  BY ONLY <3>1, <3>3, K \in SUBSET Nat
  <2>3. g \in Bijection(T, 1..c)
    <3>1. g \in [T -> 1..c] /\ \A j \in T : g[j] = d[j]
      BY ONLY <2>1
    <3>. HIDE DEF g
    <3>2. /\ \A j, k \in T : g[j] = g[k] => j = k
          /\ \A n \in 1..c : \E j \in T : g[j] = n
      BY <2>1, <2>2, <3>1, Zenon
    <3>3. g \in Injection(T, 1..c)
      BY ONLY <3>1, <3>2 DEF Injection, IsInjective
    <3>4. g \in Surjection(T, 1..c)
      BY ONLY <3>1, <3>2 DEF Surjection
    <3>. QED  BY ONLY <3>3, <3>4 DEF Bijection
  <2>4. IsFiniteSet(T)
    <3>1. T \in SUBSET K
      BY ONLY <2>1
    <3>. QED  BY <3>1, FS_Subset, Zenon
  <2>5. ExistsBijection(T, 1..c)
    BY <2>3, Zenon DEF ExistsBijection
  <2>6. Cardinality(1..c) = Cardinality(T)
    BY <2>4, <2>5, FS_Bijection, Zenon
  <2>7. c \in Nat
    OBVIOUS
  <2>. QED  BY <2>6, <2>7, UpTo, Zenon
<1>2. Cardinality(K) = m
  <2>1. m \in 0..m /\ \A k \in K : d[k] <= m
    OBVIOUS
  <2>2. B(m) = K
    BY ONLY <2>1
  <2>. QED  BY <1>1, <2>1, <2>2, Zenon
<1>3. ASSUME NEW k \in K PROVE Cardinality({j \in K : j <= k}) = d[k]
  <2>1. d[k] \in 1..m /\ d[k] \in 0..m /\ ~ (d[k] < d[k])
    OBVIOUS
  <2>2. ASSUME NEW j \in K PROVE j <= k <=> d[j] <= d[k]
    <3>1. j \in Nat /\ k \in Nat /\ d[j] \in 1..m /\ d[k] \in 1..m
      BY Zenon
    <3>2. /\ j < k => d[j] < d[k]
          /\ k < j => d[k] < d[j]
      BY Zenon
    <3>. QED  BY ONLY <3>1, <3>2, m \in Nat
  <2>3. {j \in K : j <= k} = B(d[k])
    BY <2>2, Zenon
  <2>. QED  BY <1>1, <2>1, <2>3, Zenon
<1>. QED  BY <1>2, <1>3, Zenon DEF CountedOff

\* The path that a link reaches is that of the steps it keeps.
PathKept(steps, kept) ==
  [n \in 1..Cardinality(kept) |->
     steps[CHOOSE k \in kept : Cardinality({j \in kept : j <= k}) = n]]

\* A path that stands is the steps kept, in their order.
LEMMA KeptIs ==
  ASSUME NEW steps, NEW N \in Nat, DOMAIN steps = 1..N, Len(steps) = N,
         NEW path, Stands(steps, N, path),
         \A k \in 1..N : ~ (Depth(steps, k) < 0)
  PROVE  PathKept(steps, KeptSteps(steps)) = path
<1>. PICK K : K = KeptSteps(steps)
  OBVIOUS
<1>. PICK m : m = Len(path)
  OBVIOUS
<1>. DEFINE d == [k \in 0..N |-> Depth(steps, k)]
<1>1. \A k : k \in K <=> k \in 1..N /\ Keeps(steps, N, k)
  BY Zenon DEF KeptSteps, Keeps
<1>2. /\ path \in Seq(STRING) /\ m = Depth(steps, N)
      /\ \A c \in 1..m : \E k \in 1..N : Keeps(steps, N, k) /\ Depth(steps, k) = c /\ path[c] = steps[k]
  BY Zenon DEF Stands
<1>3. m \in Nat /\ path = [n \in 1..m |-> path[n]]
  <2>1. Len(path) \in Nat /\ path \in [1..Len(path) -> STRING]
    BY <1>2, LenProperties, Zenon
  <2>2. path = [n \in 1..Len(path) |-> path[n]]
    BY <2>1, Zenon
  <2>. QED  BY <2>1, <2>2, Zenon
<1>4. \A k \in 0..N : d[k] = Depth(steps, k) /\ d[k] \in Nat
  <2>. SUFFICES ASSUME NEW k \in 0..N PROVE d[k] = Depth(steps, k) /\ d[k] \in Nat
    OBVIOUS
  <2>1. k \in Nat /\ (k = 0 \/ k \in 1..N)
    OBVIOUS
  <2>2. Depth(steps, k) \in Int /\ Depth(steps, 0) = 0
    BY <2>1, DepthStep, Zenon
  <2>3. d[k] = Depth(steps, k)
    BY Zenon
  <2>4. k = 0 \/ ~ (Depth(steps, k) < 0)
    BY <2>1, Zenon
  <2>. HIDE DEF d
  <2>. QED  BY ONLY <2>2, <2>3, <2>4
<1>. HIDE DEF d
<1>5. ASSUME NEW k \in K
      PROVE  /\ k \in 1..N /\ k \in 0..N /\ k - 1 \in 0..N /\ k - 1 \in Nat /\ (k - 1) + 1 = k
             /\ d[k] = d[k - 1] + 1
             /\ \A j \in k..N : j \in 0..N /\ d[j] >= d[k]
  <2>1. k \in 1..N /\ Down(steps[k]) /\ \A j \in k..N : Depth(steps, j) >= Depth(steps, k)
    BY <1>1, Zenon DEF Keeps
  <2>2. k \in 0..N /\ k - 1 \in 0..N /\ k - 1 \in Nat /\ (k - 1) + 1 = k /\ \A j \in k..N : j \in 0..N
    BY ONLY <2>1, N \in Nat
  <2>. PICK l : l = k - 1
    OBVIOUS
  <2>3. l \in Nat /\ l + 1 = k
    BY <2>2, Zenon
  <2>4. Depth(steps, l + 1) = Depth(steps, l) + 1
    BY <2>1, <2>3, DepthStep, Zenon
  <2>. QED  BY <1>4, <2>1, <2>2, <2>3, <2>4, Zenon
<1>6. K \in SUBSET Nat /\ IsFiniteSet(K)
  <2>1. K \in SUBSET (1..N)
    BY <1>1, Zenon
  <2>2. IsFiniteSet(1..N)
    BY UpTo, Zenon
  <2>3. IsFiniteSet(K)
    BY <2>1, <2>2, FS_Subset, Zenon
  <2>. QED  BY <2>1, <2>3
<1>7. ASSUME NEW k \in K PROVE d[k] \in 1..m
  <2>1. N \in k..N /\ N \in 0..N
    BY <1>5
  <2>2. d[N] >= d[k] /\ d[k] = d[k - 1] + 1 /\ d[k - 1] \in Nat /\ d[N] = m
    BY <1>2, <1>4, <1>5, <2>1, Zenon
  <2>. QED  BY ONLY <1>3, <2>2
<1>8. ASSUME NEW c \in 1..m PROVE \E k \in K : d[k] = c /\ path[c] = steps[k]
  <2>1. PICK k \in 1..N : Keeps(steps, N, k) /\ Depth(steps, k) = c /\ path[c] = steps[k]
    BY <1>2, Zenon
  <2>2. k \in K
    BY <1>1, <2>1, Zenon
  <2>. QED  BY <1>4, <1>5, <2>1, <2>2, Zenon
<1>9. ASSUME NEW k \in K, NEW l \in K, k < l PROVE d[k] < d[l]
  <2>1. l - 1 \in k..N
    BY <1>5, <1>9
  <2>2. d[l - 1] >= d[k] /\ d[l] = d[l - 1] + 1 /\ d[l - 1] \in Nat /\ d[k] \in Nat
    BY <1>4, <1>5, <2>1, Zenon
  <2>. QED  BY ONLY <2>2
<1>10. /\ Cardinality(K) = m
       /\ \A k \in K : Cardinality({j \in K : j <= k}) = d[k]
  <2>1. /\ \A k \in K : d[k] \in 1..m
        /\ \A c \in 1..m : \E k \in K : d[k] = c
        /\ \A k, l \in K : k < l => d[k] < d[l]
    BY <1>7, <1>8, <1>9, Zenon
  <2>2. m \in Nat /\ Counts(d, K, m)
    BY <1>3, <2>1, Zenon DEF Counts
  <2>3. CountedOff(d, K, m)
    BY <1>6, <2>2, RankIs, Zenon
  <2>. QED  BY <2>3, Zenon DEF CountedOff
<1>11. ASSUME NEW n \in 1..m
       PROVE  steps[CHOOSE k \in K : Cardinality({j \in K : j <= k}) = n] = path[n]
  <2>. DEFINE x == CHOOSE k \in K : Cardinality({j \in K : j <= k}) = n
  <2>1. PICK k \in K : d[k] = n /\ path[n] = steps[k]
    BY <1>8, Zenon
  <2>2. x \in K /\ Cardinality({j \in K : j <= x}) = n
    BY <1>10, <2>1, Zenon
  <2>. HIDE DEF x
  <2>3. d[x] = n
    BY <1>10, <2>2, Zenon
  <2>4. ~ (d[x] < d[k]) /\ ~ (d[k] < d[x])
    BY <2>1, <2>3
  <2>5. ~ (x < k) /\ ~ (k < x)
    BY <1>9, <2>1, <2>2, <2>4, Zenon
  <2>6. x \in Nat /\ k \in Nat
    BY <1>6, <2>2
  <2>7. x = k
    BY ONLY <2>5, <2>6
  <2>8. steps[x] = path[n]
    BY <2>1, <2>7, Zenon
  <2>. QED  BY <2>8, Zenon DEF x
<1>12. PathKept(steps, K) = [n \in 1..m |->
          steps[CHOOSE k \in K : Cardinality({j \in K : j <= k}) = n]]
  BY <1>10, Zenon DEF PathKept
<1>. DEFINE q == [n \in 1..m |-> steps[CHOOSE k \in K : Cardinality({j \in K : j <= k}) = n]]
<1>13. q = [n \in 1..m |-> path[n]]
  BY <1>11, Zenon
<1>. QED  BY <1>3, <1>12, <1>13, Zenon

\* The steps lead to something in the skill and never out of it.
StaysInside(skill, steps) ==
  /\ \A k \in DOMAIN steps : Depth(steps, k) >= 0
  /\ InSkill(skill, PathKept(steps, KeptSteps(steps)))

\* A link is a problem unless it can be followed.
LinkFollowed(skill, link) ==
  \/ link.kind \in {"url", "anchor"}
  \/ link.kind = "relative" /\ Inside(skill, link)

\* A link as the repositories have them.
IsLink(link) ==
  /\ link.kind \in {"url", "anchor", "absolute", "relative"}
  /\ link.from \in Seq(STRING) /\ link.parts \in Seq(STRING)
  /\ \A k \in DOMAIN link.from : link.from[k] \notin {".", ".."}

\* Validation objects to the links that cannot be followed.
LEMMA LinkProblemIs ==
  ASSUME NEW skill, NEW link, IsLink(link)
  PROVE  LinkProblem(skill, link) <=> ~LinkFollowed(skill, link)
<1>. /\ link.kind \in {"url", "anchor", "absolute", "relative"}
     /\ link.from \in Seq(STRING) /\ link.parts \in Seq(STRING)
     /\ \A k \in DOMAIN link.from : link.from[k] \notin {".", ".."}
  BY Zenon DEF IsLink
<1>1. CASE link.kind = "relative"
  <2>1. "relative" \notin {"url", "anchor"}
    OBVIOUS
  <2>. PICK from, parts : from = link.from /\ parts = link.parts
    BY Zenon
  <2>2. PICK f : /\ Way(from, parts, f)
                 /\ LinkProblem(skill, link) <=> LET end == f[Len(parts)]
                                                 IN end.escapes \/ ~InSkill(skill, end.path)
    BY <1>1, WayExists, Zenon
  <2>. PICK end : end = f[Len(parts)]
    BY Zenon
  <2>. PICK steps : steps = from \o parts
    BY Zenon
  <2>. PICK N : N = Len(steps)
    BY Zenon
  <2>3. LinkProblem(skill, link) <=> end.escapes \/ ~InSkill(skill, end.path)
    BY <2>2, Zenon
  <2>4. /\ DOMAIN steps = 1..N /\ N \in Nat
        /\ end.escapes <=> \E k \in DOMAIN steps : Depth(steps, k) < 0
        /\ ~end.escapes => Stands(steps, N, end.path)
    <3>1. from \in Seq(STRING) /\ parts \in Seq(STRING) /\ \A k \in DOMAIN from : from[k] \notin {".", ".."}
      BY Zenon
    <3>2. Reaches(steps, end)
      BY <2>2, <3>1, WayStands, Zenon
    <3>. QED  BY <3>2, Zenon DEF Reaches
  <2>5. Inside(skill, link) <=> StaysInside(skill, steps)
    <3>1. Inside(skill, link) <=> StaysInside(skill, link.from \o link.parts)
      BY Zenon DEF Inside, Target, InSkill, StaysInside, PathKept
    <3>2. link.from \o link.parts = steps
      BY Zenon
    <3>. QED  BY <3>1, <3>2, Zenon
  <2>6. (\A k \in DOMAIN steps : Depth(steps, k) >= 0) <=> ~ \E k \in DOMAIN steps : Depth(steps, k) < 0
    <3>1. ASSUME NEW k \in DOMAIN steps PROVE Depth(steps, k) >= 0 <=> ~ (Depth(steps, k) < 0)
      <4>1. k \in 1..N
        BY <2>4, Zenon
      <4>2. k \in Nat
        BY ONLY <2>4, <4>1
      <4>3. Depth(steps, k) \in Int
        BY <4>2, DepthStep, Zenon
      <4>. QED  BY ONLY <4>3
    <3>. QED  BY <3>1, Zenon
  <2>7. ~end.escapes => PathKept(steps, KeptSteps(steps)) = end.path
    <3>. SUFFICES ASSUME ~end.escapes PROVE PathKept(steps, KeptSteps(steps)) = end.path
      BY Zenon
    <3>. PICK path : path = end.path
      BY Zenon
    <3>1. Stands(steps, N, path) /\ \A k \in 1..N : ~ (Depth(steps, k) < 0)
      BY <2>4, Zenon
    <3>. QED  BY <2>4, <3>1, KeptIs, Zenon
  <2>8. LinkProblem(skill, link) <=> ~StaysInside(skill, steps)
    BY <2>3, <2>4, <2>6, <2>7, Zenon DEF StaysInside
  <2>. QED  BY <1>1, <2>1, <2>5, <2>8, Zenon DEF LinkFollowed
<1>2. CASE link.kind \in {"url", "anchor", "absolute"}
  <2>1. /\ "absolute" # "relative" /\ "url" # "relative" /\ "anchor" # "relative"
        /\ "absolute" \notin {"url", "anchor"}
    OBVIOUS
  <2>2. LinkProblem(skill, link) <=> link.kind = "absolute"
    <3>1. CASE link.kind = "absolute"
      <4>1. link.kind \notin {"url", "anchor"}
        BY <2>1, <3>1, Zenon
      <4>. QED  BY <3>1, <4>1 DEF LinkProblem
    <3>2. CASE link.kind \in {"url", "anchor"}
      <4>1. link.kind # "absolute"
        BY <2>1, <3>2, Zenon
      <4>2. LinkProblem(skill, link) = FALSE
        BY <3>2, <4>1 DEF LinkProblem
      <4>. QED  BY <4>1, <4>2, Zenon
    <3>. QED  BY <1>2, <3>1, <3>2
  <2>. QED  BY <1>2, <2>1, <2>2, Zenon DEF LinkFollowed
<1>. QED  BY <1>1, <1>2

\* The links of a skill that are searched can all be followed.
LinksFollowed(skill) == \A link \in skill.links : link.markdown => LinkFollowed(skill, link)

\* A skill as the repositories have them.
IsSkill(skill) ==
  /\ skill.lines \in Seq(Seq([kind : STRING, name : STRING]))
  /\ \A link \in skill.links : IsLink(link)

\* And to a skill that has such a link.
LEMMA LinksAre ==
  ASSUME NEW skill, IsSkill(skill)
  PROVE  check_skill_links(skill) <=> ~LinksFollowed(skill)
<1>1. \A link \in skill.links : LinkProblem(skill, link) <=> ~LinkFollowed(skill, link)
  BY LinkProblemIs, Zenon DEF IsSkill
<1>. QED  BY <1>1, Zenon DEF check_skill_links, LinksFollowed

\* A skill has a problem with a command or a link exactly if it cannot be followed.
LEMMA SkillIs ==
  ASSUME NEW skill, IsSkill(skill)
  PROVE  CanBeFollowed(skill) <=> skill_command_problems(skill.lines) = {} /\ ~check_skill_links(skill)
<1>. PICK lines : lines = skill.lines
  BY Zenon
<1>1. lines \in Tokened
  BY Zenon DEF IsSkill, Tokened
<1>2. skill_command_refs(lines) = CommandLines(lines)
  BY <1>1, RefsAreSeen, Zenon
<1>3. ASSUME NEW code \in CommandLines(lines) PROVE Walk(code).wrong <=> ~CanBeRun(code)
  <2>. DEFINE S == [kind : STRING, name : STRING]
  <2>. DEFINE Found(n) == {p \in (DOMAIN lines[n]) \X (DOMAIN lines[n]) :
                             ReadAsCommand(lines, n, p[1], p[2])}
              Texts(n) == {SubSeq(lines[n], p[1], p[2]) : p \in Found(n)}
  <2>1. CommandLines(lines) = UNION {Texts(n) : n \in DOMAIN lines}
    BY Zenon DEF CommandLines
  <2>. HIDE DEF Texts
  <2>7. PICK n \in DOMAIN lines : code \in Texts(n)
    BY <2>1, Zenon
  <2>8. PICK p \in Found(n) : code = SubSeq(lines[n], p[1], p[2])
    BY <2>7, Zenon DEF Texts
  <2>9. p \in (DOMAIN lines[n]) \X (DOMAIN lines[n]) /\ ReadAsCommand(lines, n, p[1], p[2])
    BY Zenon
  <2>. PICK line, from, to : line = lines[n] /\ from = p[1] /\ to = p[2]
    BY Zenon
  <2>2. line \in Seq(S)
    BY <1>1 DEF Tokened
  <2>3. from \in DOMAIN line /\ to \in DOMAIN line
    BY <2>9
  <2>4. from <= to
    BY <2>9, Zenon DEF ReadAsCommand
  <2>5. code = SubSeq(line, from, to)
    BY <2>8, Zenon
  <2>. HIDE DEF S
  <2>6. code \in Seq(S) /\ code # <<>>
    BY ONLY <2>2, <2>3, <2>4, <2>5
  <2>. QED  BY <2>6, FollowedCanBeRun, Zenon
<1>4. skill_command_problems(lines) = {} <=> \A code \in CommandLines(lines) : CanBeRun(code)
  BY <1>2, <1>3, Zenon DEF skill_command_problems
<1>5. check_skill_links(skill) <=> ~LinksFollowed(skill)
  BY LinksAre, Zenon
<1>. QED  BY <1>4, <1>5, Zenon DEF CanBeFollowed, LinksFollowed, LinkFollowed

\* A repository is accepted only if every command that its skills name can be
\* run and every link in them leads to something that exists in the skill, a
\* file or a directory, and such a problem is reported only of a skill that has
\* one (validate.rs, run).
THEOREM SkillsCanAlwaysBeFollowed == ReadSpec => []SkillsCanBeFollowed
<1>1. ReadInv => SkillsCanBeFollowed
  <2>. SUFFICES ASSUME ReadInv, request.command = "validate" PROVE SkillsCanBeFollowed
    BY DEF SkillsCanBeFollowed
  <2>. PICK repo : repo = request.input
    OBVIOUS
  <2>1. repo \in Repos /\ answer \in validate(repo)
    BY Zenon DEF ReadInv
  <2>2. ASSUME NEW dir \in DOMAIN repo.skills
        PROVE  /\ CanBeFollowed(repo.skills[dir]) <=>
                    /\ skill_command_problems(repo.skills[dir].lines) = {}
                    /\ ~check_skill_links(repo.skills[dir])
    <3>. PICK skill : skill = repo.skills[dir]
      OBVIOUS
    <3>1. IsSkill(skill)
      BY <2>1, ReposAssumption, Zenon DEF IsSkill, IsLink
    <3>. QED  BY <3>1, SkillIs, Zenon
  <2>3. ASSUME NEW dir \in DOMAIN repo.skills
        PROVE  SkillOutcome(dir, repo.skills[dir])
    BY SkillProblemIs, Zenon
  <2>4. answer = "none" => \A dir \in DOMAIN repo.skills : CanBeFollowed(repo.skills[dir])
    BY <2>1, <2>2, <2>3, ValidatedIs, Zenon DEF SkillOutcome, Validated
  <2>5. answer \in {"command", "link"} => \E dir \in DOMAIN repo.skills : ~CanBeFollowed(repo.skills[dir])
    <3>. SUFFICES ASSUME answer \in {"command", "link"}
                  PROVE  \E dir \in DOMAIN repo.skills : ~CanBeFollowed(repo.skills[dir])
      OBVIOUS
    <3>1. PICK dir \in DOMAIN repo.skills : SkillProblem(dir, repo.skills[dir]) = answer
      BY <2>1, ValidatedIs, Zenon DEF Validated
    <3>2. ~CanBeFollowed(repo.skills[dir])
      BY <2>2, <2>3, <3>1, Zenon DEF SkillOutcome
    <3>. QED  BY <3>2
  <2>. QED  BY <2>4, <2>5, Zenon DEF SkillsCanBeFollowed
<1>. QED  BY <1>1, AnswersFollow, PTL

=============================================================================
