------------------------------- MODULE Recall -------------------------------
(***************************************************************************)
(* What a memory shows: contextual recall (recall.rs) and the lineage of   *)
(* one trace (why.rs).  Contents are given by the set of their content     *)
(* words.  Scores are in thousandths, rounded down; times are in hours.    *)
(***************************************************************************)
EXTENDS Claims, Sorting

CONSTANTS
  WordsOf,   \* WordsOf[text]: what tokenize finds in a text
  MAX_CHAIN  \* how far back a lineage is followed

NoId == 0

NoDeadline == -1

Part(a, b) == (a * b) \div One

AtMostOne(n) == Min({One, n})

\* One / (1 + time / scale), rounded down; the scale may be too long to multiply.
Decay(scale, time) == One - (One * time + scale + time - 1) \div (scale + time)

-----------------------------------------------------------------------------

Coverage(query, target) ==
  IF query = {} \/ target = {} THEN 0
  ELSE (One * Cardinality(query \cap target)) \div Cardinality(query)

Jaccard(a, b) ==
  IF a = {} \/ b = {} THEN 0
  ELSE (One * Cardinality(a \cap b)) \div Cardinality(a \cup b)

\* Any shared word is worth the floor, unless words do not count at all.
Lexical(t, query, policy) ==
  LET words   == WordsOf[t.text]
      blended == Part(policy.lexical_coverage, Coverage(query.words, words))
                   + Part(policy.lexical_jaccard, Jaccard(query.words, words))
  IN IF query.words \cap words # {} /\ policy.lexical_coverage + policy.lexical_jaccard > 0
     THEN Max({blended, policy.match_floor}) ELSE 0

HasCue(query) == query.words # {} \/ query.tags # {}

Cue(t, query, policy) ==
  IF query.words # {} /\ query.tags # {}
  THEN Part(policy.cue_lexical, Lexical(t, query, policy))
         + Part(policy.cue_tag, Coverage(query.tags, t.tags))
  ELSE IF query.words # {} THEN Lexical(t, query, policy)
  ELSE IF query.tags # {} THEN Coverage(query.tags, t.tags)
  ELSE 0

\* 1 / (1 + days / scale) is cast to f32, where it is exactly 1 for days / scale
\* up to 1 / (2^25 - 1).
AsGoodAsDue(t, now, policy) == t.deadline - now <= policy.prospective_scale \div 33554431

Urgency(t, now, policy) ==
  IF t.kind # "commitment" THEN 0
  ELSE IF t.deadline = NoDeadline THEN policy.undated_commitment_urgency
  ELSE IF t.deadline <= now \/ AsGoodAsDue(t, now, policy) THEN One
  ELSE Decay(policy.prospective_scale, t.deadline - now)

\* Recency, salience, confidence, provenance and urgency.
Meta(t, now, policy) ==
  LET age == Max({0, now - t.created})
      provenance ==
        AtMostOne(IF t.verified THEN t.authority
                  ELSE Part(policy.unverified_provenance_factor, t.authority))
  IN AtMostOne(Part(policy.meta_recency, Decay(policy.recency_scale, age))
               + Part(policy.meta_salience, t.salience)
               + Part(policy.meta_confidence, 100 * t.confidence)
               + Part(policy.meta_provenance, provenance)
               + Part(policy.meta_prospective, Urgency(t, now, policy)))

Overdue(t, now, policy) == Urgency(t, now, policy) >= One

\* Is the trace relevant, and how much?
Recallable(t, query, policy) ==
  HasCue(query) =>
    Cue(t, query, policy) >= policy.minimum_recall_score \/ Overdue(t, query.now, policy)

Score(t, query, policy) ==
  LET meta == Meta(t, query.now, policy)
      ranked == Part(Cue(t, query, policy),
                     policy.relevance_base + Part(policy.metadata_share, meta))
  IN AtMostOne(IF ~HasCue(query) THEN Part(policy.listing_scale, meta)
               ELSE IF Overdue(t, query.now, policy) THEN Max({ranked, policy.overdue_floor})
               ELSE ranked)

Candidates(mem, query, policy) ==
  {i \in DOMAIN mem :
     /\ mem[i].status = "active" \/ (query.history /\ mem[i].status = "superseded")
     /\ IF query.kinds = {} THEN mem[i].kind # "prediction" ELSE mem[i].kind \in query.kinds
     /\ Visible(mem[i], policy)
     /\ Recallable(mem[i], query, policy)}

\* The best first, then the newest, then in the order of ids.
Ranked(mem, query, policy) ==
  LET candidates == Candidates(mem, query, policy)
      score(i) == Score(mem[i], query, policy)
      before(i, j) ==
        \/ score(i) > score(j)
        \/ score(i) = score(j) /\ mem[i].created > mem[j].created
        \/ score(i) = score(j) /\ mem[i].created = mem[j].created /\ i < j
  IN Arranged(candidates, {p \in candidates \X candidates : before(p[1], p[2])})

-----------------------------------------------------------------------------

\* Slip: a claim is folded into the claim it contradicts.
Overlap_AnyClaim(t, u) ==
  IF t.text = u.text THEN One ELSE Jaccard(WordsOf[t.text], WordsOf[u.text])

\* How much of what u says t says, if it is not a competing claim.
Overlap(t, u) ==
  IF claims_conflict(t, u) THEN 0
  ELSE IF t.text = u.text THEN One
  ELSE Jaccard(WordsOf[t.text], WordsOf[u.text])

\* Fold the candidate into the selected trace it repeats most, or select it at a
\* score that what it repeats has lowered, and keep the best `limit'.
Select(mem, selected, candidate, limit, policy) ==
  LET overlaps   == [k \in DOMAIN selected |-> Overlap(mem[candidate.id], mem[selected[k].id])]
      redundancy == Max({0} \cup {overlaps[k] : k \in DOMAIN selected})
      score      == candidate.score - (candidate.score * Part(policy.redundancy_penalty, redundancy)) \div One
      ahead      == Cardinality({k \in DOMAIN selected : selected[k].score >= score})
      longer     == InsertAt(selected, ahead + 1, [candidate EXCEPT !.score = score])
  IN IF redundancy >= policy.redundant_at
     THEN IF redundancy = 0 THEN selected
          ELSE LET twin == Min({k \in DOMAIN selected : overlaps[k] = redundancy})
               IN [selected EXCEPT ![twin].duplicates = @ + 1]
     ELSE SubSeq(longer, 1, Min({limit, Len(longer)}))

diversify(mem, query, policy) ==
  LET limit == Max({1, Min({query.limit, policy.recall_limit})})
      ranked == Ranked(mem, query, policy)
      result(i) == [id |-> i, score |-> Score(mem[i], query, policy), duplicates |-> 0]
      selected[n \in 0..Len(ranked)] ==
        IF n = 0 THEN <<>> ELSE Select(mem, selected[n - 1], result(ranked[n]), limit, policy)
  IN selected[Len(ranked)]

-----------------------------------------------------------------------------

\* The trace that replaced a superseded one, unless it was purged or is hidden.
Successor(mem, old, policy) ==
  Max({NoId} \cup
      {i \in DOMAIN mem :
         /\ mem[i].supersedes = old /\ mem[i].status # "purged" /\ Visible(mem[i], policy)
         /\ old # NoId /\ mem[old].status = "superseded"})

\* annotate_links.
Annotated(mem, result, policy) ==
  LET i   == result.id
      old == mem[i].supersedes
      visible == {j \in Active(mem) : Visible(mem[j], policy)}
  IN [id |-> i, score |-> result.score, duplicates |-> result.duplicates,
      conflicts |-> IF mem[i].status = "active" THEN conflicting_ids(mem, i, visible) ELSE {},
      supersedes |-> IF Successor(mem, old, policy) = i THEN old ELSE NoId,
      superseded_by |-> Successor(mem, i, policy)]

\* Words that are all stop words match nothing.
recall(mem, query, policy) ==
  IF ~HasCue(query) /\ query.spoken THEN <<>>
  ELSE LET selected == diversify(mem, query, policy)
       IN [k \in DOMAIN selected |-> Annotated(mem, selected[k], policy)]

-----------------------------------------------------------------------------

\* Slip: the chain is followed only while the correction applied.
Predecessors_Applied(mem, i) ==
  IF mem[i].supersedes # NoId /\ mem[mem[i].supersedes].status = "superseded"
  THEN <<mem[i].supersedes>> ELSE <<>>

\* One step back from the end of a chain that began at i, but never in a circle.
Follow(mem, i, chain) ==
  LET old == mem[IF chain = <<>> THEN i ELSE Last(chain)].supersedes
  IN IF old = NoId \/ old = i \/ Contains(chain, old) THEN chain ELSE Append(chain, old)

\* What the trace replaced, and what that replaced, the newest first.
Predecessors(mem, i) ==
  LET chain[n \in 0..MAX_CHAIN] == IF n = 0 THEN <<>> ELSE Follow(mem, i, chain[n - 1])
  IN chain[MAX_CHAIN]

\* No privacy filter but on the successor.
provenance_chain(mem, i, policy) ==
  [predecessors |-> Predecessors(mem, i),
   successor |->
     Min({Len(mem) + 1} \cup
         {j \in DOMAIN mem :
            mem[j].supersedes = i /\ mem[j].status # "purged" /\ Visible(mem[j], policy)}) % (Len(mem) + 1),
   conflicts |-> IF mem[i].status = "active" THEN conflicting_ids(mem, i, Active(mem)) ELSE {}]

=============================================================================
