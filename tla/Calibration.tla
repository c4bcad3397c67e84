---------------------------- MODULE Calibration ----------------------------
(***************************************************************************)
(* Scores earned from outcomes (calibration.rs), and the Truth Gate's      *)
(* threshold chosen from them (threshold.rs), as a function of the traces  *)
(* one handle has replayed.  Probabilities are in parts of `Parts'.  Brier *)
(* scores and the Z test are arithmetic on a row's points and left out.    *)
(***************************************************************************)
EXTENDS Integers, Sequences, FiniteSets, FiniteSetsExt

CONSTANTS
  Parts,        \* what a probability is a part of
  MIN_OUTCOMES,
  Stores        \* what a handle may hold, and what is asked of it

NoP == -1

ASSUME CalibrationAssumption == Parts \in Nat \ {0} /\ MIN_OUTCOMES \in Nat \ {0}

\* A probability is one or missing (Trace::validate), and what an outcome says
\* of a noul question is one of its answers (the ledger's check of outcomes).
ASSUME StoresAssumption ==
  \A s \in Stores :
    /\ IsFiniteSet(DOMAIN s.predictions)
    /\ \A i \in DOMAIN s.predictions : s.predictions[i].p \in 0..Parts \cup {NoP}
    /\ IsFiniteSet(DOMAIN s.outcomes) /\ DOMAIN s.outcomes \subseteq Nat
    /\ \A k \in DOMAIN s.outcomes :
         /\ s.outcomes[k].at \in Nat
         /\ \A i \in DOMAIN s.predictions :
              s.outcomes[k].of = i /\ s.predictions[i].kind = "noul" =>
                s.outcomes[k].observed \in {"true", "false"}

VARIABLES
  store, \* predictions and outcomes, each in the order of their ids
  report

calibrationVars == <<store, report>>

BINS == 5

GATE_FAMILY == "gate"

\* No report was asked for yet.
NoReport == [kind |-> "none"]

-----------------------------------------------------------------------------

Predictions == DOMAIN store.predictions

Active(trace) == trace.status = "active"

\* Active outcomes of a prediction; Trace::validate lets no model write one.
OutcomesOf(i) ==
  {k \in DOMAIN store.outcomes : Active(store.outcomes[k]) /\ store.outcomes[k].of = i}

\* all() lists outcomes by id, and a later one with the same time wins.
Later(k, l) ==
  \/ store.outcomes[k].at > store.outcomes[l].at
  \/ store.outcomes[k].at = store.outcomes[l].at /\ k >= l

Observed(i) ==
  LET latest == CHOOSE k \in OutcomesOf(i) : \A l \in OutcomesOf(i) : Later(k, l)
  IN store.outcomes[latest].observed

Resolved(i) == OutcomesOf(i) # {}

-----------------------------------------------------------------------------

\* calibration_report for a set of families.

Counted(families) ==
  {i \in Predictions : Active(store.predictions[i]) /\ store.predictions[i].family \in families}

\* A forecaster is a class and a name.
Forecaster(i) == <<store.predictions[i].model, store.predictions[i].engine>>

RowKey(i) == <<store.predictions[i].family, store.predictions[i].kind, Forecaster(i)>>

\* An answer that happened, as the verdict sees it: P(true) against true for a
\* noul question, P(value) against the value for the others.
Happened(i) ==
  LET p == store.predictions[i]
  IN Observed(i) = IF p.kind = "noul" THEN "true" ELSE p.value

\* Slip: without the last point of the last bin.
InBin_HalfOpen(p, b) == BINS * p >= b * Parts /\ BINS * p < (b + 1) * Parts

InBin(p, b) ==
  /\ BINS * p >= b * Parts
  /\ BINS * p < (b + 1) * Parts \/ (b = BINS - 1 /\ BINS * p <= (b + 1) * Parts)

\* The points of each bin; p gives a point its probability.
Bins(points, p) == [b \in 0..BINS - 1 |-> {i \in points : InBin(p[i], b)}]

HasP(i) == store.predictions[i].p # NoP

Stated(i) == store.predictions[i].p

Row(key, members, min) ==
  LET scored == {i \in members : HasP(i)}
  IN [key |-> key, scored |-> scored, unscored |-> members \ scored,
      hits |-> {i \in scored : Happened(i)},
      bins |-> Bins(scored, [i \in scored |-> Stated(i)]),
      measurable |-> Cardinality(scored) >= min]

\* A pooled row is scored on the answer a prediction leans to, and on whether
\* that happened.
TopLabel(i) ==
  LET p == store.predictions[i]
  IN IF p.kind = "noul" /\ p.value # "true" THEN Parts - p.p ELSE p.p

LeanHappened(i) ==
  LET p == store.predictions[i]
  IN IF p.kind = "noul"
     THEN p.value = "true" <=> Observed(i) = "true"
     ELSE Observed(i) = p.value

PooledRow(forecaster, members, min) ==
  LET scored == {i \in members : HasP(i)}
  IN [key |-> forecaster, scored |-> scored, unscored |-> members \ scored,
      hits |-> {i \in scored : LeanHappened(i)},
      bins |-> Bins(scored, [i \in scored |-> TopLabel(i)]),
      measurable |-> Cardinality(scored) >= min]

Report(families, pooled, min) ==
  LET resolved == {i \in Counted(families) : Resolved(i)}
      keys == {RowKey(i) : i \in resolved}
      forecasters == {Forecaster(i) : i \in resolved}
  IN [kind |-> "calibration",
      unresolved |-> Counted(families) \ resolved,
      rows |-> {Row(key, {i \in resolved : RowKey(i) = key}, min) : key \in keys},
      pooled |-> IF pooled
                 THEN {PooledRow(f, {i \in resolved : Forecaster(i) = f}, min) :
                         f \in forecasters}
                 ELSE {}]

-----------------------------------------------------------------------------

\* gate_threshold for a budget in parts of a hundred.

\* The engine's answers that an outcome has judged.
Points ==
  {i \in Counted({GATE_FAMILY}) :
     /\ store.predictions[i].model
     /\ store.predictions[i].kind = "noul"
     /\ store.predictions[i].p # NoP
     /\ Resolved(i)}

FalseCompletions == {i \in Points : Observed(i) = "true"}

TrueCompletions == Points \ FalseCompletions

AtLeast(points, t) == {i \in points : store.predictions[i].p >= t}

Caught(t) == Cardinality(AtLeast(FalseCompletions, t))

FalseBlocks(t) == Cardinality(AtLeast(TrueCompletions, t))

WithinBudget(t, budget) == 100 * FalseBlocks(t) <= budget * Cardinality(TrueCompletions)

\* Slip: the lower of two that catch as much.
Prefers_Lower(t, u) ==
  Caught(t) > Caught(u) \/ (Caught(t) = Caught(u) /\ t <= u)

\* Recall first, then fewer false blocks, then the higher threshold.
Prefers(t, u) ==
  \/ Caught(t) > Caught(u)
  \/ Caught(t) = Caught(u) /\ FalseBlocks(t) < FalseBlocks(u)
  \/ Caught(t) = Caught(u) /\ FalseBlocks(t) = FalseBlocks(u) /\ t >= u

Qualifying(budget) ==
  {t \in {store.predictions[i].p : i \in Points} : Caught(t) > 0 /\ WithinBudget(t, budget)}

NoThreshold == -1

ChooseThreshold(budget) ==
  IF Qualifying(budget) = {}
  THEN NoThreshold
  ELSE CHOOSE t \in Qualifying(budget) : \A u \in Qualifying(budget) : Prefers(t, u)

\* Too few outcomes, or only one class of them, support no threshold.
TooFewOutcomes ==
  \/ Cardinality(Points) < MIN_OUTCOMES
  \/ FalseCompletions = {}
  \/ TrueCompletions = {}

GateThreshold(budget) ==
  IF TooFewOutcomes
  THEN [kind |-> "refused"]
  ELSE [kind |-> "threshold", threshold |-> ChooseThreshold(budget)]

-----------------------------------------------------------------------------

CalibrationInit == store \in Stores /\ report = NoReport

CalibrationIdle ==
  store = [predictions |-> <<>>, outcomes |-> <<>>] /\ report = NoReport

Calibrate ==
  /\ report = NoReport
  /\ store.asked = "calibration"
  /\ report' = Report(store.families, store.pooled, store.min)
  /\ UNCHANGED store

FindThreshold ==
  /\ report = NoReport
  /\ store.asked = "threshold"
  /\ report' = GateThreshold(store.budget)
  /\ UNCHANGED store

CalibrationNext == Calibrate \/ FindThreshold

CalibrationSpec == CalibrationInit /\ [][CalibrationNext]_calibrationVars

-----------------------------------------------------------------------------

Members(row) == row.scored \cup row.unscored

RowsWith(rows, i) == {row \in rows : i \in Members(row)}

Square(n) == n * n

\* What a point adds to a row's squared error.
Miss(row, p, i) == Square(p - IF i \in row.hits THEN Parts ELSE 0)

\* Every active prediction of the families asked for is counted once: in one
\* row, or as unresolved. A row is one forecaster's, engine or principal; its
\* bins hold every scored prediction once, certain ones included. A pooled row
\* holds the same predictions again, and is as wrong about a noul question as
\* the prediction's own row (calibration.rs, calibration_report, finish,
\* top_label).
CountedOnce ==
  report.kind = "calibration" =>
    /\ \A i \in Counted(store.families) :
         Cardinality(RowsWith(report.rows, i)) = IF i \in report.unresolved THEN 0 ELSE 1
    /\ \A row \in report.rows \cup report.pooled :
         /\ Members(row) \subseteq Counted(store.families)
         /\ row.scored \cap row.unscored = {}
         /\ \A i \in row.scored : Cardinality({b \in 0..BINS - 1 : i \in row.bins[b]}) = 1
         /\ \A i \in Members(row), j \in Members(row) :
              /\ store.predictions[i].model = store.predictions[j].model
              /\ store.predictions[i].engine = store.predictions[j].engine
    /\ store.pooled =>
         \A row \in report.rows : \A i \in Members(row) :
           LET pools == RowsWith(report.pooled, i)
           IN /\ Cardinality(pools) = 1
              /\ i \in row.scored /\ store.predictions[i].kind = "noul" =>
                   \A pool \in pools : Miss(pool, TopLabel(i), i) = Miss(row, Stated(i), i)

\* What an outcome record says of a prediction now: the last one by time among
\* those nobody retracted.
LastWord(i) ==
  {store.outcomes[k].observed : k \in
     {k \in OutcomesOf(i) : \A l \in OutcomesOf(i) : store.outcomes[l].at <= store.outcomes[k].at}}

\* The chosen threshold keeps its promise against every threshold, not only the
\* observed ones: it is within the budget, it catches something, no threshold
\* within the budget catches more, and none that catches as much blocks fewer
\* true completions. It is refused only when no threshold will do; and a false
\* completion is one that the last outcome calls so (threshold.rs).
ThresholdIsBest ==
  report.kind = "threshold" =>
    LET t == report.threshold
        good == {u \in 0..Parts : Caught(u) > 0 /\ WithinBudget(u, store.budget)}
    IN /\ t = NoThreshold <=> good = {}
       /\ t # NoThreshold =>
            /\ t \in good
            /\ \A u \in good :
                 /\ Caught(u) <= Caught(t)
                 /\ Caught(u) = Caught(t) => FalseBlocks(u) >= FalseBlocks(t)
       /\ \A i \in FalseCompletions : "true" \in LastWord(i)
       /\ \A i \in TrueCompletions : "false" \in LastWord(i)

=============================================================================
