--------------------------- MODULE Reason_proofs ---------------------------
(***************************************************************************)
(* Proofs about the commands that only compute: reports of how well        *)
(* predictions did, the focus capsule, weighted decisions and the requests *)
(* for estimates, predictions of engines and people.                       *)
(***************************************************************************)
EXTENDS Calibration, Focus, Decision, Forecasts, Finite_proofs, SequenceTheorems

-----------------------------------------------------------------------------

(* Calibration *)

\* What a report is made from, and what it is.
Reported ==
  /\ store \in Stores
  /\ \/ report = NoReport
     \/ report = Report(store.families, store.pooled, store.min)
     \/ report = GateThreshold(store.budget)

\* What is derived from a store is the same while the store is.
LEMMA ReportStays ==
  ASSUME store' = store
  PROVE  /\ Report(store.families, store.pooled, store.min)'
              = Report(store.families, store.pooled, store.min)
         /\ GateThreshold(store.budget)' = GateThreshold(store.budget)
<1>1. Report(store.families, store.pooled, store.min)' = Report(store.families, store.pooled, store.min)
  BY DEF Report, Counted, Predictions, Active, Resolved, OutcomesOf, Row, RowKey, Forecaster,
         Happened, Observed, Later, HasP, Stated, Bins, PooledRow, LeanHappened, TopLabel
<1>2. GateThreshold(store.budget)' = GateThreshold(store.budget)
  BY DEF GateThreshold, TooFewOutcomes, Points, Counted, Predictions, Active, Resolved, OutcomesOf,
         FalseCompletions, TrueCompletions, Observed, Later, ChooseThreshold, Qualifying, Caught,
         AtLeast, WithinBudget, FalseBlocks, Prefers
<1>. QED  BY <1>1, <1>2

LEMMA ReportedAlways == CalibrationSpec => []Reported
<1>1. CalibrationInit => Reported
  BY DEF CalibrationInit, Reported
<1>2. Reported /\ [CalibrationNext]_calibrationVars => Reported'
  <2>. SUFFICES ASSUME Reported, [CalibrationNext]_calibrationVars PROVE Reported'
    OBVIOUS
  <2>1. store' = store
    BY DEF CalibrationNext, Calibrate, FindThreshold, calibrationVars
  <2>2. \/ report' = report
        \/ report' = Report(store.families, store.pooled, store.min)
        \/ report' = GateThreshold(store.budget)
    BY DEF CalibrationNext, Calibrate, FindThreshold, calibrationVars
  <2>. QED  BY <2>1, <2>2, ReportStays DEF Reported
<1>. QED  BY <1>1, <1>2, PTL DEF CalibrationSpec

\* The predictions of a store, and the outcomes of one of them.
LEMMA StoreType ==
  ASSUME store \in Stores
  PROVE  /\ IsFiniteSet(Predictions)
         /\ \A i \in Predictions : store.predictions[i].p \in 0..Parts \cup {NoP}
         /\ \A i \in Predictions : /\ IsFiniteSet(OutcomesOf(i)) /\ OutcomesOf(i) \subseteq Nat
                                   /\ \A k \in OutcomesOf(i) :
                                        /\ store.outcomes[k].at \in Nat
                                        /\ store.predictions[i].kind = "noul" =>
                                             store.outcomes[k].observed \in {"true", "false"}
<1>1. /\ IsFiniteSet(DOMAIN store.predictions)
      /\ \A i \in DOMAIN store.predictions : store.predictions[i].p \in 0..Parts \cup {NoP}
      /\ IsFiniteSet(DOMAIN store.outcomes) /\ DOMAIN store.outcomes \subseteq Nat
      /\ \A k \in DOMAIN store.outcomes :
           /\ store.outcomes[k].at \in Nat
           /\ \A i \in DOMAIN store.predictions :
                store.outcomes[k].of = i /\ store.predictions[i].kind = "noul" =>
                  store.outcomes[k].observed \in {"true", "false"}
  BY StoresAssumption
<1>2. \A i \in Predictions : OutcomesOf(i) \subseteq DOMAIN store.outcomes
  BY DEF OutcomesOf
<1>3. \A i \in Predictions : IsFiniteSet(OutcomesOf(i))
  BY <1>1, <1>2, FS_Subset
<1>. QED  BY <1>1, <1>2, <1>3 DEF OutcomesOf, Predictions

-----------------------------------------------------------------------------

\* A probability lies in one bin.
LEMMA OneBin ==
  ASSUME NEW p \in 0..Parts
  PROVE  \E b \in 0..BINS - 1 : \A c \in 0..BINS - 1 : InBin(p, c) <=> c = b
<1>1. Parts \in Nat \ {0} /\ p \in Nat /\ p <= Parts
  BY CalibrationAssumption
<1>2. /\ InBin(p, 0) <=> 5 * p < Parts
      /\ InBin(p, 1) <=> Parts <= 5 * p /\ 5 * p < 2 * Parts
      /\ InBin(p, 2) <=> 2 * Parts <= 5 * p /\ 5 * p < 3 * Parts
      /\ InBin(p, 3) <=> 3 * Parts <= 5 * p /\ 5 * p < 4 * Parts
      /\ InBin(p, 4) <=> 4 * Parts <= 5 * p
  BY <1>1 DEF InBin, BINS
<1>3. \A c \in 0..BINS - 1 : c = 0 \/ c = 1 \/ c = 2 \/ c = 3 \/ c = 4
  BY DEF BINS
<1>4. 0 \in 0..BINS - 1 /\ 1 \in 0..BINS - 1 /\ 2 \in 0..BINS - 1 /\ 3 \in 0..BINS - 1 /\ 4 \in 0..BINS - 1
  BY DEF BINS
<1>. DEFINE q == 5 * p
<1>5. q \in Nat /\ q <= 5 * Parts
  BY <1>1
<1>. HIDE DEF q
<1>6. CASE q < Parts
  BY <1>1, <1>2, <1>3, <1>4, <1>5, <1>6 DEF q
<1>7. CASE Parts <= q /\ q < 2 * Parts
  BY <1>1, <1>2, <1>3, <1>4, <1>5, <1>7 DEF q
<1>8. CASE 2 * Parts <= q /\ q < 3 * Parts
  BY <1>1, <1>2, <1>3, <1>4, <1>5, <1>8 DEF q
<1>9. CASE 3 * Parts <= q /\ q < 4 * Parts
  BY <1>1, <1>2, <1>3, <1>4, <1>5, <1>9 DEF q
<1>10. CASE 4 * Parts <= q
  BY <1>1, <1>2, <1>3, <1>4, <1>5, <1>10 DEF q
<1>. QED  BY <1>1, <1>5, <1>6, <1>7, <1>8, <1>9, <1>10

\* The bins hold a scored prediction once.
LEMMA BinsHoldOnce ==
  ASSUME NEW points, NEW p, NEW i \in points, p[i] \in 0..Parts
  PROVE  Cardinality({b \in 0..BINS - 1 : i \in Bins(points, p)[b]}) = 1
<1>1. PICK b \in 0..BINS - 1 : \A c \in 0..BINS - 1 : InBin(p[i], c) <=> c = b
  BY OneBin
<1>2. \A c \in 0..BINS - 1 : i \in Bins(points, p)[c] <=> c = b
  BY <1>1 DEF Bins
<1>3. {c \in 0..BINS - 1 : i \in Bins(points, p)[c]} = {b}
  BY <1>2
<1>. QED  BY <1>3, FS_Singleton

\* A noul prediction misses by as much on the side it leans to as on `true'.
LEMMA SidesMissAlike ==
  ASSUME NEW row, NEW pool, NEW i,
         store.predictions[i].kind = "noul", store.predictions[i].p \in 0..Parts,
         i \in row.hits <=> Happened(i), i \in pool.hits <=> LeanHappened(i)
  PROVE  Miss(pool, TopLabel(i), i) = Miss(row, Stated(i), i)
<1>. DEFINE p == store.predictions[i].p
            says == store.predictions[i].value = "true"
            came == Observed(i) = "true"
<1>1. p \in Nat /\ Parts \in Nat /\ Stated(i) = p
  BY CalibrationAssumption DEF Stated
<1>2. (i \in row.hits <=> came) /\ (i \in pool.hits <=> (says <=> came))
  BY DEF Happened, LeanHappened
<1>3. TopLabel(i) = IF says THEN p ELSE Parts - p
  BY DEF TopLabel
<1>. HIDE DEF p, says, came
<1>4. CASE says
  BY <1>1, <1>2, <1>3, <1>4 DEF Miss
<1>5. CASE ~ says
  <2>1. \A x \in Int : x * x = (0 - x) * (0 - x)
    OBVIOUS
  <2>2. CASE came
    <3>1. Miss(row, Stated(i), i) = (p - Parts) * (p - Parts) /\ Miss(pool, TopLabel(i), i) = (Parts - p) * (Parts - p)
      BY <1>1, <1>2, <1>3, <1>5, <2>2 DEF Miss, Square
    <3>2. p - Parts \in Int /\ 0 - (p - Parts) = Parts - p
      BY <1>1
    <3>. QED  BY <2>1, <3>1, <3>2
  <2>3. CASE ~ came
    <3>1. Miss(row, Stated(i), i) = p * p /\ Miss(pool, TopLabel(i), i) = (0 - p) * (0 - p)
      <4>1. (Parts - p) - Parts = 0 - p /\ p - 0 = p
        BY <1>1
      <4>. QED  BY <1>1, <1>2, <1>3, <1>5, <2>3, <4>1 DEF Miss, Square
    <3>. QED  BY <1>1, <2>1, <3>1
  <2>. QED  BY <2>2, <2>3
<1>. QED  BY <1>4, <1>5

\* The probability that a scored prediction's bin is found by.
LEMMA ScoredOnce ==
  ASSUME store \in Stores, NEW i \in Predictions, HasP(i)
  PROVE  Stated(i) \in 0..Parts /\ TopLabel(i) \in 0..Parts
<1>1. store.predictions[i].p \in 0..Parts
  BY StoreType DEF HasP
<1>. QED  BY <1>1, CalibrationAssumption DEF Stated, TopLabel

\* A report over a store counts everything once.
LEMMA ReportCounts ==
  ASSUME store \in Stores, report = Report(store.families, store.pooled, store.min)
  PROVE  CountedOnce
<1>. DEFINE C == Counted(store.families)
            resolved == {i \in C : Resolved(i)}
            RowOf(key) == Row(key, {i \in resolved : RowKey(i) = key}, store.min)
            PoolOf(f) == PooledRow(f, {i \in resolved : Forecaster(i) = f}, store.min)
<1>1. /\ report.unresolved = C \ resolved
      /\ report.rows = {RowOf(key) : key \in {RowKey(i) : i \in resolved}}
      /\ report.pooled = IF store.pooled THEN {PoolOf(f) : f \in {Forecaster(i) : i \in resolved}} ELSE {}
  BY DEF Report
<1>2. C \subseteq Predictions
  BY DEF Counted
<1>. HIDE DEF C
<1>3. \A key : Members(RowOf(key)) = {i \in resolved : RowKey(i) = key}
  BY DEF Members, Row
<1>4. \A f : Members(PoolOf(f)) = {i \in resolved : Forecaster(i) = f}
  BY DEF Members, PooledRow
<1>5. ASSUME NEW i \in C
      PROVE  Cardinality(RowsWith(report.rows, i)) = IF i \in report.unresolved THEN 0 ELSE 1
  <2>1. CASE i \in resolved
    <3>1. RowsWith(report.rows, i) = {RowOf(RowKey(i))}
      <4>. HIDE DEF RowOf
      <4>. QED  BY <1>1, <1>3, <2>1 DEF RowsWith
    <3>. QED  BY <1>1, <2>1, <3>1, FS_Singleton
  <2>2. CASE i \notin resolved
    <3>1. RowsWith(report.rows, i) = {}
      <4>. HIDE DEF RowOf
      <4>. QED  BY <1>1, <1>3, <2>2 DEF RowsWith
    <3>. QED  BY <1>1, <2>2, <3>1, FS_EmptySet
  <2>. QED  BY <2>1, <2>2
<1>6. ASSUME NEW row \in report.rows \cup report.pooled
      PROVE  /\ Members(row) \subseteq C
             /\ row.scored \cap row.unscored = {}
             /\ \A i \in row.scored : Cardinality({b \in 0..BINS - 1 : i \in row.bins[b]}) = 1
             /\ \A i \in Members(row), j \in Members(row) :
                  /\ store.predictions[i].model = store.predictions[j].model
                  /\ store.predictions[i].engine = store.predictions[j].engine
  <2>0. \A i, j : Forecaster(i) = Forecaster(j) =>
          /\ store.predictions[i].model = store.predictions[j].model
          /\ store.predictions[i].engine = store.predictions[j].engine
    BY DEF Forecaster
  <2>00. \A i, j : RowKey(i) = RowKey(j) => Forecaster(i) = Forecaster(j)
    BY DEF RowKey
  <2>1. CASE row \in report.rows
    <3>1. PICK key : row = RowOf(key)
      BY <1>1, <2>1
    <3>. DEFINE M == {i \in resolved : RowKey(i) = key}
                S == {i \in M : HasP(i)}
    <3>2. /\ Members(row) = M /\ row.scored = S /\ row.unscored = M \ S
          /\ row.bins = Bins(S, [i \in S |-> Stated(i)])
      BY <3>1 DEF Members, Row
    <3>3. ASSUME NEW i \in S
          PROVE  Cardinality({b \in 0..BINS - 1 : i \in row.bins[b]}) = 1
      <4>1. i \in Predictions /\ HasP(i)
        BY <1>2
      <4>2. [j \in S |-> Stated(j)][i] \in 0..Parts
        BY <4>1, ScoredOnce
      <4>. QED  BY <3>2, <4>2, BinsHoldOnce
    <3>. QED  BY <2>0, <2>00, <3>2, <3>3
  <2>2. CASE row \in report.pooled
    <3>1. PICK f : row = PoolOf(f)
      BY <1>1, <2>2
    <3>. DEFINE M == {i \in resolved : Forecaster(i) = f}
                S == {i \in M : HasP(i)}
    <3>2. /\ Members(row) = M /\ row.scored = S /\ row.unscored = M \ S
          /\ row.bins = Bins(S, [i \in S |-> TopLabel(i)])
      BY <3>1 DEF Members, PooledRow
    <3>3. ASSUME NEW i \in S
          PROVE  Cardinality({b \in 0..BINS - 1 : i \in row.bins[b]}) = 1
      <4>1. i \in Predictions /\ HasP(i)
        BY <1>2
      <4>2. [j \in S |-> TopLabel(j)][i] \in 0..Parts
        BY <4>1, ScoredOnce
      <4>. QED  BY <3>2, <4>2, BinsHoldOnce
    <3>. QED  BY <2>0, <3>2, <3>3
  <2>. QED  BY <2>1, <2>2
<1>7. ASSUME store.pooled, NEW row \in report.rows, NEW i \in Members(row)
      PROVE  /\ Cardinality(RowsWith(report.pooled, i)) = 1
             /\ i \in row.scored /\ store.predictions[i].kind = "noul" =>
                  \A pool \in RowsWith(report.pooled, i) :
                    Miss(pool, TopLabel(i), i) = Miss(row, Stated(i), i)
  <2>1. PICK key : row = RowOf(key)
    BY <1>1
  <2>2. i \in resolved /\ RowKey(i) = key
    BY <1>3, <2>1
  <2>3. RowsWith(report.pooled, i) = {PoolOf(Forecaster(i))}
    <3>. HIDE DEF PoolOf
    <3>. QED  BY <1>1, <1>4, <1>7, <2>2 DEF RowsWith
  <2>4. ASSUME i \in row.scored, store.predictions[i].kind = "noul"
        PROVE  Miss(PoolOf(Forecaster(i)), TopLabel(i), i) = Miss(row, Stated(i), i)
    <3>1. HasP(i)
      BY <2>1, <2>4 DEF Row
    <3>2. i \in row.hits <=> Happened(i)
      BY <2>1, <2>2, <3>1 DEF Row
    <3>3. i \in PoolOf(Forecaster(i)).hits <=> LeanHappened(i)
      BY <2>2, <3>1 DEF PooledRow
    <3>4. store.predictions[i].p \in 0..Parts
      BY <1>2, <2>2, <3>1, StoreType DEF HasP
    <3>. HIDE DEF PoolOf
    <3>. QED  BY <2>4, <3>2, <3>3, <3>4, SidesMissAlike
  <2>. QED  BY <2>3, <2>4, FS_Singleton
<1>. QED  BY <1>5, <1>6, <1>7 DEF CountedOnce, C

-----------------------------------------------------------------------------
(* The threshold *)

\* What is observed of a judged prediction is its last word.
LEMMA ObservedIsLast ==
  ASSUME store \in Stores, NEW i \in Predictions, Resolved(i)
  PROVE  /\ Observed(i) \in LastWord(i)
         /\ store.predictions[i].kind = "noul" => Observed(i) \in {"true", "false"}
<1>. DEFINE O == OutcomesOf(i)
            at(k) == store.outcomes[k].at
            R == {p \in O \X O : Later(p[1], p[2])}
            k == CHOOSE k \in O : \A l \in O : Later(k, l)
<1>1. IsFiniteSet(O) /\ O \subseteq Nat /\ O # {} /\ \A m \in O : at(m) \in Nat
  BY StoreType DEF Resolved
<1>2. \A m, n \in O : <<m, n>> \in R <=> at(m) > at(n) \/ (at(m) = at(n) /\ m >= n)
  <2>1. \A m, n \in O : <<m, n>> \in R <=> Later(m, n)
    <3>. HIDE DEF O
    <3>. QED  OBVIOUS
  <2>2. \A m, n \in O : Later(m, n) <=> at(m) > at(n) \/ (at(m) = at(n) /\ m >= n)
    <3>1. SUFFICES ASSUME NEW m \in O, NEW n \in O
                   PROVE  Later(m, n) <=> at(m) > at(n) \/ (at(m) = at(n) /\ m >= n)
      OBVIOUS
    <3>. HIDE DEF O
    <3>. QED  BY DEF Later
  <2>. HIDE DEF O, R, at
  <2>. QED  BY <2>1, <2>2
<1>3. Ranks(R, O)
  <2>. HIDE DEF R, O, at
  <2>1. ASSUME NEW m \in O, NEW n \in O
        PROVE  <<m, n>> \in R \/ <<n, m>> \in R
    <3>1. m \in Nat /\ n \in Nat /\ at(m) \in Nat /\ at(n) \in Nat
      BY <1>1
    <3>2. \A a, b, c, d \in Nat : (a > b \/ (a = b /\ c >= d)) \/ (b > a \/ (b = a /\ d >= c))
      OBVIOUS
    <3>. QED  BY <1>2, <3>1, <3>2
  <2>2. \A l, m, n \in O : <<l, m>> \in R /\ <<m, n>> \in R => <<l, n>> \in R
    BY <1>1, <1>2
  <2>. QED  BY <2>1, <2>2 DEF Ranks
<1>4. PICK m \in O : \A n \in O : <<m, n>> \in R
  <2>. HIDE DEF R, O
  <2>. QED  BY <1>1, <1>3, BestOf
<1>5. k \in O /\ \A l \in O : Later(k, l)
  <2>1. \A n \in O : Later(m, n)
    BY <1>4
  <2>. HIDE DEF O
  <2>. QED  BY <1>4, <2>1
<1>6. Observed(i) = store.outcomes[k].observed
  BY DEF Observed
<1>. HIDE DEF k
<1>7. \A l \in O : at(l) <= at(k)
  BY <1>1, <1>5 DEF Later
<1>8. Observed(i) \in LastWord(i)
  BY <1>5, <1>6, <1>7 DEF LastWord
<1>9. store.predictions[i].kind = "noul" => Observed(i) \in {"true", "false"}
  BY <1>5, <1>6, StoreType
<1>. QED  BY <1>8, <1>9

\* The points of a threshold, and how many it catches.
LEMMA PointsType ==
  ASSUME store \in Stores
  PROVE  /\ IsFiniteSet(Points) /\ Points \subseteq Predictions
         /\ FalseCompletions \subseteq Points /\ TrueCompletions \subseteq Points
         /\ \A i \in Points : store.predictions[i].p \in 0..Parts
         /\ \A t : Caught(t) \in Nat /\ FalseBlocks(t) \in Nat
<1>1. Points \subseteq Predictions /\ \A i \in Points : store.predictions[i].p # NoP
  BY DEF Points, Counted
<1>2. FalseCompletions \subseteq Points /\ TrueCompletions \subseteq Points
  BY DEF FalseCompletions, TrueCompletions
<1>3. IsFiniteSet(Points)
  BY <1>1, StoreType, FS_Subset
<1>4. ASSUME NEW t PROVE Caught(t) \in Nat /\ FalseBlocks(t) \in Nat
  <2>1. IsFiniteSet(AtLeast(FalseCompletions, t)) /\ IsFiniteSet(AtLeast(TrueCompletions, t))
    BY <1>2, <1>3, FS_Subset DEF AtLeast
  <2>. QED  BY <2>1, FS_CardinalityType DEF Caught, FalseBlocks
<1>. QED  BY <1>1, <1>2, <1>3, <1>4, StoreType

\* A threshold that catches something does the same as the lowest probability
\* it catches, which was observed.
LEMMA ObservedWillDo ==
  ASSUME store \in Stores, NEW u \in 0..Parts, Caught(u) > 0
  PROVE  \E t \in {store.predictions[i].p : i \in Points} :
           Caught(t) = Caught(u) /\ FalseBlocks(t) = FalseBlocks(u)
<1>. DEFINE p(i) == store.predictions[i].p
            ps == {p(i) : i \in AtLeast(Points, u)}
<1>0. \A i \in Points : p(i) \in Nat
  BY PointsType
<1>1. AtLeast(FalseCompletions, u) # {}
  BY FS_EmptySet DEF Caught
<1>2. ps # {} /\ ps \in SUBSET Nat
  BY <1>0, <1>1, PointsType DEF AtLeast
<1>3. PICK t \in ps : \A s \in ps : t <= s
  <2>. HIDE DEF ps
  <2>. QED  BY <1>2, LeastOf
<1>4. t \in Nat /\ t >= u /\ t \in {p(i) : i \in Points}
  BY <1>0, <1>3, PointsType DEF AtLeast
<1>5. \A i \in Points : p(i) >= u <=> p(i) >= t
  <2>1. \A i \in Points : p(i) >= u => p(i) \in ps
    BY DEF AtLeast
  <2>. HIDE DEF ps, p
  <2>. QED  BY <1>0, <1>3, <1>4, <2>1
<1>6. AtLeast(FalseCompletions, t) = AtLeast(FalseCompletions, u)
      /\ AtLeast(TrueCompletions, t) = AtLeast(TrueCompletions, u)
  BY <1>5, PointsType DEF AtLeast
<1>. QED  BY <1>4, <1>6 DEF Caught, FalseBlocks

\* The threshold of a report is the best of all.
LEMMA ThresholdServes ==
  ASSUME store \in Stores, report = GateThreshold(store.budget)
  PROVE  ThresholdIsBest
<1>. SUFFICES ASSUME report.kind = "threshold" PROVE ThresholdIsBest
  BY DEF ThresholdIsBest
<1>. DEFINE Q == Qualifying(store.budget)
            t == report.threshold
            good == {u \in 0..Parts : Caught(u) > 0 /\ WithinBudget(u, store.budget)}
            R == {q \in Q \X Q : Prefers(q[1], q[2])}
<1>1. t = ChooseThreshold(store.budget)
  BY DEF GateThreshold
<1>2. Q \subseteq good
  BY PointsType DEF Qualifying
<1>3. ASSUME NEW u \in good
      PROVE  \E s \in Q : Caught(s) = Caught(u) /\ FalseBlocks(s) = FalseBlocks(u)
  <2>1. PICK s \in {store.predictions[i].p : i \in Points} :
               Caught(s) = Caught(u) /\ FalseBlocks(s) = FalseBlocks(u)
    BY ObservedWillDo
  <2>2. s \in Q
    BY <2>1 DEF Qualifying, WithinBudget
  <2>. QED  BY <2>1, <2>2
<1>4. IsFiniteSet(Q)
  <2>1. IsFiniteSet({store.predictions[i].p : i \in Points})
    <3>. DEFINE p == [i \in Points |-> store.predictions[i].p]
    <3>1. IsFiniteSet({p[i] : i \in Points})
      BY PointsType, ImageIsFinite
    <3>2. {p[i] : i \in Points} = {store.predictions[i].p : i \in Points}
      OBVIOUS
    <3>. QED  BY <3>1, <3>2
  <2>. QED  BY <2>1, FS_Subset DEF Qualifying
<1>5. \A x, y \in Q : <<x, y>> \in R <=> Prefers(x, y)
  OBVIOUS
<1>6. \A x \in Q : x \in Nat /\ Caught(x) \in Nat /\ FalseBlocks(x) \in Nat
  BY <1>2, PointsType
<1>. HIDE DEF Q, R
<1>7. Ranks(R, Q)
  <2>1. ASSUME NEW x \in Q, NEW y \in Q
        PROVE  <<x, y>> \in R \/ <<y, x>> \in R
    <3>1. Prefers(x, y) \/ Prefers(y, x)
      BY <1>6 DEF Prefers
    <3>. QED  BY <1>5, <3>1
  <2>2. \A x, y, z \in Q : <<x, y>> \in R /\ <<y, z>> \in R => <<x, z>> \in R
    <3>. HIDE DEF Q
    <3>. QED  BY <1>5, <1>6 DEF Prefers
  <2>. QED  BY <2>1, <2>2 DEF Ranks
<1>8. t = NoThreshold <=> good = {}
  <2>1. CASE Q = {}
    BY <1>1, <1>3, <2>1 DEF ChooseThreshold, Q
  <2>2. CASE Q # {}
    <3>1. PICK b \in Q : \A u \in Q : Prefers(b, u)
      BY <1>4, <1>5, <1>7, <2>2, BestOf
    <3>2. t \in Q
      BY <1>1, <2>2, <3>1 DEF ChooseThreshold, Q
    <3>. QED  BY <1>2, <1>6, <3>2 DEF NoThreshold
  <2>. QED  BY <2>1, <2>2
<1>9. ASSUME t # NoThreshold
      PROVE  /\ t \in good
             /\ \A u \in good : /\ Caught(u) <= Caught(t)
                                /\ Caught(u) = Caught(t) => FalseBlocks(u) >= FalseBlocks(t)
  <2>1. Q # {}
    BY <1>1, <1>9 DEF ChooseThreshold, Q
  <2>2. PICK b \in Q : \A u \in Q : Prefers(b, u)
    BY <1>4, <1>5, <1>7, <2>1, BestOf
  <2>3. t \in Q /\ \A u \in Q : Prefers(t, u)
    BY <1>1, <2>1, <2>2 DEF ChooseThreshold, Q
  <2>4. ASSUME NEW u \in good
        PROVE  /\ Caught(u) <= Caught(t)
               /\ Caught(u) = Caught(t) => FalseBlocks(u) >= FalseBlocks(t)
    <3>1. PICK s \in Q : Caught(s) = Caught(u) /\ FalseBlocks(s) = FalseBlocks(u)
      BY <1>3
    <3>2. Prefers(t, s)
      BY <2>3
    <3>. HIDE DEF t
    <3>. QED  BY <1>6, <2>3, <3>1, <3>2 DEF Prefers
  <2>. QED  BY <1>2, <2>3, <2>4
<1>10. \A i \in FalseCompletions : "true" \in LastWord(i)
  <2>1. \A i \in FalseCompletions : Observed(i) = "true" /\ Resolved(i) /\ i \in Predictions
    BY DEF FalseCompletions, Points, Counted
  <2>. QED  BY <2>1, ObservedIsLast
<1>11. \A i \in TrueCompletions : "false" \in LastWord(i)
  <2>1. \A i \in TrueCompletions : /\ Observed(i) # "true" /\ Resolved(i) /\ i \in Predictions
                                   /\ store.predictions[i].kind = "noul"
    BY DEF TrueCompletions, FalseCompletions, Points, Counted
  <2>. QED  BY <2>1, ObservedIsLast
<1>. QED  BY <1>8, <1>9, <1>10, <1>11 DEF ThresholdIsBest

-----------------------------------------------------------------------------

\* Whatever predictions and outcomes a store holds and whatever is asked of it,
\* every prediction is counted once (calibration.rs).
THEOREM EveryPredictionCountsOnce == CalibrationSpec => []CountedOnce
<1>1. Reported => CountedOnce
  BY ReportCounts DEF Reported, CountedOnce, NoReport, GateThreshold
<1>. QED  BY <1>1, ReportedAlways, PTL

\* And a threshold is the best of all within the budget, refused only when none
\* will do (threshold.rs).
THEOREM ThresholdsAreBest == CalibrationSpec => []ThresholdIsBest
<1>1. Reported => ThresholdIsBest
  BY ThresholdServes DEF Reported, ThresholdIsBest, NoReport, Report
<1>. QED  BY <1>1, ReportedAlways, PTL

-----------------------------------------------------------------------------

(* The focus capsule *)

\* What a capsule is between two calls: within a capacity of at least one, and
\* no trace twice.
Distinct(q) == \A j, k \in DOMAIN q : q[j].id = q[k].id => j = k

FocusInv ==
  /\ capacity \in Nat \ {0}
  /\ items \in Seq(Item)
  /\ Distinct(items)
  /\ Len(items) <= capacity

\* Both ids of a recall and its places: a trace is found once.
LEMMA RecallType ==
  ASSUME NEW r \in Recalls
  PROVE  /\ r \in Seq([id : TraceId, score : Score])
         /\ Distinct(r)
         /\ IsFiniteSet(DOMAIN r)
         /\ \A k \in DOMAIN r : r[k].id \in TraceId /\ r[k].score \in Score /\ r[k].score \in Nat
         /\ \A k \in DOMAIN r : Place(r, r[k].id) = k
<1>1. PICK n \in 0..MaxRecall : r \in [1..n -> [id : TraceId, score : Score]] /\ Cardinality(Ids(r)) = n
  BY DEF Recalls
<1>2. n \in Nat /\ DOMAIN r = 1..n
  BY <1>1, FocusAssumption
<1>3. IsFiniteSet(1..n) /\ Cardinality(1..n) = n
  BY <1>2, FS_Interval
<1>4. Distinct(r)
  <2>. DEFINE f == [k \in 1..n |-> r[k].id]
  <2>1. f \in Surjection(1..n, Ids(r))
    BY <1>2 DEF Surjection, Ids
  <2>2. f \in Injection(1..n, Ids(r))
    BY <1>1, <1>3, <2>1, FS_Surjection
  <2>. QED  BY <1>2, <2>2 DEF Injection, IsInjective, Distinct
<1>5. \A k \in DOMAIN r : r[k].id \in TraceId /\ r[k].score \in Score /\ r[k].score \in Nat
  BY <1>1, <1>2, FocusAssumption
<1>6. \A k \in DOMAIN r : Place(r, r[k].id) = k
  BY <1>4 DEF Distinct, Place
<1>7. r \in Seq([id : TraceId, score : Score])
  <2>. DEFINE T == [id : TraceId, score : Score]
  <2>1. r \in [1..n -> T]
    BY <1>1
  <2>. HIDE DEF T
  <2>2. r \in Seq(T)
    BY <1>2, <2>1
  <2>. QED  BY <2>2 DEF T
<1>. QED  BY <1>2, <1>3, <1>4, <1>5, <1>6, <1>7

\* The capsule after the results joined it and before the sort: every item at
\* its place and no less active, behind them the traces that were not there.
LEMMA JoinedIs ==
  ASSUME NEW q \in Seq(Item), Distinct(q), NEW r \in Recalls, NEW J, J = Joined(q, r)
  PROVE  /\ J \in Seq(Item) /\ Distinct(J) /\ Len(q) <= Len(J)
         /\ \A k \in DOMAIN q : /\ k \in DOMAIN J
                                /\ J[k].id = q[k].id /\ J[k].pinned = q[k].pinned
                                /\ J[k].activation >= q[k].activation
         /\ \A m \in DOMAIN J : J[m].pinned => m \in DOMAIN q
         /\ \A k \in DOMAIN r : \E m \in DOMAIN J :
              J[m].id = r[k].id /\ J[m].activation >= r[k].score
<1>. DEFINE M == Merged(q, r)
            new == {k \in DOMAIN r : r[k].id \notin Ids(q)}
            R == {p \in new \X new : p[1] < p[2]}
            other == Others(q, r)
            c == Cardinality(new)
            N == [n \in DOMAIN other |->
                    [id |-> r[other[n]].id, activation |-> r[other[n]].score, pinned |-> FALSE]]
<1>0. DOMAIN r \subseteq Nat /\ DOMAIN q = 1..Len(q) /\ Len(q) \in Nat
  BY RecallType
<1>00. \A k \in DOMAIN q : q[k] \in Item
  <2>. HIDE DEF Item
  <2>. QED  BY <1>0
<1>1. IsFiniteSet(new) /\ new \subseteq Nat
  BY <1>0, RecallType, FS_Subset
<1>2. Orders(R, new)
  BY <1>1 DEF Orders
<1>3. other = Arranged(new, R)
  BY DEF Others
<1>. HIDE DEF new, R, other
<1>4. /\ c \in Nat /\ other \in [1..c -> new]
      /\ \A i, j \in 1..c : other[i] = other[j] => i = j
      /\ \A x \in new : \E i \in 1..c : other[i] = x
  BY <1>1, <1>2, <1>3, ArrangedIs
<1>5. \A i \in 1..c : other[i] \in DOMAIN r /\ r[other[i]].id \notin Ids(q)
  BY <1>4 DEF new
<1>6. /\ M \in Seq(Item) /\ Len(M) = Len(q)
      /\ \A k \in DOMAIN q : /\ M[k].id = q[k].id /\ M[k].pinned = q[k].pinned
                             /\ M[k].activation >= q[k].activation
  <2>1. ASSUME NEW k \in 1..Len(q)
        PROVE  /\ M[k] \in Item /\ M[k].id = q[k].id /\ M[k].pinned = q[k].pinned
               /\ M[k].activation >= q[k].activation
    <3>1. q[k] \in Item /\ q[k].activation \in Score /\ q[k].activation \in Nat
      BY <1>0, <1>00, FocusAssumption DEF Item
    <3>2. CASE q[k].id \notin Ids(r)
      BY <1>0, <3>1, <3>2 DEF Merged
    <3>3. CASE q[k].id \in Ids(r)
      <4>1. PICK j \in DOMAIN r : r[j].id = q[k].id
        BY <3>3 DEF Ids
      <4>2. r[Place(r, q[k].id)].score \in Score /\ r[Place(r, q[k].id)].score \in Nat
        BY <4>1, RecallType, FocusAssumption
      <4>. DEFINE a == Max2(q[k].activation, r[Place(r, q[k].id)].score)
      <4>3. a \in Score /\ a >= q[k].activation
        BY <3>1, <4>2 DEF Max2
      <4>4. M[k] = [q[k] EXCEPT !.activation = a]
        BY <1>0, <3>3 DEF Merged
      <4>. HIDE DEF a, M
      <4>. QED  BY <3>1, <4>3, <4>4 DEF Item
    <3>. QED  BY <3>2, <3>3
  <2>2. DOMAIN M = 1..Len(q)
    BY <1>0 DEF Merged
  <2>3. M = [k \in 1..Len(q) |-> M[k]]
    BY <1>0 DEF Merged
  <2>. HIDE DEF M
  <2>4. M \in [1..Len(q) -> Item]
    BY <2>1, <2>3
  <2>5. M \in Seq(Item) /\ Len(M) = Len(q)
    <3>. HIDE DEF Item
    <3>. QED  BY <1>0, <2>2, <2>4
  <2>. QED  BY <1>0, <2>1, <2>5
<1>7. /\ N \in Seq(Item) /\ Len(N) = c
      /\ \A i \in 1..c : /\ N[i].id = r[other[i]].id /\ ~ N[i].pinned
                         /\ N[i].activation = r[other[i]].score
  <2>1. DOMAIN N = 1..c
    BY <1>4
  <2>2. ASSUME NEW i \in 1..c
        PROVE  /\ N[i] \in Item /\ N[i].id = r[other[i]].id /\ N[i].pinned = FALSE
               /\ N[i].activation = r[other[i]].score
    <3>1. r[other[i]].id \in TraceId /\ r[other[i]].score \in Score
      BY <1>5, RecallType
    <3>2. N[i] = [id |-> r[other[i]].id, activation |-> r[other[i]].score, pinned |-> FALSE]
      BY <1>4
    <3>. HIDE DEF N
    <3>. QED  BY <3>1, <3>2 DEF Item
  <2>3. N = [i \in 1..c |-> N[i]]
    BY <1>4
  <2>. HIDE DEF N
  <2>4. N \in [1..c -> Item]
    BY <2>2, <2>3
  <2>5. N \in Seq(Item) /\ Len(N) = c
    <3>. HIDE DEF Item, c
    <3>. QED  BY <1>4, <2>1, <2>4
  <2>. QED  BY <2>2, <2>5
<1>8. J = M \o N
  BY DEF Joined, other
<1>. HIDE DEF M, N, c
<1>9. /\ J \in Seq(Item) /\ Len(J) = Len(q) + c
      /\ \A k \in 1..Len(q) : J[k] = M[k]
      /\ \A i \in 1..c : J[Len(q) + i] = N[i]
      /\ \A k \in DOMAIN J : k \in 1..Len(q) \/ \E i \in 1..c : k = Len(q) + i
  <2>. HIDE DEF Item
  <2>1. J \in Seq(Item) /\ Len(J) = Len(q) + c
    <3>1. M \in Seq(Item) /\ N \in Seq(Item) /\ Len(M) = Len(q) /\ Len(N) = c
      BY <1>6, <1>7
    <3>2. M \o N \in Seq(Item)
      BY <3>1
    <3>3. Len(M \o N) = Len(M) + Len(N)
      BY <3>1
    <3>. QED  BY <1>8, <3>1, <3>2, <3>3
  <2>2. \A k \in DOMAIN J : k \in 1..Len(q) \/ \E i \in 1..c : k = Len(q) + i
    <3>1. ASSUME NEW k \in DOMAIN J, k \notin 1..Len(q)
          PROVE  k - Len(q) \in 1..c /\ k = Len(q) + (k - Len(q))
      BY <1>0, <1>4, <2>1, <3>1
    <3>. QED  BY <3>1
  <2>3. \A k \in 1..Len(q) : J[k] = M[k]
    BY <1>0, <1>4, <1>6, <1>7, <1>8
  <2>4. \A i \in 1..c : J[Len(q) + i] = N[i]
    <3>1. ASSUME NEW i \in 1..c PROVE J[Len(q) + i] = N[i]
      <4>1. M \in Seq(Item) /\ N \in Seq(Item) /\ Len(M) = Len(q) /\ Len(N) = c
        BY <1>6, <1>7
      <4>2. Len(q) + i \in 1..(Len(q) + c) /\ ~ (Len(q) + i <= Len(q)) /\ (Len(q) + i) - Len(q) = i
        BY <1>0, <1>4
      <4>3. (M \o N)[Len(q) + i] = N[(Len(q) + i) - Len(q)]
        BY <1>0, <1>4, <4>1, <4>2
      <4>. QED  BY <1>8, <4>2, <4>3
    <3>. QED  BY <3>1
  <2>. QED  BY <2>1, <2>2, <2>3, <2>4
<1>10. /\ \A k \in 1..Len(q) : /\ k \in DOMAIN J /\ J[k].id = q[k].id
                                /\ J[k].pinned = q[k].pinned
                                /\ J[k].activation >= q[k].activation
       /\ \A i \in 1..c : J[Len(q) + i].id = r[other[i]].id
  <2>1. ASSUME NEW k \in 1..Len(q)
        PROVE  /\ k \in DOMAIN J /\ J[k].id = q[k].id /\ J[k].pinned = q[k].pinned
               /\ J[k].activation >= q[k].activation
    <3>1. J[k] = M[k]
      BY <1>9
    <3>2. M[k].id = q[k].id /\ M[k].pinned = q[k].pinned /\ M[k].activation >= q[k].activation
      BY <1>0, <1>6
    <3>3. k \in DOMAIN J
      BY <1>0, <1>4, <1>9
    <3>. QED  BY <3>1, <3>2, <3>3
  <2>2. \A i \in 1..c : J[Len(q) + i].id = r[other[i]].id
    BY <1>7, <1>9
  <2>. QED  BY <2>1, <2>2
<1>11. Distinct(J)
  <2>1. ASSUME NEW j \in 1..Len(q), NEW k \in DOMAIN J, J[j].id = J[k].id
        PROVE  j = k
    <3>1. J[j].id = q[j].id /\ q[j].id \in Ids(q)
      BY <1>0, <1>10 DEF Ids
    <3>2. CASE k \in 1..Len(q)
      <4>1. q[j].id = q[k].id
        BY <1>10, <2>1, <3>1, <3>2
      <4>. QED  BY <1>0, <3>2, <4>1 DEF Distinct
    <3>3. CASE \E i \in 1..c : k = Len(q) + i
      <4>1. PICK i \in 1..c : k = Len(q) + i
        BY <3>3
      <4>2. J[k].id = r[other[i]].id /\ r[other[i]].id \notin Ids(q)
        BY <1>5, <1>10, <4>1
      <4>. QED  BY <2>1, <3>1, <4>2
    <3>. QED  BY <1>9, <3>2, <3>3
  <2>2. ASSUME NEW i \in 1..c, NEW l \in 1..c, J[Len(q) + i].id = J[Len(q) + l].id
        PROVE  i = l
    <3>1. r[other[i]].id = r[other[l]].id
      BY <1>10, <2>2
    <3>2. other[i] = other[l]
      BY <1>5, <3>1, RecallType DEF Distinct
    <3>. QED  BY <1>4, <3>2
  <2>3. ASSUME NEW j \in DOMAIN J, NEW k \in DOMAIN J, J[j].id = J[k].id
        PROVE  j = k
    <3>1. CASE j \in 1..Len(q)
      BY <2>1, <2>3, <3>1
    <3>2. CASE k \in 1..Len(q)
      <4>1. J[k].id = J[j].id
        BY <2>3
      <4>. QED  BY <2>1, <3>2, <4>1
    <3>3. CASE j \notin 1..Len(q) /\ k \notin 1..Len(q)
      <4>1. PICK i \in 1..c : j = Len(q) + i
        BY <1>9, <3>3
      <4>2. PICK l \in 1..c : k = Len(q) + l
        BY <1>9, <3>3
      <4>. QED  BY <2>2, <2>3, <4>1, <4>2
    <3>. QED  BY <3>1, <3>2, <3>3
  <2>. QED  BY <2>3 DEF Distinct
<1>12. \A m \in DOMAIN J : J[m].pinned => m \in DOMAIN q
  BY <1>0, <1>7, <1>9
<1>13. ASSUME NEW k \in DOMAIN r
       PROVE  \E m \in DOMAIN J : J[m].id = r[k].id /\ J[m].activation >= r[k].score
  <2>1. CASE r[k].id \in Ids(q)
    <3>1. PICK m \in DOMAIN q : q[m].id = r[k].id
      BY <2>1 DEF Ids
    <3>2. Place(r, q[m].id) = k /\ q[m].id \in Ids(r)
      BY <3>1, RecallType DEF Ids
    <3>3. M[m] = [q[m] EXCEPT !.activation = Max2(q[m].activation, r[k].score)]
      BY <3>2 DEF M, Merged
    <3>4. q[m] \in Item /\ q[m].activation \in Nat /\ r[k].score \in Nat
      BY <1>00, RecallType, FocusAssumption DEF Item
    <3>5. M[m].activation >= r[k].score
      BY <3>3, <3>4 DEF Max2, Item
    <3>. QED  BY <1>0, <1>9, <1>10, <3>1, <3>5
  <2>2. CASE r[k].id \notin Ids(q)
    <3>1. PICK i \in 1..c : other[i] = k
      BY <1>4, <2>2 DEF new
    <3>2. J[Len(q) + i].id = r[k].id /\ J[Len(q) + i].activation = r[k].score
      BY <1>7, <1>9, <3>1
    <3>3. Len(q) + i \in DOMAIN J
      BY <1>0, <1>4, <1>9
    <3>4. r[k].score \in Nat
      BY RecallType
    <3>. QED  BY <3>2, <3>3, <3>4
  <2>. QED  BY <2>1, <2>2
<1>. HIDE DEF Item
<1>14. Len(q) <= Len(J)
  BY <1>0, <1>4, <1>9
<1>. QED  BY <1>0, <1>9, <1>10, <1>11, <1>12, <1>13, <1>14

\* The sort moves items and loses none, and no item is before one that the
\* order prefers.
LEMMA SortedIs ==
  ASSUME NEW q \in Seq(Item)
  PROVE  /\ OldPlace(q) \in [DOMAIN q -> DOMAIN q]
         /\ \A m, n \in DOMAIN q : OldPlace(q)[m] = OldPlace(q)[n] => m = n
         /\ \A k \in DOMAIN q : \E n \in DOMAIN q : OldPlace(q)[n] = k
         /\ DOMAIN Sorted(q) = DOMAIN q
         /\ \A n \in DOMAIN q : Sorted(q)[n] = q[OldPlace(q)[n]]
         /\ \A m, n \in DOMAIN q : m < n => ~ Before(q[OldPlace(q)[n]], q[OldPlace(q)[m]])
<1>. DEFINE L == Len(q)
            D == 1..L
            place == OldPlace(q)
<1>1. L \in Nat /\ DOMAIN q = D /\ IsFiniteSet(D) /\ Cardinality(D) = L
  <2>1. L \in Nat /\ DOMAIN q = D
    OBVIOUS
  <2>. QED  BY <2>1, UpTo
<1>2. \A k \in D : q[k].pinned \in BOOLEAN /\ q[k].activation \in Nat
  <2>1. \A k \in D : q[k] \in Item
    <3>. HIDE DEF Item
    <3>. QED  OBVIOUS
  <2>. QED  BY <2>1, FocusAssumption DEF Item
<1>3. \A j, k \in D : <<j, k>> \in Stable(q)
                     <=> Before(q[j], q[k]) \/ (~ Before(q[k], q[j]) /\ j < k)
  BY <1>1 DEF Stable
<1>4. Orders(Stable(q), D)
  <2>1. ASSUME NEW j \in D, NEW k \in D, j # k
        PROVE  <<j, k>> \in Stable(q) \/ <<k, j>> \in Stable(q)
    <3>1. j < k \/ k < j
      BY <1>1, <2>1
    <3>. QED  BY <1>3, <3>1
  <2>2. ASSUME NEW j \in D, NEW k \in D, NEW l \in D,
               <<j, k>> \in Stable(q), <<k, l>> \in Stable(q)
        PROVE  <<j, l>> \in Stable(q)
    <3>1. Before(q[j], q[k]) \/ (~ Before(q[k], q[j]) /\ j < k)
      BY <1>3, <2>2
    <3>2. Before(q[k], q[l]) \/ (~ Before(q[l], q[k]) /\ k < l)
      BY <1>3, <2>2
    <3>3. Before(q[j], q[l]) \/ (~ Before(q[l], q[j]) /\ j < l)
      <4>1. /\ q[j].pinned \in BOOLEAN /\ q[j].activation \in Nat
            /\ q[k].pinned \in BOOLEAN /\ q[k].activation \in Nat
            /\ q[l].pinned \in BOOLEAN /\ q[l].activation \in Nat
        BY <1>2
      <4>2. j \in Nat /\ k \in Nat /\ l \in Nat
        BY <1>1
      <4>. QED  BY <3>1, <3>2, <4>1, <4>2 DEF Before
    <3>. QED  BY <1>3, <3>3
  <2>3. ASSUME NEW j \in D PROVE <<j, j>> \notin Stable(q)
    <3>1. ~ Before(q[j], q[j])
      BY <1>2 DEF Before
    <3>2. ~ (j < j)
      BY <1>1
    <3>. QED  BY <1>3, <3>1, <3>2
  <2>. QED  BY <2>1, <2>2, <2>3 DEF Orders
<1>. HIDE DEF D, L, place
<1>5. /\ place \in [1..L -> D]
      /\ \A m, n \in D : place[m] = place[n] => m = n
      /\ \A k \in D : \E n \in D : place[n] = k
      /\ \A m, n \in D : m < n <=> <<place[m], place[n]>> \in Stable(q)
  <2>1. place = Arranged(D, Stable(q))
    BY <1>1 DEF place, OldPlace
  <2>2. /\ place \in [1..Cardinality(D) -> D]
        /\ \A i, j \in 1..Cardinality(D) : place[i] = place[j] => i = j
        /\ \A x \in D : \E i \in 1..Cardinality(D) : place[i] = x
        /\ \A i, j \in 1..Cardinality(D) : i < j <=> <<place[i], place[j]>> \in Stable(q)
    <3>1. IsFiniteSet(D)
      BY <1>1
    <3>. QED  BY <3>1, <1>4, <2>1, ArrangedIs
  <2>3. 1..Cardinality(D) = D
    BY <1>1 DEF D
  <2>4. 1..L = D
    BY DEF D
  <2>. QED  BY <2>2, <2>3, <2>4
<1>6. Sorted(q) = [n \in D |-> q[place[n]]]
  BY <1>1 DEF Sorted, place
<1>7. ASSUME NEW m \in D, NEW n \in D, m < n
      PROVE  ~ Before(q[place[n]], q[place[m]])
  <2>1. place[m] \in D /\ place[n] \in D
    BY <1>5 DEF D
  <2>2. Before(q[place[m]], q[place[n]]) \/ ~ Before(q[place[n]], q[place[m]])
    BY <1>3, <1>5, <1>7, <2>1
  <2>. QED  BY <1>2, <2>1, <2>2 DEF Before
<1>8. place \in [D -> D]
  BY <1>5 DEF D
<1>9. DOMAIN Sorted(q) = D /\ \A n \in D : Sorted(q)[n] = q[place[n]]
  BY <1>6
<1>. QED  BY <1>1, <1>5, <1>7, <1>8, <1>9 DEF place

-----------------------------------------------------------------------------

\* What absorbing makes of a capsule.
LEMMA AbsorbIs ==
  ASSUME FocusInv, NEW r \in Recalls, Absorb(r)
  PROVE  FocusInv' /\ PinsHold /\ EvictsTheLeastActive /\ EvictsOnlyWhenFull
<1>. DEFINE J == Joined(items, r)
            all == Sorted(J)
            kept == Kept(all)
            n == IF kept < Len(all) THEN kept ELSE Len(all)
<1>1. /\ J \in Seq(Item) /\ Distinct(J) /\ Len(items) <= Len(J)
      /\ \A k \in DOMAIN items : /\ k \in DOMAIN J
                                /\ J[k].id = items[k].id /\ J[k].pinned = items[k].pinned
                                /\ J[k].activation >= items[k].activation
      /\ \A m \in DOMAIN J : J[m].pinned => m \in DOMAIN items
      /\ \A k \in DOMAIN r : \E m \in DOMAIN J :
           J[m].id = r[k].id /\ J[m].activation >= r[k].score
  <2>. HIDE DEF Item
  <2>. QED  BY JoinedIs DEF FocusInv
<1>2. items' = SubSeq(all, 1, n) /\ last' = r /\ capacity' = capacity
  BY DEF Absorb
<1>. HIDE DEF J
<1>30. PICK L \in Nat, I \in Nat :
         /\ L = Len(J) /\ DOMAIN J = 1..L
         /\ I = Len(items) /\ DOMAIN items = 1..I
  <2>1. Len(J) \in Nat /\ DOMAIN J = 1..Len(J)
    BY <1>1
  <2>2. Len(items) \in Nat /\ DOMAIN items = 1..Len(items)
    BY DEF FocusInv
  <2>. QED  BY <2>1, <2>2
<1>3. /\ DOMAIN J = 1..L /\ DOMAIN items = 1..I
      /\ capacity \in Nat \ {0} /\ I <= capacity
  BY <1>30 DEF FocusInv
<1>4. \A k \in DOMAIN J : J[k] \in Item /\ J[k].pinned \in BOOLEAN /\ J[k].activation \in Nat
  <2>1. \A k \in DOMAIN J : J[k] \in Item
    BY <1>1
  <2>. QED  BY <2>1, FocusAssumption DEF Item
<1>. DEFINE place == OldPlace(J)
<1>5. /\ place \in [1..L -> 1..L]
      /\ \A k, m \in 1..L : place[k] = place[m] => k = m
      /\ \A k \in 1..L : \E m \in 1..L : place[m] = k
      /\ DOMAIN all = 1..L /\ \A m \in 1..L : all[m] = J[place[m]]
      /\ \A k, m \in 1..L : k < m => ~ Before(J[place[m]], J[place[k]])
  <2>. HIDE DEF Item
  <2>1. J \in Seq(Item) /\ DOMAIN J = 1..L
    BY <1>1, <1>3
  <2>2. /\ place \in [DOMAIN J -> DOMAIN J]
        /\ \A k, m \in DOMAIN J : place[k] = place[m] => k = m
        /\ \A k \in DOMAIN J : \E m \in DOMAIN J : place[m] = k
        /\ DOMAIN all = DOMAIN J
        /\ \A m \in DOMAIN J : all[m] = J[place[m]]
        /\ \A k, m \in DOMAIN J : k < m => ~ Before(J[place[m]], J[place[k]])
    BY <2>1, SortedIs
  <2>. HIDE DEF place, all
  <2>. QED  BY <2>1, <2>2
<1>50. all = [m \in 1..L |-> J[place[m]]]
  BY <1>3 DEF Sorted
<1>. HIDE DEF place, all
<1>6. /\ all \in [1..L -> Item] /\ all \in Seq(Item) /\ Len(all) = L
      /\ DOMAIN all = 1..L
  <2>1. \A m \in 1..L : J[place[m]] \in Item
    BY <1>3, <1>4, <1>5
  <2>. HIDE DEF Item
  <2>2. all \in [1..L -> Item]
    BY <1>50, <2>1
  <2>. QED  BY <1>3, <2>2
<1>7. /\ IsFiniteSet(Pinned(all)) /\ Cardinality(Pinned(all)) \in Nat
      /\ Cardinality(Pinned(all)) <= capacity
  <2>1. IsFiniteSet(1..L) /\ IsFiniteSet(1..I) /\ Cardinality(1..I) = I
    BY <1>3, FS_Interval
  <2>2. IsFiniteSet(Pinned(all)) /\ Pinned(all) \subseteq 1..L
    BY <1>6, <2>1, FS_Subset DEF Pinned
  <2>. DEFINE f == [m \in Pinned(all) |-> place[m]]
  <2>3. f \in Injection(Pinned(all), 1..I)
    <3>1. \A m \in Pinned(all) : place[m] \in 1..I
      BY <1>1, <1>3, <1>5, <2>2 DEF Pinned
    <3>2. f \in [Pinned(all) -> 1..I]
      BY <3>1
    <3>3. \A k, m \in Pinned(all) : f[k] = f[m] => k = m
      BY <1>5, <2>2
    <3>. QED  BY <3>2, <3>3 DEF Injection, IsInjective
  <2>4. Cardinality(Pinned(all)) <= I
    BY <2>1, <2>2, <2>3, FS_Injection
  <2>. QED  BY <1>3, <2>2, <2>4, FS_CardinalityType
<1>8. kept = capacity
  BY <1>3, <1>7 DEF Kept, Max2
<1>9. /\ n \in Nat /\ n <= L /\ n <= capacity /\ (n = capacity \/ n = L)
      /\ (L # 0 => n # 0)
  BY <1>3, <1>6, <1>8
<1>. HIDE DEF n, kept
<1>10. /\ items' \in Seq(Item) /\ Len(items') = n /\ DOMAIN items' = 1..n
       /\ \A m \in 1..n : items'[m] = J[place[m]] /\ place[m] \in DOMAIN J /\ m \in 1..L
  <2>. HIDE DEF Item
  <2>1. \A m \in 1..n : m \in 1..L
    BY <1>3, <1>9
  <2>2. /\ SubSeq(all, 1, n) \in Seq(Item) /\ Len(SubSeq(all, 1, n)) = n
        /\ \A m \in 1..n : SubSeq(all, 1, n)[m] = all[m]
    BY <1>3, <1>6, <1>9
  <2>3. DOMAIN items' = 1..n
    BY <1>2, <1>9, <2>2
  <2>4. \A m \in 1..n : all[m] = J[place[m]] /\ place[m] \in 1..L
    BY <1>5, <2>1
  <2>. QED  BY <1>2, <1>3, <2>1, <2>2, <2>3, <2>4
\* A place of J is in the new capsule or behind it.
<1>11. \A k \in 1..L : \E m \in 1..L : place[m] = k /\ (J[k].id \notin Ids(items') => m > n)
  <2>1. ASSUME NEW k \in 1..L, NEW m \in 1..L, place[m] = k, J[k].id \notin Ids(items')
        PROVE  m > n
    <3>1. SUFFICES ASSUME m <= n PROVE FALSE
      BY <1>9
    <3>2. m \in 1..n
      BY <1>9, <3>1
    <3>3. items'[m] = J[k] /\ m \in DOMAIN items'
      BY <1>10, <2>1, <3>2
    <3>. QED  BY <2>1, <3>3 DEF Ids
  <2>. QED  BY <1>5, <2>1
<1>12. FocusInv'
  <2>1. Distinct(items')
    <3>1. ASSUME NEW k \in 1..n, NEW m \in 1..n, items'[k].id = items'[m].id PROVE k = m
      <4>1. place[k] \in DOMAIN J /\ place[m] \in DOMAIN J /\ J[place[k]].id = J[place[m]].id
        BY <1>10, <3>1
      <4>2. place[k] = place[m]
        BY <1>1, <4>1 DEF Distinct
      <4>. QED  BY <1>5, <1>10, <4>2
    <3>. QED  BY <1>10, <3>1 DEF Distinct
  <2>. HIDE DEF Item
  <2>. QED  BY <1>2, <1>3, <1>9, <1>10, <2>1 DEF FocusInv, Distinct
<1>13. PinsHold
  <2>1. ASSUME NEW k \in DOMAIN items, items[k].pinned PROVE items[k].id \in Ids(items')
    <3>1. PICK m \in 1..L : place[m] = k /\ (J[k].id \notin Ids(items') => m > n)
      BY <1>1, <1>3, <1>11
    <3>2. J[k].pinned /\ J[k].id = items[k].id
      BY <1>1, <2>1
    <3>3. ASSUME NEW l \in 1..m PROVE l \in Pinned(all)
      <4>1. l \in 1..L /\ (l < m \/ l = m)
        BY <1>3
      <4>2. J[place[l]].pinned
        BY <1>3, <1>4, <1>5, <3>1, <3>2, <4>1 DEF Before
      <4>. QED  BY <1>5, <1>6, <4>1, <4>2 DEF Pinned
    <3>4. m <= Cardinality(Pinned(all))
      <4>1. IsFiniteSet(1..m) /\ Cardinality(1..m) = m
        BY <1>3, FS_Interval
      <4>2. 1..m \subseteq Pinned(all)
        BY <3>3
      <4>. QED  BY <1>7, <4>1, <4>2, FS_Subset
    <3>5. m <= n
      BY <1>3, <1>7, <1>9, <3>4
    <3>6. m \in Nat /\ n \in Nat
      BY <1>3, <1>9
    <3>. QED  BY <3>1, <3>2, <3>5, <3>6
  <2>2. ASSUME NEW k \in DOMAIN items, NEW m \in DOMAIN items', items'[m].id = items[k].id
        PROVE  items'[m].activation >= items[k].activation
    <3>1. place[m] = k
      BY <1>1, <1>10, <2>2 DEF Distinct
    <3>. QED  BY <1>1, <1>10, <3>1
  <2>. QED  BY <2>1, <2>2 DEF PinsHold
<1>14. EvictsTheLeastActive
  <2>1. ASSUME NEW m \in DOMAIN items', ~ items'[m].pinned,
               NEW k \in 1..L, J[k].id \notin Ids(items')
        PROVE  items'[m].activation >= J[k].activation
    <3>1. PICK l \in 1..L : place[l] = k /\ l > n
      BY <1>11, <2>1
    <3>2. m \in 1..n /\ m \in 1..L /\ items'[m] = J[place[m]] /\ place[m] \in DOMAIN J
      BY <1>10
    <3>3. m < l
      BY <1>3, <1>9, <3>1, <3>2
    <3>4. ~ Before(J[k], J[place[m]])
      BY <1>5, <3>1, <3>2, <3>3
    <3>5. J[k].pinned \in BOOLEAN /\ J[k].activation \in Nat /\ J[place[m]].activation \in Nat
          /\ ~ J[place[m]].pinned /\ J[place[m]].pinned \in BOOLEAN
      BY <1>3, <1>4, <2>1, <3>2
    <3>6. J[k].pinned = FALSE /\ J[place[m]].pinned = FALSE
      BY <3>4, <3>5 DEF Before
    <3>7. ~ (J[k].activation > J[place[m]].activation)
      BY <3>4, <3>6 DEF Before
    <3>8. J[place[m]].activation >= J[k].activation
      <4>1. \A a, b \in Nat : ~ (a > b) => b >= a
        OBVIOUS
      <4>. QED  BY <3>5, <3>7, <4>1
    <3>. QED  BY <3>2, <3>8
  <2>2. ASSUME NEW m \in DOMAIN items', ~ items'[m].pinned,
               NEW k \in DOMAIN last', last'[k].id \notin Ids(items')
        PROVE  items'[m].activation >= last'[k].score
    <3>1. PICK l \in DOMAIN J : J[l].id = r[k].id /\ J[l].activation >= r[k].score
      BY <1>1, <1>2, <2>2
    <3>2. items'[m].activation >= J[l].activation
      BY <1>2, <1>3, <2>1, <2>2, <3>1
    <3>3. items'[m].activation \in Nat /\ J[l].activation \in Nat /\ r[k].score \in Nat
      <4>1. items'[m].activation \in Nat
        BY <1>4, <1>10
      <4>2. r[k].score \in Nat
        BY <1>2, RecallType
      <4>. QED  BY <1>4, <3>1, <4>1, <4>2
    <3>4. items'[m].activation >= r[k].score
      BY <3>1, <3>2, <3>3
    <3>. QED  BY <1>2, <3>4
  <2>3. ASSUME NEW m \in DOMAIN items', ~ items'[m].pinned,
               NEW k \in DOMAIN items, items[k].id \notin Ids(items')
        PROVE  items'[m].activation >= items[k].activation
    <3>1. k \in DOMAIN J /\ J[k].id = items[k].id /\ J[k].activation >= items[k].activation
      BY <1>1
    <3>2. items'[m].activation >= J[k].activation
      BY <1>3, <2>1, <2>3, <3>1
    <3>3. items'[m].activation \in Nat /\ J[k].activation \in Nat /\ items[k].activation \in Nat
      <4>1. items[k] \in Item
        BY DEF FocusInv
      <4>. QED  BY <1>4, <1>10, <3>1, <4>1, FocusAssumption DEF Item
    <3>. QED  BY <3>1, <3>2, <3>3
  <2>. QED  BY <2>2, <2>3 DEF EvictsTheLeastActive
<1>15. EvictsOnlyWhenFull
  <2>1. ASSUME NEW k \in 1..L, J[k].id \notin Ids(items') PROVE Len(items') = capacity
    <3>1. PICK m \in 1..L : m > n
      BY <1>11, <2>1
    <3>2. n # L
      BY <1>9, <3>1
    <3>. QED  BY <1>9, <1>10, <3>2
  <2>2. ASSUME NEW k \in DOMAIN items, items[k].id \notin Ids(items') PROVE Len(items') = capacity
    BY <1>1, <1>3, <2>1, <2>2
  <2>3. ASSUME NEW k \in DOMAIN last', last'[k].id \notin Ids(items') PROVE Len(items') = capacity
    <3>1. PICK l \in DOMAIN J : J[l].id = r[k].id
      BY <1>1, <1>2, <2>3
    <3>. QED  BY <1>2, <1>3, <2>1, <2>3, <3>1
  <2>. QED  BY <2>2, <2>3 DEF EvictsOnlyWhenFull
<1>. QED  BY <1>12, <1>13, <1>14, <1>15

\* Pinning moves nothing.
LEMMA SetPinIs ==
  ASSUME FocusInv, NEW i \in TraceId, NEW on \in BOOLEAN, SetPin(i, on)
  PROVE  FocusInv' /\ PinsHold /\ EvictsTheLeastActive /\ EvictsOnlyWhenFull
<1>1. /\ Len(items) \in Nat /\ DOMAIN items = 1..Len(items)
      /\ \A k \in DOMAIN items : items[k] \in Item /\ items[k].activation \in Nat
  <2>1. /\ Len(items) \in Nat /\ DOMAIN items = 1..Len(items)
        /\ \A k \in DOMAIN items : items[k] \in Item
    <3>. HIDE DEF Item
    <3>. QED  BY DEF FocusInv
  <2>. QED  BY <2>1, FocusAssumption DEF Item
<1>2. /\ items' = [k \in 1..Len(items) |-> items'[k]] /\ DOMAIN items' = DOMAIN items
      /\ last' = <<>> /\ capacity' = capacity
  BY <1>1 DEF SetPin
<1>3. \A k \in DOMAIN items : /\ items'[k] \in Item /\ items'[k].id = items[k].id
                             /\ items'[k].activation = items[k].activation
  <2>1. ASSUME NEW k \in DOMAIN items
        PROVE  /\ items'[k] \in Item /\ items'[k].id = items[k].id
               /\ items'[k].activation = items[k].activation
    <3>1. items'[k] = items[k] \/ items'[k] = [items[k] EXCEPT !.pinned = on]
      BY DEF SetPin
    <3>2. items[k] \in Item
      BY <1>1
    <3>. QED  BY <3>1, <3>2 DEF Item
  <2>. QED  BY <2>1
<1>4. items' \in Seq(Item) /\ Len(items') = Len(items)
  <2>. HIDE DEF Item
  <2>1. items' \in [1..Len(items) -> Item]
    BY <1>1, <1>2, <1>3
  <2>. QED  BY <1>1, <2>1
<1>5. FocusInv'
  <2>1. Distinct(items')
    BY <1>2, <1>3 DEF FocusInv, Distinct
  <2>. HIDE DEF Item
  <2>. QED  BY <1>1, <1>2, <1>4, <2>1 DEF FocusInv, Distinct
<1>6. Ids(items') = Ids(items)
  BY <1>2, <1>3 DEF Ids
<1>7. PinsHold
  <2>1. \A k, n \in DOMAIN items : items'[n].id = items[k].id => n = k
    BY <1>3 DEF FocusInv, Distinct
  <2>2. \A k \in DOMAIN items : items[k].id \in Ids(items)
    BY DEF Ids
  <2>. QED  BY <1>1, <1>2, <1>3, <1>6, <2>1, <2>2 DEF PinsHold
<1>8. EvictsTheLeastActive
  <2>1. \A k \in DOMAIN items : items[k].id \in Ids(items')
    BY <1>6 DEF Ids
  <2>2. DOMAIN last' = {}
    BY <1>2
  <2>. QED  BY <2>1, <2>2 DEF EvictsTheLeastActive
<1>9. EvictsOnlyWhenFull
  <2>1. \A k \in DOMAIN items : items[k].id \in Ids(items')
    BY <1>6 DEF Ids
  <2>2. DOMAIN last' = {}
    BY <1>2
  <2>. QED  BY <2>1, <2>2 DEF EvictsOnlyWhenFull
<1>. QED  BY <1>2, <1>5, <1>7, <1>8, <1>9

LEMMA FocusStep ==
  ASSUME FocusInv, FocusNext
  PROVE  FocusInv' /\ PinsHold /\ EvictsTheLeastActive /\ EvictsOnlyWhenFull
<1>1. CASE \E r \in Recalls : Absorb(r)
  BY <1>1, AbsorbIs
<1>2. CASE \E i \in TraceId : Pin(i) \/ Unpin(i)
  BY <1>2, SetPinIs DEF Pin, Unpin
<1>. QED  BY <1>1, <1>2 DEF FocusNext

\* A capsule stays within its capacity and holds no trace twice, whatever is
\* recalled, pinned and unpinned (focus.rs).
THEOREM CapsuleIsBounded == FocusSpec => []FocusInv
<1>1. FocusInit => FocusInv
  <2>. HIDE DEF Item
  <2>. QED  BY FocusAssumption DEF FocusInit, FocusInv, Max2, Distinct
<1>2. FocusInv /\ [FocusNext]_focusVars => FocusInv'
  <2>1. CASE FocusNext
    BY <2>1, FocusStep
  <2>2. CASE UNCHANGED focusVars
    BY <2>2 DEF FocusInv, Distinct, focusVars
  <2>. QED  BY <2>1, <2>2
<1>. QED  BY <1>1, <1>2, PTL DEF FocusSpec

\* Every call keeps the best: pins hold, absorbing evicts only from a full
\* capsule, and nothing more active than what stays unpinned (focus.rs, absorb).
THEOREM FocusIsKept == FocusSpec => FocusKeepsTheBest
<1>1. FocusInv /\ FocusInv' /\ [FocusNext]_focusVars =>
        [WithinCapacity' /\ PinsHold /\ EvictsTheLeastActive /\ EvictsOnlyWhenFull]_focusVars
  <2>1. FocusInv' => WithinCapacity'
    BY DEF FocusInv, WithinCapacity, Distinct
  <2>. QED  BY <2>1, FocusStep
<1>. QED  BY <1>1, CapsuleIsBounded, PTL DEF FocusSpec, FocusKeepsTheBest

-----------------------------------------------------------------------------

(* Decisions *)

\* Estimates are scores of criteria.
EstimateType ==
  /\ frame \in Frames
  /\ DOMAIN estimate = Options
  /\ \A o \in Options : /\ DOMAIN estimate[o] \subseteq Criteria
                        /\ \A c \in DOMAIN estimate[o] : estimate[o][c] \in 0..Scale

LEMMA NatTimes ==
  ASSUME NEW a \in Nat, NEW b \in Nat, NEW k \in Nat, a <= b
  PROVE  k * a \in Nat /\ k * b \in Nat /\ k * a <= k * b
OBVIOUS

LEMMA FrameType ==
  ASSUME frame \in Frames
  PROVE  /\ IsFiniteSet(Criteria) /\ Criteria \subseteq Nat
         /\ \A c \in Criteria : frame.weights[c] \in Nat
         /\ IsFiniteSet(Options) /\ Options \subseteq Nat /\ 0 \notin Options
         /\ \A o \in Options :
              /\ Reversible(o) \in BOOLEAN /\ Blocked(o) \in BOOLEAN
              /\ frame.options[o].confidence \in Nat /\ frame.options[o].chars \in Nat
              /\ WithEvidence(o) \subseteq Criteria
              /\ \A c \in WithEvidence(o) : Evidence(o)[c] \in 0..Scale
              /\ DOMAIN frame.options[o].model_scores \subseteq Criteria
              /\ \A c \in DOMAIN frame.options[o].model_scores :
                   frame.options[o].model_scores[c] \in 0..Scale
<1>1. /\ IsFiniteSet(Criteria) /\ Criteria \subseteq Nat
      /\ \A c \in Criteria : frame.weights[c] \in Nat
      /\ IsFiniteSet(Options) /\ Options \subseteq Nat /\ 0 \notin Options
  BY FramesAssumption DEF Criteria, Options
<1>2. ASSUME NEW o \in Options
      PROVE  /\ Reversible(o) \in BOOLEAN /\ Blocked(o) \in BOOLEAN
             /\ frame.options[o].confidence \in Nat /\ frame.options[o].chars \in Nat
             /\ WithEvidence(o) \subseteq Criteria
             /\ \A c \in WithEvidence(o) : Evidence(o)[c] \in 0..Scale
             /\ DOMAIN frame.options[o].model_scores \subseteq Criteria
             /\ \A c \in DOMAIN frame.options[o].model_scores :
                  frame.options[o].model_scores[c] \in 0..Scale
  BY FramesAssumption DEF Criteria, Options, Reversible, Blocked, WithEvidence, Evidence
<1>. QED  BY <1>1, <1>2

\* A sum of weights, and one of weights times scores, is a number.
LEMMA WeightType ==
  ASSUME frame \in Frames, NEW C \in SUBSET Criteria
  PROVE  IsFiniteSet(C) /\ Weight(C) \in Int
<1>1. IsFiniteSet(C) /\ \A c \in C : frame.weights[c] \in Int
  BY FrameType, FS_Subset
<1>. QED  BY <1>1, SumType DEF Weight

LEMMA WeightedType ==
  ASSUME frame \in Frames, NEW C \in SUBSET Criteria, NEW v, \A c \in C : v[c] \in 0..Scale
  PROVE  LET f == [c \in C |-> frame.weights[c] * v[c]]
         IN  /\ SumFunction(f) = SumFunctionOnSet(f, C)
             /\ SumFunction(f) \in Int
             /\ \A c \in C : f[c] \in Int /\ 0 <= f[c] /\ f[c] <= Scale * frame.weights[c]
<1>. DEFINE f == [c \in C |-> frame.weights[c] * v[c]]
<1>1. IsFiniteSet(C) /\ \A c \in C : frame.weights[c] \in Nat
  BY FrameType, FS_Subset
<1>2. ASSUME NEW c \in C PROVE f[c] \in Int /\ 0 <= f[c] /\ f[c] <= Scale * frame.weights[c]
  <2>1. \A w, x, k \in Nat : x <= k => w * x \in Int /\ 0 <= w * x /\ w * x <= k * w
    <3>1. ASSUME NEW w \in Nat, NEW x \in Nat, NEW k \in Nat, x <= k
          PROVE w * x \in Int /\ 0 <= w * x /\ w * x <= k * w
      <4>1. k * w = w * k
        OBVIOUS
      <4>. QED  BY <3>1, <4>1, NatTimes
    <3>. QED  BY <3>1
  <2>2. frame.weights[c] \in Nat /\ v[c] \in Nat /\ Scale \in Nat /\ v[c] <= Scale
    BY <1>1, DecisionAssumption
  <2>3. f[c] = frame.weights[c] * v[c]
    OBVIOUS
  <2>. HIDE DEF f
  <2>. QED  BY <2>1, <2>2, <2>3
<1>3. SumFunction(f) = SumFunctionOnSet(f, C)
  BY DEF SumFunction
<1>. HIDE DEF f
<1>4. SumFunction(f) \in Int
  BY <1>1, <1>2, <1>3, SumType
<1>. QED  BY <1>2, <1>3, <1>4 DEF f

LEMMA IntervalType ==
  ASSUME EstimateType, NEW o \in Options
  PROVE  Lo(o) \in Int /\ Hi(o) \in Int /\ EvidenceLo(o) \in Int /\ EvidenceHi(o) \in Int
<1>1. /\ Scored(o) \subseteq Criteria /\ WithEvidence(o) \subseteq Criteria
      /\ \A c \in Scored(o) : ScoreOf(o, c) \in 0..Scale
      /\ \A c \in WithEvidence(o) : Evidence(o)[c] \in 0..Scale
  BY FrameType DEF EstimateType, Scored, ScoreOf
<1>2. EvidenceLo(o) \in Int
  BY <1>1, WeightedType DEF EvidenceLo, EstimateType
<1>3. Lo(o) \in Int
  <2>. DEFINE v == [c \in Scored(o) |-> ScoreOf(o, c)]
              f == [c \in Scored(o) |-> frame.weights[c] * v[c]]
  <2>1. \A c \in Scored(o) : v[c] \in 0..Scale
    BY <1>1
  <2>2. f = [c \in Scored(o) |-> frame.weights[c] * ScoreOf(o, c)]
    OBVIOUS
  <2>3. SumFunction(f) \in Int
    <3>. HIDE DEF v
    <3>. QED  BY <1>1, <2>1, WeightedType DEF EstimateType
  <2>4. SumFunction(f) = Lo(o)
    BY <2>2 DEF Lo
  <2>. HIDE DEF f
  <2>. QED  BY <2>3, <2>4
<1>4. Weight(Criteria \ Scored(o)) \in Int /\ Weight(Criteria \ WithEvidence(o)) \in Int
  BY WeightType DEF EstimateType
<1>5. Scale \in Int /\ \A a, b, c \in Int : a + b * c \in Int
  BY DecisionAssumption
<1>. QED  BY <1>2, <1>3, <1>4, <1>5 DEF Hi, EvidenceHi

-----------------------------------------------------------------------------
(* What may still come to light *)

\* The criteria without evidence add between nothing and all of their weight,
\* and both can happen.
LEMMA CompletionBounds ==
  ASSUME EstimateType, NEW o \in Options
  PROVE  /\ \A v \in Completions(o) : /\ ScoreGiven(o, v) \in Int
                                      /\ EvidenceLo(o) <= ScoreGiven(o, v)
                                      /\ ScoreGiven(o, v) <= EvidenceHi(o)
         /\ \E v \in Completions(o) : ScoreGiven(o, v) = EvidenceLo(o)
         /\ \E v \in Completions(o) : ScoreGiven(o, v) = EvidenceHi(o)
<1>. DEFINE C == Criteria \ WithEvidence(o)
            w == frame.weights
            f(v) == [c \in C |-> w[c] * v[c]]
            top == [c \in C |-> Scale * w[c]]
            none == [c \in C |-> 0]
<1>0. frame \in Frames /\ C \in SUBSET Criteria /\ Scale \in Nat /\ EvidenceLo(o) \in Int
  BY IntervalType, DecisionAssumption DEF EstimateType
<1>1. IsFiniteSet(C) /\ Weight(C) \in Int /\ \A c \in C : w[c] \in Nat /\ w[c] \in Int
  BY <1>0, WeightType, FrameType
<1>2. ASSUME NEW v \in Completions(o)
      PROVE  /\ ScoreGiven(o, v) = EvidenceLo(o) + SumFunctionOnSet(f(v), C)
             /\ SumFunctionOnSet(f(v), C) \in Int
             /\ \A c \in C : f(v)[c] \in Int /\ 0 <= f(v)[c] /\ f(v)[c] <= Scale * w[c]
  <2>1. v \in [C -> 0..Scale] /\ DOMAIN v = C
    BY DEF Completions
  <2>2. \A c \in C : v[c] \in 0..Scale
    BY <2>1
  <2>3. ScoreGiven(o, v) = EvidenceLo(o) + SumFunction(f(v))
    BY <2>1 DEF ScoreGiven
  <2>. HIDE DEF C
  <2>. QED  BY <1>0, <2>2, <2>3, WeightedType
<1>3. SumFunctionOnSet(top, C) = Scale * Weight(C)
  <2>1. \A c \in C : top[c] = Scale * w[c]
    OBVIOUS
  <2>. HIDE DEF C, top
  <2>2. Scale \in Int /\ Weight(C) = SumFunctionOnSet(w, C)
    BY <1>0 DEF Weight
  <2>. QED  BY <1>1, <2>1, <2>2, SumTimes
<1>4. SumFunctionOnSet(none, C) = 0
  <2>1. \A c \in C : none[c] = 0 * w[c]
    BY <1>1
  <2>2. SumFunctionOnSet(w, C) \in Int
    BY <1>1 DEF Weight
  <2>. HIDE DEF C, none
  <2>3. SumFunctionOnSet(none, C) = 0 * SumFunctionOnSet(w, C)
    BY <1>1, <2>1, SumTimes
  <2>. QED  BY <2>2, <2>3
<1>5. EvidenceHi(o) = EvidenceLo(o) + SumFunctionOnSet(top, C)
  BY <1>3 DEF EvidenceHi
<1>6. \A c \in C : top[c] \in Int /\ none[c] \in Int /\ none[c] = 0 /\ top[c] = Scale * w[c]
  BY <1>0, <1>1
<1>7. ASSUME NEW v \in Completions(o)
      PROVE  SumFunctionOnSet(none, C) <= SumFunctionOnSet(f(v), C)
             /\ SumFunctionOnSet(f(v), C) <= SumFunctionOnSet(top, C)
  <2>1. \A c \in C : f(v)[c] \in Int /\ none[c] <= f(v)[c] /\ f(v)[c] <= top[c]
    BY <1>2, <1>6
  <2>. HIDE DEF C, f, none, top
  <2>. QED  BY <1>1, <1>6, <2>1, SumMonotonic
<1>8. SumFunctionOnSet(top, C) \in Int
  <2>. HIDE DEF C, top
  <2>. QED  BY <1>1, <1>6, SumType
<1>9. ASSUME NEW v \in Completions(o)
      PROVE  /\ ScoreGiven(o, v) \in Int
             /\ EvidenceLo(o) <= ScoreGiven(o, v)
             /\ ScoreGiven(o, v) <= EvidenceHi(o)
  <2>. HIDE DEF C, f, top, none
  <2>. QED  BY <1>0, <1>2, <1>4, <1>5, <1>7, <1>8
<1>10. \E v \in Completions(o) : ScoreGiven(o, v) = EvidenceLo(o)
  <2>. DEFINE v == [c \in C |-> 0]
  <2>1. v \in Completions(o)
    BY <1>0 DEF Completions
  <2>2. \A c \in C : f(v)[c] \in Int /\ f(v)[c] = none[c]
    BY <1>1
  <2>3. SumFunctionOnSet(f(v), C) = SumFunctionOnSet(none, C)
    <3>. HIDE DEF C, f, none, v
    <3>. QED  BY <1>1, <2>2, SumSame
  <2>. HIDE DEF C, f, none, v
  <2>. QED  BY <1>0, <1>2, <1>4, <2>1, <2>3
<1>11. \E v \in Completions(o) : ScoreGiven(o, v) = EvidenceHi(o)
  <2>. DEFINE v == [c \in C |-> Scale]
  <2>1. v \in Completions(o)
    BY <1>0 DEF Completions
  <2>2. \A c \in C : f(v)[c] \in Int /\ f(v)[c] = top[c]
    <3>1. \A a, b \in Nat : a * b \in Int /\ a * b = b * a
      OBVIOUS
    <3>. QED  BY <1>0, <1>1, <3>1
  <2>3. SumFunctionOnSet(f(v), C) = SumFunctionOnSet(top, C)
    <3>. HIDE DEF C, f, top, v
    <3>. QED  BY <1>1, <2>2, SumSame
  <2>. HIDE DEF C, f, top, v
  <2>. QED  BY <1>0, <1>2, <1>5, <2>1, <2>3
<1>. QED  BY <1>9, <1>10, <1>11

-----------------------------------------------------------------------------
(* The ranking *)

\* Any two options are ranked, and the name decides at last.
LEMMA RankingOrders ==
  ASSUME EstimateType
  PROVE  Orders({p \in Options \X Options : RanksBefore(p[1], p[2])}, Options)
<1>. DEFINE R == {p \in Options \X Options : RanksBefore(p[1], p[2])}
<1>1. \A a, b \in Options : <<a, b>> \in R <=> RanksBefore(a, b)
  OBVIOUS
<1>2. \A o \in Options : /\ o \in Nat /\ Lo(o) \in Int /\ Hi(o) \in Int
                        /\ Blocked(o) \in BOOLEAN /\ Reversible(o) \in BOOLEAN
  BY IntervalType, FrameType DEF EstimateType
<1>. HIDE DEF R
<1>3. ASSUME NEW a \in Options, NEW b \in Options, a # b
      PROVE  RanksBefore(a, b) \/ RanksBefore(b, a)
  <2>1. a < b \/ b < a
    BY <1>2, <1>3
  <2>2. Lo(a) > Lo(b) \/ Lo(b) > Lo(a) \/ Lo(a) = Lo(b)
    BY <1>2
  <2>3. Hi(a) > Hi(b) \/ Hi(b) > Hi(a) \/ Hi(a) = Hi(b)
    BY <1>2
  <2>. QED  BY <1>2, <2>1, <2>2, <2>3, Zenon DEF RanksBefore
<1>4. ASSUME NEW a \in Options, NEW b \in Options, NEW c \in Options,
             RanksBefore(a, b), RanksBefore(b, c)
      PROVE  RanksBefore(a, c)
  BY <1>2, <1>4 DEF RanksBefore
<1>5. \A a \in Options : ~ RanksBefore(a, a)
  BY <1>2 DEF RanksBefore
<1>. QED  BY <1>1, <1>3, <1>4, <1>5 DEF Orders

\* Every option has a place, and of two places the first ranks before.
LEMMA RankedIs ==
  ASSUME EstimateType
  PROVE  /\ Cardinality(Options) \in Nat
         /\ Ranked \in [1..Cardinality(Options) -> Options]
         /\ \A o \in Options : \E n \in 1..Cardinality(Options) : Ranked[n] = o
         /\ \A m, n \in 1..Cardinality(Options) :
              m < n <=> RanksBefore(Ranked[m], Ranked[n])
<1>. DEFINE R == {p \in Options \X Options : RanksBefore(p[1], p[2])}
            N == Cardinality(Options)
<1>1. \A a, b \in Options : <<a, b>> \in R <=> RanksBefore(a, b)
  OBVIOUS
<1>2. Ranked = Arranged(Options, R)
  BY DEF Ranked
<1>3. IsFiniteSet(Options) /\ Orders(R, Options)
  BY FrameType, RankingOrders DEF EstimateType
<1>. HIDE DEF R
<1>4. /\ N \in Nat /\ Ranked \in [1..N -> Options]
      /\ \A o \in Options : \E n \in 1..N : Ranked[n] = o
      /\ \A m, n \in 1..N : m < n <=> <<Ranked[m], Ranked[n]>> \in R
  <2>1. IsFiniteSet(Options)
    BY <1>3
  <2>2. Orders(R, Options)
    BY <1>3
  <2>. QED  BY <1>2, <2>1, <2>2, ArrangedIs, SMTT(60)
<1>. HIDE DEF N
<1>5. \A m, n \in 1..N : m < n <=> RanksBefore(Ranked[m], Ranked[n])
  BY <1>1, <1>4
<1>. QED  BY <1>4, <1>5 DEF N

\* The first of the ranking: admissible if anything is, and then no admissible
\* option has a better guaranteed score.
LEMMA BestIs ==
  ASSUME EstimateType, Options # {}
  PROVE  /\ 1 \in 1..Cardinality(Options) /\ Ranked[1] \in Options
         /\ \A a \in Admissible : ~ Blocked(Ranked[1]) /\ Lo(Ranked[1]) >= Lo(a)
<1>. DEFINE N == Cardinality(Options)
<1>1. /\ N \in Nat /\ Ranked \in [1..N -> Options]
      /\ \A o \in Options : \E n \in 1..N : Ranked[n] = o
      /\ \A m, n \in 1..N : m < n <=> RanksBefore(Ranked[m], Ranked[n])
  BY RankedIs
<1>. HIDE DEF N
<1>2. 1 \in 1..N /\ Ranked[1] \in Options
  BY <1>1
<1>3. ASSUME NEW a \in Admissible PROVE ~ Blocked(Ranked[1]) /\ Lo(Ranked[1]) >= Lo(a)
  <2>1. a \in Options /\ ~ Blocked(a)
    BY DEF Admissible
  <2>2. PICK n \in 1..N : Ranked[n] = a
    BY <1>1, <2>1
  <2>3. Lo(a) \in Int /\ Lo(Ranked[1]) \in Int
    BY <1>2, <2>1, IntervalType
  <2>4. CASE n = 1
    BY <2>1, <2>2, <2>3, <2>4
  <2>5. CASE n # 1
    <3>1. 1 < n
      BY <1>1, <2>5
    <3>2. RanksBefore(Ranked[1], a)
      BY <1>1, <1>2, <2>2, <3>1
    <3>. QED  BY <2>1, <2>3, <3>2 DEF RanksBefore
  <2>. QED  BY <2>4, <2>5
<1>. QED  BY <1>2, <1>3 DEF N

\* The reversible option that is preferred is within the band, and none before it
\* in the ranking is.
LEMMA PlaceIs ==
  ASSUME EstimateType, NEW k, k = ReversiblePlace(Ranked)
  PROVE  LET fits(n) == /\ ~ Blocked(Ranked[n]) /\ Reversible(Ranked[n])
                        /\ WithinBand(Ranked[n], Ranked[1])
             N == Cardinality(Options)
         IN  /\ k # 0 => k \in 1..N /\ fits(k)
             /\ \A n \in 1..N : fits(n) => k # 0 /\ k <= n
<1>. DEFINE fits(n) == /\ ~ Blocked(Ranked[n]) /\ Reversible(Ranked[n])
                       /\ WithinBand(Ranked[n], Ranked[1])
            N == Cardinality(Options)
            I == {n \in 1..N : fits(n)}
<1>1. N \in Nat /\ Ranked \in [1..N -> Options]
  BY RankedIs
<1>2. Len(Ranked) = N
  BY <1>1
<1>3. k = IF I # {} THEN Min(I) ELSE 0
  BY <1>2 DEF ReversiblePlace, SelectInSeq
<1>4. I \in SUBSET Nat /\ 0 \notin I
  BY <1>1
<1>5. ASSUME I # {} PROVE k \in I /\ \A n \in I : k <= n
  <2>. HIDE DEF I
  <2>1. \E x \in I : \A y \in I : x <= y
    BY <1>4, <1>5, LeastOf
  <2>. QED  BY <1>3, <1>5, <2>1 DEF Min
<1>. QED  BY <1>3, <1>4, <1>5

-----------------------------------------------------------------------------
(* The recommendation *)

LEMMA SettledIs ==
  ASSUME EstimateType, Options # {}, decision = Result
  PROVE  DecisiveIsSettled
<1>. SUFFICES ASSUME decision.recommended # NoOption
              PROVE  decision.decisive <=>
                       \A o \in Admissible \ {decision.recommended} :
                         \A mine \in Completions(decision.recommended), theirs \in Completions(o) :
                           ScoreGiven(decision.recommended, mine) > ScoreGiven(o, theirs)
  BY DEF DecisiveIsSettled
<1>. DEFINE top == Recommended(Ranked)
<1>1. decision.recommended = top /\ ~ Blocked(top) /\ (decision.decisive <=> Decisive(top))
  BY DEF Result, NoOption
<1>2. top \in Options
  <2>1. Ranked[1] \in Options
    BY BestIs
  <2>2. ReversiblePlace(Ranked) # 0 => Ranked[ReversiblePlace(Ranked)] \in Options
    BY RankedIs, PlaceIs
  <2>. QED  BY <2>1, <2>2 DEF Recommended, Preferred
<1>. HIDE DEF top
<1>3. ASSUME NEW o \in Options
      PROVE  EvidenceLo(top) > EvidenceHi(o) <=>
               \A mine \in Completions(top), theirs \in Completions(o) :
                 ScoreGiven(top, mine) > ScoreGiven(o, theirs)
  <2>0. EvidenceLo(top) \in Int /\ EvidenceHi(o) \in Int
    BY <1>2, IntervalType
  <2>1. ASSUME EvidenceLo(top) > EvidenceHi(o),
               NEW mine \in Completions(top), NEW theirs \in Completions(o)
        PROVE  ScoreGiven(top, mine) > ScoreGiven(o, theirs)
    <3>1. ScoreGiven(top, mine) \in Int /\ EvidenceLo(top) <= ScoreGiven(top, mine)
      BY <1>2, CompletionBounds
    <3>2. ScoreGiven(o, theirs) \in Int /\ ScoreGiven(o, theirs) <= EvidenceHi(o)
      BY CompletionBounds
    <3>. QED  BY <2>0, <2>1, <3>1, <3>2
  <2>2. ASSUME \A mine \in Completions(top), theirs \in Completions(o) :
                 ScoreGiven(top, mine) > ScoreGiven(o, theirs)
        PROVE  EvidenceLo(top) > EvidenceHi(o)
    <3>1. PICK mine \in Completions(top) : ScoreGiven(top, mine) = EvidenceLo(top)
      BY <1>2, CompletionBounds
    <3>2. PICK theirs \in Completions(o) : ScoreGiven(o, theirs) = EvidenceHi(o)
      BY CompletionBounds
    <3>. QED  BY <2>2, <3>1, <3>2
  <2>. QED  BY <2>1, <2>2
<1>4. Decisive(top) <=> \A o \in Admissible \ {top} : EvidenceLo(top) > EvidenceHi(o)
  BY DEF Decisive, Admissible
<1>5. \A o \in Admissible \ {top} : o \in Options
  BY DEF Admissible
<1>. QED  BY <1>1, <1>3, <1>4, <1>5

LEMMA SafeIs ==
  ASSUME EstimateType, Options # {}, decision = Result
  PROVE  RecommendationIsSafe
<1>. DEFINE r == Ranked[1]
            k == ReversiblePlace(Ranked)
            top == Recommended(Ranked)
            best == {o \in Admissible : \A a \in Admissible : Lo(o) >= Lo(a)}
            N == Cardinality(Options)
<1>1. r \in Options /\ 1 \in 1..N /\ \A a \in Admissible : ~ Blocked(r) /\ Lo(r) >= Lo(a)
  BY BestIs
<1>2. /\ N \in Nat /\ Ranked \in [1..N -> Options]
      /\ \A o \in Options : \E n \in 1..N : Ranked[n] = o
      /\ \A m, n \in 1..N : m < n <=> RanksBefore(Ranked[m], Ranked[n])
  BY RankedIs
<1>3. /\ k # 0 => /\ k \in 1..N /\ ~ Blocked(Ranked[k]) /\ Reversible(Ranked[k])
                  /\ WithinBand(Ranked[k], r)
      /\ \A n \in 1..N : ~ Blocked(Ranked[n]) /\ Reversible(Ranked[n]) /\ WithinBand(Ranked[n], r)
                        => k # 0 /\ k <= n
  BY PlaceIs
<1>4. Preferred(Ranked) <=> PrefersReversible(r) /\ k # 0
  BY DEF Preferred
<1>5. top = IF Preferred(Ranked) THEN Ranked[k] ELSE r
  BY DEF Recommended
<1>6. decision.recommended = (IF Blocked(top) THEN NoOption ELSE top)
      /\ (decision.decisive <=> ~ Blocked(top) /\ Decisive(top))
  BY DEF Result
<1>7. \A o \in Options : Lo(o) \in Int
  BY IntervalType
<1>. HIDE DEF r, k, top, N
<1>8. top \in Options
  BY <1>1, <1>2, <1>3, <1>4, <1>5
<1>9. \A a \in Admissible : a \in Options /\ ~ Blocked(a)
  BY DEF Admissible
<1>10. CASE Admissible = {}
  <2>1. Blocked(top)
    BY <1>8, <1>10 DEF Admissible
  <2>. QED  BY <1>6, <1>10, <2>1 DEF RecommendationIsSafe
<1>11. CASE Admissible # {}
  <2>1. ~ Blocked(r) /\ r \in Admissible /\ r \in best
    BY <1>1, <1>11 DEF Admissible
  <2>2. ~ Blocked(top) /\ top \in Admissible /\ decision.recommended = top
    BY <1>3, <1>4, <1>5, <1>6, <1>8, <2>1 DEF Admissible
  <2>3. \A b \in best : b \in Options /\ Lo(b) = Lo(r) /\ ~ Blocked(b)
    <3>1. ASSUME NEW b \in best PROVE b \in Options /\ Lo(b) = Lo(r) /\ ~ Blocked(b)
      <4>1. Lo(b) >= Lo(r) /\ Lo(r) >= Lo(b) /\ b \in Options /\ ~ Blocked(b)
        BY <1>1, <1>9, <2>1
      <4>. QED  BY <1>1, <1>7, <4>1
    <3>. QED  BY <3>1
  <2>4. ASSUME NEW b \in Options, Lo(b) = Lo(r) PROVE WithinBand(b, r)
    <3>1. Lo(r) \in Int /\ Scale \in Nat /\ TotalWeight \in Nat
      <4>1. \A c \in Criteria : frame.weights[c] \in Nat
        BY FrameType DEF EstimateType
      <4>2. TotalWeight \in Int
        BY WeightType DEF EstimateType, TotalWeight
      <4>3. TotalWeight >= 0
        <5>1. IsFiniteSet(Criteria)
          BY FrameType DEF EstimateType
        <5>. DEFINE none == [c \in Criteria |-> 0]
        <5>2. \A c \in Criteria : none[c] \in Int /\ frame.weights[c] \in Int /\ none[c] <= frame.weights[c]
                                  /\ none[c] = 0 * frame.weights[c]
          BY <4>1
        <5>. HIDE DEF none
        <5>3. SumFunctionOnSet(none, Criteria) <= TotalWeight
          BY <5>1, <5>2, SumMonotonic DEF TotalWeight, Weight
        <5>4. SumFunctionOnSet(none, Criteria) = 0 * TotalWeight
          BY <5>1, <5>2, SumTimes DEF TotalWeight, Weight
        <5>. QED  BY <4>2, <5>3, <5>4
      <4>. QED  BY <1>1, <1>7, <4>2, <4>3, DecisionAssumption
    <3>2. Scale * TotalWeight \in Nat
      BY <3>1
    <3>. QED  BY <2>4, <3>1, <3>2 DEF WithinBand
  <2>5. ASSUME top \notin best
        PROVE  /\ Reversible(top)
               /\ \A b \in best : ~ Reversible(b) /\ WithinBand(top, b)
               /\ \E b \in best : WeakEvidence(b)
    <3>1. Preferred(Ranked) /\ top = Ranked[k] /\ PrefersReversible(r) /\ k # 0
      BY <1>4, <1>5, <2>1, <2>5
    <3>2. Reversible(top) /\ WithinBand(top, r) /\ WeakEvidence(r) /\ k \in 1..N
      BY <1>3, <3>1 DEF PrefersReversible
    <3>3. ASSUME NEW b \in best PROVE ~ Reversible(b) /\ WithinBand(top, b)
      <4>1. b \in Options /\ Lo(b) = Lo(r) /\ ~ Blocked(b)
        BY <2>3
      <4>2. WithinBand(top, b)
        BY <3>2, <4>1 DEF WithinBand
      <4>3. ASSUME Reversible(b) PROVE FALSE
        <5>1. PICK n \in 1..N : Ranked[n] = b
          BY <1>2, <4>1
        <5>2. k <= n
          BY <1>3, <2>4, <4>1, <4>3, <5>1
        <5>3. k # n
          BY <2>5, <3>1, <5>1
        <5>4. RanksBefore(top, b)
          BY <1>2, <3>1, <3>2, <5>1, <5>2, <5>3
        <5>5. Lo(top) >= Lo(b)
          BY <1>7, <1>8, <2>2, <4>1, <5>4 DEF RanksBefore
        <5>6. \A a \in Admissible : Lo(top) >= Lo(a)
          <6>1. \A a \in Admissible : Lo(b) >= Lo(a)
            OBVIOUS
          <6>2. \A x, y, z \in Int : x >= y /\ y >= z => x >= z
            OBVIOUS
          <6>. HIDE DEF best
          <6>. QED  BY <1>7, <1>8, <1>9, <4>1, <5>5, <6>1, <6>2
        <5>. QED  BY <2>2, <2>5, <5>6
      <4>. QED  BY <4>2, <4>3
    <3>. QED  BY <2>1, <3>2, <3>3
  <2>6. ASSUME ~ Reversible(top), NEW o \in Admissible, Reversible(o), WithinBand(o, top)
        PROVE  ~ WeakEvidence(top)
    <3>1. top = r /\ ~ Preferred(Ranked)
      BY <1>3, <1>4, <1>5, <2>6
    <3>2. PICK n \in 1..N : Ranked[n] = o
      BY <1>2, <1>9
    <3>3. k # 0
      BY <1>3, <1>9, <2>6, <3>1, <3>2
    <3>. QED  BY <1>4, <2>1, <2>6, <3>1, <3>3 DEF PrefersReversible
  <2>. QED  BY <1>11, <2>2, <2>5, <2>6 DEF RecommendationIsSafe
<1>. QED  BY <1>10, <1>11

-----------------------------------------------------------------------------
(* The requests *)

Pairs == Options \X Criteria

\* Requests that ask each of some questions once: none is empty or has too many.
Covers(cs, A) ==
  /\ cs \in Seq(Seq(Pairs))
  /\ \A k \in DOMAIN cs : Len(cs[k]) \in 1..MAX_QUESTIONS
  /\ \A k, l \in DOMAIN cs : \A i \in DOMAIN cs[k], j \in DOMAIN cs[l] :
       cs[k][i] = cs[l][j] => k = l /\ i = j
  /\ \A q : q \in A <=> \E k \in DOMAIN cs : \E i \in DOMAIN cs[k] : cs[k][i] = q

\* A request that only has one question, behind the others.
LEMMA NewRequest ==
  ASSUME NEW cs, NEW A, Covers(cs, A), NEW q \in Pairs, q \notin A
  PROVE  Covers(Append(cs, <<q>>), A \cup {q})
<1>. DEFINE d == Append(cs, <<q>>)
<1>1. PICK n \in Nat : n = Len(cs) /\ DOMAIN cs = 1..n
  BY DEF Covers
<1>2. <<q>> \in Seq(Pairs) /\ Len(<<q>>) = 1 /\ DOMAIN <<q>> = {1} /\ <<q>>[1] = q
  OBVIOUS
<1>3. /\ d \in Seq(Seq(Pairs)) /\ DOMAIN d = 1..(n + 1) /\ d[n + 1] = <<q>>
      /\ \A k \in 1..n : d[k] = cs[k]
  <2>1. cs \in Seq(Seq(Pairs)) /\ Len(cs) = n
    BY <1>1 DEF Covers
  <2>. HIDE DEF Pairs
  <2>. QED  BY <1>2, <2>1, AppendProperties
<1>. HIDE DEF d
<1>4. \A k \in DOMAIN d : k \in 1..n \/ k = n + 1
  BY <1>3
<1>5. \A k \in 1..n : k \in DOMAIN cs /\ d[k] = cs[k] /\ k # n + 1
  BY <1>1, <1>3
<1>6. \A k \in DOMAIN d : Len(d[k]) \in 1..MAX_QUESTIONS
  <2>1. \A k \in 1..n : Len(d[k]) \in 1..MAX_QUESTIONS
    BY <1>5 DEF Covers
  <2>2. Len(d[n + 1]) \in 1..MAX_QUESTIONS
    BY <1>2, <1>3, DecisionAssumption
  <2>. QED  BY <1>4, <2>1, <2>2
<1>7. \A k \in 1..n : \A i \in DOMAIN d[k] : d[k][i] \in A /\ d[k][i] # q
  BY <1>5 DEF Covers
<1>8. \A i \in DOMAIN d[n + 1] : i = 1 /\ d[n + 1][i] = q
  BY <1>2, <1>3
<1>9. \A k, l \in DOMAIN d : \A i \in DOMAIN d[k], j \in DOMAIN d[l] :
        d[k][i] = d[l][j] => k = l /\ i = j
  <2>1. \A k, l \in 1..n : \A i \in DOMAIN d[k], j \in DOMAIN d[l] :
          d[k][i] = d[l][j] => k = l /\ i = j
    BY <1>5 DEF Covers
  <2>. QED  BY <1>4, <1>7, <1>8, <2>1
<1>10. ASSUME NEW x
       PROVE  x \in A \cup {q} <=> \E k \in DOMAIN d : \E i \in DOMAIN d[k] : d[k][i] = x
  <2>1. x \in A <=> \E k \in 1..n : \E i \in DOMAIN d[k] : d[k][i] = x
    <3>1. x \in A <=> \E k \in 1..n : \E i \in DOMAIN cs[k] : cs[k][i] = x
      BY <1>1 DEF Covers
    <3>. QED  BY <1>5, <3>1
  <2>2. x = q <=> \E i \in DOMAIN d[n + 1] : d[n + 1][i] = x
    BY <1>2, <1>3
  <2>3. \A k : k \in DOMAIN d <=> k \in 1..n \/ k = n + 1
    BY <1>3
  <2>. QED  BY <2>1, <2>2, <2>3
<1>. QED  BY <1>3, <1>6, <1>9, <1>10 DEF d, Covers

\* One more question in the last request, which has room for it.
LEMMA LongerRequest ==
  ASSUME NEW cs, NEW A, Covers(cs, A), NEW q \in Pairs, q \notin A,
         cs # <<>>, Len(cs[Len(cs)]) # MAX_QUESTIONS
  PROVE  Covers([cs EXCEPT ![Len(cs)] = Append(@, q)], A \cup {q})
<1>. DEFINE d == [cs EXCEPT ![Len(cs)] = Append(@, q)]
<1>1. PICK n \in Nat \ {0} : n = Len(cs) /\ DOMAIN cs = 1..n
  <2>1. cs \in Seq(Seq(Pairs))
    BY DEF Covers
  <2>. HIDE DEF Pairs
  <2>2. Len(cs) \in Nat \ {0} /\ DOMAIN cs = 1..Len(cs)
    BY <2>1, EmptySeq
  <2>. QED  BY <2>2
<1>2. cs[n] \in Seq(Pairs) /\ \A k \in 1..n : cs[k] \in Seq(Pairs)
  BY <1>1 DEF Covers
<1>3. PICK m \in Nat : m = Len(cs[n]) /\ DOMAIN cs[n] = 1..m /\ m + 1 \in 1..MAX_QUESTIONS
  <2>1. Len(cs[n]) \in 1..MAX_QUESTIONS /\ Len(cs[n]) # MAX_QUESTIONS
    BY <1>1 DEF Covers
  <2>2. Len(cs[n]) + 1 \in 1..MAX_QUESTIONS
    BY <2>1, DecisionAssumption
  <2>. HIDE DEF Pairs
  <2>. QED  BY <1>2, <2>2
<1>. DEFINE e == Append(cs[n], q)
<1>4. /\ e \in Seq(Pairs) /\ Len(e) = m + 1 /\ DOMAIN e = 1..(m + 1) /\ e[m + 1] = q
      /\ \A i \in 1..m : e[i] = cs[n][i]
  <2>. HIDE DEF Pairs
  <2>. QED  BY <1>2, <1>3, AppendProperties
<1>. HIDE DEF e
<1>5. DOMAIN d = 1..n /\ d[n] = e /\ \A k \in 1..n : k # n => d[k] = cs[k]
  <2>1. d = [cs EXCEPT ![n] = e]
    BY <1>1 DEF e
  <2>2. DOMAIN cs = 1..n
    BY <1>1
  <2>. HIDE DEF d
  <2>. QED  BY <2>1, <2>2
<1>6. d \in Seq(Seq(Pairs))
  <2>1. d = [k \in 1..n |-> d[k]]
    BY <1>1
  <2>. HIDE DEF Pairs, d
  <2>2. \A k \in 1..n : d[k] \in Seq(Pairs)
    BY <1>2, <1>4, <1>5
  <2>3. d \in [1..n -> Seq(Pairs)]
    BY <2>1, <2>2
  <2>. QED  BY <2>3
<1>. HIDE DEF d
<1>7. \A k \in DOMAIN d : Len(d[k]) \in 1..MAX_QUESTIONS
  <2>1. \A k \in 1..n : k # n => Len(d[k]) \in 1..MAX_QUESTIONS
    BY <1>1, <1>5 DEF Covers
  <2>2. Len(d[n]) \in 1..MAX_QUESTIONS
    BY <1>3, <1>4, <1>5
  <2>. QED  BY <1>5, <2>1, <2>2
\* What a place of d held before.
<1>8. ASSUME NEW k \in 1..n, NEW i \in DOMAIN d[k]
      PROVE  \/ k = n /\ i = m + 1 /\ d[k][i] = q
             \/ i \in DOMAIN cs[k] /\ d[k][i] = cs[k][i] /\ d[k][i] \in A /\ d[k][i] # q
  <2>1. ASSUME i \in DOMAIN cs[k], d[k][i] = cs[k][i] PROVE d[k][i] \in A /\ d[k][i] # q
    BY <1>1, <2>1 DEF Covers
  <2>2. CASE k # n
    BY <1>5, <2>1, <2>2
  <2>3. CASE k = n
    <3>1. i \in 1..m \/ i = m + 1
      BY <1>3, <1>4, <1>5, <2>3
    <3>2. d[k] = e
      BY <1>5, <2>3
    <3>. QED  BY <1>3, <1>4, <2>1, <2>3, <3>1, <3>2
  <2>. QED  BY <2>2, <2>3
<1>9. ASSUME NEW k \in 1..n, NEW i \in DOMAIN cs[k]
      PROVE  i \in DOMAIN d[k] /\ d[k][i] = cs[k][i]
  <2>1. CASE k # n
    BY <1>5, <2>1
  <2>2. CASE k = n
    <3>1. i \in 1..m /\ i \in 1..(m + 1)
      BY <1>3, <2>2
    <3>. QED  BY <1>4, <1>5, <2>2, <3>1
  <2>. QED  BY <2>1, <2>2
<1>10. ASSUME NEW k \in 1..n, NEW l \in 1..n, NEW i \in DOMAIN d[k], NEW j \in DOMAIN d[l],
              d[k][i] = d[l][j]
       PROVE  k = l /\ i = j
  <2>1. CASE d[k][i] = q
    <3>1. k = n /\ i = m + 1
      BY <1>8, <2>1
    <3>2. l = n /\ j = m + 1
      <4>1. d[l][j] = q
        BY <1>10, <2>1
      <4>. QED  BY <1>8, <4>1
    <3>. QED  BY <3>1, <3>2
  <2>2. CASE d[k][i] # q
    <3>1. i \in DOMAIN cs[k] /\ d[k][i] = cs[k][i] /\ j \in DOMAIN cs[l] /\ d[l][j] = cs[l][j]
      <4>1. d[l][j] # q
        BY <1>10, <2>2
      <4>. QED  BY <1>8, <2>2, <4>1
    <3>2. k \in DOMAIN cs /\ l \in DOMAIN cs /\ cs[k][i] = cs[l][j]
      BY <1>1, <1>10, <3>1
    <3>. QED  BY <3>1, <3>2 DEF Covers
  <2>. QED  BY <2>1, <2>2
<1>11. ASSUME NEW x
       PROVE  x \in A \cup {q} <=> \E k \in DOMAIN d : \E i \in DOMAIN d[k] : d[k][i] = x
  <2>1. ASSUME x \in A PROVE \E k \in DOMAIN d : \E i \in DOMAIN d[k] : d[k][i] = x
    <3>1. PICK k \in 1..n : \E i \in DOMAIN cs[k] : cs[k][i] = x
      BY <1>1, <2>1 DEF Covers
    <3>. QED  BY <1>5, <1>9, <3>1
  <2>2. ASSUME x = q PROVE \E k \in DOMAIN d : \E i \in DOMAIN d[k] : d[k][i] = x
    <3>1. m + 1 \in DOMAIN d[n] /\ d[n][m + 1] = q /\ n \in DOMAIN d
      BY <1>3, <1>4, <1>5
    <3>. QED  BY <2>2, <3>1
  <2>3. ASSUME NEW k \in DOMAIN d, NEW i \in DOMAIN d[k], d[k][i] = x PROVE x \in A \cup {q}
    BY <1>5, <1>8, <2>3
  <2>. QED  BY <2>1, <2>2, <2>3
<1>. QED  BY <1>5, <1>6, <1>7, <1>10, <1>11 DEF d, Covers

LEMMA AddCovers ==
  ASSUME NEW cs, NEW A, Covers(cs, A), NEW q \in Pairs, q \notin A
  PROVE  Covers(AddQuestion(cs, q), A \cup {q})
<1>1. CASE cs = <<>> \/ Full(Last(cs), q)
  BY <1>1, NewRequest DEF AddQuestion
<1>2. CASE ~ (cs = <<>> \/ Full(Last(cs), q))
  <2>1. cs # <<>> /\ Len(cs[Len(cs)]) # MAX_QUESTIONS
    BY <1>2 DEF Full, Last
  <2>2. AddQuestion(cs, q) = [cs EXCEPT ![Len(cs)] = Append(@, q)]
    BY <1>2 DEF AddQuestion
  <2>3. Covers([cs EXCEPT ![Len(cs)] = Append(@, q)], A \cup {q})
    BY <2>1, LongerRequest
  <2>. QED  BY <2>2, <2>3
<1>. QED  BY <1>1, <1>2

\* Adding a question to requests gives requests.
LEMMA AddType ==
  ASSUME NEW cs \in Seq(Seq(Pairs)), NEW q \in Pairs
  PROVE  AddQuestion(cs, q) \in Seq(Seq(Pairs))
<1>. HIDE DEF Pairs
<1>1. <<q>> \in Seq(Pairs)
  OBVIOUS
<1>2. Append(cs, <<q>>) \in Seq(Seq(Pairs))
  BY <1>1
<1>3. ASSUME cs # <<>> PROVE [cs EXCEPT ![Len(cs)] = Append(@, q)] \in Seq(Seq(Pairs))
  <2>1. PICK n \in Nat \ {0} : n = Len(cs) /\ DOMAIN cs = 1..n /\ cs \in [1..n -> Seq(Pairs)]
    <3>1. Len(cs) \in Nat \ {0}
      BY <1>3, EmptySeq
    <3>. QED  BY <3>1
  <2>2. Append(cs[n], q) \in Seq(Pairs)
    BY <2>1
  <2>3. [cs EXCEPT ![n] = Append(cs[n], q)] \in [1..n -> Seq(Pairs)]
    BY <2>1, <2>2
  <2>4. [cs EXCEPT ![n] = Append(cs[n], q)] = [cs EXCEPT ![Len(cs)] = Append(@, q)]
    BY <2>1
  <2>. QED  BY <2>1, <2>3, <2>4
<1>. QED  BY <1>2, <1>3 DEF AddQuestion

\* Every question to ask has one place.
LEMMA QuestionsIs ==
  ASSUME EstimateType
  PROVE  /\ Cardinality(ToAsk) \in Nat /\ Questions \in [1..Cardinality(ToAsk) -> ToAsk]
         /\ \A i, j \in 1..Cardinality(ToAsk) : Questions[i] = Questions[j] => i = j
         /\ \A q \in ToAsk : \E i \in 1..Cardinality(ToAsk) : Questions[i] = q
         /\ Len(Questions) = Cardinality(ToAsk)
<1>. DEFINE before(p, q) == p[1] < q[1] \/ (p[1] = q[1] /\ p[2] < q[2])
            R == {p \in ToAsk \X ToAsk : \/ p[1][1] < p[2][1]
                                         \/ p[1][1] = p[2][1] /\ p[1][2] < p[2][2]}
<1>1. Questions = Arranged(ToAsk, R)
  BY DEF Questions
<1>2. ToAsk \subseteq Pairs
  BY DEF ToAsk, Pairs
<1>3. IsFiniteSet(ToAsk)
  <2>1. IsFiniteSet(Pairs)
    BY FrameType, FS_Product DEF EstimateType, Pairs
  <2>. QED  BY <1>2, <2>1, FS_Subset
<1>4. \A q \in ToAsk : q[1] \in Nat /\ q[2] \in Nat /\ q = <<q[1], q[2]>>
  BY <1>2, FrameType DEF EstimateType, Pairs
<1>5. Orders(R, ToAsk)
  <2>1. \A p, q \in ToAsk : <<p, q>> \in R <=> before(p, q)
    OBVIOUS
  <2>. HIDE DEF R
  <2>2. ASSUME NEW p \in ToAsk, NEW q \in ToAsk, p # q PROVE <<p, q>> \in R \/ <<q, p>> \in R
    <3>1. p[1] # q[1] \/ p[2] # q[2]
      BY <1>4, <2>2
    <3>2. p[1] \in Nat /\ p[2] \in Nat /\ q[1] \in Nat /\ q[2] \in Nat
      BY <1>4
    <3>3. before(p, q) \/ before(q, p)
      BY <3>1, <3>2
    <3>. QED  BY <2>1, <3>3
  <2>3. ASSUME NEW p \in ToAsk, NEW q \in ToAsk, NEW r \in ToAsk, <<p, q>> \in R, <<q, r>> \in R
        PROVE  <<p, r>> \in R
    <3>1. before(p, q) /\ before(q, r)
      BY <2>1, <2>3
    <3>2. before(p, r)
      BY <1>4, <3>1
    <3>. QED  BY <2>1, <3>2
  <2>4. ASSUME NEW p \in ToAsk PROVE <<p, p>> \notin R
    <3>1. ~ before(p, p)
      BY <1>4
    <3>. QED  BY <2>1, <3>1
  <2>. QED  BY <2>2, <2>3, <2>4 DEF Orders
<1>. HIDE DEF R
<1>6. /\ Cardinality(ToAsk) \in Nat /\ Questions \in [1..Cardinality(ToAsk) -> ToAsk]
      /\ \A i, j \in 1..Cardinality(ToAsk) : Questions[i] = Questions[j] => i = j
      /\ \A q \in ToAsk : \E i \in 1..Cardinality(ToAsk) : Questions[i] = q
  BY <1>1, <1>3, <1>5, ArrangedIs
<1>7. Len(Questions) = Cardinality(ToAsk)
  BY <1>6
<1>. QED  BY <1>6, <1>7

\* The requests that are made up ask every question to ask once.
LEMMA ChunksCover ==
  ASSUME EstimateType
  PROVE  Covers(Chunks, ToAsk)
<1>. DEFINE N == Cardinality(ToAsk)
            V == Seq(Seq(Pairs))
            Fold(g) == [n \in 0..Len(Questions) |->
                          IF n = 0 THEN <<>> ELSE AddQuestion(g[n - 1], Questions[n])]
            packed == CHOOSE g : g = Fold(g)
            op == [p \in (1..N) \X V |-> AddQuestion(p[2], Questions[p[1]])]
<1>1. /\ N \in Nat /\ Questions \in [1..N -> ToAsk] /\ Len(Questions) = N
      /\ \A i, j \in 1..N : Questions[i] = Questions[j] => i = j
      /\ \A q \in ToAsk : \E i \in 1..N : Questions[i] = q
  BY QuestionsIs
<1>2. Chunks = packed[Len(Questions)]
  BY DEF Chunks
<1>. HIDE DEF N
<1>3. \A i \in 1..N : Questions[i] \in Pairs /\ Questions[i] \in ToAsk
  BY <1>1 DEF ToAsk, Pairs
<1>4. op \in [(1..N) \X V -> V] /\ <<>> \in V
  <2>1. \A p \in (1..N) \X V : AddQuestion(p[2], Questions[p[1]]) \in V
    BY <1>3, AddType
  <2>2. <<>> \in V
    OBVIOUS
  <2>. HIDE DEF V
  <2>. QED  BY <2>1, <2>2
<1>5. packed = Fold(packed)
  <2>1. PICK g \in [0..N -> V] : g[0] = <<>> /\ \A n \in 1..N : g[n] = op[<<n, g[n - 1]>>]
    <3>1. N \in Nat
      BY <1>1
    <3>2. op \in [(1..N) \X V -> V] /\ <<>> \in V
      BY <1>4
    <3>. HIDE DEF op, V
    <3>3. PICK h : Recursion(h, N, V, <<>>, op)
      BY <3>1, <3>2, RecursionExists
    <3>. QED  BY <3>3 DEF Recursion
  <2>2. ASSUME NEW n \in 1..N PROVE g[n] = AddQuestion(g[n - 1], Questions[n])
    <3>1. g[n - 1] \in V
      BY <1>1, <2>1
    <3>2. <<n, g[n - 1]>> \in (1..N) \X V
      BY <3>1
    <3>. HIDE DEF V
    <3>. QED  BY <2>1, <3>2
  <2>3. \A n \in 0..N : g[n] = IF n = 0 THEN <<>> ELSE AddQuestion(g[n - 1], Questions[n])
    BY <1>1, <2>1, <2>2
  <2>4. g = Fold(g)
    <3>. HIDE DEF V
    <3>. QED  BY <1>1, <2>1, <2>3
  <2>. HIDE DEF Fold
  <2>. QED  BY <2>4
<1>. HIDE DEF packed, op, V
<1>6. packed[0] = <<>> /\ \A n \in 1..N : packed[n] = AddQuestion(packed[n - 1], Questions[n])
  BY <1>1, <1>5
<1>. DEFINE Upto(n) == {Questions[i] : i \in 1..n}
            Uncovered == {n \in 0..N : ~ Covers(packed[n], Upto(n))}
<1>7. Uncovered = {}
  <2>1. SUFFICES ASSUME Uncovered # {} PROVE FALSE
    OBVIOUS
  <2>2. PICK n \in Uncovered : \A m \in Uncovered : n <= m
    <3>1. Uncovered \in SUBSET Nat
      OBVIOUS
    <3>. HIDE DEF Uncovered
    <3>. QED  BY <2>1, <3>1, LeastOf
  <2>3. n \in 0..N /\ ~ Covers(packed[n], Upto(n))
    OBVIOUS
  <2>4. n # 0
    <3>1. Upto(0) = {}
      OBVIOUS
    <3>2. Covers(<<>>, {})
      BY DEF Covers
    <3>. QED  BY <1>6, <2>3, <3>1, <3>2
  <2>5. n \in 1..N /\ n - 1 \in 0..N /\ ~ (n <= n - 1)
    BY <1>1, <2>3, <2>4
  <2>6. Covers(packed[n - 1], Upto(n - 1))
    <3>1. n - 1 \notin Uncovered
      <4>. HIDE DEF Uncovered
      <4>. QED  BY <2>2, <2>5
    <3>. QED  BY <2>5, <3>1
  <2>7. Questions[n] \notin Upto(n - 1)
    BY <1>1, <2>5
  <2>8. Upto(n) = Upto(n - 1) \cup {Questions[n]}
    <3>1. \A i : i \in 1..n <=> i \in 1..(n - 1) \/ i = n
      BY <1>1, <2>5
    <3>. QED  BY <3>1
  <2>9. Covers(packed[n], Upto(n - 1) \cup {Questions[n]})
    <3>. HIDE DEF Upto
    <3>. QED  BY <1>3, <1>6, <2>5, <2>6, <2>7, AddCovers
  <2>. HIDE DEF Upto, Uncovered
  <2>. QED  BY <2>3, <2>8, <2>9
<1>8. Covers(packed[N], Upto(N))
  <2>1. N \in 0..N
    BY <1>1
  <2>. HIDE DEF Upto
  <2>. QED  BY <1>7, <2>1
<1>9. Upto(N) = ToAsk
  BY <1>1
<1>. HIDE DEF Upto
<1>. QED  BY <1>1, <1>2, <1>8, <1>9

-----------------------------------------------------------------------------
(* Along the steps *)

\* What was open when the frame was read.
Open ==
  {q \in Options \X Criteria :
     /\ Described(q[1]) /\ ~ Blocked(q[1])
     /\ q[2] \notin WithEvidence(q[1]) \cup DOMAIN frame.options[q[1]].model_scores}

\* The requests sent and to be sent ask what was open, each question once; the
\* result is what evaluate makes of the frame and the estimates as they are.
DecisionInv ==
  /\ EstimateType
  /\ sent \in Seq(Seq(Pairs)) /\ chunks \in Seq(Seq(Pairs))
  /\ decision.kind = "start" =>
       /\ sent = <<>> /\ chunks = <<>>
       /\ \A o \in Options : estimate[o] = frame.options[o].model_scores
  /\ decision.kind \in {"estimating", "decided"} => ~ InvalidFrame
  /\ decision.kind = "decided" => decision = Result /\ chunks = <<>>
  /\ (sent = <<>> /\ chunks = <<>>) \/ Covers(sent \o chunks, Open)
  /\ decision.kind \in {"estimating", "decided"} /\ frame.engine => Covers(sent \o chunks, Open)
  /\ \A k \in DOMAIN sent : StateChars(sent[k]) <= MAX_STATE_CHARS

\* What depends on the frame alone.
LEMMA FrameSame ==
  ASSUME frame' = frame
  PROVE  /\ Options' = Options /\ Criteria' = Criteria /\ Pairs' = Pairs /\ Open' = Open
         /\ InvalidFrame' = InvalidFrame
         /\ \A c : StateChars(c)' = StateChars(c)
         /\ \A cs, A : Covers(cs, A)' = Covers(cs, A)
BY DEF Options, Criteria, Pairs, Open, InvalidFrame, StateChars, Covers, OptionsIn, Described,
       Blocked, WithEvidence, Evidence, TotalWeight, Weight

\* What also depends on the estimates.
LEMMA ResultSame ==
  ASSUME frame' = frame, estimate' = estimate
  PROVE  Result' = Result /\ EstimateType' = EstimateType
<1>1. /\ Options' = Options /\ Criteria' = Criteria /\ TotalWeight' = TotalWeight
      /\ \A o : Blocked(o)' = Blocked(o) /\ Reversible(o)' = Reversible(o)
      /\ \A o : Lo(o)' = Lo(o) /\ Hi(o)' = Hi(o)
      /\ \A o : EvidenceLo(o)' = EvidenceLo(o) /\ EvidenceHi(o)' = EvidenceHi(o)
      /\ \A o : WeakEvidence(o)' = WeakEvidence(o)
  BY DEF Options, Criteria, Lo, Hi, EvidenceLo, EvidenceHi, Scored, ScoreOf, WithEvidence,
         Evidence, Weight, TotalWeight, Blocked, Reversible, WeakEvidence
<1>2. Ranked' = Ranked
  BY <1>1 DEF Ranked, RanksBefore
<1>3. \A r : ReversiblePlace(r)' = ReversiblePlace(r)
  BY <1>1 DEF ReversiblePlace, SelectInSeq, WithinBand
<1>4. Recommended(Ranked)' = Recommended(Ranked) /\ Preferred(Ranked)' = Preferred(Ranked)
  BY <1>1, <1>2, <1>3 DEF Recommended, Preferred, PrefersReversible
<1>5. \A o : Decisive(o)' = Decisive(o)
  BY <1>1 DEF Decisive
<1>6. Result' = Result
  BY <1>1, <1>4, <1>5 DEF Result
<1>7. EstimateType' = EstimateType
  BY <1>1 DEF EstimateType
<1>. QED  BY <1>6, <1>7

LEMMA DecisionStarts ==
  ASSUME DecisionInit
  PROVE  DecisionInv
<1>1. /\ frame \in Frames /\ estimate = [o \in Options |-> frame.options[o].model_scores]
      /\ chunks = <<>> /\ sent = <<>> /\ decision.kind = "start"
  BY DEF DecisionInit
<1>2. EstimateType
  BY <1>1, FrameType DEF EstimateType
<1>3. <<>> \in Seq(Seq(Pairs)) /\ DOMAIN <<>> = {}
  OBVIOUS
<1>. QED  BY <1>1, <1>2, <1>3 DEF DecisionInv

LEMMA StartStep ==
  ASSUME DecisionInv, StartEstimating
  PROVE  DecisionInv'
<1>1. /\ decision.kind = "start" /\ ~ InvalidFrame /\ decision' = [kind |-> "estimating"]
      /\ chunks' = IF frame.engine THEN Chunks ELSE <<>>
      /\ frame' = frame /\ estimate' = estimate /\ sent' = sent
  BY DEF StartEstimating
<1>2. /\ EstimateType /\ sent = <<>>
      /\ \A o \in Options : estimate[o] = frame.options[o].model_scores
  BY <1>1 DEF DecisionInv
<1>3. ToAsk = Open
  BY <1>2 DEF ToAsk, Open, MissingIn, Scored
<1>4. Covers(Chunks, Open)
  BY <1>2, <1>3, ChunksCover
<1>5. Chunks \in Seq(Seq(Pairs)) /\ <<>> \in Seq(Seq(Pairs)) /\ DOMAIN <<>> = {}
  BY <1>4 DEF Covers
<1>6. <<>> \o Chunks = Chunks
  <2>. HIDE DEF Pairs
  <2>. QED  BY <1>5, ConcatEmptySeq
<1>7. frame.engine => Covers(sent \o chunks, Open)'
  BY <1>1, <1>2, <1>4, <1>6, FrameSame
<1>8. ~ frame.engine => sent' = <<>> /\ chunks' = <<>>
  BY <1>1, <1>2
<1>9. sent' \in Seq(Seq(Pairs)) /\ chunks' \in Seq(Seq(Pairs))
  BY <1>1, <1>2, <1>5
<1>10. EstimateType' /\ Pairs' = Pairs /\ InvalidFrame' = InvalidFrame /\ DOMAIN sent' = {}
  BY <1>1, <1>2, <1>5, FrameSame, ResultSame
<1>11. decision'.kind = "estimating"
  BY <1>1
<1>. QED  BY <1>1, <1>7, <1>8, <1>9, <1>10, <1>11 DEF DecisionInv

\* A step that changes the decision at most, and not to a result.
LEMMA StandStill ==
  ASSUME DecisionInv, UNCHANGED <<frame, estimate, chunks, sent>>,
         decision' = [kind |-> "refused"] \/ decision' = decision
  PROVE  DecisionInv'
<1>1. /\ Options' = Options /\ Pairs' = Pairs /\ Open' = Open /\ InvalidFrame' = InvalidFrame
      /\ \A c : StateChars(c)' = StateChars(c)
      /\ \A cs, A : Covers(cs, A)' = Covers(cs, A)
      /\ Result' = Result /\ EstimateType' = EstimateType
  BY FrameSame, ResultSame
<1>2. EstimateType /\ sent \in Seq(Seq(Pairs)) /\ chunks \in Seq(Seq(Pairs))
      /\ \A k \in DOMAIN sent : StateChars(sent[k]) <= MAX_STATE_CHARS
  BY DEF DecisionInv
<1>3. (sent = <<>> /\ chunks = <<>>) \/ Covers(sent \o chunks, Open)
  BY DEF DecisionInv
<1>4. CASE decision' = decision
  BY <1>1, <1>4 DEF DecisionInv
<1>5. CASE decision' = [kind |-> "refused"]
  <2>1. decision'.kind = "refused"
    BY <1>5
  <2>. QED  BY <1>1, <1>2, <1>3, <2>1 DEF DecisionInv
<1>. QED  BY <1>4, <1>5

LEMMA EvaluateStep ==
  ASSUME DecisionInv, Evaluate
  PROVE  DecisionInv'
<1>1. /\ decision.kind = "estimating" /\ chunks = <<>> /\ decision' = Result
      /\ frame' = frame /\ estimate' = estimate /\ chunks' = chunks /\ sent' = sent
  BY DEF Evaluate
<1>2. /\ Options' = Options /\ Pairs' = Pairs /\ Open' = Open /\ InvalidFrame' = InvalidFrame
      /\ \A c : StateChars(c)' = StateChars(c)
      /\ \A cs, A : Covers(cs, A)' = Covers(cs, A)
      /\ Result' = Result /\ EstimateType' = EstimateType
  BY <1>1, FrameSame, ResultSame
<1>3. decision'.kind = "decided"
  BY <1>1 DEF Result
<1>. QED  BY <1>1, <1>2, <1>3 DEF DecisionInv

\* The answers to a request are estimates.
LEMMA AnswersType ==
  ASSUME EstimateType, NEW chunk \in Seq(Pairs),
         NEW answers \in [DOMAIN chunk -> EngineScores \cup {NoScore}]
  PROVE  LET e == WithAnswers(chunk, answers)
         IN  /\ DOMAIN e = Options
             /\ \A o \in Options : /\ DOMAIN e[o] \subseteq Criteria
                                   /\ \A c \in DOMAIN e[o] : e[o][c] \in 0..Scale
<1>. DEFINE e == WithAnswers(chunk, answers)
            answered(o) == {k \in DOMAIN chunk : chunk[k][1] = o /\ answers[k] # NoScore}
<1>1. \A k \in DOMAIN chunk : chunk[k][2] \in Criteria
  <2>1. \A k \in DOMAIN chunk : chunk[k] \in Pairs
    <3>. HIDE DEF Pairs
    <3>. QED  OBVIOUS
  <2>. QED  BY <2>1 DEF Pairs
<1>2. DOMAIN e = Options
  BY DEF WithAnswers
<1>3. ASSUME NEW o \in Options
      PROVE  /\ DOMAIN e[o] \subseteq Criteria
             /\ \A c \in DOMAIN e[o] : e[o][c] \in 0..Scale
  <2>1. e[o] = [c \in DOMAIN estimate[o] \cup {chunk[k][2] : k \in answered(o)} |->
                  IF \E k \in answered(o) : chunk[k][2] = c
                  THEN answers[CHOOSE k \in answered(o) : chunk[k][2] = c]
                  ELSE estimate[o][c]]
    BY DEF WithAnswers
  <2>2. DOMAIN e[o] = DOMAIN estimate[o] \cup {chunk[k][2] : k \in answered(o)}
    BY <2>1
  <2>3. \A k \in answered(o) : chunk[k][2] \in Criteria /\ answers[k] \in 0..Scale
    <3>1. \A k \in answered(o) : answers[k] \in EngineScores
      OBVIOUS
    <3>. QED  BY <1>1, <3>1, DecisionAssumption
  <2>4. ASSUME NEW c \in DOMAIN e[o] PROVE e[o][c] \in 0..Scale
    <3>1. CASE \E k \in answered(o) : chunk[k][2] = c
      <4>. DEFINE j == CHOOSE k \in answered(o) : chunk[k][2] = c
      <4>1. j \in answered(o)
        BY <3>1
      <4>2. e[o][c] = answers[j]
        <5>. HIDE DEF e, answered
        <5>. QED  BY <2>1, <2>2, <3>1
      <4>. HIDE DEF j, answered, e
      <4>. QED  BY <2>3, <4>1, <4>2
    <3>2. CASE ~ \E k \in answered(o) : chunk[k][2] = c
      <4>1. c \in DOMAIN estimate[o]
        BY <2>2, <3>2
      <4>2. e[o][c] = estimate[o][c]
        <5>. HIDE DEF e, answered
        <5>. QED  BY <2>1, <2>2, <3>2
      <4>. HIDE DEF e
      <4>. QED  BY <4>1, <4>2 DEF EstimateType
    <3>. QED  BY <3>1, <3>2
  <2>. HIDE DEF e, answered
  <2>. QED  BY <2>2, <2>3, <2>4 DEF EstimateType
<1>. QED  BY <1>2, <1>3

\* Sending moves the first request behind those sent.
LEMMA MoveHead ==
  ASSUME NEW S, NEW s \in Seq(S), NEW t \in Seq(S), t # <<>>
  PROVE  /\ Head(t) \in S /\ Append(s, Head(t)) \in Seq(S) /\ Tail(t) \in Seq(S)
         /\ Append(s, Head(t)) \o Tail(t) = s \o t
<1>1. PICK m \in Nat, n \in Nat \ {0} : m = Len(s) /\ n = Len(t)
  BY EmptySeq
<1>2. /\ Head(t) = t[1] /\ Head(t) \in S /\ Tail(t) \in Seq(S) /\ Len(Tail(t)) = n - 1
      /\ \A i \in 1..(n - 1) : Tail(t)[i] = t[i + 1]
  BY <1>1
<1>3. /\ Append(s, Head(t)) \in Seq(S) /\ Len(Append(s, Head(t))) = m + 1
      /\ Append(s, Head(t))[m + 1] = Head(t)
      /\ \A i \in 1..m : Append(s, Head(t))[i] = s[i]
  BY <1>1, <1>2, AppendProperties
<1>. DEFINE u == Append(s, Head(t))
            v == Tail(t)
<1>. HIDE DEF u, v
<1>4. /\ u \o v \in Seq(S) /\ s \o t \in Seq(S)
      /\ Len(u \o v) = m + n /\ Len(s \o t) = m + n
  BY <1>1, <1>2, <1>3 DEF u, v
<1>5. ASSUME NEW i \in 1..(m + n) PROVE (u \o v)[i] = (s \o t)[i]
  <2>1. CASE i <= m
    <3>1. (u \o v)[i] = u[i] /\ (s \o t)[i] = s[i]
      BY <1>1, <1>2, <1>3, <2>1, ConcatProperties DEF u, v
    <3>. QED  BY <1>1, <1>3, <2>1, <3>1 DEF u
  <2>2. CASE i = m + 1
    <3>1. (u \o v)[i] = u[m + 1] /\ (s \o t)[i] = t[1]
      <4>1. i - m = 1
        BY <1>1, <2>2
      <4>. QED  BY <1>1, <1>2, <1>3, <2>2, <4>1, ConcatProperties DEF u, v
    <3>. QED  BY <1>2, <1>3, <3>1 DEF u
  <2>3. CASE i > m + 1
    <3>1. i - (m + 1) \in 1..(n - 1) /\ (i - (m + 1)) + 1 = i - m
      BY <1>1, <2>3
    <3>2. (u \o v)[i] = v[i - (m + 1)]
      BY <1>1, <1>2, <1>3, <2>3, ConcatProperties DEF u, v
    <3>3. (s \o t)[i] = t[i - m]
      BY <1>1, <2>3, ConcatProperties
    <3>. QED  BY <1>2, <3>1, <3>2, <3>3 DEF v
  <2>4. i <= m \/ i = m + 1 \/ i > m + 1
    BY <1>1
  <2>. QED  BY <2>1, <2>2, <2>3, <2>4
<1>6. u \o v = s \o t
  BY <1>1, <1>4, <1>5, SeqEqual
<1>. QED  BY <1>2, <1>3, <1>6 DEF u, v

LEMMA SendStep ==
  ASSUME DecisionInv, SendRequest
  PROVE  DecisionInv'
<1>1. /\ decision.kind = "estimating" /\ chunks # <<>>
      /\ StateChars(Head(chunks)) <= MAX_STATE_CHARS
      /\ sent' = Append(sent, Head(chunks)) /\ chunks' = Tail(chunks)
      /\ frame' = frame /\ decision' = decision
  BY DEF SendRequest
<1>2. PICK answers \in [DOMAIN Head(chunks) -> EngineScores \cup {NoScore}] :
             estimate' = WithAnswers(Head(chunks), answers)
  BY DEF SendRequest
<1>3. /\ Options' = Options /\ Criteria' = Criteria /\ Pairs' = Pairs /\ Open' = Open
      /\ InvalidFrame' = InvalidFrame
      /\ \A c : StateChars(c)' = StateChars(c)
      /\ \A cs, A : Covers(cs, A)' = Covers(cs, A)
  BY <1>1, FrameSame
<1>4. /\ EstimateType /\ sent \in Seq(Seq(Pairs)) /\ chunks \in Seq(Seq(Pairs))
      /\ ~ InvalidFrame /\ Covers(sent \o chunks, Open)
      /\ (frame.engine => Covers(sent \o chunks, Open))
      /\ \A k \in DOMAIN sent : StateChars(sent[k]) <= MAX_STATE_CHARS
  BY <1>1 DEF DecisionInv
<1>5. /\ Head(chunks) \in Seq(Pairs) /\ sent' \in Seq(Seq(Pairs)) /\ chunks' \in Seq(Seq(Pairs))
      /\ sent' \o chunks' = sent \o chunks
  <2>. HIDE DEF Pairs
  <2>. QED  BY <1>1, <1>4, MoveHead
<1>6. EstimateType'
  <2>. DEFINE e == WithAnswers(Head(chunks), answers)
  <2>1. /\ DOMAIN e = Options
        /\ \A o \in Options : /\ DOMAIN e[o] \subseteq Criteria
                              /\ \A c \in DOMAIN e[o] : e[o][c] \in 0..Scale
    BY <1>4, <1>5, AnswersType
  <2>2. frame \in Frames /\ estimate' = e
    BY <1>2, <1>4 DEF EstimateType
  <2>. HIDE DEF e
  <2>. QED  BY <1>1, <1>3, <2>1, <2>2 DEF EstimateType
<1>7. \A k \in DOMAIN sent' : StateChars(sent'[k]) <= MAX_STATE_CHARS
  <2>1. PICK m \in Nat : m = Len(sent) /\ DOMAIN sent = 1..m
    BY <1>4
  <2>2. /\ DOMAIN sent' = 1..(m + 1) /\ sent'[m + 1] = Head(chunks)
        /\ \A k \in 1..m : sent'[k] = sent[k]
    <3>. HIDE DEF Pairs
    <3>. QED  BY <1>1, <1>4, <1>5, <2>1, AppendProperties
  <2>3. ASSUME NEW k \in 1..(m + 1) PROVE StateChars(sent'[k]) <= MAX_STATE_CHARS
    <3>1. k \in 1..m \/ k = m + 1
      BY <2>1
    <3>. QED  BY <1>1, <1>4, <2>1, <2>2, <3>1
  <2>. QED  BY <2>2, <2>3
<1>8. Covers(sent \o chunks, Open)'
  BY <1>3, <1>4, <1>5
<1>. QED  BY <1>1, <1>3, <1>4, <1>5, <1>6, <1>7, <1>8 DEF DecisionInv

\* The engine's estimates stay on the scale, and what is to be asked is covered
\* at every step (decision.rs, estimate_missing_criteria).
THEOREM RequestsStayCovered == DecisionSpec => []DecisionInv
<1>1. DecisionInit => DecisionInv
  BY DecisionStarts
<1>2. DecisionInv /\ [DecisionNext]_decisionVars => DecisionInv'
  <2>. SUFFICES ASSUME DecisionInv, [DecisionNext]_decisionVars PROVE DecisionInv'
    OBVIOUS
  <2>1. CASE RefuseFrame
    BY <2>1, StandStill DEF RefuseFrame
  <2>2. CASE StartEstimating
    BY <2>2, StartStep
  <2>3. CASE RequestRefused
    BY <2>3, StandStill DEF RequestRefused
  <2>4. CASE SendRequest
    BY <2>4, SendStep
  <2>5. CASE Evaluate
    BY <2>5, EvaluateStep
  <2>6. CASE UNCHANGED decisionVars
    BY <2>6, StandStill DEF decisionVars
  <2>. QED  BY <2>1, <2>2, <2>3, <2>4, <2>5, <2>6 DEF DecisionNext
<1>. QED  BY <1>1, <1>2, PTL DEF DecisionSpec

\* Whatever the frame and whatever the engine answers, the recommendation is
\* safe, and is called settled exactly if nothing still missing can change it
\* (decision.rs, evaluate).
THEOREM RecommendationAlwaysHolds == DecisionSpec => []RecommendationHolds
<1>1. DecisionInv => RecommendationHolds
  <2>. SUFFICES ASSUME DecisionInv PROVE RecommendationHolds
    OBVIOUS
  <2>1. CASE decision.kind = "decided"
    <3>1. EstimateType /\ Options # {} /\ decision = Result
      BY <2>1 DEF DecisionInv, InvalidFrame
    <3>. QED  BY <3>1, SettledIs, SafeIs DEF RecommendationHolds
  <2>2. CASE decision.kind # "decided"
    BY <2>2 DEF RecommendationHolds, DecisiveIsSettled, RecommendationIsSafe
  <2>. QED  BY <2>1, <2>2
<1>. QED  BY <1>1, RequestsStayCovered, PTL

\* And the engine is asked about every criterion that is open, once and about
\* nothing else, within the limits of a request (decision.rs,
\* estimate_missing_criteria).
THEOREM RequestsAlwaysCover == DecisionSpec => []RequestsCoverMissing
<1>1. DecisionInv => RequestsCoverMissing
  <2>. SUFFICES ASSUME DecisionInv PROVE RequestsCoverMissing
    OBVIOUS
  <2>0. /\ sent \in Seq(Seq(Pairs)) /\ chunks \in Seq(Seq(Pairs))
        /\ (sent = <<>> /\ chunks = <<>>) \/ Covers(sent \o chunks, Open)
    BY DEF DecisionInv
  <2>1. PICK m \in Nat : m = Len(sent) /\ DOMAIN sent = 1..m
    BY <2>0
  <2>2. m # 0 => Covers(sent \o chunks, Open)
    BY <2>0, <2>1
  <2>3. \A k \in 1..m : k \in DOMAIN (sent \o chunks) /\ (sent \o chunks)[k] = sent[k]
    <3>. HIDE DEF Pairs
    <3>1. PICK n \in Nat : n = Len(chunks)
      BY <2>0
    <3>2. Len(sent \o chunks) = m + n /\ DOMAIN (sent \o chunks) = 1..(m + n)
      BY <2>0, <2>1, <3>1
    <3>3. ASSUME NEW k \in 1..m PROVE k \in 1..(m + n) /\ (sent \o chunks)[k] = sent[k]
      <4>1. k \in 1..(m + n) /\ k <= m
        BY <2>1, <3>1
      <4>. QED  BY <2>0, <2>1, <3>1, <4>1, ConcatProperties
    <3>. QED  BY <3>2, <3>3
  <2>4. \A k \in 1..m : Asked[k] = {sent[k][q] : q \in DOMAIN sent[k]}
    BY <2>1 DEF Asked
  <2>5. ASSUME NEW k \in 1..m
        PROVE  /\ Len(sent[k]) \in 1..MAX_QUESTIONS
               /\ Cardinality(Asked[k]) = Len(sent[k])
               /\ \A l \in 1..m : k # l => Asked[k] \cap Asked[l] = {}
    <3>1. Covers(sent \o chunks, Open)
      BY <2>1, <2>2
    <3>2. Len(sent[k]) \in 1..MAX_QUESTIONS
      BY <2>3, <3>1 DEF Covers
    <3>3. \A l \in 1..m : \A i \in DOMAIN sent[k], j \in DOMAIN sent[l] :
            sent[k][i] = sent[l][j] => k = l /\ i = j
      <4>1. ASSUME NEW l \in 1..m, NEW i \in DOMAIN sent[k], NEW j \in DOMAIN sent[l],
                   sent[k][i] = sent[l][j]
            PROVE  k = l /\ i = j
        <5>. DEFINE cs == sent \o chunks
        <5>1. k \in DOMAIN cs /\ l \in DOMAIN cs /\ cs[k] = sent[k] /\ cs[l] = sent[l]
          BY <2>3
        <5>2. Covers(cs, Open)
          BY <3>1
        <5>. HIDE DEF cs
        <5>. QED  BY <4>1, <5>1, <5>2 DEF Covers
      <4>. QED  BY <4>1
    <3>4. PICK n \in Nat : n = Len(sent[k]) /\ DOMAIN sent[k] = 1..n
      BY <2>0, <2>1
    <3>5. Cardinality(Asked[k]) = n
      <4>. DEFINE f == [i \in 1..n |-> sent[k][i]]
      <4>1. f \in [1..n -> Asked[k]] /\ \A x \in Asked[k] : \E i \in 1..n : f[i] = x
        BY <2>4, <3>4
      <4>2. \A i, j \in 1..n : f[i] = f[j] => i = j
        BY <3>3, <3>4
      <4>. HIDE DEF f
      <4>3. f \in Surjection(1..n, Asked[k]) /\ f \in Injection(1..n, Asked[k])
        BY <4>1, <4>2 DEF Surjection, Injection, IsInjective
      <4>. QED  BY <4>3, UpTo, FS_Surjection
    <3>6. \A l \in 1..m : k # l => Asked[k] \cap Asked[l] = {}
      BY <2>4, <3>3
    <3>. QED  BY <3>2, <3>4, <3>5, <3>6
  <2>6. ASSUME decision.kind = "decided", frame.engine
        PROVE  UNION {Asked[k] : k \in DOMAIN sent} = Open
    <3>1. chunks = <<>> /\ Covers(sent \o chunks, Open)
      BY <2>6 DEF DecisionInv
    <3>2. sent \o chunks = sent
      <4>. HIDE DEF Pairs
      <4>. QED  BY <2>0, <3>1, ConcatEmptySeq
    <3>3. \A q : q \in Open <=> \E k \in DOMAIN sent : \E i \in DOMAIN sent[k] : sent[k][i] = q
      BY <3>1, <3>2 DEF Covers
    <3>4. \A q : q \in Open <=> \E k \in DOMAIN sent : q \in Asked[k]
      BY <2>1, <2>4, <3>3
    <3>. QED  BY <3>4
  <2>7. \A k \in DOMAIN sent : StateChars(sent[k]) <= MAX_STATE_CHARS
    BY DEF DecisionInv
  <2>. QED  BY <2>1, <2>5, <2>6, <2>7 DEF RequestsCoverMissing, Open
<1>. QED  BY <1>1, RequestsStayCovered, PTL

-----------------------------------------------------------------------------

(* Predictions *)

\* A decision of an engine is one about a request that was let through, and it
\* leaves everything open or is the whole of a response that was admitted.
Considered ==
  command.kind = "ask" /\ admitted.state = "decided" =>
    /\ ~ RefusedRequest
    /\ \/ admitted.answers = AbstainAll(command.request)
       \/ admitted.answers = Admit(command.request, command.answers)

ForecastInv == Considered /\ PredictionsCanBeScored

\* The expected level of an admitted distribution is a number.
LEMMA ExpectedIsInt ==
  ASSUME NEW top \in Nat, NEW dist, DOMAIN dist \subseteq 0..top,
         \A key \in DOMAIN dist : Unit(dist[key])
  PROVE  Expected(dist) \in Int
<1>. DEFINE K == DOMAIN dist
            f == [key \in K |-> key * dist[key]]
<1>1. IsFiniteSet(0..top)
  BY FS_Interval
<1>2. IsFiniteSet(K)
  BY <1>1, FS_Subset
<1>3. \A key \in K : f[key] \in Int
  BY DEF Unit, One
<1>4. SumFunctionOnSet(f, K) \in Int
  <2>. HIDE DEF f, K
  <2>. QED  BY <1>2, <1>3, SumType
<1>5. Expected(dist) = SumFunctionOnSet(f, K)
  BY DEF Expected, SumFunction
<1>. QED  BY <1>4, <1>5

\* The nearest level.
LEMMA LevelIsNearest ==
  ASSUME NEW top \in Nat, NEW score \in 0..(top * One)
  PROVE  /\ Level(score) \in 0..top
         /\ Distance(score, Level(score) * One) <= One \div 2
BY DEF Level, Distance, One

LEMMA MaxOfLevels ==
  ASSUME NEW top \in Nat
  PROVE  Max(0..top) = top
BY DEF Max

\* A probability of `true' as a record, an engine's or a person's.
LEMMA LikeliestSide ==
  ASSUME NEW p, Unit(p), NEW r,
         r.kind = "noul", r.p = p, r.value = Lean(p), r.probabilities = BothSides(p),
         r.space = {"true", "false"}
  PROVE  CanBeScored(r)
<1>1. /\ DOMAIN BothSides(p) = {"true", "false"}
      /\ BothSides(p)["true"] = p /\ BothSides(p)["false"] = One - p
  BY DEF BothSides
<1>2. p \in 0..One
  BY DEF Unit
<1>3. SpeaksOfItsSpace(r)
  BY <1>1 DEF SpeaksOfItsSpace, Lean
<1>4. BothSides(p)["true"] <= BothSides(p)[Lean(p)] /\ BothSides(p)["false"] <= BothSides(p)[Lean(p)]
  BY <1>1, <1>2 DEF Lean, One
<1>5. NamesTheLikeliest(r)
  BY <1>1, <1>4 DEF NamesTheLikeliest
<1>. QED  BY <1>3, <1>5 DEF CanBeScored

\* What is recorded of an accepted answer.
LEMMA AcceptedCanBeScored ==
  ASSUME NEW question, ValidQuestion(question), NEW raw, Acceptable(question, raw),
         raw.type # "abstain"
  PROVE  CanBeScored(Prediction(question, raw))
<1>. DEFINE r == Prediction(question, raw)
<1>1. /\ r.kind = question.kind /\ r.p = StatedP(raw) /\ r.value = Value(raw)
      /\ r.probabilities = Distribution(raw) /\ r.space = AnswerSpace(question)
  BY DEF Prediction
<1>. HIDE DEF r
<1>2. CASE raw.type = "noul"
  <2>1. question.kind = "noul" /\ Unit(raw.noul)
    BY <1>2 DEF Acceptable
  <2>2. /\ r.space = {"true", "false"} /\ r.p = raw.noul /\ r.value = Lean(raw.noul)
        /\ r.probabilities = BothSides(raw.noul)
    BY <1>1, <1>2, <2>1 DEF AnswerSpace, StatedP, Value, Distribution
  <2>3. CanBeScored(r)
    BY <1>1, <2>1, <2>2, LikeliestSide
  <2>. QED  BY <2>3 DEF r
<1>3. CASE raw.type = "choice"
  <2>1. /\ question.kind = "choice" /\ raw.choice \in question.options
        /\ CheckConfidence(raw.confidence)
        /\ CheckDistribution(question.options, raw.probabilities)
        /\ LeadsItsDistribution(raw.choice, raw.probabilities)
    BY <1>3 DEF Acceptable, AnswerSpace
  <2>2. /\ r.space = question.options /\ r.value = raw.choice
        /\ r.probabilities = raw.probabilities
        /\ r.p = IF raw.choice \in DOMAIN raw.probabilities
                 THEN raw.probabilities[raw.choice] ELSE raw.confidence
    BY <1>1, <1>3, <2>1 DEF AnswerSpace, StatedP, Value, Distribution
  <2>3. SpeaksOfItsSpace(r)
    BY <1>1, <2>1, <2>2 DEF SpeaksOfItsSpace, CheckConfidence, CheckDistribution
  <2>4. NamesTheLikeliest(r)
    BY <1>1, <2>1, <2>2 DEF NamesTheLikeliest, LeadsItsDistribution
  <2>. QED  BY <2>3, <2>4 DEF CanBeScored, r
<1>4. CASE raw.type = "score"
  <2>1. /\ question.kind = "score" /\ raw.score \in 0..(question.top * One)
        /\ CheckConfidence(raw.confidence)
        /\ CheckDistribution(0..question.top, raw.probabilities)
        /\ AgreesWithItsDistribution(raw.score, question.top, raw.probabilities)
    BY <1>4 DEF Acceptable, AnswerSpace
  <2>. DEFINE v == Level(raw.score)
  <2>2. /\ r.space = 0..question.top /\ r.value = v
        /\ r.probabilities = raw.probabilities
        /\ r.p = IF v \in DOMAIN raw.probabilities
                 THEN raw.probabilities[v] ELSE raw.confidence
    BY <1>1, <1>4, <2>1 DEF AnswerSpace, StatedP, Value, Distribution
  <2>3. question.top \in Nat
    BY <2>1 DEF ValidQuestion
  <2>4. v \in 0..question.top /\ Distance(raw.score, v * One) <= One \div 2
    BY <2>1, <2>3, LevelIsNearest
  <2>. HIDE DEF v
  <2>5. SpeaksOfItsSpace(r)
    BY <1>1, <2>1, <2>2, <2>4 DEF SpeaksOfItsSpace, CheckConfidence, CheckDistribution
  <2>6. NamesTheLikeliest(r)
    <3>1. SUFFICES ASSUME DOMAIN raw.probabilities # {}
                   PROVE  Distance(Expected(raw.probabilities), v * One)
                            <= One \div 2 + 20 * question.top + 20
      BY <1>1, <2>1, <2>2, <2>3, MaxOfLevels DEF NamesTheLikeliest
    <3>. DEFINE e == Expected(raw.probabilities)
    <3>2. e \in Int
      BY <2>1, <2>3, <3>1, ExpectedIsInt DEF CheckDistribution
    <3>3. Distance(e, raw.score) <= 20 * question.top + 20
      BY <2>1, <3>1 DEF AgreesWithItsDistribution
    <3>4. raw.score \in Int /\ v * One \in Int
      BY <2>1, <2>3, <2>4 DEF One
    <3>. HIDE DEF e
    <3>5. \A a, b, c \in Int : Distance(a, c) <= Distance(a, b) + Distance(b, c)
      BY DEF Distance
    <3>6. Distance(e, v * One) <= Distance(e, raw.score) + Distance(raw.score, v * One)
      BY <3>2, <3>4, <3>5
    <3>7. /\ Distance(e, v * One) \in Int /\ Distance(e, raw.score) \in Int
          /\ Distance(raw.score, v * One) \in Int /\ One \div 2 \in Int
      BY <3>2, <3>4 DEF Distance, One
    <3>. QED  BY <2>3, <2>4, <3>3, <3>6, <3>7 DEF e
  <2>. QED  BY <2>5, <2>6 DEF CanBeScored, r
<1>. QED  BY <1>2, <1>3, <1>4 DEF Acceptable

\* All answers of a response that is admitted are recorded, or none of any other.
LEMMA RecordStep ==
  ASSUME ForecastInv, RecordAnswers
  PROVE  ForecastInv'
<1>. DEFINE request == command.request
            answers == command.answers
            answered == {id \in DOMAIN request : admitted.answers[id].type # "abstain"}
<1>1. /\ command.kind = "ask" /\ admitted.state = "decided"
      /\ recorded' = PredictionTraces(request, admitted.answers)
      /\ command' = command /\ admitted' = admitted
  BY DEF RecordAnswers
<1>2. /\ ~ RefusedRequest
      /\ admitted.answers = AbstainAll(request) \/ admitted.answers = Admit(request, answers)
  BY <1>1 DEF ForecastInv, Considered
<1>3. Considered'
  BY <1>1 DEF ForecastInv, Considered, RefusedRequest
<1>4. /\ DOMAIN recorded' = answered
      /\ \A id \in answered : recorded'[id] = Prediction(request[id], admitted.answers[id])
  BY <1>1 DEF PredictionTraces
<1>5. CASE admitted.answers = AbstainAll(request)
  <2>1. answered = {}
    BY <1>5 DEF AbstainAll, Abstain
  <2>2. recorded' = NothingRecorded
    BY <1>1, <2>1 DEF PredictionTraces, NothingRecorded
  <2>. QED  BY <1>3, <1>4, <2>1, <2>2 DEF ForecastInv, PredictionsCanBeScored, NothingRecorded
<1>6. CASE admitted.answers # AbstainAll(request)
  <2>1. ~ RejectsResponse(request, answers)
    BY <1>2, <1>6 DEF Admit
  <2>2. /\ DOMAIN answers \subseteq DOMAIN request
        /\ \A id \in DOMAIN answers : Acceptable(request[id], answers[id])
        /\ \A id \in DOMAIN request : ValidQuestion(request[id])
    BY <1>2, <2>1 DEF RejectsResponse, RefusedRequest
  <2>3. admitted.answers = [id \in DOMAIN request |->
                              IF id \in DOMAIN answers THEN answers[id] ELSE Abstain]
    BY <1>2, <1>6, <2>1 DEF Admit
  <2>4. /\ \A id \in answered : id \in DOMAIN answers /\ admitted.answers[id] = answers[id]
        /\ answered = {id \in DOMAIN answers : answers[id].type # "abstain"}
    BY <2>2, <2>3 DEF Abstain
  <2>5. \A id \in DOMAIN recorded' : CanBeScored(recorded'[id])
    <3>. SUFFICES ASSUME NEW id \in answered PROVE CanBeScored(recorded'[id])
      BY <1>4
    <3>1. /\ ValidQuestion(request[id]) /\ Acceptable(request[id], answers[id])
          /\ answers[id].type # "abstain"
      BY <2>2, <2>4
    <3>2. recorded'[id] = Prediction(request[id], answers[id])
      BY <1>4, <2>4
    <3>. QED  BY <3>1, <3>2, AcceptedCanBeScored
  <2>6. DOMAIN recorded' = AnsweredByEngine'
    BY <1>1, <1>4, <2>4 DEF AnsweredByEngine
  <2>7. \A id \in DOMAIN recorded' : CanBeScored(recorded[id])'
    BY <2>5 DEF CanBeScored, SpeaksOfItsSpace, NamesTheLikeliest
  <2>. QED  BY <1>3, <2>6, <2>7 DEF ForecastInv, PredictionsCanBeScored
<1>. QED  BY <1>5, <1>6

\* A person's forecast that is not refused.
LEMMA ForecastCanBeScored ==
  ASSUME NEW f, ~ RefusedForecast(f)
  PROVE  CanBeScored(ForecastTrace(f))
<1>1. Unit(f.p) /\ f.kind \in {"noul", "choice", "score"}
      /\ (f.kind # "noul" => f.value \in Range(f.space))
  BY DEF RefusedForecast
<1>2. CASE f.kind = "noul"
  BY <1>1, <1>2, LikeliestSide DEF ForecastTrace
<1>3. CASE f.kind # "noul"
  <2>1. ForecastTrace(f) = [kind |-> f.kind, p |-> f.p, value |-> f.value,
                            probabilities |-> NoDistribution, space |-> Range(f.space)]
    BY <1>3 DEF ForecastTrace
  <2>2. DOMAIN NoDistribution = {}
    BY DEF NoDistribution
  <2>. QED  BY <1>1, <1>3, <2>1, <2>2 DEF CanBeScored, SpeaksOfItsSpace, NamesTheLikeliest
<1>. QED  BY <1>2, <1>3

\* The commands that change what is recorded do so once; the others record
\* nothing. (main.rs, run)
THEOREM PredictionsAlwaysScorable == ForecastSpec => []PredictionsCanBeScored
<1>1. ForecastInit => ForecastInv
  BY DEF ForecastInit, ForecastInv, Considered, PredictionsCanBeScored, NoDecision,
         NothingRecorded
<1>2. ForecastInv /\ [ForecastNext]_forecastVars => ForecastInv'
  <2>. SUFFICES ASSUME ForecastInv, [ForecastNext]_forecastVars PROVE ForecastInv'
    OBVIOUS
  <2>. USE DEF ForecastInv
  <2>1. ASSUME command' = command, recorded' = recorded
        PROVE  PredictionsCanBeScored'
    BY <2>1 DEF PredictionsCanBeScored, AnsweredByEngine
  <2>2. ASSUME EngineMissing \/ RefuseRequest
        PROVE  ForecastInv'
    <3>1. admitted'.state = "refused" /\ command' = command /\ recorded' = recorded
      BY <2>2 DEF EngineMissing, RefuseRequest, Failed
    <3>. QED  BY <2>1, <3>1 DEF Considered
  <2>3. ASSUME EngineFails \/ EngineAnswers
        PROVE  ForecastInv'
    <3>1. /\ ~ RefusedRequest /\ command' = command /\ recorded' = recorded
          /\ \/ admitted'.answers = AbstainAll(command.request)
             \/ admitted'.answers = Admit(command.request, command.answers)
      BY <2>3 DEF EngineFails, EngineAnswers, Decided
    <3>. QED  BY <2>1, <3>1 DEF Considered, RefusedRequest
  <2>4. CASE RecordAnswers
    BY <2>4, RecordStep
  <2>5. CASE Forecast
    <3>1. command.kind = "predict" /\ command' = command
      BY <2>5 DEF Forecast
    <3>2. CASE RefusedForecast(command.forecast)
      <4>1. recorded' = recorded
        BY <2>5, <3>2 DEF Forecast
      <4>. QED  BY <2>1, <3>1, <4>1 DEF Considered
    <3>3. CASE ~ RefusedForecast(command.forecast)
      <4>1. recorded' = [id \in {"family"} |-> ForecastTrace(command.forecast)]
        BY <2>5, <3>3 DEF Forecast
      <4>2. \A id \in DOMAIN recorded' : recorded'[id] = ForecastTrace(command.forecast)
        BY <4>1
      <4>3. \A id \in DOMAIN recorded' : CanBeScored(recorded'[id])
        BY <3>3, <4>2, ForecastCanBeScored
      <4>. QED  BY <3>1, <4>3 DEF Considered, PredictionsCanBeScored, CanBeScored,
                                  SpeaksOfItsSpace, NamesTheLikeliest
    <3>. QED  BY <3>2, <3>3
  <2>6. CASE UNCHANGED forecastVars
    BY <2>1, <2>6 DEF forecastVars, Considered, RefusedRequest
  <2>. QED  BY <2>2, <2>3, <2>4, <2>5, <2>6 DEF ForecastNext
<1>. QED  BY <1>1, <1>2, PTL DEF ForecastSpec, ForecastInv

=============================================================================
