\* Stale handles race to correct and purge the same traces; no crash.
CONSTANTS
  Proc = {p1, p2}
  Id = {i1, i2, i3}
  NoId = NoId
  Drafts <- MCForecasts
  MaxBatch = 1
  MaxLog = 5
  MaxTorn = 0
  StartHead = FALSE
  MayAccept = FALSE
SYMMETRY MCSymmetry
SPECIFICATION Spec
INVARIANTS OneSupersession LinksApplied
  OutcomesResolveOpenPredictions IdsAreUnique
PROPERTIES StatusMoves

