\* A first batch cut short is taken in by the next ordinary write.
CONSTANTS
  Proc = {p1, p2}
  Id = {i1, i2, i3}
  NoId = NoId
  Drafts <- MCBelief
  MaxBatch = 2
  MaxLog = 4
  MaxTorn = 1
  StartHead = FALSE
  MayAccept = FALSE
SYMMETRY MCSymmetry
SPECIFICATION Spec
INVARIANTS AllOrNothing

