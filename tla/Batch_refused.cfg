\* A refused batch has written its first records.
CONSTANTS
  Proc = {p1, p2}
  Id = {i1, i2, i3}
  NoId = NoId
  Drafts <- MCDrafts
  MaxBatch = 1
  MaxLog = 4
  MaxTorn = 0
  StartHead = FALSE
  MayAccept = FALSE
  Agents = {p2}
  Environment <- MCEnvironment
  Inputs <- MCInputs
SYMMETRY MCSymmetry
SPECIFICATION BatchSpec
INVARIANTS RefusedWritesNothing
