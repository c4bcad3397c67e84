\* After an accepted partial batch recall names the wrong successor.
CONSTANTS
  Proc = {p1, p2}
  Id = {i1, i2, i3}
  NoId = NoId
  Drafts <- MCBelief
  MaxBatch = 2
  MaxLog = 5
  MaxTorn = 1
  StartHead = TRUE
  MayAccept = TRUE
SYMMETRY MCSymmetry
SPECIFICATION Spec
INVARIANTS LinksApplied

