\* Partial batches, some of them accepted by a person: lifecycles stay sound.
CONSTANTS
  Proc = {p1, p2}
  Id = {i1, i2, i3}
  NoId = NoId
  Drafts <- MCBeliefs
  MaxBatch = 2
  MaxLog = 4
  MaxTorn = 1
  StartHead = TRUE
  MayAccept = TRUE
SYMMETRY MCSymmetry
SPECIFICATION Spec
INVARIANTS InductiveInv CorrectionsAreAuthorized AllOrNothing
