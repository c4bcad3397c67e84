\* Lines removed or rewritten while handles are open.
CONSTANTS
  p1 = p1  p2 = p2  s = s  a = a  b = b  c = c
  Proc = {p1, p2}
  Payload = {s, a, b, c}
  Others = {s}
  Batches <- MCBatches2
  Nonblocking = {}
  Ops = {"append", "accept", "verify"}
  Faults = {"crash", "edit", "foreign"}
  Stores = {"acked"}
  MaxLen = 4
  MaxFaults = 3
SPECIFICATION Spec
INVARIANTS InductiveInv EvidenceKept PassMeansAcknowledged
