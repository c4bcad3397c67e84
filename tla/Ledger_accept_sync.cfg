\* accept_tail names records that no sync covers.
CONSTANTS
  p1 = p1  p2 = p2  s = s  a = a  b = b  c = c
  Proc = {p1, p2}
  Payload = {s, a, b, c}
  Others = {s}
  Batches <- MCBatches2
  Nonblocking = {}
  Ops = {"append", "accept"}
  Faults = {"crash"}
  Stores = {"acked"}
  MaxLen = 4
  MaxFaults = 1
SPECIFICATION Spec
INVARIANTS HeadsOnlyAfterSync

