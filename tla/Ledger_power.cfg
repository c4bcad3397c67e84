\* Power losses during appends: what is synced, what is acknowledged, what a retry
\* does; and every operation returns when the lock is fair.
CONSTANTS
  p1 = p1  p2 = p2  s = s  a = a  b = b  c = c
  Proc = {p1, p2}
  Payload = {s, a, b, c}
  Others = {s}
  Batches <- MCBatches2
  Nonblocking = {p2}
  Ops = {"append", "verify"}
  Faults = {"crash", "io", "power", "foreign"}
  Stores = {"acked"}
  MaxLen = 5
  MaxFaults = 3
SPECIFICATION FairSpec
INVARIANTS HeadsOnlyAfterSync AcknowledgedIsDurable NoSilentDuplicate
PROPERTIES EveryoneReturns NonblockingReturns
