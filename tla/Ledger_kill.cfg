\* Kills, full disks and foreign appends at any step, with a person accepting or resetting.
CONSTANTS
  p1 = p1  p2 = p2  s = s  a = a  b = b  c = c
  Proc = {p1, p2}
  Payload = {s, a, b, c}
  Others = {s}
  Batches <- MCBatches2
  Nonblocking = {}
  Ops = {"append", "accept", "reset", "verify"}
  Faults = {"crash", "io", "foreign", "head"}
  Stores = {"fresh", "alien"}
  MaxLen = 4
  MaxFaults = 2
SPECIFICATION Spec
INVARIANTS LedgerInv AlwaysLoadable HeadCovered NoFalseAlarm
PROPERTIES NeverLedgerUntouched AckedLog
