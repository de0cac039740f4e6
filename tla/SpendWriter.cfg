CONSTANTS
  Pods = {p1, p2}
  Requests = {"r1", "r2", "r3", "r4"}
  NumEntity = 2
  NumDaily = 1
  Charges <- ChargesMC
  MaxQueue = 2
  FlushCount = 2
  PopCount = 2
  BatchSize = 1
  Retries = 1
  MaxFaults = 1
  MaxExpiries = 1
  None = None
  Stale = Stale
SPECIFICATION Spec
INVARIANTS TypeOK ChargedOnce OneCommitter NothingVanishes
PROPERTIES KeepsLedger Drains
CONSTRAINT Followed
