SPECIFICATION Spec
CONSTANTS
  Workers = {w1, w2}
  Impersonators = {}
  WaitKind = "locked"
  MaxBlocks = 1
  MaxCalls = 2
  MaxSignals = 0
  MaxS2C = 0
  MayDie = FALSE
INVARIANTS PendingCallScheduled
CHECK_DEADLOCK FALSE
