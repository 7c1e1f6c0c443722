SPECIFICATION Spec
CONSTANTS
  Workers = {w1, w2}
  Impersonators = {i1}
  WaitKind = "locked"
  MaxBlocks = 2
  MaxCalls = 3
  MaxSignals = 0
  MaxS2C = 1
  MayDie = TRUE
INVARIANTS OneRunner NoLostWakeup DeadIsTerminating ReleasedOnce CallConserved
CHECK_DEADLOCK FALSE
