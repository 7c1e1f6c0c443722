SPECIFICATION FairSpec
CONSTANTS
  Workers = {w1}
  Impersonators = {i1}
  WaitKind = "locked"
  MaxBlocks = 2
  MaxCalls = 2
  MaxSignals = 2
  MaxS2C = 0
  MayDie = TRUE
INVARIANTS PendingCallScheduled BookkeepingSound ClientSynchronised CallConserved
PROPERTIES EveryCallAnswered DeadReleased
