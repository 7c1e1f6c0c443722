SPECIFICATION FairSpec
CONSTANTS
  Jobs = {j1, j2, j3}
  Runners = {r1, r2, r3, r4}
  MaxPermanent = 1
  MaxInterrupts = 1
INVARIANTS AvailableExact WakeupPerJob JobsOnce
PROPERTIES ComesToRest
