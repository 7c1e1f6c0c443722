SPECIFICATION Spec
CONSTANTS
  Permanent = {p1, p2}
  Temporary = {t1, t2, t3, t4}
  MaximumThreads = 3
  MaxPushes = 4
INVARIANTS NoStrandedWork CountExact PoolBounded
PROPERTIES EveryItemRuns DestructorReturns
