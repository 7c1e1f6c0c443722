CONSTANTS
  Calls = {c1, c2}
  Threads = {t1, t2}
  MaxTime = 3
  MaxEnters = 2
SPECIFICATION Spec
INVARIANT NoStrandedCall
CHECK_DEADLOCK FALSE
