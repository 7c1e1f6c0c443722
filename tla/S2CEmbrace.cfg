CONSTANTS
  Performers = {p1, p2, "self"}
  MaxCalls = 3
  MaxPerforms = 4
  MaxInterrupts = 0
SPECIFICATION Spec
INVARIANT NoEmbrace
CHECK_DEADLOCK FALSE
