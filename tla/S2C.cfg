CONSTANTS
  Performers = {p1, p2, "self"}
  MaxCalls = 3
  MaxPerforms = 4
  MaxInterrupts = 1
SPECIFICATION FairSpec
INVARIANT ClientListens
INVARIANT CallInOnePlace
INVARIANT OwnReply
INVARIANT NeverStuck
PROPERTY EveryoneReturns
CHECK_DEADLOCK FALSE
