SPECIFICATION FairSpec
CONSTANTS
  Threads = {t1, t2, t3}
  Natives = {n1}
INVARIANTS MutualExclusion QueuedAreSuspended WaitersAccounted FreeMutexHasContender
PROPERTIES LockProgress MonitorSpec
