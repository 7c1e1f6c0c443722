CONSTANTS
  Peers = {p1}
  Monitors = {m1, m2}
  Addresses = {a1}
  Room = 1
  MaxPosts = 2
  MaxArrivals = 2
  MaxRaises = 1
SPECIFICATION FairSpec
INVARIANT NothingStranded
INVARIANT RightMonitor
PROPERTY MailboxSpec
PROPERTY EveryMessageLeaves
PROPERTY EveryEventHandled
CHECK_DEADLOCK FALSE
