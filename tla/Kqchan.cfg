SPECIFICATION FairSpec
CONSTANTS
  MaxEvents = 3
  MaxModifies = 1
  SocketRoom = 1
INVARIANTS OneUnacknowledged KeptInOrder NoMissedNotification
PROPERTIES EventsDelivered
