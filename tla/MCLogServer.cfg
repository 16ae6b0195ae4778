SPECIFICATION Spec
CONSTANTS
  Clients = {c1, c2}
  Limit = 2
  Buffer = 1
  MaxSpare = 1
  MaxLog = 3
INVARIANTS
  TypeOK
  HistoryIsLast
  SnapshotKept
  InOrder
  SubscriberComplete
PROPERTIES
  LoggingProceeds
  ClosedLeaves
  LogFeedSpec
