SPECIFICATION FairSpec
CONSTANTS
  KeepAlive = 1
  SendTimeout = 2
  ReconnectTimeout = 1
  QueueCap = 2
  UseDns = TRUE
INVARIANTS TypeOK LinkAgrees NoRedial PendingConnect
PROPERTIES TaskFreesNothingInUse RefusedAfterTimeout PublishedHonest QueueMoves Redials
CHECK_DEADLOCK FALSE
