SPECIFICATION FairAppSpec
CONSTANTS
  KeepAlive = 1
  SendTimeout = 1
  ReconnectTimeout = 1
  QueueCap = 6
  UseDns = TRUE
INVARIANT NoRetryOffline
PROPERTIES BackOnline
CHECK_DEADLOCK FALSE
