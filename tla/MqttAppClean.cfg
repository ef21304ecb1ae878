SPECIFICATION PromptAppSpec
CONSTANTS
  KeepAlive = 1
  SendTimeout = 1
  ReconnectTimeout = 1
  QueueCap = 2
  UseDns = FALSE
INVARIANTS OldConnectionCleanedUp
CHECK_DEADLOCK FALSE
