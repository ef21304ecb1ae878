SPECIFICATION FairSpec
CONSTANTS
  Conns = {c1, c2}
  Values <- MCValues
  IdleTimeout = 1
INVARIANT StartsOnce
PROPERTIES FreshPages Reconnects
