SPECIFICATION Spec
CONSTANTS
  a = a
  b = b
  Active = a
  Passive = b
  DataA = 4
  DataB = 0
  Budget <- MCBudget
  Holder = {}
  Closer = {a}
  Mss = 2
  TcpWnd = 8
  DupThreshold = 1
  MaxRtx = 1
  SynMaxRtx = 1
  SlotsA = 1
  SlotsB = 0
  Slots <- MCSlots
  NetA = 2
  NetB = 2
  MaxNet <- MCMaxNet
INVARIANT StreamIntact
CHECK_DEADLOCK FALSE
