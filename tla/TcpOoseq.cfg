SPECIFICATION Spec
CONSTANTS
  a = a
  b = b
  Active = a
  Passive = b
  DataA = 4
  DataB = 0
  Budget <- MCBudget
  Holder = {b}
  Closer = {a}
  Mss = 1
  TcpWnd = 4
  DupThreshold = 2
  MaxRtx = 1
  SynMaxRtx = 1
  SlotsA = 0
  SlotsB = 1
  Slots <- MCSlots
  NetA = 1
  NetB = 2
  MaxNet <- MCMaxNet
INVARIANT OoseqFits
CHECK_DEADLOCK FALSE
