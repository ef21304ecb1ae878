SPECIFICATION Spec
CONSTANTS
  a = a
  b = b
  Active = a
  Passive = b
  DataA = 3
  DataB = 0
  Budget <- MCBudget
  Holder = {b}
  Closer = {a}
  Mss = 1
  TcpWnd = 2
  DupThreshold = 2
  MaxRtx = 1
  SynMaxRtx = 1
  SlotsA = 0
  SlotsB = 1
  Slots <- MCSlots
  NetA = 1
  NetB = 2
  MaxNet <- MCMaxNet
INVARIANTS TypeOK WindowKept AppendsAtEnd StreamIntact EofIsTheEnd NothingForgotten NeverStalled
PROPERTY NoSilentEnd
CHECK_DEADLOCK FALSE
