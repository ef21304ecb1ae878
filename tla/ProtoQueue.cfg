SPECIFICATION FairSpec
CONSTANTS
  Messages <- MCMessages
  Size = 8
  MaxLen = 2
INVARIANTS TypeOK FramesAligned
PROPERTIES QueueSpec CallsKeepTheirWord CallsReturn
