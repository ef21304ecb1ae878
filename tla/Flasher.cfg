SPECIFICATION FairSpec
CONSTANTS
  Workers = {w1, w2}
  Images = 2
  Sectors = 2
  MaxLine = 3
  SpiMode = "DIO"
INVARIANTS TypeOK SuccessMeansWritten OneBurner
PROPERTIES FailSticks BurnEnds
