CONSTANTS
  HighWater = 2
  Chunks = 4
SPECIFICATION FairSpec
CHECK_DEADLOCK FALSE
PROPERTY ReaderFinishes
