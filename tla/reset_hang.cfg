SPECIFICATION FairSpec
CONSTANTS
  CNT = 2
  LastPtr = 8
  LockTime = 2
  LossInReset = TRUE
PROPERTIES Released
