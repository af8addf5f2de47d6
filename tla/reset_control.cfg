SPECIFICATION FairSpec
CONSTANTS
  CNT = 2
  LastPtr = 8
  LockTime = 2
  LossInReset = FALSE
INVARIANTS ModeRemembered
PROPERTIES FlashClosed BusHandover MapSwitchedInReset ResetServed LossServed Released PllRecovers
