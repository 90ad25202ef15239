SPECIFICATION FairSpec
CONSTANTS
  Recent = 2
  MaxMessages = 1
  MaxRepushes = 0
  MaxFaults = 1
PROPERTIES ReconnectsAfterDrop
CHECK_DEADLOCK FALSE
