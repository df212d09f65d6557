SPECIFICATION Spec
CONSTANTS
  Chunks = 4
  PageChunks = 3
  NumberMod = 3
  MaxStrikes = 1
  Situations <- OnlyResultLost
  MaxFaults = 1
  MaxResets = 0
INVARIANT AckedIsWritten
CHECK_DEADLOCK FALSE
