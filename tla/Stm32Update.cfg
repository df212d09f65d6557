SPECIFICATION FairSpec
CONSTANTS
  Chunks = 5
  PageChunks = 3
  NumberMod = 3
  MaxStrikes = 1
  Situations <- AnyLoss
  MaxFaults = 4
  MaxResets = 2
INVARIANTS TypeOK AckedIsWrittenOnce DoneMeansFlashed
PROPERTIES UpdateCompletes
CHECK_DEADLOCK FALSE
