SPECIFICATION FairSpec
CONSTANTS
  Contents <- MCContents
  Size = 10
  Preempted = TRUE
  MaxFaults = 0
PROPERTIES DiscardOnlyOnOverflow
CHECK_DEADLOCK FALSE
