SPECIFICATION FairSpec
CONSTANTS
  Contents <- MCContents
  Size = 10
  Preempted = FALSE
  MaxFaults = 2
INVARIANTS NotAgain
PROPERTIES DiscardOnlyOnOverflow CommandsArrive
CHECK_DEADLOCK FALSE
