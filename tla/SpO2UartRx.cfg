SPECIFICATION Spec
CONSTANTS
  RxBUFSIZE = 6
  MaxBytes = 20
  Burst = 1
INVARIANTS TypeOK EmptyMeansDelivered
PROPERTIES InOrder LossOnlyWhenFull
CHECK_DEADLOCK FALSE
