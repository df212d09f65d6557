SPECIFICATION FairSpec
CONSTANTS
  Scenarios <- MCScenarios
  MaxLag = 2
  SampleCount = 2
INVARIANTS TypeOK CalibrationIsPressure TempInItsSlotSteady
PROPERTIES PressureIsPressure TempServed CalibrationEnds
