SPECIFICATION FairSpec
CONSTANTS
  chIsProtectVerify = TRUE
  Disturbed = TRUE
  Calibration = TRUE
  MaxResets = 1
  MaxPatients = 1
INVARIANTS TypeOK OpenValveIsOwned
PROPERTIES PumpYields LimitFollowsPatient
