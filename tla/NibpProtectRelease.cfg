SPECIFICATION FairSpec
CONSTANTS
  chIsProtectVerify = TRUE
  Disturbed = FALSE
  Calibration = FALSE
  MaxResets = 0
  MaxPatients = 0
PROPERTIES OverPressureReleased
