--------------------------- MODULE MCCalibration ---------------------------
(* Calibration with the addresses of the code and few calibrations. *)
EXTENDS Calibration
=============================================================================
