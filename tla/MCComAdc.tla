------------------------------ MODULE MCComAdc ------------------------------
(* The scenarios of the common-ADC runs. *)
EXTENDS ComAdc

MCScenarios == { {"probes"}, {"late"}, {"calib", "late"}, {"calib", "blind"} }
=============================================================================
