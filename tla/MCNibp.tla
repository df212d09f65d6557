------------------------------- MODULE MCNibp -------------------------------
(* The sessions of the blood-pressure runs. *)
EXTENDS NibpController

Session(commands, events) == [commands |-> commands, events |-> events]

(* The host's buttons and the continuous mode; the modes the monitor keeps *)
(* and restores on its own; and the emergencies.                           *)
MCSessions ==
  { Session({"START", "STOP"}, {}),
    Session({"CONTINUED"}, {}),
    Session({"CYCLE_ON", "CYCLE_OFF"}, {}),
    Session({"CYCLE_ON", "VERIFY", "VERIFY_EXIT"}, {}),
    Session({"CYCLE_ON"}, {"weak"}),
    Session({"VENIPUNCTURE", "STOP"}, {"stm32"}),
    Session({"GAS_LEAK"}, {}),
    Session({"DEBUG_START"}, {"overload"}) }

(* A session in which the pulse is weak. *)
MCWeak == { Session({"START", "STOP"}, {"weak"}) }
=============================================================================
