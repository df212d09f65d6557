---------------------------- MODULE MCSpO2UartRx ----------------------------
(* SpO2UartRx with the constants of the .cfg files: a ring of six slots   *)
(* in place of 1024, which wraps and overflows several times.              *)
EXTENDS SpO2UartRx
=============================================================================
