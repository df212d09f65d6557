---------------------------- MODULE MCSpO2UartTx ----------------------------
(* A ring of four slots: packets of every length that fits, so that the    *)
(* ring fills, SendBuf waits and the indices wrap at every phase.          *)
EXTENDS SpO2UartTx

MCPackets == { <<1>>, <<1, 2>>, <<2, 1, 1>>, <<1, 2, 2>> }
=============================================================================
