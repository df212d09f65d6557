------------------------------ MODULE ByteFifo ------------------------------
(***************************************************************************)
(* What a transmit ring of the board promises to its callers: a queue of   *)
(* bytes to which whole packets are appended and from which the UART takes *)
(* one byte at a time, oldest first.  A packet is either completely in the *)
(* queue or not in it at all, and no byte is lost, repeated or overtaken.  *)
(***************************************************************************)
EXTENDS Naturals, Sequences

CONSTANTS
  Packets,   \* the packets a caller may hand over: a set of sequences
  Idle       \* the content of the transmit register before the first byte

VARIABLES
  queue,     \* the bytes accepted and not yet given to the UART
  thr        \* the last byte given to the UART (*pUARTx_THR)

fifoVars == <<queue, thr>>

FifoInit ==
  /\ queue = << >>
  /\ thr = Idle

(* A caller hands over a packet. *)
Put ==
  /\ \E p \in Packets : queue' = queue \o p
  /\ thr' = thr

(* The UART takes the oldest byte. *)
Get ==
  /\ queue # << >>
  /\ thr' = Head(queue)
  /\ queue' = Tail(queue)

FifoNext == Put \/ Get

FifoSpec == FifoInit /\ [][FifoNext]_fifoVars

(* ... and a byte that waits is taken sooner or later. *)
GetFairness == WF_fifoVars(Get)
=============================================================================
