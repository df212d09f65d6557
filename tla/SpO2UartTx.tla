----------------------------- MODULE SpO2UartTx -----------------------------
(***************************************************************************)
(* The transmit half of UART0, over which the DSP forwards the host's      *)
(* packets to the SpO2 board (module_spo2_uart.c).                         *)
(*                                                                         *)
(* The ring is filled by the main loop in SpO2_UART_SendBuf and emptied by *)
(* IVG11_SpO2_UART_ISR.  Nothing locks it: the interrupt may come between  *)
(* any two accesses of the main loop.  SendBuf fills the free slots with a *)
(* private index and publishes uiSpO2TxIdxEnd only when the whole packet   *)
(* is in place, so a step of the model ends wherever the interrupt could   *)
(* see a different ring.  An interrupt is one step: the handlers are       *)
(* declared with EX_INTERRUPT_HANDLER and do not nest.                     *)
(***************************************************************************)
EXTENDS Naturals, Sequences

CONSTANTS
  TxBUFSIZE,  \* SpO2_UART_COM_TxBUFSIZE
  Byte,       \* the values a char of the ring may have
  Packets,    \* the packets AIO_to_SpO2_UART may forward
  Idle        \* *pUART0_THR before the first byte

(* A packet has at least its six fixed bytes and fits the ring with the    *)
(* one slot that always stays free: 6 <= length <= 256 and 1024 slots.     *)
ASSUME TxAssumption ==
  /\ TxBUFSIZE \in Nat \ {0, 1}
  /\ Packets \subseteq Seq(Byte)
  /\ \A p \in Packets : Len(p) \in 1 .. (TxBUFSIZE - 1)

VARIABLES
  chSpO2TxBuf, uiSpO2TxIdxStart, uiSpO2TxIdxEnd,
  ETBEI,      \* the transmit-interrupt enable bit of *pUART0_IER
  THR,        \* *pUART0_THR: the last byte given to the UART
  pc,         \* where the main loop is in SpO2_UART_SendBuf
  p_chBuf, uiIdxTemp, uiLen   \* its parameter and its two locals

ring == <<chSpO2TxBuf, uiSpO2TxIdxStart, uiSpO2TxIdxEnd>>
sendBuf == <<pc, p_chBuf, uiIdxTemp, uiLen>>
vars == <<ring, ETBEI, THR, sendBuf>>

Slot == 0 .. (TxBUFSIZE - 1)

(* Fault: the wrap compares with > instead of >=. *)
IncLate(i) == IF i + 1 > TxBUFSIZE THEN 0 ELSE i + 1

(* One step around the ring: "if (++i >= size) i = 0". *)
Inc(i) == IF i + 1 >= TxBUFSIZE THEN 0 ELSE i + 1

(* Fault: the case of a reader at slot 0 is forgotten. *)
FullNoWrap(uiIdxEnd) == uiSpO2TxIdxStart = uiIdxEnd + 1

(* Fault: two slots are kept free instead of one. *)
FullEarly(uiIdxEnd) ==
  \/ Inc(uiIdxEnd) = uiSpO2TxIdxStart
  \/ Inc(Inc(uiIdxEnd)) = uiSpO2TxIdxStart

IsSpO2TxBufFull(uiIdxEnd) ==
  \/ uiSpO2TxIdxStart = 0 /\ uiIdxEnd = TxBUFSIZE - 1
  \/ uiSpO2TxIdxStart = uiIdxEnd + 1

Init ==
  /\ chSpO2TxBuf \in [Slot -> Byte]     \* not initialised by the code
  /\ uiSpO2TxIdxStart = 0
  /\ uiSpO2TxIdxEnd = 0
  /\ ETBEI = FALSE
  /\ THR = Idle
  /\ pc = "idle"
  /\ p_chBuf = << >>
  /\ uiIdxTemp = 0
  /\ uiLen = 0

-----------------------------------------------------------------------------
(* The main loop. *)

(* AIO_to_SpO2_UART forwards a packet: SendBuf is entered and takes its    *)
(* private copy of the end index.                                          *)
SendBufEnter(p) ==
  /\ pc = "idle"
  /\ pc' = "fill"
  /\ p_chBuf' = p
  /\ uiIdxTemp' = uiSpO2TxIdxEnd
  /\ uiLen' = 0
  /\ UNCHANGED <<ring, ETBEI, THR>>

(* The ring is full: keep the transmit interrupt on and look again. *)
SendBufWait ==
  /\ pc = "fill"
  /\ uiLen < Len(p_chBuf)
  /\ IsSpO2TxBufFull(uiIdxTemp)
  /\ ETBEI' = TRUE
  /\ UNCHANGED <<ring, THR, sendBuf>>

(* A slot is free: store the next byte, not yet visible to the interrupt. *)
SendBufStore ==
  /\ pc = "fill"
  /\ uiLen < Len(p_chBuf)
  /\ ~ IsSpO2TxBufFull(uiIdxTemp)
  /\ chSpO2TxBuf' = [chSpO2TxBuf EXCEPT ![uiIdxTemp] = p_chBuf[uiLen + 1]]
  /\ uiLen' = uiLen + 1
  /\ uiIdxTemp' = Inc(uiIdxTemp)
  /\ UNCHANGED <<uiSpO2TxIdxStart, uiSpO2TxIdxEnd, ETBEI, THR, pc, p_chBuf>>

(* The whole packet is stored: publish it. *)
SendBufPublish ==
  /\ pc = "fill"
  /\ uiLen = Len(p_chBuf)
  /\ uiSpO2TxIdxEnd' = uiIdxTemp
  /\ pc' = "enable"
  /\ UNCHANGED <<chSpO2TxBuf, uiSpO2TxIdxStart, ETBEI, THR, p_chBuf, uiIdxTemp, uiLen>>

(* Fault: SendBuf returns without switching the interrupt on. *)
EnableForgotten ==
  /\ pc = "enable"
  /\ pc' = "idle"
  /\ UNCHANGED <<ring, ETBEI, THR, p_chBuf, uiIdxTemp, uiLen>>

(* Switch the transmit interrupt on and return. *)
SendBufEnable ==
  /\ pc = "enable"
  /\ ETBEI' = TRUE
  /\ pc' = "idle"
  /\ UNCHANGED <<ring, THR, p_chBuf, uiIdxTemp, uiLen>>

SendBufStep == SendBufWait \/ SendBufStore \/ SendBufPublish \/ SendBufEnable

-----------------------------------------------------------------------------
(* IVG11_SpO2_UART_ISR, transmit branch (THRE set, no byte received). *)

TxIsrEmpty ==
  /\ ETBEI
  /\ uiSpO2TxIdxStart = uiSpO2TxIdxEnd
  /\ ETBEI' = FALSE
  /\ UNCHANGED <<ring, THR, sendBuf>>

TxIsrSend ==
  /\ ETBEI
  /\ uiSpO2TxIdxStart # uiSpO2TxIdxEnd
  /\ THR' = chSpO2TxBuf[uiSpO2TxIdxStart]
  /\ uiSpO2TxIdxStart' = Inc(uiSpO2TxIdxStart)
  /\ UNCHANGED <<chSpO2TxBuf, uiSpO2TxIdxEnd, ETBEI, sendBuf>>

TxIsr == TxIsrEmpty \/ TxIsrSend

Next ==
  \/ \E p \in Packets : SendBufEnter(p)
  \/ SendBufStep
  \/ TxIsr

Spec == Init /\ [][Next]_vars

(* The main loop runs on whenever it is not interrupted, and an enabled    *)
(* transmit interrupt is served each time the UART has moved a byte out.   *)
(* Which packets the host sends is up to the host.                         *)
FairSpec == Spec /\ WF_vars(SendBufStep) /\ WF_vars(TxIsr)

-----------------------------------------------------------------------------
(* Type correctness.  The indices stay in the ring even between two        *)
(* accesses of the main loop.                                              *)
TypeOK ==
  /\ chSpO2TxBuf \in [Slot -> Byte]
  /\ uiSpO2TxIdxStart \in Slot
  /\ uiSpO2TxIdxEnd \in Slot
  /\ ETBEI \in BOOLEAN
  /\ THR \in Byte \cup {Idle}
  /\ pc \in {"idle", "fill", "enable"}
  /\ p_chBuf \in Packets \cup {<< >>}
  /\ uiIdxTemp \in Slot
  /\ uiLen \in 0 .. Len(p_chBuf)
  /\ pc = "fill" => p_chBuf \in Packets

(* Bytes from slot i up to, not including, slot j. *)
Dist(i, j) == IF j >= i THEN j - i ELSE j + TxBUFSIZE - i

(* The k-th slot after slot i. *)
At(i, k) == IF i + k >= TxBUFSIZE THEN i + k - TxBUFSIZE ELSE i + k

(* The bytes published and not yet sent, oldest first. *)
Pending ==
  [k \in 1 .. Dist(uiSpO2TxIdxStart, uiSpO2TxIdxEnd)
     |-> chSpO2TxBuf[At(uiSpO2TxIdxStart, k - 1)]]

(* The ring is a queue of whole packets. *)
Fifo == INSTANCE ByteFifo WITH queue <- Pending, thr <- THR

(* IVG11_SpO2_UART_ISR takes the bytes in the order SendBuf was given      *)
(* them, never a slot SendBuf is still filling, never a byte of a packet   *)
(* that is not complete.                                                   *)
FifoRefinement == Fifo!FifoSpec

(* A byte SendBuf has published reaches the UART in the end, whatever the  *)
(* interrupt and the next SendBuf do to ETBEI meanwhile.                   *)
PublishedBytesLeave == Fifo!GetFairness

(* No lost wake-up: bytes that are published leave, even if the interrupt  *)
(* found the ring empty and switched itself off just before.  Only the     *)
(* main loop between publishing and setting ETBEI may leave the interrupt  *)
(* off with bytes in the ring.                                             *)
NoLostWakeup ==
  uiSpO2TxIdxStart # uiSpO2TxIdxEnd /\ ~ ETBEI => pc = "enable"

(* The unbounded wait in SendBuf ends: the interrupt empties what earlier  *)
(* calls published, and that is always enough for one packet.              *)
SendBufReturns == pc # "idle" ~> pc = "idle"

=============================================================================
