----------------------------- MODULE SpO2UartRx -----------------------------
(***************************************************************************)
(* The receive half of UART0 (module_spo2_uart.c).                         *)
(*                                                                         *)
(* IVG11_SpO2_UART_ISR puts every byte of the SpO2 board into the ring and *)
(* drops the oldest one when the ring is full, by moving the reader's own  *)
(* index.  The main loop takes bytes out with SpO2_UART_GetByte and is not *)
(* protected from that: both sides write u32SpO2RxPopIndex.                *)
(*                                                                         *)
(* The indices are plain globals, so the compiler may load them in either  *)
(* order in SpO2RxGetDataLen and may keep u32SpO2RxPopIndex in a register  *)
(* or read it again each time it is named: the model allows both.  Bytes   *)
(* are numbered in the order of their arrival.                             *)
(***************************************************************************)
EXTENDS Naturals

CONSTANTS
  RxBUFSIZE,   \* SpO2_UART_COM_RxBUFSIZE
  MaxBytes,    \* bound: the bytes received in a behaviour
  Burst        \* bound: the bytes that arrive during one GetByte

ASSUME RxAssumption ==
  /\ RxBUFSIZE \in Nat \ {0, 1}
  /\ MaxBytes \in Nat
  /\ Burst \in Nat

VARIABLES
  chSpO2RxBuf, u32SpO2RxPopIndex, u32SpO2RxPushIndex,
  received,    \* number of the last byte that arrived
  delivered,   \* number of the last byte that GetByte returned
  pc,          \* where the main loop is in SpO2_UART_GetByte
  push, pop,   \* the registers it has loaded
  arrivals     \* bytes that arrived since it was entered

ring == <<chSpO2RxBuf, u32SpO2RxPopIndex, u32SpO2RxPushIndex, received>>
getByte == <<delivered, pc, push, pop>>
vars == <<ring, getByte, arrivals>>

Slot == 0 .. (RxBUFSIZE - 1)

(* Fault: the index does not wrap. *)
IncNoWrap(i) == i + 1

Inc(i) == (i + 1) % RxBUFSIZE

Init ==
  /\ chSpO2RxBuf = [i \in Slot |-> 0]
  /\ u32SpO2RxPopIndex = 0
  /\ u32SpO2RxPushIndex = 0
  /\ received = 0
  /\ delivered = 0
  /\ pc = "idle"
  /\ push = 0
  /\ pop = 0
  /\ arrivals = 0

-----------------------------------------------------------------------------
(* The interrupt: store the byte, and when the ring is full give up the    *)
(* oldest one.                                                             *)

(* Fault: an overflowing ring looks empty. *)
PopKeptOnOverflow(newPush) == u32SpO2RxPopIndex

PopAfterRx(newPush) ==
  IF u32SpO2RxPopIndex = newPush THEN Inc(u32SpO2RxPopIndex) ELSE u32SpO2RxPopIndex

RxIsr ==
  /\ received < MaxBytes
  /\ pc # "idle" => arrivals < Burst
  /\ received' = received + 1
  /\ chSpO2RxBuf' = [chSpO2RxBuf EXCEPT ![u32SpO2RxPushIndex] = received + 1]
  /\ u32SpO2RxPushIndex' = Inc(u32SpO2RxPushIndex)
  /\ u32SpO2RxPopIndex' = PopAfterRx(Inc(u32SpO2RxPushIndex))
  /\ arrivals' = IF pc = "idle" THEN 0 ELSE arrivals + 1
  /\ UNCHANGED getByte

-----------------------------------------------------------------------------
(* The main loop, in SpO2_UART_GetByte. *)

(* SpO2RxGetDataLen loads both indices, in the order the compiler chose. *)
LoadPushFirst ==
  /\ pc = "idle"
  /\ pc' = "loadPop"
  /\ push' = u32SpO2RxPushIndex
  /\ UNCHANGED <<ring, delivered, pop, arrivals>>

LoadPopFirst ==
  /\ pc = "idle"
  /\ pc' = "loadPush"
  /\ pop' = u32SpO2RxPopIndex
  /\ UNCHANGED <<ring, delivered, push, arrivals>>

LoadPopSecond ==
  /\ pc = "loadPop"
  /\ pc' = "test"
  /\ pop' = u32SpO2RxPopIndex
  /\ UNCHANGED <<ring, delivered, push, arrivals>>

LoadPushSecond ==
  /\ pc = "loadPush"
  /\ pc' = "test"
  /\ push' = u32SpO2RxPushIndex
  /\ UNCHANGED <<ring, delivered, pop, arrivals>>

(* "if(s32Len)": nothing to read. *)
NoData ==
  /\ pc = "test"
  /\ push = pop
  /\ pc' = "idle"
  /\ arrivals' = 0
  /\ UNCHANGED <<ring, delivered, push, pop>>

(* The byte at the reader's index. *)
ReadByte ==
  /\ pc = "test"
  /\ push # pop
  /\ pc' = "store"
  /\ pop' \in {pop, u32SpO2RxPopIndex}
  /\ delivered' = chSpO2RxBuf[pop']
  /\ UNCHANGED <<ring, push, arrivals>>

(* Fault: the reader's index is not moved. *)
PopStays(i) == i

PopAfterRead(i) == Inc(i)

StorePop ==
  /\ pc = "store"
  /\ \E i \in {pop, u32SpO2RxPopIndex} : u32SpO2RxPopIndex' = PopAfterRead(i)
  /\ pc' = "idle"
  /\ arrivals' = 0
  /\ UNCHANGED <<chSpO2RxBuf, u32SpO2RxPushIndex, received, delivered, push, pop>>

SpO2_UART_GetByte ==
  \/ LoadPushFirst \/ LoadPopFirst \/ LoadPopSecond \/ LoadPushSecond
  \/ NoData \/ ReadByte \/ StorePop

Next == RxIsr \/ SpO2_UART_GetByte

Spec == Init /\ [][Next]_vars

-----------------------------------------------------------------------------
TypeOK ==
  /\ chSpO2RxBuf \in [Slot -> 0 .. MaxBytes]
  /\ u32SpO2RxPopIndex \in Slot
  /\ u32SpO2RxPushIndex \in Slot
  /\ received \in 0 .. MaxBytes
  /\ delivered \in 0 .. MaxBytes
  /\ pc \in {"idle", "loadPop", "loadPush", "test", "store"}
  /\ push \in Slot
  /\ pop \in Slot
  /\ arrivals \in 0 .. Burst

(* "=0, no data" (the comment above SpO2_UART_GetByte): between two calls  *)
(* a ring that reports no data holds none, that is, the newest byte was    *)
(* delivered.                                                              *)
EmptyMeansDelivered ==
  pc = "idle" /\ u32SpO2RxPushIndex = u32SpO2RxPopIndex => delivered = received

(* Bytes are delivered in the order of their arrival, none of them twice:  *)
(* the reader never sees a slot the interrupt has reused.                  *)
InOrder == [][pc = "test" /\ pc' = "store" => delivered' > delivered]_vars

(* A byte is skipped only because the ring was full: the one that is       *)
(* delivered instead is the oldest of a full ring, or the second oldest    *)
(* when the interrupt has moved the index that GetByte then moves again.   *)
LossOnlyWhenFull ==
  [][delivered' > delivered + 1 => received - delivered' >= RxBUFSIZE - 3]_vars
=============================================================================
