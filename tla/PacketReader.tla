---------------------------- MODULE PacketReader ----------------------------
(***************************************************************************)
(* The packets of the host: Uart_RxPacketCheck (uart_protocol.c).          *)
(*                                                                         *)
(* The reader takes byte after byte from the receive ring.  When a byte    *)
(* does not come within 500 tries it goes on with the zero that memset     *)
(* left in the packet; a byte that does not fit is gone, whatever it was   *)
(* the beginning of.  Only the CRC decides whether the packet is executed. *)
(*                                                                         *)
(* The host is external.  It sends its commands one after the other and    *)
(* repeats one that is not answered; bytes can be lost on the line.        *)
(*                                                                         *)
(* The receive ring is that of system_uart.c: the interrupt writes at      *)
(* `end' and, when the ring is full, moves `start' on; whether it is full  *)
(* it can only tell with the help of the flag `over' ("end has wrapped and *)
(* start has not yet"), which AIO_UART_GetByte clears after it has wrapped *)
(* start.                                                                  *)
(***************************************************************************)
EXTENDS Integers, Sequences, SequencesExt, Bitwise

CONSTANTS
  Contents,     \* the commands: sequences <<PacketNum, PacketID, Length, data ...>>
  Size,         \* AIO_UART_COM_RxBUFSIZE, slots of the ring
  Preempted,    \* may the interrupt fall between the wrap of start and the
                \* clearing of the flag?
  MaxFaults     \* bound: bytes lost, tries that run out while bytes are still
                \* coming, packets sent before the last one was read

Byte == 0 .. 255

ASSUME ReaderAssumption ==
  /\ Contents \in Seq(Seq(Byte))
  /\ \A i \in 1 .. Len(Contents) :
       Len(Contents[i]) >= 3 /\ Len(Contents[i]) = 3 + Contents[i][3]
  /\ Size \in Nat \ {0, 1} /\ Preempted \in BOOLEAN
  /\ MaxFaults \in Nat

VARIABLES
  next,         \* the command the sender is at
  line,         \* the bytes of it that are still to come
  sends,        \* how often each command was sent
  buf,          \* chAIORxBuf
  start, end,   \* uiAIORxIdxStart, uiAIORxIdxEnd
  over,         \* bAIOIsOverBufLenght
  get,          \* where AIO_UART_GetByte is, the index and byte it has loaded,
                \* and whether the interrupt has hit it
  packet,       \* the bytes of the packet being read, <<>> between packets
  executed,     \* the commands executed (0: one that was never sent)
  faults        \* how many of them there were

ring == <<buf, start, end, over, get>>

vars == <<next, line, sends, ring, packet, executed, faults>>

UART_AIO_ADDR == 85     \* 0x55
UART_MCU_ADDR == 170    \* 0xAA

-----------------------------------------------------------------------------
(* crc8: eight shifts, by doubling, and what they make of a sequence. *)

XorOf == [x \in Byte |-> [y \in Byte |-> x ^^ y]]

Shift1 == [c \in Byte |-> IF c % 2 = 1 THEN XorOf[c \div 2][140] ELSE c \div 2]
Shift2 == [c \in Byte |-> Shift1[Shift1[c]]]
Shift4 == [c \in Byte |-> Shift2[Shift2[c]]]
Shift8 == [c \in Byte |-> Shift4[Shift4[c]]]

(* From the value crc, over the bytes lo .. hi, one half after the other.  *)
crc8(bytes) ==
  LET folded[crc \in Byte, lo \in 1 .. Len(bytes), hi \in 1 .. Len(bytes)] ==
        IF lo = hi THEN Shift8[XorOf[crc][bytes[lo]]]
        ELSE LET mid == (lo + hi) \div 2
             IN  folded[folded[crc, lo, mid], mid + 1, hi]
  IN  folded[0, 1, Len(bytes)]

(* What the sender puts on the line. *)
Packets ==
  [i \in 1 .. Len(Contents) |->
     <<UART_AIO_ADDR, UART_MCU_ADDR>> \o Contents[i] \o <<crc8(Contents[i])>>]

NoGet == [pc |-> "out", idx |-> 0, byte |-> 0, hit |-> FALSE]

Init ==
  /\ next = 1 /\ line = <<>> /\ sends = [i \in 1 .. Len(Contents) |-> 0]
  /\ buf = [k \in 0 .. Size - 1 |-> 0]
  /\ start = 0 /\ end = 0 /\ over = FALSE /\ get = NoGet
  /\ packet = <<>> /\ executed = <<>>
  /\ faults = 0

IsAIORxBufEmpty == end = start

(* The main loop is not in AIO_UART_GetByte and finds nothing to take. *)
NothingThere == get.pc = "out" /\ IsAIORxBufEmpty

-----------------------------------------------------------------------------
(* The sender and the line. *)

Send ==
  /\ next <= Len(Contents) /\ line = <<>>
  /\ \/ packet = <<>> /\ NothingThere /\ faults' = faults
     \/ /\ packet # <<>> \/ ~ NothingThere
        /\ faults < MaxFaults /\ faults' = faults + 1
  /\ line' = Packets[next]
  /\ sends' = [sends EXCEPT ![next] = @ + 1]
  /\ UNCHANGED <<next, ring, packet, executed>>

Wrapped(i) == IF i >= Size THEN 0 ELSE i

(* Where the reader goes on after the interrupt has stored a byte. *)
DropOldest(e, o) == IF o /\ e >= start THEN Wrapped(e + 1) ELSE start

(* IVG12_AIO_UART_ISR, one byte received.  A call of AIO_UART_GetByte is   *)
(* far shorter than the time of a byte and is hit by one at most.          *)
Arrive ==
  /\ line # <<>>
  /\ get.pc = "clear" => Preempted
  /\ ~ get.hit /\ get' = [get EXCEPT !.hit = get.pc # "out"]
  /\ LET e == Wrapped(end + 1)
         o == over \/ end + 1 >= Size
     IN  /\ end' = e /\ over' = o
         /\ start' = DropOldest(e, o)
  /\ buf' = [buf EXCEPT ![end] = Head(line)]
  /\ line' = Tail(line)
  /\ UNCHANGED <<next, sends, packet, executed, faults>>

LoseByte ==
  /\ line # <<>>
  /\ faults < MaxFaults
  /\ faults' = faults + 1
  /\ line' = Tail(line)
  /\ UNCHANGED <<next, sends, ring, packet, executed>>

-----------------------------------------------------------------------------
(* The reader. *)

(* AIO_UART_GetByte, one access to the shared variables after the other:   *)
(* the index is loaded, the byte is read ...                               *)
LoadStart ==
  /\ get.pc = "out" /\ ~ IsAIORxBufEmpty
  /\ get' = [pc |-> "store", idx |-> start, byte |-> buf[start], hit |-> FALSE]
  /\ UNCHANGED <<next, line, sends, buf, start, end, over, packet, executed, faults>>

(* ... and the index after it is stored.  (The build may read the byte     *)
(* after this store.)                                                      *)
StoreStart ==
  /\ get.pc = "store"
  /\ start' = get.idx + 1
  /\ \E byte \in {get.byte, buf[get.idx]} :
       get' = [get EXCEPT !.pc = "test", !.byte = byte]
  /\ UNCHANGED <<next, line, sends, buf, end, over, packet, executed, faults>>

(* At the end of the ring start is wrapped, *)
WrapStart ==
  /\ get.pc = "test" /\ start >= Size
  /\ start' = 0
  /\ get' = [get EXCEPT !.pc = "clear"]
  /\ UNCHANGED <<next, line, sends, buf, end, over, packet, executed, faults>>

(* Fault: the flag is not cleared. *)
StaysOver == over

Cleared == FALSE

(* The main loop calls the reader: a byte that is not the beginning of a   *)
(* packet is dropped.                                                      *)
FirstByte ==
  /\ packet = <<>>
  /\ packet' = IF get.byte = UART_AIO_ADDR THEN <<get.byte>> ELSE <<>>
  /\ UNCHANGED <<next, executed>>

(* Fault: the CRC byte is not read. *)
CompleteTooEarly(p) == Len(p) >= 5 /\ Len(p) = 5 + p[5]

(* The CRC follows the data (Length 255, for which "i <= packet.Length" is *)
(* always true, is not among the bytes sent here).                         *)
Complete(p) == Len(p) >= 6 /\ Len(p) = 6 + p[5]

Content(p) == SubSeq(p, 3, Len(p) - 1)

GoodCRC(p) == \E c \in {Content(p)} : crc8(c) = Last(p)

(* Which command that is: 0 when it was not sent. *)
IndexOf(p) ==
  IF \E i \in 1 .. Len(Contents) : sends[i] > 0 /\ Contents[i] = Content(p)
  THEN CHOOSE i \in 1 .. Len(Contents) : Contents[i] = Content(p)
  ELSE 0

(* The identifiers that onMessageHandler tells apart: SpO2 16-22, ECG and  *)
(* respiration 32-62, temperature 63, NIBP 64-79, updates 209-211, common. *)
CommandIDs ==
  {16} \union 18 .. 22 \union {32} \union 36 .. 51 \union 62 .. 73
    \union {75, 76, 77, 79} \union 209 .. 211 \union {224, 225, 228, 229}

(* A packet with another identifier is passed over.  The answer to a       *)
(* command makes the sender go on.                                         *)
Execute(p) ==
  LET known == GoodCRC(p) /\ p[4] \in CommandIDs
  IN  /\ executed' = IF known THEN Append(executed, IndexOf(p)) ELSE executed
      /\ next' = IF known /\ IndexOf(p) = next THEN next + 1 ELSE next
      /\ packet' = <<>>

(* The packet has grown: it is given up, complete, or to be continued. *)
Grown(p) ==
  \/ /\ p[2] # UART_MCU_ADDR
     /\ packet' = <<>>
     /\ UNCHANGED <<next, executed>>
  \/ /\ p[2] = UART_MCU_ADDR /\ Complete(p)
     /\ Execute(p)
  \/ /\ p[2] = UART_MCU_ADDR /\ ~ Complete(p)
     /\ packet' = p
     /\ UNCHANGED <<next, executed>>

NextByte == packet # <<>> /\ Grown(Append(packet, get.byte))

(* AIO_UART_GetByte returns, after a wrap with the flag cleared. *)
TakeByte ==
  /\ \/ get.pc = "test" /\ start < Size /\ over' = over
     \/ get.pc = "clear" /\ over' = Cleared
  /\ FirstByte \/ NextByte
  /\ get' = NoGet
  /\ UNCHANGED <<line, sends, buf, start, end, faults>>

(* Fault: the packet is not cleared, the last one shows through. *)
OldByte(k) ==
  LET i == IF executed = <<>> THEN 0 ELSE Last(executed)
  IN  IF i = 0 THEN 0 ELSE IF k > Len(Packets[i]) THEN 0 ELSE Packets[i][k]

(* What is at place k of the packet where nothing was read. *)
UnreadByte(k) == 0

(* 500 tries take about as long as a byte: they may run out while bytes    *)
(* are still coming.                                                       *)
TriesRunOut ==
  /\ packet # <<>> /\ NothingThere /\ line # <<>>
  /\ faults < MaxFaults
  /\ faults' = faults + 1
  /\ Grown(Append(packet, UnreadByte(Len(packet) + 1)))
  /\ UNCHANGED <<line, sends, ring>>

Padded(p, n) ==
  [k \in 1 .. Max({n, Len(p)}) |-> IF k <= Len(p) THEN p[k] ELSE UnreadByte(k)]

(* Nothing comes any more: the tries run out for each byte that is missing.*)
(* The sender does not send again in the milliseconds that this takes.     *)
NothingComes ==
  /\ packet # <<>> /\ NothingThere /\ line = <<>>
  /\ \E head \in {Padded(packet, 5)} :
       \E p \in {IF head[2] = UART_MCU_ADDR THEN Padded(head, 6 + head[5]) ELSE head} :
         Grown(p)
  /\ UNCHANGED <<line, sends, ring, faults>>

Reader == LoadStart \/ StoreStart \/ WrapStart \/ TakeByte \/ TriesRunOut \/ NothingComes

Next == Send \/ Arrive \/ LoseByte \/ Reader

Spec == Init /\ [][Next]_vars

(* The sender goes on sending, the line carries the bytes, and the main    *)
(* loop comes back to the reader.                                          *)
FairSpec == Spec /\ WF_vars(Send) /\ WF_vars(Arrive)
                 /\ WF_vars(Reader)

-----------------------------------------------------------------------------
(* A command is executed at most as often as it was sent, and never after  *)
(* a later one.                                                            *)
NotAgain ==
  LET real == SelectSeq(executed, LAMBDA j : j # 0)
  IN  /\ \A i \in 1 .. Len(Contents) :
           Len(SelectSeq(real, LAMBDA j : j = i)) <= sends[i]
      /\ \A k, m \in 1 .. Len(real) : k < m => real[k] <= real[m]

(* The interrupt takes bytes away from the reader only when the ring is    *)
(* full.                                                                   *)
DiscardOnlyOnOverflow ==
  [][ end' # end /\ start' # start => Wrapped(end + 1) = start ]_vars

(* Whatever was lost before, a command that is repeated is executed: the   *)
(* reader finds the beginning of a packet again.                           *)
CommandsArrive == <>(next = Len(Contents) + 1)
=============================================================================
