------------------------- MODULE Stm32UpdateProofs -------------------------
(***************************************************************************)
(* Proofs about the update of the STM32, for images of any length, pages   *)
(* of any size, packet numbers that wrap at any value from two on, and any *)
(* number of lost packets, failed transactions and resets: a packet that   *)
(* was counted is in the flash, and the host ends over a whole image, as   *)
(* long as no packet was programmed twice into the same page.              *)
(*                                                                         *)
(* The invariant has three parts.  Dialogue is what stop-and-wait gives:   *)
(* which packets can be on the line in each state of the host.  InStep is  *)
(* why an eight-bit number is enough: the DSP has counted the chunk the    *)
(* host is sending, or all before it, and consecutive numbers differ.      *)
(* Programmed says what the flash holds, and what an op_result that nobody *)
(* has read yet stands for.                                                *)
(***************************************************************************)
EXTENDS Stm32Update, TLAPS

(* A write that is lost without an error, while the poll of the limit sets *)
(* op_result, would be acknowledged: what is said of the flash leaves this *)
(* out.                                                                    *)
PollIsReported ==
  \A s \in Situations : ~ (s.chIsProtectVerify /\ "silent" \in s.faults)

(* The packets that can be on the line. *)
Dialogue ==
  /\ hostState = "TAG" => wire.type \in {"none", "TAG", "READY"}
  /\ hostState = "SOL" => wire.type \in {"none", "SOL", "ACK"}
  /\ hostState = "SOD" => wire.type \in {"none", "SOD", "ACK", "RESEND"}
  /\ hostState = "EOT" => wire.type \in {"none", "EOT", "NAK"}
  /\ hostState = "CA" => wire.type \in {"none", "CA", "ACK"}
  /\ hostState = "done" => wire.type = "none"
  /\ wire.type = "SOD" => wire = Data(hostNext)
  /\ wire.type = "RESEND" => wire.n = data_number

(* Where the DSP is, compared with the host. *)
InStep ==
  /\ wire.type = "READY" => wFlashAddr = 0
  /\ hostState = "SOL" => wFlashAddr = 0 /\ (wire.type = "ACK" => data_number = 1)
  /\ hostState = "SOD" =>
       /\ data_number = Number(wFlashAddr + 1)
       /\ wFlashAddr \in {hostNext - 1, hostNext}
       /\ wire.type = "ACK" => wFlashAddr = hostNext
  /\ hostState \in {"EOT", "done"} => wFlashAddr = Chunks

(* What is in the flash. *)
Programmed ==
  /\ PGERR => repeated
  /\ PollIsReported /\ ~ repeated => AckedIsWritten
  /\ PollIsReported /\ ~ repeated /\ op_result = 1 /\ ~ situation.chIsProtectVerify =>
       wFlashAddr < Chunks /\ flash[wFlashAddr + 1] = wFlashAddr + 1

IInv == TypeOK /\ Dialogue /\ InStep /\ Programmed

-----------------------------------------------------------------------------
(* The remainder of a multiple and a digit is the digit. *)
LEMMA Remainder ==
  ASSUME NEW m \in Nat, NEW q \in Int, NEW r \in 0 .. NumberMod - 1, m = NumberMod * q + r
  PROVE  m % NumberMod = r
  BY UpdateAssumption

(* The number after n is the successor of Number(n), and 0 after the last  *)
(* one: two consecutive numbers differ, and the DSP, which counts from the *)
(* number it has, counts like the host.                                    *)
LEMMA NumberNext ==
  ASSUME NEW n \in Nat
  PROVE  /\ Number(n) \in 0 .. NumberMod - 1
         /\ Number(n + 1) = (Number(n) + 1) % NumberMod
         /\ Number(n + 1) # Number(n)
<1> DEFINE q == n \div NumberMod
           r == n % NumberMod
<1>1. NumberMod \in Nat /\ NumberMod > 1
  BY UpdateAssumption
<1>2. n = NumberMod * q + r /\ q \in Int /\ r \in 0 .. NumberMod - 1
  BY <1>1
<1>3. Number(n) = r /\ Number(n + 1) = (n + 1) % NumberMod
  BY DEF Number
<1> HIDE DEF q, r
<1>4. CASE r = NumberMod - 1
  <2>1. n + 1 = NumberMod * (q + 1) + 0
    BY <1>1, <1>2, <1>4
  <2>2. (n + 1) % NumberMod = 0
    BY <1>1, <1>2, <2>1, Remainder
  <2>3. (r + 1) % NumberMod = 0
    BY <1>1, <1>4
  <2> QED
    BY <1>1, <1>2, <1>3, <1>4, <2>2, <2>3
<1>5. CASE r # NumberMod - 1
  <2>1. n + 1 = NumberMod * q + (r + 1)
    BY <1>1, <1>2
  <2>2. (n + 1) % NumberMod = r + 1
    BY <1>1, <1>2, <1>5, <2>1, Remainder
  <2>3. (r + 1) % NumberMod = r + 1
    BY <1>1, <1>2, <1>5
  <2> QED
    BY <1>1, <1>2, <1>3, <2>2, <2>3
<1> QED
  BY <1>4, <1>5

(* The page that a write erases holds nothing that was written before it. *)
LEMMA ErasedPageIsAhead ==
  ASSUME NEW address \in Nat, NEW i \in Nat, i < address, Erases(address)
  PROVE  PageOf(i) # PageOf(address)
  BY UpdateAssumption DEF Erases, PageOf

-----------------------------------------------------------------------------
(* The Boolean variables apart, since they need another prover. *)
Flags ==
  /\ g_bTryLoopRun \in BOOLEAN
  /\ PGERR \in BOOLEAN
  /\ repeated \in BOOLEAN

Types == {"none", "TAG", "SOL", "SOD", "EOT", "CA", "READY", "ACK", "NAK", "RESEND"}
Wires == [type : Types, n : 0 .. NumberMod - 1, chunk : 0 .. Chunks]

OtherTypes ==
  /\ situation \in Situations
  /\ hostState \in {"TAG", "SOL", "SOD", "EOT", "CA", "done"}
  /\ hostNext \in 1 .. Chunks
  /\ strikes \in 0 .. MaxStrikes
  /\ wire \in Wires
  /\ data_number \in 0 .. NumberMod - 1
  /\ wFlashAddr \in 0 .. Chunks
  /\ mode \in {"app", "boot", "try", "dead"}
  /\ op_result \in {0, 1}
  /\ flash \in [1 .. Chunks -> 0 .. Chunks + 1]
  /\ faults \in 0 .. MaxFaults /\ resets \in 0 .. MaxResets

(* The two parts together are TypeOK, before and after a step. *)
LEMMA TypeParts ==
  /\ TypeOK <=> Flags /\ OtherTypes
  /\ TypeOK' <=> Flags' /\ OtherTypes'
BY DEF TypeOK, Flags, OtherTypes, Wires, Types

(* Packets are well formed. *)
LEMMA PacketTypes ==
  /\ \A type \in Types : Packet(type) \in Wires /\ Packet(type).type = type
  /\ Idle \in Wires /\ Idle.type = "none"
  BY UpdateAssumption DEF Packet, Idle, Wires, Types

(* A data packet carries the number of its chunk. *)
LEMMA DataTypes ==
  ASSUME NEW chunk \in 1 .. Chunks
  PROVE  /\ Data(chunk) \in Wires
         /\ Data(chunk).type = "SOD" /\ Data(chunk).n = Number(chunk) /\ Data(chunk).chunk = chunk
  BY NumberNext, UpdateAssumption DEF Data, Wires, Types

(* A request carries the number the DSP expects. *)
LEMMA ResendTypes ==
  ASSUME NEW number \in 0 .. NumberMod - 1
  PROVE  /\ Resend(number) \in Wires
         /\ Resend(number).type = "RESEND" /\ Resend(number).n = number
  BY UpdateAssumption DEF Resend, Wires, Types

(* A step that leaves the flash, op_result and the address alone. *)
LEMMA ProgrammedKept ==
  ASSUME Programmed, UNCHANGED <<situation, wFlashAddr, op_result, cells>>
  PROVE  Programmed'
  BY DEF Programmed, AckedIsWritten, cells

(* A failed transaction is counted within its bound. *)
LEMMA FaultCounted ==
  ASSUME OtherTypes, NEW kind, Fault(kind)
  PROVE  faults' \in 0 .. MaxFaults
  BY UpdateAssumption DEF OtherTypes, Fault

-----------------------------------------------------------------------------
(* The update has not begun. *)
LEMMA InitIInv == Init => IInv
<1> SUFFICES ASSUME Init PROVE IInv
  OBVIOUS
<1>1. Flags
  BY DEF Init, Flags
<1>2. OtherTypes
  BY PacketTypes, UpdateAssumption DEF Init, OtherTypes, Old
<1>3. Dialogue /\ InStep
  BY PacketTypes, UpdateAssumption DEF Init, Dialogue, InStep
<1>4. Programmed
  BY UpdateAssumption DEF Init, Programmed, AckedIsWritten
<1> QED
  BY <1>1, <1>2, <1>3, <1>4, TypeParts DEF IInv

(* The host repeats what it waits for. *)
LEMMA HostSendIInv == ASSUME IInv, HostSend PROVE IInv'
<1>1. /\ OtherTypes /\ Flags /\ wire = Idle
      /\ hostState \in {"TAG", "SOL", "SOD", "EOT", "CA"}
      /\ wire' = IF hostState = "SOD" THEN Data(hostNext) ELSE Packet(hostState)
      /\ UNCHANGED <<situation, host, dsp, stm, faults, resets>>
  BY TypeParts DEF IInv, HostSend, OtherTypes
<1>2. Flags'
  BY <1>1 DEF Flags, stm, cells
<1>3. OtherTypes'
  <2>1. wire' \in Wires
    BY <1>1, PacketTypes, DataTypes DEF OtherTypes, Types
  <2> QED
    BY <1>1, <2>1 DEF OtherTypes, host, dsp, stm, cells
<1>4. Dialogue' /\ InStep'
  <2>1. CASE hostState = "SOD"
    <3>1. wire' = Data(hostNext) /\ wire'.type = "SOD"
      BY <1>1, <2>1, DataTypes DEF OtherTypes
    <3> QED
      BY <1>1, <2>1, <3>1 DEF IInv, Dialogue, InStep, host, dsp
  <2>2. CASE hostState # "SOD"
    <3>1. wire'.type = hostState
      BY <1>1, <2>2, PacketTypes DEF Types
    <3> QED
      BY <1>1, <2>2, <3>1 DEF IInv, Dialogue, InStep, host, dsp
  <2> QED
    BY <2>1, <2>2
<1>5. Programmed'
  BY <1>1, ProgrammedKept DEF IInv, dsp, stm
<1> QED
  BY <1>2, <1>3, <1>4, <1>5, TypeParts DEF IInv

(* The host goes on only when the DSP has: an acknowledgement, or a        *)
(* request for another number, means that its chunk was counted.           *)
LEMMA HostReceiveIInv == ASSUME IInv, HostReceive PROVE IInv'
<1>1. /\ OtherTypes /\ Flags /\ wire' = Idle
      /\ UNCHANGED <<situation, dsp, stm, faults, resets>>
  BY TypeParts DEF IInv, HostReceive
<1>2. Flags'
  BY <1>1 DEF Flags, stm, cells
<1>3. Programmed'
  BY <1>1, ProgrammedKept DEF IInv, dsp, stm
<1>4. /\ hostState' \in {"TAG", "SOL", "SOD", "EOT", "CA", "done"}
      /\ hostNext' \in 1 .. Chunks
      /\ strikes' \in 0 .. MaxStrikes
  BY <1>1, UpdateAssumption DEF HostReceive, OtherTypes, Goto, NextChunk, AskedAgain
<1>5. OtherTypes'
  BY <1>1, <1>4, PacketTypes DEF OtherTypes, dsp, stm, cells
<1>6. Dialogue'
  BY <1>1, <1>4, PacketTypes, UpdateAssumption DEF Dialogue
<1>7. /\ wire'.type = "none" /\ wFlashAddr' = wFlashAddr /\ data_number' = data_number
      /\ Chunks \in Nat /\ hostNext \in 1 .. Chunks
  BY <1>1, PacketTypes, UpdateAssumption DEF dsp, OtherTypes
<1>8. InStep'
  <2>1. CASE wire.type = "READY" /\ hostState = "TAG" /\ Goto("SOL", 1)
    BY <1>7, <2>1 DEF IInv, InStep, Goto
  <2>2. CASE wire.type = "ACK" /\ hostState = "SOL" /\ Goto("SOD", 1)
    <3>1. Number(1) = 1
      BY UpdateAssumption DEF Number
    <3> QED
      BY <1>7, <2>2, <3>1 DEF IInv, InStep, Goto
  <2>3. CASE hostState = "SOD" /\ wFlashAddr = hostNext /\ NextChunk
    BY <1>7, <2>3 DEF IInv, InStep, Goto, NextChunk
  <2>4. CASE wire.type = "ACK" /\ hostState = "SOD" /\ NextChunk
    BY <2>3, <2>4 DEF IInv, InStep
  <2>5. CASE wire.type = "ACK" /\ hostState = "CA" /\ Goto("TAG", 1)
    BY <1>7, <2>5 DEF IInv, InStep, Goto
  <2>6. CASE wire.type = "NAK" /\ hostState = "EOT" /\ Goto("done", hostNext)
    BY <1>7, <2>6 DEF IInv, InStep, Goto
  <2>7. CASE wire.type = "RESEND" /\ hostState = "SOD" /\ AskedAgain(wire.n)
    <3>1. CASE wire.n # Number(hostNext) /\ NextChunk
      <4>1. wFlashAddr = hostNext
        BY <1>7, <2>7, <3>1 DEF IInv, Dialogue, InStep
      <4> QED
        BY <2>3, <2>7, <3>1, <4>1
    <3>2. CASE UNCHANGED <<hostState, hostNext>>
      BY <1>7, <2>7, <3>2 DEF IInv, InStep
    <3>3. CASE Goto("CA", 1)
      BY <1>7, <3>3 DEF IInv, InStep, Goto
    <3> QED
      BY <2>7, <3>1, <3>2, <3>3 DEF AskedAgain
  <2> QED
    BY <2>1, <2>2, <2>4, <2>5, <2>6, <2>7 DEF HostReceive
<1> QED
  BY <1>2, <1>3, <1>5, <1>6, <1>8, TypeParts DEF IInv

(* A lost packet leaves the line idle. *)
LEMMA LoseIInv == ASSUME IInv, Lose PROVE IInv'
<1>1. /\ OtherTypes /\ Flags /\ wire' = Idle /\ faults' \in 0 .. MaxFaults
      /\ UNCHANGED <<situation, host, dsp, stm, resets>>
  BY TypeParts, FaultCounted DEF IInv, Lose
<1>2. Flags'
  BY <1>1 DEF Flags, stm, cells
<1>3. OtherTypes'
  <2>1. wire' \in Wires
    BY <1>1, PacketTypes, DataTypes DEF OtherTypes, Types
  <2> QED
    BY <1>1, <2>1 DEF OtherTypes, host, dsp, stm, cells
<1>4. Dialogue' /\ InStep'
  BY <1>1, PacketTypes, UpdateAssumption DEF IInv, OtherTypes, Dialogue, InStep, host, dsp
<1>5. Programmed'
  BY <1>1, ProgrammedKept DEF IInv, dsp, stm
<1> QED
  BY <1>2, <1>3, <1>4, <1>5, TypeParts DEF IInv

-----------------------------------------------------------------------------
(* A reset forgets an op_result that was not read, and keeps the flash. *)
LEMMA RestartIInv == ASSUME IInv, Reset \/ WatchdogReset PROVE IInv'
<1>1. /\ OtherTypes /\ Flags /\ resets' \in 0 .. MaxResets
      /\ mode' = "try" /\ g_bTryLoopRun' = FALSE /\ op_result' = 0 /\ PGERR' = FALSE
      /\ UNCHANGED <<situation, host, wire, dsp, flash, repeated, faults>>
  <2>1. OtherTypes /\ Flags
    BY TypeParts DEF IInv
  <2>2. resets' \in 0 .. MaxResets
    BY <2>1, UpdateAssumption DEF OtherTypes, Reset, WatchdogReset
  <2> QED
    BY <2>1, <2>2 DEF Reset, WatchdogReset, Restart
<1>2. Flags'
  BY <1>1 DEF Flags
<1>3. OtherTypes'
  BY <1>1 DEF OtherTypes, host, dsp
<1>4. Dialogue' /\ InStep'
  BY <1>1 DEF IInv, Dialogue, InStep, host, dsp
<1>5. Programmed'
  BY <1>1 DEF IInv, Programmed, AckedIsWritten, dsp
<1> QED
  BY <1>2, <1>3, <1>4, <1>5, TypeParts DEF IInv

(* Starting the program writes nothing. *)
LEMMA TryLoopIInv == ASSUME IInv, iap_i2c_try_loop_ends PROVE IInv'
<1>1. /\ OtherTypes /\ Flags /\ mode' \in {"app", "dead"}
      /\ UNCHANGED <<situation, host, wire, dsp, g_bTryLoopRun, op_result, cells, faults, resets>>
  BY TypeParts DEF IInv, iap_i2c_try_loop_ends
<1>2. Flags'
  BY <1>1 DEF Flags, cells
<1>3. OtherTypes'
  BY <1>1 DEF OtherTypes, host, dsp, cells
<1>4. Dialogue' /\ InStep'
  BY <1>1 DEF IInv, Dialogue, InStep, host, dsp
<1>5. Programmed'
  BY <1>1, ProgrammedKept DEF IInv, dsp
<1> QED
  BY <1>2, <1>3, <1>4, <1>5, TypeParts DEF IInv

(* A new start: an op_result that stands for chunk k stands for chunk 1    *)
(* too, since the chunks before k were written.                            *)
LEMMA OnTagIInv == ASSUME IInv, OnTag PROVE IInv'
<1> DEFINE Ready == /\ mode' \in {"boot", "try"}
                    /\ op_result' \in {0, op_result}
                    /\ PGERR' \in {FALSE, PGERR}
                    /\ g_bTryLoopRun' = TRUE
                    /\ wFlashAddr' = 0
                    /\ wire' = Packet("READY")
                    /\ faults' = faults
           NoAnswer == /\ faults' \in 0 .. MaxFaults
                       /\ wire' = Idle
                       /\ UNCHANGED <<mode, op_result, PGERR, g_bTryLoopRun, wFlashAddr>>
<1>1. /\ OtherTypes /\ Flags /\ hostState = "TAG"
      /\ UNCHANGED <<situation, host, data_number, flash, repeated, resets>>
  BY TypeParts DEF IInv, OnTag, Dialogue, OtherTypes
<1>2. CASE Ready
  <2>1. Flags'
    BY <1>1, <1>2 DEF Flags
  <2>2. wire' \in Wires /\ wire'.type = "READY"
    BY <1>2, PacketTypes DEF Types
  <2>3. OtherTypes'
    BY <1>1, <1>2, <2>2, UpdateAssumption DEF OtherTypes, host
  <2>4. Dialogue' /\ InStep'
    BY <1>1, <1>2, <2>2 DEF IInv, Dialogue, InStep, host
  <2>5. Programmed'
    <3>1. PGERR' => repeated'
      BY <1>1, <1>2 DEF IInv, Programmed
    <3>2. PollIsReported /\ ~ repeated' => AckedIsWritten'
      BY <1>2 DEF AckedIsWritten
    <3>3. PollIsReported /\ ~ repeated' /\ op_result' = 1 /\ ~ situation'.chIsProtectVerify =>
            wFlashAddr' < Chunks /\ flash'[wFlashAddr' + 1] = wFlashAddr' + 1
      <4> SUFFICES ASSUME PollIsReported, ~ repeated, op_result = 1, ~ situation.chIsProtectVerify
                   PROVE  0 < Chunks /\ flash[1] = 1
        BY <1>1, <1>2
      <4>1. /\ wFlashAddr \in 0 .. Chunks
            /\ flash[wFlashAddr + 1] = wFlashAddr + 1
            /\ \A i \in 1 .. wFlashAddr : flash[i] = i
        BY <1>1 DEF IInv, Programmed, AckedIsWritten, OtherTypes
      <4>2. CASE wFlashAddr = 0
        BY <4>1, <4>2, UpdateAssumption
      <4>3. CASE wFlashAddr # 0
        BY <4>1, <4>3, UpdateAssumption
      <4> QED
        BY <4>2, <4>3
    <3> QED
      BY <3>1, <3>2, <3>3 DEF Programmed
  <2> QED
    BY <2>1, <2>3, <2>4, <2>5, TypeParts DEF IInv
<1>3. CASE NoAnswer
  <2>1. Flags'
    BY <1>1, <1>3 DEF Flags
  <2>2. OtherTypes'
    BY <1>1, <1>3, PacketTypes DEF OtherTypes, host
  <2>3. Dialogue' /\ InStep'
    BY <1>1, <1>3, PacketTypes DEF IInv, Dialogue, InStep, host
  <2>4. Programmed'
    BY <1>1, <1>3, ProgrammedKept DEF IInv, cells
  <2> QED
    BY <2>1, <2>2, <2>3, <2>4, TypeParts DEF IInv
<1>4. Ready \/ NoAnswer
  <2>1. CASE /\ mode # "dead"
             /\ mode' = IF mode = "app" THEN "boot" ELSE mode
             /\ op_result' = IF mode = "app" THEN 0 ELSE op_result
             /\ PGERR' = IF mode = "app" THEN FALSE ELSE PGERR
             /\ g_bTryLoopRun' = TRUE
             /\ wFlashAddr' = 0
             /\ wire' = Packet("READY")
             /\ faults' = faults
    BY <1>1, <2>1 DEF OtherTypes
  <2>2. CASE /\ \/ mode = "dead" /\ faults' = faults
                \/ mode = "app" /\ Fault("write")
             /\ wire' = Idle
             /\ UNCHANGED <<mode, op_result, PGERR, g_bTryLoopRun, wFlashAddr>>
    BY <1>1, <2>2, FaultCounted DEF OtherTypes
  <2> QED
    BY <2>1, <2>2 DEF OnTag, Answer
<1> QED
  BY <1>2, <1>3, <1>4

(* The length: the DSP expects the first packet. *)
LEMMA OnLengthIInv == ASSUME IInv, OnLength PROVE IInv'
<1>1. /\ OtherTypes /\ Flags /\ hostState = "SOL"
      /\ data_number' = 1 /\ wire' = Packet("ACK")
      /\ UNCHANGED <<situation, host, wFlashAddr, stm, faults, resets>>
  BY TypeParts DEF IInv, OnLength, Answer, Dialogue, OtherTypes
<1>2. wire' \in Wires /\ wire'.type = "ACK"
  BY <1>1, PacketTypes DEF Types
<1>3. Flags'
  BY <1>1 DEF Flags, stm, cells
<1>4. OtherTypes'
  BY <1>1, <1>2, UpdateAssumption DEF OtherTypes, host, stm, cells
<1>5. Dialogue' /\ InStep'
  BY <1>1, <1>2 DEF IInv, Dialogue, InStep, host
<1>6. Programmed'
  BY <1>1, ProgrammedKept DEF IInv, stm
<1> QED
  BY <1>3, <1>4, <1>5, <1>6, TypeParts DEF IInv

(* The answers to EOT and CA. *)
LEMMA OnEndIInv == ASSUME IInv, OnEnd PROVE IInv'
<1>1. /\ OtherTypes /\ Flags /\ hostState = wire.type /\ wire.type \in {"EOT", "CA"}
      /\ wire' = Packet(IF wire.type = "EOT" THEN "NAK" ELSE "ACK")
      /\ UNCHANGED <<situation, host, dsp, stm, faults, resets>>
  BY TypeParts DEF IInv, OnEnd, Answer, Dialogue, OtherTypes
<1>2. wire' \in Wires /\ wire'.type = IF wire.type = "EOT" THEN "NAK" ELSE "ACK"
  BY <1>1, PacketTypes DEF Types
<1>3. Flags'
  BY <1>1 DEF Flags, stm, cells
<1>4. OtherTypes'
  BY <1>1, <1>2 DEF OtherTypes, host, dsp, stm, cells
<1>5. Dialogue' /\ InStep'
  BY <1>1, <1>2 DEF IInv, Dialogue, InStep, host, dsp
<1>6. Programmed'
  BY <1>1, ProgrammedKept DEF IInv, dsp, stm
<1> QED
  BY <1>3, <1>4, <1>5, <1>6, TypeParts DEF IInv

(* A packet with another number is asked for again. *)
LEMMA OnWrongNumberIInv == ASSUME IInv, OnWrongNumber PROVE IInv'
<1>1. /\ OtherTypes /\ Flags /\ hostState = "SOD"
      /\ wire' = Resend(data_number)
      /\ UNCHANGED <<situation, host, dsp, stm, faults, resets>>
  BY TypeParts DEF IInv, OnWrongNumber, AskForExpected, Refuse, Answer, Dialogue, OtherTypes
<1>2. wire' \in Wires /\ wire'.type = "RESEND" /\ wire'.n = data_number
  BY <1>1, ResendTypes DEF OtherTypes
<1>3. Flags'
  BY <1>1 DEF Flags, stm, cells
<1>4. OtherTypes'
  BY <1>1, <1>2 DEF OtherTypes, host, dsp, stm, cells
<1>5. Dialogue' /\ InStep'
  BY <1>1, <1>2 DEF IInv, Dialogue, InStep, host, dsp
<1>6. Programmed'
  BY <1>1, ProgrammedKept DEF IInv, dsp, stm
<1> QED
  BY <1>3, <1>4, <1>5, <1>6, TypeParts DEF IInv

(* The poll of the limit sets op_result, or ends in a reset. *)
LEMMA PollLimitIInv == ASSUME IInv, PollLimit PROVE IInv'
<1>1. CASE Reset
  BY <1>1, RestartIInv
<1>2. CASE /\ op_result' = 1
           /\ UNCHANGED <<situation, host, wire, dsp, mode, g_bTryLoopRun, cells, faults, resets>>
  <2>1. OtherTypes /\ Flags /\ situation.chIsProtectVerify
    BY TypeParts DEF IInv, PollLimit
  <2>2. Flags'
    BY <1>2, <2>1 DEF Flags, cells
  <2>3. OtherTypes'
    BY <1>2, <2>1 DEF OtherTypes, host, dsp, cells
  <2>4. Dialogue' /\ InStep'
    BY <1>2 DEF IInv, Dialogue, InStep, host, dsp
  <2>5. Programmed'
    BY <1>2, <2>1 DEF IInv, Programmed, AckedIsWritten, dsp, cells
  <2> QED
    BY <2>2, <2>3, <2>4, <2>5, TypeParts DEF IInv
<1> QED
  BY <1>1, <1>2 DEF PollLimit

-----------------------------------------------------------------------------
(* Programming the next chunk: when no cell was in the way it is there     *)
(* afterwards, and the page erased for it held none of those before it.    *)
LEMMA WriteMemory ==
  ASSUME OtherTypes, Flags, Programmed,
         wFlashAddr < Chunks, Write_Memory_Command(wFlashAddr, wFlashAddr + 1)
  PROVE  /\ flash' \in [1 .. Chunks -> 0 .. Chunks + 1]
         /\ PGERR' \in BOOLEAN /\ repeated' \in BOOLEAN
         /\ PGERR' => repeated'
         /\ PollIsReported /\ ~ repeated' => \A i \in 1 .. wFlashAddr + 1 : flash'[i] = i
<1> DEFINE erased(i) == Erases(wFlashAddr) /\ PageOf(i - 1) = PageOf(wFlashAddr)
           fresh == [i \in 1 .. Chunks |-> IF erased(i) THEN Blank ELSE flash[i]]
           error == PGERR /\ ~ Erases(wFlashAddr)
           blank == fresh[wFlashAddr + 1] = Blank
<1>1. /\ flash' = IF blank /\ ~ error
                  THEN [fresh EXCEPT ![wFlashAddr + 1] = wFlashAddr + 1] ELSE fresh
      /\ PGERR' = (error \/ ~ blank)
      /\ repeated' = (repeated \/ ~ blank)
  BY Zenon DEF Write_Memory_Command
<1>2. /\ Chunks \in Nat /\ wFlashAddr \in Nat /\ wFlashAddr + 1 \in 1 .. Chunks
      /\ flash \in [1 .. Chunks -> 0 .. Chunks + 1]
  BY UpdateAssumption DEF OtherTypes
<1>3. fresh \in [1 .. Chunks -> 0 .. Chunks + 1]
  BY <1>2 DEF Blank
<1>4. ASSUME PollIsReported, ~ repeated', NEW i \in 1 .. wFlashAddr
      PROVE  fresh[i] = i
  <2>1. ~ repeated
    BY <1>1, <1>4, Zenon
  <2>2. flash[i] = i /\ i \in 1 .. Chunks
    BY <1>2, <1>4, <2>1 DEF Programmed, AckedIsWritten
  <2>3. i - 1 \in Nat /\ i - 1 < wFlashAddr
    BY <1>2
  <2>4. ~ erased(i)
    BY <1>2, <2>3, ErasedPageIsAhead
  <2> QED
    BY <2>2, <2>4
<1>5. ~ repeated' => blank /\ ~ error
  <2>1. ~ repeated' => ~ repeated /\ blank
    BY <1>1, Zenon
  <2> QED
    BY <2>1 DEF Programmed
<1>6. PGERR' => repeated'
  <2>1. error => repeated
    BY DEF Programmed
  <2> QED
    BY <1>1, <2>1, Zenon
<1>7. PGERR' \in BOOLEAN /\ repeated' \in BOOLEAN
  BY <1>1, Zenon
<1> HIDE DEF fresh, blank, error
<1>8. flash' \in [1 .. Chunks -> 0 .. Chunks + 1]
  BY <1>1, <1>2, <1>3
<1>9. PollIsReported /\ ~ repeated' => \A i \in 1 .. wFlashAddr + 1 : flash'[i] = i
  BY <1>1, <1>2, <1>3, <1>4, <1>5
<1> QED
  BY <1>6, <1>7, <1>8, <1>9

(* The packet with the expected number is the chunk the host is sending    *)
(* and the DSP has not counted: a repeated chunk has another number.       *)
LEMMA ExpectedIsNext ==
  ASSUME IInv, wire.type = "SOD", wire.n = data_number
  PROVE  /\ hostState = "SOD" /\ wFlashAddr = hostNext - 1
         /\ wFlashAddr \in Nat /\ wFlashAddr < Chunks
         /\ wire.chunk = wFlashAddr + 1
<1>1. OtherTypes /\ hostNext \in 1 .. Chunks /\ Chunks \in Nat
  BY TypeParts, UpdateAssumption DEF IInv, OtherTypes
<1>2. hostState = "SOD" /\ wire = Data(hostNext)
  BY <1>1 DEF IInv, Dialogue, OtherTypes
<1>3. wire.n = Number(hostNext) /\ wire.chunk = hostNext
  BY <1>1, <1>2, DataTypes
<1>4. data_number = Number(wFlashAddr + 1) /\ wFlashAddr \in {hostNext - 1, hostNext}
  BY <1>2 DEF IInv, InStep
<1>5. wFlashAddr # hostNext
  <2>1. Number(hostNext + 1) # Number(hostNext)
    BY <1>1, NumberNext
  <2> QED
    BY <1>3, <1>4, <2>1
<1> QED
  BY <1>1, <1>2, <1>3, <1>4, <1>5

(* What the DSP makes of a result: it counts the chunk, or asks for it     *)
(* again.                                                                  *)
LEMMA JudgeIInv ==
  ASSUME IInv, wire.type = "SOD", wire.n = data_number, NEW counts \in {0, 1},
         IF counts = 1 THEN Accept ELSE Refuse, UNCHANGED host
  PROVE  /\ Dialogue' /\ InStep'
         /\ wire' \in Wires /\ data_number' \in 0 .. NumberMod - 1
         /\ wFlashAddr' = wFlashAddr + counts /\ wFlashAddr' \in 0 .. Chunks
<1>1. /\ hostState = "SOD" /\ wFlashAddr = hostNext - 1
      /\ wFlashAddr \in Nat /\ wFlashAddr < Chunks /\ Chunks \in Nat
      /\ hostNext \in 1 .. Chunks
      /\ data_number \in 0 .. NumberMod - 1 /\ data_number = Number(wFlashAddr + 1)
  BY ExpectedIsNext, TypeParts, UpdateAssumption DEF IInv, OtherTypes, InStep
<1>2. CASE counts = 1
  <2>1. /\ data_number' = NextNumber /\ wFlashAddr' = wFlashAddr + 1
        /\ wire' = Packet("ACK")
    BY <1>2 DEF Accept, NextAddress, Answer
  <2>2. NextNumber = Number(wFlashAddr + 2) /\ NextNumber \in 0 .. NumberMod - 1
    <3>1. Number((wFlashAddr + 1) + 1) = NextNumber
      BY <1>1, NumberNext DEF NextNumber
    <3>2. (wFlashAddr + 1) + 1 = wFlashAddr + 2
      BY <1>1
    <3> QED
      BY <1>1, <3>1, <3>2, NumberNext
  <2>3. wire' \in Wires /\ wire'.type = "ACK"
    BY <2>1, PacketTypes DEF Types
  <2> QED
    BY <1>1, <1>2, <2>1, <2>2, <2>3 DEF Dialogue, InStep, host
<1>3. CASE counts = 0
  <2>1. UNCHANGED dsp /\ wire' = Resend(data_number)
    BY <1>3 DEF Refuse, Answer
  <2>2. wire' \in Wires /\ wire'.type = "RESEND" /\ wire'.n = data_number
    BY <1>1, <2>1, ResendTypes
  <2> QED
    BY <1>1, <1>3, <2>1, <2>2 DEF IInv, Dialogue, InStep, host, dsp
<1> QED
  BY <1>2, <1>3

(* The expected packet, in the six ways it can go. *)
LEMMA OnDataIInv == ASSUME IInv, OnData PROVE IInv'
<1>1. /\ OtherTypes /\ Flags /\ Programmed
      /\ wire.type = "SOD" /\ wire.n = data_number
      /\ wFlashAddr \in Nat /\ wFlashAddr < Chunks /\ wire.chunk = wFlashAddr + 1
      /\ UNCHANGED <<situation, host, mode, resets>>
  BY ExpectedIsNext, TypeParts DEF IInv, OnData
<1> DEFINE Step(counts) ==
             /\ IF counts = 1 THEN Accept ELSE Refuse
             /\ faults' \in 0 .. MaxFaults
             /\ op_result' \in {0, 1}
             /\ g_bTryLoopRun' \in BOOLEAN
<1>2. ASSUME NEW counts \in {0, 1}, Step(counts), Programmed',
             flash' \in [1 .. Chunks -> 0 .. Chunks + 1],
             PGERR' \in BOOLEAN, repeated' \in BOOLEAN
      PROVE  IInv'
  <2>1. Flags'
    BY <1>2 DEF Flags
  <2>2. OtherTypes'
    BY <1>1, <1>2, JudgeIInv DEF OtherTypes, host
  <2> QED
    BY <1>1, <1>2, <2>1, <2>2, JudgeIInv, TypeParts DEF IInv
<1>3. ASSUME NEW counts \in {0, 1}, Step(counts), counts = 1 => op_result' = 0,
             Write_Memory_Command(wFlashAddr, wire.chunk)
      PROVE  IInv'
  <2>1. /\ flash' \in [1 .. Chunks -> 0 .. Chunks + 1]
        /\ PGERR' \in BOOLEAN /\ repeated' \in BOOLEAN
        /\ PGERR' => repeated'
        /\ PollIsReported /\ ~ repeated' => \A i \in 1 .. wFlashAddr + 1 : flash'[i] = i
    BY <1>1, <1>3, WriteMemory
  <2>2. wFlashAddr' = wFlashAddr + counts
    BY <1>1, <1>3, JudgeIInv
  <2>3. Programmed'
    BY <1>1, <1>3, <2>1, <2>2 DEF Programmed, AckedIsWritten
  <2> QED
    BY <1>2, <1>3, <2>1, <2>3
<1>4. ASSUME Step(0), op_result' \in {0, op_result}, UNCHANGED cells
      PROVE  IInv'
  <2>1. wFlashAddr' = wFlashAddr
    BY <1>4 DEF Refuse, dsp
  <2>2. Programmed'
    BY <1>1, <1>4, <2>1 DEF Programmed, AckedIsWritten, cells
  <2> QED
    BY <1>1, <1>2, <1>4, <2>2 DEF OtherTypes, Flags, cells
<1>5. ASSUME Step(1), op_result = 1, op_result' = 0, "silent" \in situation.faults,
             UNCHANGED cells
      PROVE  IInv'
  <2>1. PollIsReported => ~ situation.chIsProtectVerify
    BY <1>1, <1>5 DEF PollIsReported, OtherTypes
  <2>2. wFlashAddr' = wFlashAddr + 1
    BY <1>1, <1>5, JudgeIInv
  <2>3. Programmed'
    BY <1>1, <1>5, <2>1, <2>2 DEF Programmed, AckedIsWritten, cells
  <2> QED
    BY <1>1, <1>2, <1>5, <2>3 DEF OtherTypes, Flags, cells
<1>6. faults \in 0 .. MaxFaults /\ op_result \in {0, 1} /\ g_bTryLoopRun \in BOOLEAN
  BY <1>1 DEF OtherTypes, Flags
<1>7. CASE /\ Write_Memory_Command(wFlashAddr, wire.chunk)
           /\ ReadResult /\ Judge(1) /\ faults' = faults
  BY <1>3, <1>6, <1>7 DEF ReadResult, Judge
<1>8. CASE /\ Fault("result") /\ Write_Memory_Command(wFlashAddr, wire.chunk)
           /\ op_result' = 1 /\ UNCHANGED g_bTryLoopRun /\ Refuse
  BY <1>1, <1>3, <1>6, <1>8, FaultCounted
<1>9. CASE /\ Fault("result") /\ Write_Memory_Command(wFlashAddr, wire.chunk)
           /\ ReadResult /\ Judge(0)
  BY <1>1, <1>3, <1>6, <1>9, FaultCounted DEF ReadResult, Judge
<1>10. CASE /\ Fault("write") /\ Refuse
            /\ UNCHANGED <<op_result, g_bTryLoopRun, cells>>
  BY <1>1, <1>4, <1>6, <1>10, FaultCounted
<1>11. CASE Fault("silent") /\ ReadResult /\ Judge(op_result) /\ UNCHANGED cells
  <2>1. faults' \in 0 .. MaxFaults /\ "silent" \in situation.faults
    BY <1>1, <1>11, FaultCounted DEF Fault
  <2>2. CASE op_result = 1
    BY <1>5, <1>11, <2>1, <2>2 DEF ReadResult, Judge
  <2>3. CASE op_result = 0
    BY <1>4, <1>11, <2>1, <2>3 DEF ReadResult, Judge
  <2> QED
    BY <1>6, <2>2, <2>3
<1>12. CASE Judge(0) /\ UNCHANGED <<op_result, g_bTryLoopRun, cells, faults>>
  BY <1>4, <1>6, <1>12 DEF Judge
<1> HIDE DEF Step
<1> QED
  BY <1>7, <1>8, <1>9, <1>10, <1>11, <1>12 DEF OnData

-----------------------------------------------------------------------------
(* Every step preserves the invariant. *)
LEMMA NextIInv == ASSUME IInv, [Next]_vars PROVE IInv'
<1>1. CASE UNCHANGED vars
  <2>1. UNCHANGED <<situation, hostState, hostNext, strikes, wire, data_number, wFlashAddr,
                    mode, g_bTryLoopRun, op_result, flash, PGERR, repeated, faults, resets>>
    BY <1>1 DEF vars, host, dsp, stm, cells
  <2> QED
    BY <2>1 DEF IInv, TypeOK, Dialogue, InStep, Programmed, AckedIsWritten
<1> QED
  BY <1>1, HostSendIInv, HostReceiveIInv, LoseIInv, RestartIInv, TryLoopIInv, OnTagIInv,
     OnLengthIInv, OnDataIInv, OnWrongNumberIInv, OnEndIInv, PollLimitIInv DEF Next

(* IInv is an invariant. *)
THEOREM UpdateInvariant == Spec => []IInv
BY InitIInv, NextIInv, PTL DEF Spec

(* TypeOK: the address never runs past the image, whatever is repeated. *)
THEOREM UpdateTypes == Spec => []TypeOK
<1>1. IInv => TypeOK
  BY DEF IInv
<1> QED
  BY <1>1, UpdateInvariant, PTL

(* AckedIsWrittenOnce: every chunk aio_stm32_UpdateHandle has counted is   *)
(* in the flash at its place.                                              *)
THEOREM CountedIsWritten == ASSUME PollIsReported PROVE Spec => []AckedIsWrittenOnce
<1>1. PollIsReported /\ IInv => AckedIsWrittenOnce
  BY DEF IInv, Programmed, AckedIsWrittenOnce
<1> QED
  BY <1>1, UpdateInvariant, PTL

(* DoneMeansFlashed: the host sends EOT, and is told the end, only over a  *)
(* complete image.                                                         *)
THEOREM EndMeansComplete == ASSUME PollIsReported PROVE Spec => []DoneMeansFlashed
<1>1. PollIsReported /\ IInv => DoneMeansFlashed
  BY DEF IInv, InStep, Programmed, AckedIsWritten, DoneMeansFlashed
<1> QED
  BY <1>1, UpdateInvariant, PTL
=============================================================================
