---------------------------- MODULE Stm32Update ----------------------------
(***************************************************************************)
(* The update of the STM32's program: the host sends the image in numbered *)
(* packets to the DSP (module_onboard_stm32.c, aio_stm32_UpdateHandle),    *)
(* which writes them over I2C through the boot loader of the STM32         *)
(* (booloader/aio_stm_bootloader) into its flash, reads the result back,   *)
(* and acknowledges a packet or asks for it again.                         *)
(*                                                                         *)
(* The host is external: it waits for an answer before it sends the next   *)
(* packet, repeats a packet when nothing comes back, and starts again when *)
(* the same packet has been asked for too often.  Serial packets can be    *)
(* lost, an I2C transaction can fail in several ways, and the STM32 can be *)
(* reset: its boot loader waits in Read_Memory_Command for the next        *)
(* transaction without feeding the watchdog.                               *)
(*                                                                         *)
(* The image has one chunk per packet.  A cell of the flash holds Blank,   *)
(* Old, or the number of the chunk that was programmed into it.            *)
(***************************************************************************)
EXTENDS Integers

CONSTANTS
  Chunks,              \* packets of the image
  PageChunks,          \* packets per flash page (8 in the code)
  NumberMod,           \* packet numbers are taken modulo this (256: a u8)
  MaxStrikes,          \* host: how often a packet is sent before starting again
  Situations,          \* what may go wrong: sets of faults, and the poll
  MaxFaults,           \* bound: lost packets and failed transactions
  MaxResets            \* bound: resets of the STM32

(* "packet": a packet of the serial line is lost; "write": a write over I2C *)
(* is lost and reported so; "silent": it is lost and not reported;          *)
(* "result": it arrives, but the DSP does not learn so.                     *)
FaultKinds == {"packet", "write", "silent", "result"}

(* chIsProtectVerify: NIBP_STM32_protectHandle goes on writing the limit   *)
(* of the over-pressure protection during the update.                      *)
SituationSet == [faults : SUBSET FaultKinds, chIsProtectVerify : BOOLEAN]

ASSUME UpdateAssumption ==
  /\ Chunks \in Nat \ {0}
  /\ PageChunks \in Nat \ {0}
  /\ NumberMod \in Nat /\ NumberMod > 1
  /\ MaxStrikes \in Nat \ {0}
  /\ Situations \subseteq SituationSet
  /\ MaxFaults \in Nat
  /\ MaxResets \in Nat

VARIABLES
  situation,     \* a member of Situations, never changed
  (* the host *)
  hostState,     \* what it sends, or waits for the answer to
  hostNext,      \* the chunk it is sending
  strikes,       \* how often it was asked for that chunk again
  wire,          \* the packet on the serial line, in either direction
  (* the DSP *)
  data_number,   \* the number it expects
  wFlashAddr,    \* chunks written so far
  (* the STM32 *)
  mode,          \* its program, remains of one, the boot loader, its first 5 s
  g_bTryLoopRun, \* the boot loader stays after the 5 s
  op_result,     \* what the last write came to, until it is read
  flash,
  PGERR,         \* the error flag of the flash controller
  (* history and bounds *)
  repeated,      \* was PGERR ever set?
  faults, resets

host == <<hostState, hostNext, strikes>>
dsp == <<data_number, wFlashAddr>>
cells == <<flash, PGERR, repeated>>
stm == <<mode, g_bTryLoopRun, op_result, cells>>
vars == <<situation, host, wire, dsp, stm, faults, resets>>

Blank == 0
Old == Chunks + 1

Number(chunk) == chunk % NumberMod

Packet(type) == [type |-> type, n |-> 0, chunk |-> 0]
Data(chunk) == [type |-> "SOD", n |-> Number(chunk), chunk |-> chunk]
Resend(number) == [type |-> "RESEND", n |-> number, chunk |-> 0]
Idle == Packet("none")

Init ==
  /\ situation \in Situations
  /\ hostState = "TAG" /\ hostNext = 1 /\ strikes = 0
  /\ wire = Idle
  /\ data_number = 0 /\ wFlashAddr = 0
  /\ mode = "app" /\ g_bTryLoopRun = FALSE /\ op_result = 0
  /\ flash = [i \in 1 .. Chunks |-> Old] /\ PGERR = FALSE /\ repeated = FALSE
  /\ faults = 0 /\ resets = 0

(* One more fault of that kind. *)
Fault(kind) ==
  /\ kind \in situation.faults
  /\ faults < MaxFaults
  /\ faults' = faults + 1

-----------------------------------------------------------------------------
(* The host and the line. *)

HostSend ==
  /\ wire = Idle
  /\ hostState # "done"
  /\ wire' = IF hostState = "SOD" THEN Data(hostNext) ELSE Packet(hostState)
  /\ UNCHANGED <<situation, host, dsp, stm, faults, resets>>

Goto(state, chunk) == hostState' = state /\ hostNext' = chunk /\ strikes' = 0

NextChunk ==
  IF hostNext < Chunks THEN Goto("SOD", hostNext + 1) ELSE Goto("EOT", hostNext)

(* The answer to RESEND: the next chunk when only the acknowledgement was  *)
(* lost, else the same one, until there are too many strikes.              *)
AskedAgain(number) ==
  \/ /\ number # Number(hostNext)
     /\ NextChunk
  \/ /\ number = Number(hostNext)
     /\ strikes < MaxStrikes
     /\ strikes' = strikes + 1
     /\ UNCHANGED <<hostState, hostNext>>
  \/ /\ number = Number(hostNext)
     /\ strikes = MaxStrikes
     /\ Goto("CA", 1)

HostReceive ==
  /\ \/ wire.type = "READY" /\ hostState = "TAG" /\ Goto("SOL", 1)
     \/ wire.type = "ACK" /\ hostState = "SOL" /\ Goto("SOD", 1)
     \/ wire.type = "ACK" /\ hostState = "SOD" /\ NextChunk
     \/ wire.type = "ACK" /\ hostState = "CA" /\ Goto("TAG", 1)
     \/ wire.type = "NAK" /\ hostState = "EOT" /\ Goto("done", hostNext)
     \/ wire.type = "RESEND" /\ hostState = "SOD" /\ AskedAgain(wire.n)
  /\ wire' = Idle
  /\ UNCHANGED <<situation, dsp, stm, faults, resets>>

Lose ==
  /\ wire # Idle
  /\ Fault("packet")
  /\ wire' = Idle
  /\ UNCHANGED <<situation, host, dsp, stm, resets>>

-----------------------------------------------------------------------------
(* The STM32. *)

InBoot == mode \in {"boot", "try"}

PageOf(address) == address \div PageChunks

(* Fault: every write erases the page. *)
ErasesAlways(address) == TRUE

(* Write_Memory_Command erases a page before its first chunk. *)
Erases(address) == address % PageChunks = 0

(* Erase_Page also clears PGERR.  FLASH_ProgramHalfWord programs nothing   *)
(* while PGERR is set, and a cell that is not blank sets it.  Neither      *)
(* shows in op_result, which the caller of this definition sets to 1.      *)
Write_Memory_Command(address, chunk) ==
  LET fresh == [i \in 1 .. Chunks |->
                  IF Erases(address) /\ PageOf(i - 1) = PageOf(address)
                  THEN Blank ELSE flash[i]]
      error == PGERR /\ ~ Erases(address)
      blank == fresh[address + 1] = Blank
  IN  /\ flash' = IF blank /\ ~ error
                  THEN [fresh EXCEPT ![address + 1] = chunk] ELSE fresh
      /\ PGERR' = (error \/ ~ blank)
      /\ repeated' = (repeated \/ ~ blank)

(* A reset: the flash stays, the boot loader waits 5 s for the DSP.        *)
Restart ==
  /\ mode' = "try" /\ g_bTryLoopRun' = FALSE /\ op_result' = 0 /\ PGERR' = FALSE
  /\ UNCHANGED <<situation, host, wire, dsp, flash, repeated, faults>>

Reset ==
  /\ resets < MaxResets
  /\ resets' = resets + 1
  /\ Restart

(* A program that does not run does not feed the watchdog. *)
WatchdogReset ==
  /\ mode = "dead"
  /\ resets' = resets
  /\ Restart

(* iap_i2c_try_loop ends: whatever is in the flash is started, without a   *)
(* check.  A mixture of two programs does not answer any more.             *)
Runnable == \/ \A i \in 1 .. Chunks : flash[i] = Old
            \/ \A i \in 1 .. Chunks : flash[i] = i

iap_i2c_try_loop_ends ==
  /\ mode = "try" /\ ~ g_bTryLoopRun
  /\ mode' = IF Runnable THEN "app" ELSE "dead"
  /\ UNCHANGED <<situation, host, wire, dsp, g_bTryLoopRun, op_result, cells, faults, resets>>

-----------------------------------------------------------------------------
(* The DSP: aio_stm32_UpdateHandle, one action per kind of packet.         *)

Answer(packet) == wire' = packet

(* S1: enter_softwareUpdate resets a running program into the boot loader; *)
(* the DSP then tries to read its tag up to 4096 times.  The read makes    *)
(* the boot loader stay.                                                   *)
OnTag ==
  /\ wire.type = "TAG"
  /\ \/ /\ mode # "dead"
        /\ mode' = IF mode = "app" THEN "boot" ELSE mode
        /\ op_result' = IF mode = "app" THEN 0 ELSE op_result
        /\ PGERR' = IF mode = "app" THEN FALSE ELSE PGERR
        /\ g_bTryLoopRun' = TRUE
        /\ wFlashAddr' = 0
        /\ Answer(Packet("READY"))
        /\ faults' = faults
     \/ /\ \/ mode = "dead" /\ faults' = faults
           \/ mode = "app" /\ Fault("write")
        /\ Answer(Idle)
        /\ UNCHANGED <<mode, op_result, PGERR, g_bTryLoopRun, wFlashAddr>>
  /\ UNCHANGED <<situation, host, data_number, flash, repeated, resets>>

(* S2: the length, which fits. *)
OnLength ==
  /\ wire.type = "SOL"
  /\ data_number' = 1
  /\ Answer(Packet("ACK"))
  /\ UNCHANGED <<situation, host, wFlashAddr, stm, faults, resets>>

(* Fault: the number is not the u8 of the code. *)
WideNumber == data_number + 1

NextNumber == (data_number + 1) % NumberMod

(* Fault: the address stays where it is. *)
SameAddress == wFlashAddr

NextAddress == wFlashAddr + 1

Accept ==
  /\ data_number' = NextNumber
  /\ wFlashAddr' = NextAddress
  /\ Answer(Packet("ACK"))

Refuse ==
  /\ UNCHANGED dsp
  /\ Answer(Resend(data_number))

(* S3, the packet with the expected number: write, wait 40 ms, read the    *)
(* result.  Read_Memory_Command hands op_result out, forgets it, and makes *)
(* the boot loader stay.  The program takes the write for a new limit (the *)
(* opcode is the identifier of PROTECT_PRESSURE) and the read for its self *)
(* check, which is 0; the remains of a program do not answer.              *)
ReadResult == op_result' = 0 /\ g_bTryLoopRun' = TRUE

Judge(result) == IF result = 1 THEN Accept ELSE Refuse

OnData ==
  /\ wire.type = "SOD" /\ wire.n = data_number
  /\ \/ /\ InBoot                                    \* all goes well
        /\ Write_Memory_Command(wFlashAddr, wire.chunk)
        /\ ReadResult
        /\ Judge(1)
        /\ faults' = faults
     \/ /\ InBoot /\ Fault("result")                 \* written, not asked
        /\ Write_Memory_Command(wFlashAddr, wire.chunk)
        /\ op_result' = 1
        /\ UNCHANGED g_bTryLoopRun
        /\ Refuse
     \/ /\ InBoot /\ Fault("result")                 \* written, answer lost
        /\ Write_Memory_Command(wFlashAddr, wire.chunk)
        /\ ReadResult
        /\ Judge(0)
     \/ /\ InBoot /\ Fault("write")                  \* lost, and an error
        /\ Refuse
        /\ UNCHANGED <<op_result, g_bTryLoopRun, cells>>
     \/ /\ InBoot /\ Fault("silent")                 \* lost, and no error
        /\ ReadResult
        /\ Judge(op_result)
        /\ UNCHANGED cells
     \/ /\ ~ InBoot
        /\ Judge(0)
        /\ UNCHANGED <<op_result, g_bTryLoopRun, cells, faults>>
  /\ UNCHANGED <<situation, host, mode, resets>>

(* Fault: a packet that is not the expected one is passed over. *)
SilentlyIgnored == wire' = Idle /\ UNCHANGED dsp

(* "packet number error, means some packet loss. resend it" *)
AskForExpected == Refuse

OnWrongNumber ==
  /\ wire.type = "SOD" /\ wire.n # data_number
  /\ AskForExpected
  /\ UNCHANGED <<situation, host, stm, faults, resets>>

(* S4 *)
OnEnd ==
  /\ wire.type \in {"EOT", "CA"}
  /\ Answer(Packet(IF wire.type = "EOT" THEN "NAK" ELSE "ACK"))
  /\ UNCHANGED <<situation, host, dsp, stm, faults, resets>>

(* NIBP_STM32_protectHandle during an update: aio_stm32_writeProtect sends *)
(* the opcode of a write.  The boot loader takes address and length from   *)
(* whatever its buffer holds: it programs nothing and notes a success, or  *)
(* it faults outside the flash until the watchdog resets it.               *)
PollLimit ==
  /\ situation.chIsProtectVerify
  /\ InBoot
  /\ \/ /\ op_result' = 1
        /\ UNCHANGED <<situation, host, wire, dsp, mode, g_bTryLoopRun, cells, faults, resets>>
     \/ Reset

Next == \/ HostSend \/ HostReceive \/ Lose
        \/ Reset \/ WatchdogReset \/ iap_i2c_try_loop_ends
        \/ OnTag \/ OnLength \/ OnData \/ OnWrongNumber \/ OnEnd
        \/ PollLimit

Spec == Init /\ [][Next]_vars

(* The host repeats what is not answered, more often than once in the 5 s  *)
(* of iap_i2c_try_loop; the DSP's main loop handles every packet; the      *)
(* watchdog of the STM32 runs.                                             *)
FairSpec ==
  /\ Spec
  /\ WF_vars(HostSend) /\ SF_vars(mode = "try" /\ HostSend)
  /\ WF_vars(HostReceive)
  /\ WF_vars(OnTag) /\ SF_vars(InBoot /\ OnTag)
  /\ WF_vars(OnLength \/ OnData \/ OnWrongNumber \/ OnEnd)
  /\ WF_vars(WatchdogReset)

-----------------------------------------------------------------------------
(* Types. *)
TypeOK ==
  /\ situation \in Situations
  /\ hostState \in {"TAG", "SOL", "SOD", "EOT", "CA", "done"}
  /\ hostNext \in 1 .. Chunks
  /\ strikes \in 0 .. MaxStrikes
  /\ wire \in [type : {"none", "TAG", "SOL", "SOD", "EOT", "CA",
                       "READY", "ACK", "NAK", "RESEND"},
               n : 0 .. NumberMod - 1, chunk : 0 .. Chunks]
  /\ data_number \in 0 .. NumberMod - 1
  /\ wFlashAddr \in 0 .. Chunks
  /\ mode \in {"app", "boot", "try", "dead"}
  /\ g_bTryLoopRun \in BOOLEAN
  /\ op_result \in {0, 1}
  /\ flash \in [1 .. Chunks -> 0 .. Chunks + 1]
  /\ PGERR \in BOOLEAN /\ repeated \in BOOLEAN
  /\ faults \in 0 .. MaxFaults /\ resets \in 0 .. MaxResets

(* Every packet the DSP has counted is in the flash at its place, however  *)
(* packets, writes and answers were lost and whenever the STM32 was reset: *)
(* "1 : write packet success" of stm_update_read_op_result.                *)
AckedIsWritten == \A i \in 1 .. wFlashAddr : flash[i] = i

(* The same, as long as no packet was programmed a second time into a page *)
(* that was not erased in between.                                         *)
AckedIsWrittenOnce == ~ repeated => AckedIsWritten

(* The host finishes only over a complete image: lost acknowledgements,    *)
(* repetitions, the wrap of the 8-bit number and a second start never make *)
(* it skip a chunk.                                                        *)
DoneMeansFlashed ==
  hostState \in {"EOT", "done"} /\ ~ repeated => \A i \in 1 .. Chunks : flash[i] = i

(* When packets and transactions stop being lost the update comes to its   *)
(* end, also from a half-written program that only the watchdog brings     *)
(* back to the boot loader.                                                *)
UpdateCompletes == <>(hostState = "done")
=============================================================================
