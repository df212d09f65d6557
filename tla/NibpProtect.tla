---------------------------- MODULE NibpProtect ----------------------------
(***************************************************************************)
(* The second barrier against over-pressure: the STM32 measures the cuff   *)
(* with its own sensor and opens its own valve (AllInOneSTM32, Usr/src/    *)
(* module_nibp.c), and the DSP reads, configures and acknowledges it over  *)
(* I2C (module_nibp.c, module_onboard_stm32.c).                            *)
(*                                                                         *)
(* The I2C handler of the STM32 interrupts its main loop, so the handler   *)
(* of the protection is split where that can be seen.  The DSP talks to it *)
(* from its main loop, one transaction after the other.  Any transaction   *)
(* can fail: it is lost, and TWI_MasterMode_Write may report that as       *)
(* success (it only prints when it sees MERR) or as an error.  A read is   *)
(* two transactions, the request and the answer, and nobody looks whether  *)
(* the request went through: then the answer is that of an older request.  *)
(* tx_buf, which holds the answer, is also the record of the supply, self  *)
(* check and ECG status that i2c_server writes every 10 ms, so the answer  *)
(* can be overwritten before it is read, without any failure of the bus.   *)
(*                                                                         *)
(* The pressure is one of four levels: 0 is below NIBP_MIN_PRESS, 2 above  *)
(* the limit for newborns and 3 above the limit for everybody else, which  *)
(* is also about the STM32's default.                                      *)
(***************************************************************************)
EXTENDS Naturals

CONSTANTS
  chIsProtectVerify,   \* EEPROM: is the STM32's sensor calibrated?
  Disturbed,     \* may transactions fail and answers be overwritten?
  Calibration,   \* does the host use the calibration mode?
  MaxResets,     \* bound: resets of the STM32
  MaxPatients    \* bound: changes of the patient type

ASSUME ProtectAssumption ==
  /\ chIsProtectVerify \in BOOLEAN
  /\ Disturbed \in BOOLEAN
  /\ Calibration \in BOOLEAN
  /\ MaxResets \in Nat
  /\ MaxPatients \in Nat

VARIABLES
  (* the STM32 *)
  g_nibp_protect,            \* "Ctrl_Idle" or "Ctrl_Busy"
  g_nibp_fast_rele_state,    \* 1: the valve was opened; cleared by the DSP
  g_nibp_verify_sw,
  g_nibp_press,              \* the limit and whether the DSP has set it
  rele,                      \* is the valve open?
  stmPc,                     \* where NIBP_Handler is
  (* the DSP *)
  rising,                    \* g_nibp_algo_state is NIBP_ALGO_RISING
  pump, verifyStauts, g_PatientType,
  dspPc, try_count,
  index,                     \* the first byte of the limit read back
  (* the rest of the world *)
  level, resets, patients

config == <<g_nibp_verify_sw, g_nibp_press>>
stm == <<g_nibp_protect, g_nibp_fast_rele_state, rele, stmPc>>
dsp == <<rising, pump, verifyStauts, g_PatientType, dspPc, try_count, index>>
bounds == <<resets, patients>>
vars == <<config, stm, dsp, level, bounds>>

Level == 0 .. 3

Patient == {"NEWBORN", "ADULT"}

Limit(patient) == IF patient = "NEWBORN" THEN 2 ELSE 3

DefaultPress == [Index |-> 0, Max |-> 3]

Init ==
  /\ g_nibp_protect = "Ctrl_Idle"
  /\ g_nibp_fast_rele_state = 0
  /\ g_nibp_verify_sw = FALSE
  /\ g_nibp_press = DefaultPress
  /\ rele = FALSE
  /\ stmPc = "loop"
  /\ rising = FALSE
  /\ pump = FALSE
  /\ verifyStauts = FALSE
  /\ g_PatientType = "ADULT"
  /\ dspPc = "loop"
  /\ try_count = 0
  /\ index = 0
  /\ level = 0
  /\ resets = 0
  /\ patients = 0

-----------------------------------------------------------------------------
(* The STM32's main loop: NIBP_Handler, every 100 ms. *)

OverPressure ==
  /\ stmPc = "loop"
  /\ ~ g_nibp_verify_sw
  /\ level >= g_nibp_press.Max
  /\ g_nibp_protect = "Ctrl_Idle"
  /\ g_nibp_protect' = "Ctrl_Busy"
  /\ stmPc' = "state"
  /\ UNCHANGED <<config, g_nibp_fast_rele_state, rele, dsp, level, bounds>>

(* NIBP_SetPressRelease(ENABLE): first the state, then the pin. *)
SetReleState ==
  /\ stmPc = "state"
  /\ g_nibp_fast_rele_state' = 1
  /\ stmPc' = "pin"
  /\ UNCHANGED <<config, g_nibp_protect, rele, dsp, level, bounds>>

OpenValve ==
  /\ stmPc = "pin"
  /\ rele' = TRUE
  /\ stmPc' = "loop"
  /\ UNCHANGED <<config, g_nibp_protect, g_nibp_fast_rele_state, dsp, level, bounds>>

Vented ==
  /\ stmPc = "loop"
  /\ ~ g_nibp_verify_sw
  /\ g_nibp_protect = "Ctrl_Busy"
  /\ level = 0
  /\ g_nibp_protect' = "Ctrl_Idle"
  /\ stmPc' = "close"
  /\ UNCHANGED <<config, g_nibp_fast_rele_state, rele, dsp, level, bounds>>

CloseValve ==
  /\ stmPc = "close"
  /\ rele' = FALSE
  /\ stmPc' = "loop"
  /\ UNCHANGED <<config, g_nibp_protect, g_nibp_fast_rele_state, dsp, level, bounds>>

NIBP_Handler == OverPressure \/ SetReleState \/ OpenValve \/ Vented \/ CloseValve

(* A reset (watchdog, supply) runs NIBP_Init again. *)
Reset ==
  /\ resets < MaxResets
  /\ resets' = resets + 1
  /\ g_nibp_protect' = "Ctrl_Idle"
  /\ g_nibp_fast_rele_state' = 0
  /\ g_nibp_verify_sw' = FALSE
  /\ g_nibp_press' = DefaultPress
  /\ rele' = FALSE
  /\ stmPc' = "loop"
  /\ UNCHANGED <<dsp, level, patients>>

-----------------------------------------------------------------------------
(* I2C, as the DSP uses it.                                                *)

(* A write with the effect of the STM32's handler; ok tells what the DSP   *)
(* hears of it.  One that fails is lost, or arrives and is reported as an  *)
(* error (the timeout for MCOMP).                                          *)
Write(effect, nothing, ok) ==
  \/ effect /\ ok
  \/ Disturbed /\ (nothing \/ (effect /\ ~ ok))

(* i2c_onReadHandle puts the answer into tx_buf; of the state only the     *)
(* first byte is read.                                                     *)
AnswerState == [b0 |-> g_nibp_fast_rele_state, Max |-> 0]
AnswerProtect == [b0 |-> g_nibp_press.Index, Max |-> g_nibp_press.Max]

(* What else tx_buf may hold: the byte of the supplies and two more, which *)
(* may happen to look like a limit, or the answer to an older request.     *)
Bytes == [b0 : 0 .. 2, Max : {0, 2, 3}]
i2c_server(value) == value \in Bytes

(* aio_stm32_readByID: the request, then the answer.  When the request is  *)
(* lost, or i2c_server runs in between, the bytes are others; when the     *)
(* answer is lost there is an error, and as many bytes as have come.       *)
Read(answer, result, value) ==
  \/ result /\ value = answer
  \/ Disturbed /\ i2c_server(value)

(* Neither the bus nor i2c_server has disturbed the read. *)
CleanRead(answer, result, value) == result /\ value = answer

Outcome == BOOLEAN \X Bytes

(* Fault: the sign of the result is read the wrong way round. *)
FastReleOnError(result, value) == ~ result /\ value.b0 = 1

NIBP_isStm32FastRele(result, value) == result /\ value.b0 = 1

-----------------------------------------------------------------------------
(* The DSP's main loop. *)

(* NIBP_startPumpCtrl, at any time, for a measurement or a venipuncture: a  *)
(* state left from an earlier release is cleared, with at most five        *)
(* attempts, before the pump starts.                                       *)
StartPump ==
  /\ dspPc = "loop"
  /\ dspPc' = "start"
  /\ UNCHANGED <<config, stm, rising, pump, verifyStauts, g_PatientType, try_count, index,
                 level, bounds>>

StartReadState ==
  /\ dspPc = "start"
  /\ \E o \in Outcome :
       /\ Read(AnswerState, o[1], o[2])
       /\ IF NIBP_isStm32FastRele(o[1], o[2])
          THEN dspPc' = "clear" /\ UNCHANGED <<pump, rising>>
          ELSE dspPc' = "loop" /\ pump' = TRUE /\ rising' = TRUE
  /\ UNCHANGED <<config, stm, verifyStauts, g_PatientType, try_count, index, level, bounds>>

(* Fault: the acknowledgement arms the protection again. *)
AcknowledgeRearms ==
  g_nibp_fast_rele_state' = 0 /\ rele' = FALSE /\ g_nibp_protect' = "Ctrl_Idle"

(* NIBP_SetNIBPFastReleState(0), on the STM32: it also closes the valve,   *)
(* but the release goes on.                                                *)
Acknowledge ==
  g_nibp_fast_rele_state' = 0 /\ rele' = FALSE /\ UNCHANGED g_nibp_protect

ClearState ==
  /\ dspPc = "clear"
  /\ \E ok \in BOOLEAN :
       /\ Write(Acknowledge, UNCHANGED <<g_nibp_fast_rele_state, rele, g_nibp_protect>>, ok)
       /\ IF ~ ok /\ try_count + 1 < 5
          THEN dspPc' = "clear" /\ try_count' = try_count + 1 /\ UNCHANGED <<pump, rising>>
          ELSE dspPc' = "loop" /\ try_count' = 0 /\ pump' = TRUE /\ rising' = TRUE
  /\ UNCHANGED <<config, stmPc, verifyStauts, g_PatientType, index, level, bounds>>

(* What the interrupt does with the pump during all this: it stops and     *)
(* starts it in the steps of an inflation ...                              *)
NIBP_RisingCtrl ==
  /\ rising
  /\ pump' \in BOOLEAN
  /\ UNCHANGED <<config, stm, rising, verifyStauts, g_PatientType, dspPc, try_count,
                 index, level, bounds>>

(* ... and it ends the inflation, as the host and the main loop do.        *)
NIBP_ForceStop ==
  /\ rising' = FALSE
  /\ pump' = FALSE
  /\ UNCHANGED <<config, stm, verifyStauts, g_PatientType, dspPc, try_count, index,
                 level, bounds>>

(* NIBP_STM32_protectHandle, every second: stop when the STM32 has opened  *)
(* its valve, then keep its limit up to date if the sensor is calibrated.  *)
PollWith(Reading(_, _, _)) ==
  /\ dspPc = "loop"
  /\ \E o \in Outcome :
       /\ Reading(AnswerState, o[1], o[2])
       /\ IF NIBP_isStm32FastRele(o[1], o[2])
          THEN pump' = FALSE /\ rising' = FALSE
          ELSE UNCHANGED <<pump, rising>>
  /\ dspPc' = IF chIsProtectVerify THEN "protect" ELSE "loop"
  /\ UNCHANGED <<config, stm, verifyStauts, g_PatientType, try_count, index, level, bounds>>

PollState == PollWith(Read)

(* Fault: a limit that was set once is never changed. *)
OnlyDefaultReplaced(value) == value.b0 = 0

LimitIsWrong(value) == value.b0 = 0 \/ value.Max # Limit(g_PatientType)

(* The result is not looked at: after an error the DSP goes on with the    *)
(* zeroes of its buffer, overwritten as far as the answer has come.        *)
ProtectWith(Reading(_, _, _)) ==
  /\ dspPc = "protect"
  /\ \E o \in Outcome :
       /\ Reading(AnswerProtect, o[1], o[2])
       /\ IF LimitIsWrong(o[2])
          THEN /\ dspPc' = "write"
               /\ index' = IF o[2].b0 = 0 THEN 1 ELSE o[2].b0
          ELSE dspPc' = "loop" /\ index' = 0
  /\ UNCHANGED <<config, stm, rising, pump, verifyStauts, g_PatientType, try_count,
                 level, bounds>>

PollProtect == ProtectWith(Read)

(* Fault: the bytes are taken in the wrong order. *)
SafePressSwapped(first, max) == [Index |-> max, Max |-> first]

NIBP_SetSafePress(first, max) == [Index |-> first, Max |-> max]

WriteProtect ==
  /\ dspPc = "write"
  /\ \E ok \in BOOLEAN :
       Write(g_nibp_press' = NIBP_SetSafePress(index, Limit(g_PatientType)),
             g_nibp_press' = g_nibp_press, ok)
  /\ dspPc' = "loop"
  /\ index' = 0
  /\ UNCHANGED <<g_nibp_verify_sw, stm, rising, pump, verifyStauts, g_PatientType,
                 try_count, level, bounds>>

(* NIBP_VerifyBySimulator: the STM32 is told once, whatever comes of it. *)
SetVerify(state) ==
  /\ Calibration
  /\ dspPc = "loop"
  /\ verifyStauts' = state
  /\ \E ok \in BOOLEAN :
       Write(g_nibp_verify_sw' = state, g_nibp_verify_sw' = g_nibp_verify_sw, ok)
  /\ UNCHANGED <<g_nibp_press, stm, rising, pump, g_PatientType, dspPc, try_count,
                 index, level, bounds>>

SetPatient ==
  /\ dspPc = "loop"
  /\ patients < MaxPatients
  /\ patients' = patients + 1
  /\ g_PatientType' \in Patient \ {g_PatientType}
  /\ UNCHANGED <<config, stm, rising, pump, verifyStauts, dspPc, try_count, index,
                 level, resets>>

Poll == PollState \/ PollProtect \/ WriteProtect

Dsp ==
  \/ StartPump \/ StartReadState \/ ClearState \/ NIBP_RisingCtrl \/ NIBP_ForceStop \/ Poll
  \/ (\E state \in BOOLEAN : SetVerify(state)) \/ SetPatient

-----------------------------------------------------------------------------
(* The cuff. *)

Rise ==
  /\ pump /\ ~ rele
  /\ level < 3
  /\ level' = level + 1
  /\ UNCHANGED <<config, stm, dsp, bounds>>

Fall ==
  /\ level > 0
  /\ level' = level - 1
  /\ UNCHANGED <<config, stm, dsp, bounds>>

Next == NIBP_Handler \/ Reset \/ Dsp \/ Rise \/ Fall

Spec == Init /\ [][Next]_vars

(* The handler of the STM32 runs every 100 ms; the DSP finishes what it    *)
(* has begun and polls every second, whatever commands come in between.    *)
(* Any transaction may be disturbed, but not all of them: again and again  *)
(* a poll, a comparison of the limit and a write go through.               *)
FairSpec ==
  /\ Spec
  /\ WF_vars(NIBP_Handler)
  /\ WF_vars(StartReadState \/ ClearState \/ PollProtect \/ WriteProtect)
  /\ SF_vars(PollWith(CleanRead))
  /\ SF_vars(ProtectWith(CleanRead))
  /\ SF_vars(WriteProtect /\ g_nibp_press' = NIBP_SetSafePress(index, Limit(g_PatientType)))

-----------------------------------------------------------------------------
TypeOK ==
  /\ g_nibp_protect \in {"Ctrl_Idle", "Ctrl_Busy"}
  /\ g_nibp_fast_rele_state \in {0, 1}
  /\ g_nibp_verify_sw \in BOOLEAN
  /\ g_nibp_press \in [Index : 0 .. 2, Max : {2, 3}]
  /\ rele \in BOOLEAN
  /\ stmPc \in {"loop", "state", "pin", "close"}
  /\ rising \in BOOLEAN
  /\ pump \in BOOLEAN
  /\ verifyStauts \in BOOLEAN
  /\ g_PatientType \in Patient
  /\ dspPc \in {"loop", "start", "clear", "protect", "write"}
  /\ try_count \in 0 .. 4
  /\ index \in 0 .. 2
  /\ level \in Level
  /\ resets \in 0 .. MaxResets
  /\ patients \in 0 .. MaxPatients

(* "2:STM32直接泄气": an over-pressure makes the STM32 open its valve,     *)
(* unless it is in calibration mode or the pressure goes away by itself.   *)
(* A start of the DSP breaks it: the acknowledgement closes the valve, and *)
(* until the cuff is empty the protection does not open it again.          *)
OverPressureReleased ==
  (level >= g_nibp_press.Max /\ ~ g_nibp_verify_sw)
    ~> (rele \/ level < g_nibp_press.Max \/ g_nibp_verify_sw)

(* The STM32's valve never stays open by mistake: an open valve belongs to *)
(* a release still in progress, whose end will close it, also when the     *)
(* DSP's acknowledgement or a reset falls into the middle of the release.  *)
OpenValveIsOwned ==
  stmPc = "loop" /\ rele => g_nibp_protect = "Ctrl_Busy"

(* The pump does not work against the open valve for ever: the DSP learns  *)
(* of the release and stops.                                               *)
PumpYields ==
  (g_nibp_fast_rele_state = 1 /\ pump) ~> (g_nibp_fast_rele_state = 0 \/ ~ pump)

(* In the end the STM32 protects this patient: the limit is that of the    *)
(* patient type, however many resets, lost transactions and changes of the *)
(* patient there were before.                                              *)
LimitFollowsPatient ==
  <>[](g_nibp_press.Index # 0 /\ g_nibp_press.Max = Limit(g_PatientType))
=============================================================================
