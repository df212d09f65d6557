------------------------- MODULE NibpProtectProofs -------------------------
(***************************************************************************)
(* Proofs about NibpProtect, for any number of disturbed transactions,     *)
(* resets and changes of the patient, and starts at any time: the types    *)
(* are kept, and an open valve always belongs to a release in progress.    *)
(***************************************************************************)
EXTENDS NibpProtect, TLAPS

(* From the decision to release until the decision to close, the           *)
(* protection is busy, wherever an acknowledgement falls.                  *)
Releasing ==
  /\ stmPc \in {"state", "pin"} => g_nibp_protect = "Ctrl_Busy"
  /\ rele /\ stmPc # "close" => g_nibp_protect = "Ctrl_Busy"

IInv == TypeOK /\ Releasing

-----------------------------------------------------------------------------
(* The Boolean variables apart, since they need another prover.            *)
Switches ==
  /\ g_nibp_verify_sw \in BOOLEAN
  /\ rele \in BOOLEAN
  /\ rising \in BOOLEAN
  /\ pump \in BOOLEAN
  /\ verifyStauts \in BOOLEAN

OtherTypes ==
  /\ g_nibp_protect \in {"Ctrl_Idle", "Ctrl_Busy"}
  /\ g_nibp_fast_rele_state \in {0, 1}
  /\ g_nibp_press \in [Index : 0 .. 2, Max : {2, 3}]
  /\ stmPc \in {"loop", "state", "pin", "close"}
  /\ g_PatientType \in Patient
  /\ dspPc \in {"loop", "start", "clear", "protect", "write"}
  /\ try_count \in 0 .. 4
  /\ index \in 0 .. 2
  /\ level \in Level
  /\ resets \in 0 .. MaxResets
  /\ patients \in 0 .. MaxPatients

(* The two parts together are TypeOK, before and after a step. *)
LEMMA TypeParts ==
  /\ TypeOK <=> Switches /\ OtherTypes
  /\ TypeOK' <=> Switches' /\ OtherTypes'
BY DEF TypeOK, Switches, OtherTypes

(* After NIBP_Init of the STM32 and of the DSP the invariant holds. *)
LEMMA InitIInv == Init => IInv
<1> SUFFICES ASSUME Init PROVE IInv
  OBVIOUS
<1>1. Switches
  BY DEF Init, Switches
<1>2. OtherTypes
  BY ProtectAssumption DEF Init, OtherTypes, DefaultPress, Level, Patient
<1>3. Releasing
  BY DEF Init, Releasing
<1> QED
  BY <1>1, <1>2, <1>3, TypeParts DEF IInv

(* The STM32's own steps. *)
LEMMA HandlerIInv == IInv /\ NIBP_Handler => IInv'
<1> SUFFICES ASSUME IInv, NIBP_Handler PROVE IInv'
  OBVIOUS
<1>1. CASE OverPressure
  <2>1. Switches'
    BY <1>1, TypeParts DEF IInv, Switches, OverPressure, config, dsp
  <2>2. OtherTypes'
    BY <1>1, TypeParts DEF IInv, OtherTypes, OverPressure, config, dsp, bounds, Level, Patient
  <2>3. Releasing'
    BY <1>1, TypeParts DEF IInv, OtherTypes, Releasing, OverPressure, dsp
  <2> QED
    BY <2>1, <2>2, <2>3, TypeParts DEF IInv
<1>2. CASE SetReleState
  <2>1. Switches'
    BY <1>2, TypeParts DEF IInv, Switches, SetReleState, config, dsp
  <2>2. OtherTypes'
    BY <1>2, TypeParts DEF IInv, OtherTypes, SetReleState, config, dsp, bounds, Level, Patient
  <2>3. Releasing'
    BY <1>2, TypeParts DEF IInv, OtherTypes, Releasing, SetReleState, dsp
  <2> QED
    BY <2>1, <2>2, <2>3, TypeParts DEF IInv
<1>3. CASE OpenValve
  <2>1. Switches'
    BY <1>3, TypeParts DEF IInv, Switches, OpenValve, config, dsp
  <2>2. OtherTypes'
    BY <1>3, TypeParts DEF IInv, OtherTypes, OpenValve, config, dsp, bounds, Level, Patient
  <2>3. Releasing'
    BY <1>3, TypeParts DEF IInv, OtherTypes, Releasing, OpenValve, dsp
  <2> QED
    BY <2>1, <2>2, <2>3, TypeParts DEF IInv
<1>4. CASE Vented
  <2>1. Switches'
    BY <1>4, TypeParts DEF IInv, Switches, Vented, config, dsp
  <2>2. OtherTypes'
    BY <1>4, TypeParts DEF IInv, OtherTypes, Vented, config, dsp, bounds, Level, Patient
  <2>3. Releasing'
    BY <1>4, TypeParts DEF IInv, OtherTypes, Releasing, Vented, dsp
  <2> QED
    BY <2>1, <2>2, <2>3, TypeParts DEF IInv
<1>5. CASE CloseValve
  <2>1. Switches'
    BY <1>5, TypeParts DEF IInv, Switches, CloseValve, config, dsp
  <2>2. OtherTypes'
    BY <1>5, TypeParts DEF IInv, OtherTypes, CloseValve, config, dsp, bounds, Level, Patient
  <2>3. Releasing'
    BY <1>5, TypeParts DEF IInv, OtherTypes, Releasing, CloseValve, dsp
  <2> QED
    BY <2>1, <2>2, <2>3, TypeParts DEF IInv
<1> QED
  BY <1>1, <1>2, <1>3, <1>4, <1>5 DEF NIBP_Handler

(* A reset closes the valve and clears the state together. *)
LEMMA ResetIInv == IInv /\ Reset => IInv'
<1> SUFFICES ASSUME IInv, Reset PROVE IInv'
  OBVIOUS
<1>1. Switches'
  BY TypeParts DEF IInv, Switches, Reset, dsp
<1>2. OtherTypes'
  BY TypeParts, ProtectAssumption DEF IInv, OtherTypes, Reset, DefaultPress, dsp, Level, Patient
<1>3. Releasing'
  BY DEF IInv, Releasing, Reset, dsp
<1> QED
  BY <1>1, <1>2, <1>3, TypeParts DEF IInv

(* The cuff cannot fill between StartPump and the pump. *)
LEMMA CuffIInv == IInv /\ (Rise \/ Fall) => IInv'
BY DEF IInv, TypeOK, Releasing, Rise, Fall, config, stm, dsp, bounds, Level, Patient

-----------------------------------------------------------------------------
(* The DSP's steps, one lemma each. *)

(* A start may find a release in any phase. *)
LEMMA StartPumpIInv == IInv /\ StartPump => IInv'
BY DEF IInv, TypeOK, Releasing, StartPump, config, stm, dsp, bounds, Level, Patient

(* Reading the state changes nothing on the STM32. *)
LEMMA StartReadStateIInv == IInv /\ StartReadState => IInv'
<1> SUFFICES ASSUME IInv, StartReadState PROVE IInv'
  OBVIOUS
<1>3. /\ dspPc' \in {"clear", "loop"}
      /\ pump' \in {pump, TRUE} /\ rising' \in {rising, TRUE}
  BY DEF StartReadState
<1>4. UNCHANGED <<config, stm, verifyStauts, g_PatientType, try_count, index, level, bounds>>
  BY DEF StartReadState
<1>5. Switches'
  BY <1>3, <1>4, TypeParts DEF IInv, Switches, config, stm
<1>6. OtherTypes'
  BY <1>3, <1>4, TypeParts DEF IInv, OtherTypes, config, stm, bounds, Level, Patient
<1>7. Releasing'
  BY <1>3, <1>4 DEF IInv, Releasing, stm
<1> QED
  BY <1>5, <1>6, <1>7, TypeParts DEF IInv

(* The acknowledgement closes the valve with the state it clears. *)
LEMMA ClearStateIInv == IInv /\ ClearState => IInv'
<1> SUFFICES ASSUME IInv, ClearState PROVE IInv'
  OBVIOUS
<1>1. /\ g_nibp_fast_rele_state' \in {0, g_nibp_fast_rele_state}
      /\ rele' \in {FALSE, rele} /\ g_nibp_protect' = g_nibp_protect
  BY DEF ClearState, Write, Acknowledge
<1>2. /\ \/ dspPc' = "clear" /\ try_count + 1 < 5 /\ try_count' = try_count + 1
         \/ dspPc' = "loop" /\ try_count' = 0
      /\ pump' \in {pump, TRUE} /\ rising' \in {rising, TRUE}
  BY DEF ClearState
<1>3. UNCHANGED <<config, stmPc, verifyStauts, g_PatientType, index, level, bounds>>
  BY DEF ClearState
<1>4. Switches'
  BY <1>1, <1>2, <1>3, TypeParts DEF IInv, Switches, config
<1>5. try_count' \in 0 .. 4
  BY <1>2, TypeParts DEF IInv, OtherTypes
<1>6. OtherTypes'
  BY <1>1, <1>2, <1>3, <1>5, TypeParts, ProtectAssumption
     DEF IInv, OtherTypes, config, bounds, Level, Patient
<1>7. Releasing'
  <2>1. rele' = TRUE => rele = TRUE
    BY <1>1
  <2> QED
    BY <2>1, <1>1, <1>3, <1>4 DEF IInv, Releasing, Switches
<1> QED
  BY <1>4, <1>6, <1>7, TypeParts DEF IInv

(* Switching the pump touches nothing of the STM32. *)
LEMMA PumpIInv == IInv /\ (NIBP_RisingCtrl \/ NIBP_ForceStop) => IInv'
<1> SUFFICES ASSUME IInv, NIBP_RisingCtrl \/ NIBP_ForceStop PROVE IInv'
  OBVIOUS
<1>1. /\ pump' \in BOOLEAN /\ rising' \in {FALSE, rising}
      /\ UNCHANGED <<config, stm, verifyStauts, g_PatientType, dspPc, try_count, index,
                     level, bounds>>
  BY DEF NIBP_RisingCtrl, NIBP_ForceStop
<1>2. Switches'
  BY <1>1, TypeParts DEF IInv, Switches, config, stm
<1>3. OtherTypes'
  BY <1>1, TypeParts DEF IInv, OtherTypes, config, stm, bounds, Level, Patient
<1>4. Releasing'
  BY <1>1 DEF IInv, Releasing, stm
<1> QED
  BY <1>2, <1>3, <1>4, TypeParts DEF IInv

(* The poll only reads, whatever answer it gets. *)
LEMMA PollStateIInv == IInv /\ PollState => IInv'
<1> SUFFICES ASSUME IInv, PollState PROVE IInv'
  OBVIOUS
<1>1. pump' \in {FALSE, pump} /\ rising' \in {FALSE, rising}
  BY DEF PollState, PollWith
<1>3. /\ dspPc' \in {"protect", "loop"}
      /\ UNCHANGED <<config, stm, verifyStauts, g_PatientType, try_count, index, level, bounds>>
  BY DEF PollState, PollWith
<1>4. Switches'
  BY <1>1, <1>3, TypeParts DEF IInv, Switches, config, stm
<1>5. OtherTypes'
  BY <1>3, TypeParts DEF IInv, OtherTypes, config, stm, bounds, Level, Patient
<1>6. Releasing'
  BY <1>3 DEF IInv, Releasing, stm
<1> QED
  BY <1>4, <1>5, <1>6, TypeParts DEF IInv

(* Reading the limit back only decides whether to write it. *)
LEMMA PollProtectIInv == IInv /\ PollProtect => IInv'
<1> SUFFICES ASSUME IInv, PollProtect PROVE IInv'
  OBVIOUS
<1>1. PICK o \in Outcome :
        index' \in {0, 1, o[2].b0} /\ dspPc' \in {"write", "loop"}
  BY DEF PollProtect, ProtectWith
<1>2. index' \in 0 .. 2
  BY <1>1 DEF Outcome, Bytes
<1>3. /\ dspPc' \in {"write", "loop"}
      /\ UNCHANGED <<config, stm, rising, pump, verifyStauts, g_PatientType, try_count,
                     level, bounds>>
  BY <1>1 DEF PollProtect, ProtectWith
<1>4. Switches'
  BY <1>3, TypeParts DEF IInv, Switches, config, stm
<1>5. OtherTypes'
  BY <1>2, <1>3, TypeParts DEF IInv, OtherTypes, config, stm, bounds, Level, Patient
<1>6. Releasing'
  BY <1>3 DEF IInv, Releasing, stm
<1> QED
  BY <1>4, <1>5, <1>6, TypeParts DEF IInv

(* The limit that is written is one of the two. *)
LEMMA WriteProtectIInv == IInv /\ WriteProtect => IInv'
<1> SUFFICES ASSUME IInv, WriteProtect PROVE IInv'
  OBVIOUS
<1>1. \/ g_nibp_press' = NIBP_SetSafePress(index, Limit(g_PatientType))
      \/ g_nibp_press' = g_nibp_press
  BY DEF WriteProtect, Write
<1>2. /\ dspPc' = "loop" /\ index' = 0
      /\ UNCHANGED <<g_nibp_verify_sw, stm, rising, pump, verifyStauts, g_PatientType,
                     try_count, level, bounds>>
  BY DEF WriteProtect
<1>3. NIBP_SetSafePress(index, Limit(g_PatientType)) \in [Index : 0 .. 2, Max : {2, 3}]
  BY TypeParts DEF IInv, OtherTypes, NIBP_SetSafePress, Limit
<1>4. Switches'
  BY <1>2, TypeParts DEF IInv, Switches, stm
<1>5. OtherTypes'
  BY <1>1, <1>2, <1>3, TypeParts, ProtectAssumption
     DEF IInv, OtherTypes, stm, bounds, Level, Patient
<1>6. Releasing'
  BY <1>2 DEF IInv, Releasing, stm
<1> QED
  BY <1>4, <1>5, <1>6, TypeParts DEF IInv

(* The calibration switch is no part of a release. *)
LEMMA SetVerifyIInv == ASSUME NEW state \in BOOLEAN, IInv, SetVerify(state) PROVE IInv'
<1>1. g_nibp_verify_sw' \in {state, g_nibp_verify_sw}
  BY DEF SetVerify, Write
<1>2. /\ verifyStauts' = state /\ dspPc = "loop"
      /\ UNCHANGED <<g_nibp_press, stm, rising, pump, g_PatientType, dspPc, try_count,
                     index, level, bounds>>
  BY DEF SetVerify
<1>3. Switches'
  BY <1>1, <1>2, TypeParts DEF IInv, Switches, stm
<1>4. OtherTypes'
  BY <1>1, <1>2, TypeParts, ProtectAssumption
     DEF IInv, OtherTypes, stm, bounds, Level, Patient
<1>5. Releasing'
  BY <1>2 DEF IInv, Releasing, stm
<1> QED
  BY <1>3, <1>4, <1>5, TypeParts DEF IInv

(* A new patient type reaches the STM32 by a later poll only. *)
LEMMA SetPatientIInv == IInv /\ SetPatient => IInv'
<1> SUFFICES ASSUME IInv, SetPatient PROVE IInv'
  OBVIOUS
<1>1. Switches'
  BY TypeParts DEF IInv, Switches, SetPatient, config, stm
<1>2. OtherTypes'
  BY TypeParts, ProtectAssumption
     DEF IInv, OtherTypes, SetPatient, config, stm, bounds, Level, Patient
<1>3. Releasing'
  BY DEF IInv, Releasing, SetPatient, stm
<1> QED
  BY <1>1, <1>2, <1>3, TypeParts DEF IInv

-----------------------------------------------------------------------------
(* Every step preserves the invariant. *)
LEMMA NextIInv == IInv /\ [Next]_vars => IInv'
<1> SUFFICES ASSUME IInv, [Next]_vars PROVE IInv'
  OBVIOUS
<1>1. CASE UNCHANGED vars
  BY <1>1 DEF IInv, TypeOK, Releasing, vars, config, stm, dsp, bounds
<1>2. CASE Dsp
  BY <1>2, StartPumpIInv, StartReadStateIInv, ClearStateIInv, PumpIInv, PollStateIInv,
     PollProtectIInv, WriteProtectIInv, SetVerifyIInv, SetPatientIInv DEF Dsp, Poll
<1> QED
  BY <1>1, <1>2, HandlerIInv, ResetIInv, CuffIInv DEF Next

(* IInv is an invariant. *)
THEOREM ProtectInvariant == Spec => []IInv
BY InitIInv, NextIInv, PTL DEF Spec

(* OpenValveIsOwned, for any number of faults, resets and patients: when   *)
(* NIBP_Handler has returned and the STM32's valve is open, g_nibp_protect *)
(* is Ctrl_Busy, so the handler will close it (118), also after an         *)
(* acknowledgement (76) that came in the middle of the release.            *)
THEOREM ReleaseIsOwned == Spec => []OpenValveIsOwned
<1>1. IInv => OpenValveIsOwned
  BY DEF IInv, Releasing, OpenValveIsOwned
<1> QED
  BY <1>1, ProtectInvariant, PTL

(* TypeOK: the counters stay in their bounds and NIBP_SetSafePress stores  *)
(* one of the two limits.                                                  *)
THEOREM ProtectTypes == Spec => []TypeOK
<1>1. IInv => TypeOK
  BY DEF IInv
<1> QED
  BY <1>1, ProtectInvariant, PTL
=============================================================================
