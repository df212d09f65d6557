--------------------------- MODULE NibpController ---------------------------
(***************************************************************************)
(* The blood-pressure controller of the DSP (module_nibp.c): one pump, two *)
(* valves and a cuff around the patient's arm.                             *)
(*                                                                         *)
(* Two contexts share its globals without a lock.  The main loop runs      *)
(* NIBP_Handler, executes the host's commands (Uart2MCU_RxPacketCheck) and *)
(* feeds the measuring algorithm; IVG8_ISR calls NIBP_StartSample every    *)
(* 10 ms, which inflates the cuff step by step (NIBP_RisingCtrl).  The     *)
(* interrupt is one step, but the main loop can be interrupted between any *)
(* two of its assignments.  So a routine is written here as the sequence   *)
(* of its assignments: the interrupt performs it whole, the main loop one  *)
(* element at a time.                                                      *)
(*                                                                         *)
(* An assignment is a record with the fields it sets.  A Call is a point   *)
(* where the main loop looks at the globals and decides what to do next.   *)
(* Pressures are abstracted to the answers of IsNIBPOverLoad, time to the  *)
(* question whether a timer has run out, the algorithm to its two flags.   *)
(***************************************************************************)
EXTENDS Naturals, Sequences

CONSTANTS
  Sessions,              \* the sessions of this instance: each has the host's
                         \* commands and the unusual measurements that may occur
  Steps,                 \* pressure steps between the peak and the minimum
  TEST_SLOW_RELE_COUNT   \* samples below the target before a step is held

AllCommands ==
  {"START", "STOP", "CYCLE_OFF", "CYCLE_ON", "CYCLE_UNKNOWN", "VENIPUNCTURE", "VENIPUNCTURE_STOP",
   "CONTINUED", "GAS_LEAK", "VERIFY", "VERIFY_EXIT", "DEBUG_START",
   "DEBUG_PWM_ON", "DEBUG_PWM_OFF", "DEBUG_PASS", "DEBUG_ALGO_ON",
   "DEBUG_ALGO_OFF", "STATIC_ON", "STATIC_OFF"}

AllEvents ==
  {"overload",      \* the pressure is above g_overload_mmHg
   "weak",          \* no pulse found (pulse_ms = 0)
   "cuff",          \* the slope does not fit the patient type
   "overMeasure",   \* the algorithm asks for too high a pressure, a third time
   "stm32"}         \* the protection MCU has opened its own valve

ASSUME NibpAssumption ==
  /\ Sessions \subseteq [commands : SUBSET AllCommands, events : SUBSET AllEvents]
  /\ Steps \in Nat \ {0}
  /\ TEST_SLOW_RELE_COUNT \in Nat

VARIABLES
  g,      \* the globals of module_nibp.c, the timers and the two actuators
  code,   \* what the main loop still has to do in this pass
  session \* the session, chosen once

vars == <<g, code, session>>

WorkMode == {"MANUAL", "AUTO", "CONTINUED", "VENIPUNCTURE", "DEBUG"}

Call(f) == [call |-> f]

(* The state s after an assignment a ... *)
a @@ s == [f \in DOMAIN s |-> IF f \in DOMAIN a THEN a[f] ELSE s[f]]

(* ... and after those of a routine: of the assignments to a field the     *)
(* last one counts.                                                        *)
After(s, routine) ==
  [f \in DOMAIN s |->
     LET writes == {i \in 1 .. Len(routine) : f \in DOMAIN routine[i]}
     IN  IF writes = {} THEN s[f]
         ELSE routine[CHOOSE i \in writes : \A j \in writes : j <= i][f]]

-----------------------------------------------------------------------------
(* The routines. *)

(* TIMER6 drives the pump; the status is written after the register.  A    *)
(* stopped pump has the oversleeve deadline 0, which is always in the past. *)
NIBP_SetPWM(on) ==
  << [sleeveOut |-> ~ on], [pump |-> on], [PWM_Status |-> on] >>

(* Two pins drive the two valves, a low one opens; the slow one is written  *)
(* first.                                                                  *)
NIBP_SetPressRelease(mode) ==
  << [slowPin |-> IF mode = "HOLD" THEN "HIGH" ELSE "LOW"],
     [fastPin |-> IF mode = "FAST" THEN "LOW" ELSE "HIGH"] >>

nibp_algorithm_start ==
  << [algo_state |-> "RISING"], [isAllDone |-> FALSE],
     [isRisingDone |-> FALSE, risingResult |-> "old"], [stepData |-> "none"] >>

NIBP_startPumpCtrl ==
  NIBP_SetPressRelease("HOLD") \o NIBP_SetPWM(TRUE) \o nibp_algorithm_start

NIBP_SampleOneTimeByDebug ==
  << [NIBP_Status |-> TRUE],
     [isRisingStateRele |-> FALSE, u8RisingStepCount |-> 0,
      isFisrtRisingStep |-> TRUE, weakOut |-> FALSE],
     [forceOut |-> FALSE] >> \o NIBP_startPumpCtrl

(* Fault: the pump is stopped before the interrupt is told to leave it alone. *)
ForceStopPumpFirst ==
  NIBP_SetPWM(FALSE) \o
  << [curWorkMode |-> "MANUAL"], [NIBP_Status |-> FALSE],
     [bIsPumpStop |-> FALSE], [algo_state |-> "IDLE"] >> \o NIBP_SetPressRelease("FAST")

(* Fault: the valves are forgotten. *)
ForceStopValveKept ==
  << [curWorkMode |-> "MANUAL"], [NIBP_Status |-> FALSE],
     [bIsPumpStop |-> FALSE], [algo_state |-> "IDLE"] >> \o NIBP_SetPWM(FALSE)

(* Fault: the pump is forgotten. *)
ForceStopPumpKept ==
  << [curWorkMode |-> "MANUAL"], [NIBP_Status |-> FALSE],
     [bIsPumpStop |-> FALSE], [algo_state |-> "IDLE"] >> \o NIBP_SetPressRelease("FAST")

NIBP_ForceStop ==
  << [curWorkMode |-> "MANUAL"], [NIBP_Status |-> FALSE],
     [bIsPumpStop |-> FALSE], [algo_state |-> "IDLE"] >>
  \o NIBP_SetPWM(FALSE) \o NIBP_SetPressRelease("FAST")

nibp_debug_stop_pwm == << [bIsPumpStop |-> TRUE] >> \o NIBP_SetPWM(FALSE)

nibp_debug_start_pwm(s) ==
  (IF s.NIBP_Status THEN NIBP_SetPWM(TRUE) ELSE NIBP_SampleOneTimeByDebug)
  \o << [bIsPumpStop |-> FALSE] >>

(* No pulse for 40 s since the start: give up. *)
NIBP_refreshSlowReleHoldTime(s, in) ==
  IF in.weak /\ s.weakOut THEN NIBP_ForceStop ELSE << >>

-----------------------------------------------------------------------------
(* NIBP_RisingCtrl, in the interrupt.  What it reads from the ADC and from *)
(* the algorithm during one call is the input in:                          *)
(*   reached   the pressure is above the target of this step               *)
(*   above     the pressure is above the target the algorithm asks for     *)
(*   and one flag for each unusual event.                                  *)

Input ==
  { [q \in {"reached", "above"} \cup AllEvents |-> q \in yes] :
      yes \in { y \in SUBSET ({"reached", "above"} \cup session.events) :
                  "overload" \in y => {"reached", "above"} \subseteq y } }
                                             \* the targets are below the limit

(* The samples of a stair are complete when the tagged ones follow: while  *)
(* the pump runs, in the first step, and after the hold.                   *)
Tagged(s) ==
  IF s.stepData = "sampling"
     /\ (s.PWM_Status \/ s.u8RisingStepCount = 0 \/ s.holdOut)
  THEN [stepData |-> "complete"] @@ s ELSE s

(* The target of this step is reached: stop the pump and hold. *)
RisingReached(s, in) ==
  IF ~ (s.PWM_Status /\ in.reached) THEN s
  ELSE LET stopped == After(s, nibp_debug_stop_pwm) IN
    IF s.isFisrtRisingStep
    THEN LET held == [isFisrtRisingStep |-> FALSE, holdOut |-> FALSE] @@ stopped
         IN  IF in.cuff THEN After(held, NIBP_ForceStop) ELSE held
    ELSE [holdOut |-> FALSE, stepData |-> "sampling"]
           @@ After(stopped, NIBP_refreshSlowReleHoldTime(stopped, in))

(* The hold is over: go on to the next target, up with the pump or, when   *)
(* the pressure is too high for it, down through the slow valve.           *)
RisingNextStep(s, in) ==
  IF \/ s.PWM_Status \/ ~ s.bIsPumpStop \/ s.isRisingStateRele \/ ~ s.holdOut
     \/ ~ (s.risingResult = "new" \/ s.isRisingDone \/ s.u8RisingStepCount = 0)
  THEN s
  ELSE LET t == IF s.u8RisingStepCount = 0 THEN [u8RisingStepCount |-> 1] @@ s
                ELSE LET u == [risingResult |-> "old"] @@ s
                     IN  IF in.overMeasure THEN After(u, NIBP_ForceStop) ELSE u
       IN  IF in.above THEN [isRisingStateRele |-> TRUE] @@ t
                       ELSE After(t, nibp_debug_start_pwm(t))

(* Coming down to a target that was overshot. *)
RisingRelease(s, in) ==
  CASE ~ s.isRisingStateRele -> s
    [] s.isRisingStateRele /\ in.above -> After(s, NIBP_SetPressRelease("SLOW"))
    [] s.isRisingStateRele /\ ~ in.above ->
         LET held == After(s, NIBP_SetPressRelease("HOLD"))
         IN  [holdOut |-> FALSE, isRisingStateRele |-> FALSE, stepData |-> "sampling"]
               @@ After(held, NIBP_refreshSlowReleHoldTime(held, in))

(* Fault: the pump is not stopped. *)
DeflateWithPump == NIBP_SetPressRelease("HOLD") \o << [bIsPumpStop |-> FALSE] >>

StopForDeflation ==
  NIBP_SetPWM(FALSE) \o NIBP_SetPressRelease("HOLD") \o << [bIsPumpStop |-> FALSE] >>

(* The algorithm has seen enough: the deflation begins. *)
RisingDone(s, in) ==
  IF ~ s.isRisingDone THEN s
  ELSE LET falling == [algo_state |-> "FALLING", bIsCalculateDrop |-> FALSE] @@ s IN
       After([slowRele |-> Steps]
               @@ After(falling, NIBP_refreshSlowReleHoldTime(falling, in)),
             StopForDeflation)

NIBP_RisingCtrl(s, in) ==
  IF s.algo_state # "RISING" THEN s
  ELSE RisingDone(RisingRelease(RisingNextStep(RisingReached(Tagged(s), in), in), in), in)

(* Venipuncture: the pump stops at the wanted pressure; nothing else runs. *)
VenipunctureCtrl(s, in) ==
  IF in.reached THEN After(s, << [gas_leak_tick |-> "armed"] >> \o NIBP_SetPWM(FALSE))
                ELSE s

(* The over-pressure check counts to four; "overload" is the call in which *)
(* the count is reached.                                                   *)
NIBP_StartSample(s, in) ==
  IF s.PWM_Status /\ s.curWorkMode = "VENIPUNCTURE" THEN VenipunctureCtrl(s, in)
  ELSE LET t == NIBP_RisingCtrl(s, in)
       IN  IF in.overload THEN After(t, NIBP_ForceStop) ELSE t

-----------------------------------------------------------------------------
(* The main loop.  Each routine gives what the main loop will execute when *)
(* it finds the globals in state s.                                        *)

NIBP_SampleAutoTest(s) ==
  IF ~ s.autoOut THEN << >>
  ELSE (IF s.NIBP_Status THEN << >> ELSE NIBP_SampleOneTimeByDebug)
       \o << [autoOut |-> FALSE] >>

NIBP_ContinueModeHandle(s) ==
  IF s.contTestOut THEN << [curWorkMode |-> s.backup_mode] >>
  ELSE IF ~ s.NIBP_Status /\ s.contNextOut THEN NIBP_SampleOneTimeByDebug
  ELSE << >>

(* The gas-leak test is over 20 s after its pressure was reached. *)
GasLeakHandle(s) ==
  IF s.is_gas_leak_test /\ s.gas_leak_tick = "due"
  THEN << [bIsPumpStop |-> FALSE] >> \o NIBP_SetPressRelease("FAST")
       \o << [is_gas_leak_test |-> FALSE], [curWorkMode |-> s.backup_mode] >>
  ELSE << >>

(* Fault: one sample too many. *)
StairDoneLate(count) == count > TEST_SLOW_RELE_COUNT + 1

StairDone(count) == count > TEST_SLOW_RELE_COUNT

(* One look at the staircase of the deflation.  The stairs left: after a   *)
(* DEBUG_PASS they are counted anew from the pressure there is now, of     *)
(* which reached tells here whether it is above the minimum.               *)
StairsLeft(s, in) ==
  IF s.bIsCalculateDrop THEN (IF in.reached THEN Steps ELSE 0) ELSE s.slowRele

NIBP_AutoPressReleHanlder(s, in) ==
  CASE ~ s.SlowReleTimeStauts ->
         NIBP_refreshSlowReleHoldTime(s, in) \o
         << [holdOut |-> FALSE, stepData |-> "sampling"], [SlowReleTimeStauts |-> TRUE],
            [slowRele |-> IF s.slowRele = 0 THEN 0 ELSE s.slowRele - 1] >>
    [] s.SlowReleTimeStauts /\ ~ s.holdOut -> << >>
    [] s.SlowReleTimeStauts /\ s.holdOut ->
         LET count == IF in.above THEN s.slowReleCount ELSE s.slowReleCount + 1
             left == StairsLeft(s, in) IN
         (IF s.bIsCalculateDrop
          THEN << [bIsCalculateDrop |-> FALSE], [slowRele |-> left] >> ELSE << >>)
         \o (IF left > 0
             THEN << [stepData |-> IF s.stepData = "none" THEN "none" ELSE "complete"] >>
                  \o NIBP_SetPressRelease("SLOW")
             ELSE << [NIBP_Status |-> FALSE], [SlowReleTimeStauts |-> FALSE] >>
                  \o NIBP_SetPressRelease("FAST"))
         \o (IF StairDone(count)
             THEN << [slowReleCount |-> 0] >> \o NIBP_SetPressRelease("HOLD")
                  \o << [SlowReleTimeStauts |-> FALSE] >>
             ELSE << [slowReleCount |-> count] >>)

(* In automatic mode a next measurement less than 30 s away is put off;    *)
(* one that is already due is not (the subtraction wraps), so autoOut      *)
(* stays as it is in both cases.                                           *)
NIBP_ForceFastRelease(s) ==
  << [NIBP_Status |-> FALSE], [bIsPumpStop |-> FALSE], [algo_state |-> "IDLE"] >>
  \o NIBP_SetPWM(FALSE) \o NIBP_SetPressRelease("FAST")
  \o (IF s.curWorkMode = "CONTINUED" THEN << [contNextOut |-> FALSE] >> ELSE << >>)

(* Ten seconds of pumping have not brought 30 mmHg (reached is the answer  *)
(* of this check here): no cuff, or a leak.                                *)
OversleeveHandle(s, in) ==
  IF s.PWM_Status /\ s.sleeveOut /\ ~ in.reached THEN NIBP_ForceStop ELSE << >>

(* Fault: the protect timer is not looked at. *)
OnlyResultEnds(s) == s.isAllDone

MeasurementOver(s) == s.forceOut \/ s.isAllDone

(* NIBP_Handler, part by part. *)
HandlerPart(f, s, in) ==
  CASE f = "auto" ->
         IF s.curWorkMode = "AUTO" THEN NIBP_SampleAutoTest(s) ELSE << >>
    [] f = "continue" ->
         IF s.curWorkMode = "CONTINUED" THEN NIBP_ContinueModeHandle(s) ELSE << >>
    [] f = "venipuncture" ->
         IF s.curWorkMode = "VENIPUNCTURE" THEN GasLeakHandle(s) ELSE << >>
    [] f = "measuring" ->
         IF ~ s.NIBP_Status THEN << >>
         ELSE (IF s.algo_state = "FALLING" THEN NIBP_AutoPressReleHanlder(s, in) ELSE << >>)
              \o << Call("protect") >>
    [] f = "protect" ->
         IF MeasurementOver(s) THEN NIBP_ForceFastRelease(s) ELSE << >>
    [] f = "oversleeve" -> OversleeveHandle(s, in)
    [] f = "stm32" -> IF in.stm32 THEN NIBP_ForceStop ELSE << >>
    [] f = "SampleAutoTest" -> NIBP_SampleAutoTest(s)

NIBP_Handler ==
  << Call("auto"), Call("continue"), Call("venipuncture"), Call("measuring"),
     Call("oversleeve"), Call("stm32") >>

-----------------------------------------------------------------------------
(* The host's commands (onMessageHandler). *)

NIBP_SampleOneTime(s) ==
  << [curWorkMode |-> "MANUAL"] >>
  \o (IF s.NIBP_Status THEN NIBP_SetPWM(TRUE) ELSE NIBP_SampleOneTimeByDebug)
  \o << [bIsPumpStop |-> FALSE] >>

(* Fault: the break after case 0x00 is missing. *)
CycleFallsThrough(cycler) == << [curWorkMode |-> "AUTO"] >>

(* The last label of the switch reads "defalut": a cycle that is not in    *)
(* the list leaves the mode alone, and goes on as if it were automatic.    *)
CycleMode(cycler) ==
  IF cycler = "UNKNOWN" THEN << >> ELSE << [curWorkMode |-> cycler] >>

NIBP_SetCycle(cycler) ==
  CycleMode(cycler)
  \o << [curCycler |-> cycler], [NIBP_Status |-> FALSE],
        [SlowReleTimeStauts |-> FALSE] >> \o NIBP_SetPressRelease("FAST")
  \o (IF cycler = "MANUAL" THEN << >>
      ELSE << [autoOut |-> TRUE], Call("SampleAutoTest") >>)

NIBP_setVenipuncture(s) ==
  << [u8Venipuncture |-> "chosen"], [backup_mode |-> s.curWorkMode],
     [curWorkMode |-> "VENIPUNCTURE"], [NIBP_Status |-> FALSE] >> \o NIBP_startPumpCtrl

venipunctureStop(s) ==
  << [bIsPumpStop |-> FALSE] >> \o NIBP_SetPressRelease("FAST")
  \o << [curWorkMode |-> s.backup_mode] >>

NIBP_setContinueMode(s) ==
  << [backup_mode |-> s.curWorkMode], [curWorkMode |-> "CONTINUED"],
     [contTestOut |-> FALSE] >> \o NIBP_SampleOneTimeByDebug

NIBP_setGasLeakTest(s) ==
  << [is_gas_leak_test |-> TRUE], [u8Venipuncture |-> "180"], [backup_mode |-> s.curWorkMode],
     [curWorkMode |-> "VENIPUNCTURE"], [gas_leak_tick |-> "off"],
     [NIBP_Status |-> FALSE] >> \o NIBP_startPumpCtrl

nibp_staticPressureOn(s) ==
  << [NIBP_Status |-> FALSE], [bIsPumpStop |-> FALSE] >> \o NIBP_SetPWM(FALSE)
  \o NIBP_SetPressRelease("FAST")
  \o << [backup_mode |-> s.curWorkMode], [curWorkMode |-> "VENIPUNCTURE"] >>
  \o NIBP_SetPressRelease("HOLD") \o nibp_algorithm_start

nibp_staticPressureOff(s) ==
  << [curWorkMode |-> s.backup_mode] >> \o NIBP_SetPressRelease("FAST")

nibp_debug_pass_step(s) ==
  IF s.curWorkMode = "DEBUG" /\ s.PWM_Status
  THEN << [bIsCalculateDrop |-> TRUE] >> \o NIBP_SetPWM(FALSE) ELSE << >>

(* Leaving the calibration restores the mode of the last SetCycle. *)
NIBP_VerifyExit(s) == << [verifyStauts |-> FALSE] >> \o NIBP_SetCycle(s.curCycler)

onMessageHandler(cmd, s) ==
  CASE cmd = "START" -> NIBP_SampleOneTime(s)
    [] cmd = "STOP" -> NIBP_ForceStop
    [] cmd = "CYCLE_OFF" -> NIBP_SetCycle("MANUAL")
    [] cmd = "CYCLE_ON" -> NIBP_SetCycle("AUTO")
    [] cmd = "CYCLE_UNKNOWN" -> NIBP_SetCycle("UNKNOWN")
    [] cmd = "VENIPUNCTURE" -> NIBP_setVenipuncture(s)
    [] cmd = "VENIPUNCTURE_STOP" -> venipunctureStop(s)
    [] cmd = "CONTINUED" -> NIBP_setContinueMode(s)
    [] cmd = "GAS_LEAK" -> NIBP_setGasLeakTest(s)
    [] cmd = "VERIFY" -> << [verifyStauts |-> TRUE] >> \o NIBP_SetPressRelease("HOLD")
    [] cmd = "VERIFY_EXIT" -> NIBP_VerifyExit(s)
    [] cmd = "DEBUG_START" ->
         << [curWorkMode |-> "DEBUG"] >> \o NIBP_SampleOneTimeByDebug
    [] cmd = "DEBUG_PWM_ON" ->
         << [curWorkMode |-> "DEBUG"] >> \o nibp_debug_start_pwm(s)
    [] cmd = "DEBUG_PWM_OFF" -> nibp_debug_stop_pwm
    [] cmd = "DEBUG_PASS" -> nibp_debug_pass_step(s)
    [] cmd = "DEBUG_ALGO_ON" -> << [algo_sw |-> TRUE] >> \o nibp_algorithm_start
    [] cmd = "DEBUG_ALGO_OFF" -> << [algo_sw |-> FALSE] >>
    [] cmd = "STATIC_ON" -> nibp_staticPressureOn(s)
    [] cmd = "STATIC_OFF" -> nibp_staticPressureOff(s)

-----------------------------------------------------------------------------
Init ==
  /\ g = [NIBP_Status |-> FALSE, PWM_Status |-> FALSE, pump |-> FALSE,
          slowPin |-> "LOW", fastPin |-> "LOW", curWorkMode |-> "MANUAL", backup_mode |-> "MANUAL",
          curCycler |-> "MANUAL", algo_state |-> "IDLE", bIsPumpStop |-> FALSE,
          SlowReleTimeStauts |-> FALSE, isRisingStateRele |-> FALSE,
          u8RisingStepCount |-> 0, isFisrtRisingStep |-> FALSE,
          isRisingDone |-> FALSE, isAllDone |-> FALSE,
          risingResult |-> "old", stepData |-> "none",
          slowRele |-> 0, slowReleCount |-> 0,
          bIsCalculateDrop |-> FALSE, verifyStauts |-> FALSE,
          algo_sw |-> TRUE, u8Venipuncture |-> "none",
          is_gas_leak_test |-> FALSE, gas_leak_tick |-> "off",
          forceOut |-> FALSE, holdOut |-> FALSE, weakOut |-> FALSE,
          sleeveOut |-> TRUE, autoOut |-> FALSE, contTestOut |-> FALSE,
          contNextOut |-> FALSE]
  /\ code = << >>
  /\ session \in Sessions

(* One pass of the main loop. *)
MainLoop ==
  /\ code = << >>
  /\ code' = NIBP_Handler \o << Call("uart"), Call("algorithm") >>
  /\ g' = g
  /\ session' = session

MainAssign ==
  /\ code # << >>
  /\ "call" \notin DOMAIN Head(code)
  /\ g' = Head(code) @@ g
  /\ code' = Tail(code)
  /\ session' = session

MainHandler ==
  /\ code # << >>
  /\ "call" \in DOMAIN Head(code)
  /\ Head(code).call \notin {"uart", "algorithm"}
  /\ \E in \in Input : code' = HandlerPart(Head(code).call, g, in) \o Tail(code)
  /\ g' = g
  /\ session' = session

Uart2MCU_RxPacketCheck ==
  /\ code # << >>
  /\ Head(code) = Call("uart")
  /\ \/ code' = Tail(code)
     \/ \E cmd \in session.commands : code' = onMessageHandler(cmd, g) \o Tail(code)
  /\ g' = g
  /\ session' = session

(* With the samples of a stair complete the algorithm may ask for another  *)
(* step, declare the inflation done or, later, the whole measurement.      *)
nibp_algorithm_handler ==
  /\ code # << >>
  /\ Head(code) = Call("algorithm")
  /\ \/ g' = g
     \/ /\ g.algo_sw /\ g.stepData = "complete"
        /\ \/ g' = [stepData |-> "none"] @@ g
           \/ /\ ~ g.isRisingDone
              /\ \/ g' = [stepData |-> "none", risingResult |-> "new"] @@ g
                 \/ g' = [stepData |-> "none", isRisingDone |-> TRUE] @@ g
           \/ /\ g.isRisingDone
              /\ g' = [stepData |-> "none", isAllDone |-> TRUE] @@ g
  /\ code' = Tail(code)
  /\ session' = session

MainStep ==
  MainLoop \/ MainAssign \/ MainHandler \/ Uart2MCU_RxPacketCheck \/ nibp_algorithm_handler

(* The interrupt. *)
IVG8_ISR ==
  /\ \E in \in Input : g' = NIBP_StartSample(g, in)
  /\ code' = code
  /\ session' = session

(* A timer runs out, between two passes of the main loop: the timers run   *)
(* for seconds, a pass takes milliseconds.  The hold timer is looked at    *)
(* from everywhere; each other one is followed only while somebody waits   *)
(* for it.                                                                 *)
Expire(t, waited) ==
  /\ code = << >>
  /\ waited
  /\ ~ g[t]
  /\ g' = [g EXCEPT ![t] = TRUE]
  /\ code' = code
  /\ session' = session

Timeout ==
  \/ Expire("forceOut", g.NIBP_Status)
  \/ Expire("holdOut", TRUE)
  \/ Expire("weakOut", "weak" \in session.events /\ g.NIBP_Status)
  \/ Expire("sleeveOut", g.PWM_Status)
  \/ Expire("autoOut", g.curWorkMode = "AUTO")
  \/ Expire("contTestOut", g.curWorkMode = "CONTINUED")
  \/ Expire("contNextOut", g.curWorkMode = "CONTINUED")

GasTimeout ==
  /\ code = << >>
  /\ g.gas_leak_tick = "armed" /\ g.is_gas_leak_test
  /\ g' = [gas_leak_tick |-> "due"] @@ g
  /\ code' = code
  /\ session' = session

Next == MainStep \/ IVG8_ISR \/ Timeout \/ GasTimeout

Spec == Init /\ [][Next]_vars

-----------------------------------------------------------------------------
FieldType ==
  [NIBP_Status |-> BOOLEAN, PWM_Status |-> BOOLEAN, pump |-> BOOLEAN,
   slowPin |-> {"LOW", "HIGH"}, fastPin |-> {"LOW", "HIGH"}, curWorkMode |-> WorkMode,
   backup_mode |-> WorkMode, curCycler |-> {"MANUAL", "AUTO", "UNKNOWN"},
   algo_state |-> {"IDLE", "RISING", "FALLING"}, bIsPumpStop |-> BOOLEAN,
   SlowReleTimeStauts |-> BOOLEAN, isRisingStateRele |-> BOOLEAN,
   u8RisingStepCount |-> {0, 1}, isFisrtRisingStep |-> BOOLEAN,
   isRisingDone |-> BOOLEAN, isAllDone |-> BOOLEAN,
   risingResult |-> {"old", "new"}, stepData |-> {"none", "sampling", "complete"},
   slowRele |-> 0 .. Steps, slowReleCount |-> 0 .. TEST_SLOW_RELE_COUNT,
   bIsCalculateDrop |-> BOOLEAN, verifyStauts |-> BOOLEAN, algo_sw |-> BOOLEAN,
   u8Venipuncture |-> {"none", "chosen", "180"},
   is_gas_leak_test |-> BOOLEAN, gas_leak_tick |-> {"off", "armed", "due"},
   forceOut |-> BOOLEAN, holdOut |-> BOOLEAN, weakOut |-> BOOLEAN,
   sleeveOut |-> BOOLEAN, autoOut |-> BOOLEAN, contTestOut |-> BOOLEAN,
   contNextOut |-> BOOLEAN]

(* An assignment, or a whole state, gives its fields values of their types. *)
Typed(a) == \A f \in DOMAIN a : f \in DOMAIN FieldType /\ a[f] \in FieldType[f]

Parts ==
  {"auto", "continue", "venipuncture", "measuring", "protect", "oversleeve",
   "stm32", "SampleAutoTest", "uart", "algorithm"}

TypeOK ==
  /\ DOMAIN g = DOMAIN FieldType /\ Typed(g)
  /\ \A i \in 1 .. Len(code) : Typed(code[i]) \/ code[i] \in {Call(f) : f \in Parts}
  /\ session \in Sessions

(* No over-pressure in this session: the interrupt stops a measurement     *)
(* then, and if it falls into a start the pump starts after the stop.      *)
NoOverload == "overload" \notin session.events

(* The host only starts, stops and watches measurements. *)
OnlyMeasures ==
  session.commands \subseteq {"START", "STOP", "CONTINUED", "DEBUG_START", "DEBUG_PWM_ON",
                              "DEBUG_PWM_OFF", "DEBUG_ALGO_OFF"}

(* The cuff is sealed when both valves are closed. *)
CuffClosed == g.slowPin = "HIGH" /\ g.fastPin = "HIGH"

(* Outside a measurement nobody watches the cuff (no timer runs, the       *)
(* handler looks at nothing), so it must not be sealed.                    *)
IdleCuffOpen ==
  OnlyMeasures /\ NoOverload /\ code = << >> /\ ~ g.NIBP_Status => ~ CuffClosed

(* The pump never runs behind the back of g_NIBP_PWM_Status, on which the  *)
(* interrupt and the oversleeve check rely to stop it: only inside SetPWM  *)
(* the status may lag behind the register.                                 *)
PumpKnown ==
  g.pump /\ ~ g.PWM_Status => code # << >> /\ Head(code) = [PWM_Status |-> TRUE]

(* START and DEBUG_PWM_ON start the pump in any phase of a measurement.    *)
(* In the deflation nothing stops it again: it runs on when the last stair *)
(* ends the measurement.                                                   *)
NoRestart == session.commands \cap {"START", "DEBUG_PWM_ON"} = {}

(* The pump is off while the pressure comes down stair by stair. *)
NoPumpInDeflation ==
  NoRestart /\ code = << >> /\ g.NIBP_Status /\ g.algo_state = "FALLING" => ~ g.pump

(* The monitor measures on its own only while the last cycle the host has  *)
(* chosen is an automatic one.                                             *)
AutoOnlyIfChosen ==
  code = << >> /\ g.curWorkMode = "AUTO" => g.curCycler = "AUTO"

(* Outside a measurement the pump is off. *)
IdlePumpOff ==
  OnlyMeasures /\ NoOverload /\ NoRestart /\ code = << >> /\ ~ g.NIBP_Status => ~ g.pump

(* No measurement outlives its protect timer: once the timer has run out,  *)
(* the measurement is over before the pass of the main loop comes to the   *)
(* host's next command, whatever the interrupt does meanwhile.             *)
ProtectTimerObeyed ==
  code # << >> /\ Head(code) = Call("uart") => ~ (g.NIBP_Status /\ g.forceOut)
=============================================================================
