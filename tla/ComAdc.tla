------------------------------- MODULE ComAdc -------------------------------
(***************************************************************************)
(* The common ADC of the DSP (external_adc_com.c), which measures the cuff *)
(* pressure every 10 ms and, twice a second, one of the temperature probes *)
(* through the same converter.                                             *)
(*                                                                         *)
(* A conversion is two rounds of "data ready" (IVG9) and "read" (Timer1,   *)
(* IVG13): the first read is thrown away and the input multiplexer is set, *)
(* after a delay the second read gives the value.  The inputs are selected *)
(* by a shift register (sn74hc595.c) that the main loop also writes, for   *)
(* the temperature probe.  Interrupts do not nest, and every handler is    *)
(* one step; the main loop can be interrupted between any two of its       *)
(* accesses.  A value is represented by the input it was converted from.   *)
(***************************************************************************)
EXTENDS Naturals, FiniteSets

CONSTANTS
  Scenarios,     \* the scenarios of this instance: sets of what may happen
  MaxLag,        \* bound: the periods of 500 ms a "late" main loop may be behind
  SampleCount    \* the samples NIBP_ADC_Average takes

ASSUME ComAdcAssumption ==
  /\ Scenarios \subseteq SUBSET {"probes", \* the host changes the temperature probes
                                "calib",  \* the host calibrates the pressure
                                "blind",  \* and asks for values outside the calibration
                                "late"}   \* the main loop, or the ADC, falls behind
  /\ MaxLag \in Nat \ {0} /\ SampleCount \in Nat \ {0}

Probes == {"TEMP_COM", "TEMP_CH1", "TEMP_CH2", "TEMP_COM_R"}
Probes1 == {"TEMP_CH1", "TEMP_COM"}    \* the probes of g_TempADC_Val[0]
Inputs == {"NIBP"} \cup Probes
Outputs == [adc : {"NIBP", "TEMP"}, temp : Probes]
NoCopy == [adc |-> "NIBP", temp |-> "TEMP_COM"]    \* what tmp is when it is dead

VARIABLES
  scenario,      \* chosen once
  adc,           \* the sequencer: g_COMADC_channel, g_COMADC_state, the mode of
                 \* the data pin, Timer1 and its target, what the converter holds
  g_HCT595Value, \* the main memory copy of the shift register
  mux,           \* the outputs of the shift register
  rclk,          \* its latch clock
  settled,       \* the converter has seen the present input for long enough
  temp,          \* IsTempNeedSample, g_TempChannel, channelStatus, IsSampleTempCOM
  g_TempADC_Val, \* the two temperatures
  adc_val,       \* g_pNIBP_dev->adc_val, the pressure
  verify,        \* verifyStauts and waitForADCStatus
  main,          \* where the main loop is: pc, the loaded copy tmp, the samples
                 \* of NIBP_ADC_Average so far and those still to take, and
                 \* whether it began when the pressure was selected (calm)
  lag            \* periods of Temperature_Handler that are due

vars == <<scenario, adc, g_HCT595Value, mux, rclk, settled, temp, g_TempADC_Val,
          adc_val, verify, main, lag>>

-----------------------------------------------------------------------------
StartAdc == [channel |-> "NIBP", state |-> 0, pin |-> "DIN", tim1 |-> "off",
             data |-> "none", owner |-> "isr"]
StartOutputs == [adc |-> "NIBP", temp |-> "TEMP_COM"]
StartTemp == [need |-> FALSE, channel |-> "TEMP_COM", status |-> 0, com |-> FALSE]
StartMain == [pc |-> "loop", tmp |-> NoCopy, sum |-> {}, left |-> 0, calm |-> TRUE]

Init ==
  /\ scenario \in Scenarios
  /\ adc = StartAdc
  /\ g_HCT595Value = StartOutputs /\ mux = StartOutputs /\ rclk = "HIGH" /\ settled = TRUE
  /\ temp = StartTemp
  /\ g_TempADC_Val = [i \in {0, 1} |-> "none"]
  /\ adc_val = "none"
  /\ verify = [stauts |-> FALSE, wait |-> FALSE]
  /\ main = StartMain
  /\ lag = 0

(* The input that the outputs v lead to the converter. *)
Selected(v) == IF v.adc = "NIBP" THEN "NIBP" ELSE v.temp

(* AHCT595_Refresh as an interrupt performs it, with v in the memory copy: *)
(* the bits are shifted in and the rising edge of RCLK latches them.       *)
Refresh(v) ==
  /\ g_HCT595Value' = v
  /\ mux' = v
  /\ rclk' = "HIGH"
  /\ settled' = (settled /\ Selected(v) = Selected(mux))

AHCT595_SetComADCChannel(channel) == Refresh([g_HCT595Value EXCEPT !.adc = channel])

-----------------------------------------------------------------------------
(* The interrupts. *)

(* Nothing is being converted. *)
Quiet == adc.pin = "DIN" /\ adc.tim1 = "off"

(* IVG8, every 10 ms.  The conversions of the last one took about 1 ms;    *)
(* only one the main loop has started may still be under way.              *)
NIBP_StartSample ==
  /\ Quiet \/ adc.owner = "main"
  /\ adc' = [adc EXCEPT !.channel = "NIBP", !.state = 0, !.pin = "DRDY", !.owner = "isr"]
  /\ UNCHANGED <<scenario, g_HCT595Value, mux, rclk, settled, temp, g_TempADC_Val,
                 adc_val, verify, main, lag>>

(* The falling edge of the data pin: the conversion of the present input   *)
(* is ready, Timer1 will read it.                                          *)
IVG9_ISR ==
  /\ adc.pin = "DRDY"
  /\ adc' = [adc EXCEPT !.pin = "DIN", !.tim1 = "COM_ADC_R",
               !.data = IF settled THEN Selected(mux) ELSE "unsettled"]
  /\ UNCHANGED <<scenario, g_HCT595Value, mux, rclk, settled, temp, g_TempADC_Val,
                 adc_val, verify, main, lag>>

(* Fault: the pin is armed at once, without the delay of the multiplexer. *)
SelectWithoutDelay ==
  /\ adc' = [adc EXCEPT !.state = 1, !.tim1 = "off", !.pin = "DRDY", !.data = "none"]
  /\ AHCT595_SetComADCChannel(adc.channel)
  /\ UNCHANGED <<temp, g_TempADC_Val, adc_val, verify>>

(* Fault: the multiplexer is left on the last temperature probe. *)
SelectOnlyTemp ==
  /\ adc' = [adc EXCEPT !.state = 1, !.tim1 = "COM_ADC_START", !.data = "none"]
  /\ IF adc.channel = "TEMP" THEN AHCT595_SetComADCChannel(adc.channel)
                             ELSE UNCHANGED <<g_HCT595Value, mux, rclk, settled>>
  /\ UNCHANGED <<temp, g_TempADC_Val, adc_val, verify>>

(* The first read: select the input and wait ADC_MUX_CHANGE_DELAY. *)
SelectInput ==
  /\ adc' = [adc EXCEPT !.state = 1, !.tim1 = "COM_ADC_START", !.data = "none"]
  /\ AHCT595_SetComADCChannel(adc.channel)
  /\ UNCHANGED <<temp, g_TempADC_Val, adc_val, verify>>

(* Fault: the calibration is not told that its sample is there. *)
StoreWithoutSignal ==
  /\ adc.channel = "NIBP"
  /\ adc_val' = adc.data
  /\ adc' = [adc EXCEPT !.state = 0, !.tim1 = "off", !.data = "none",
               !.channel = IF temp.need /\ ~ verify.stauts THEN "TEMP" ELSE @,
               !.pin = IF temp.need /\ ~ verify.stauts THEN "DRDY" ELSE @]
  /\ verify' = verify
  /\ UNCHANGED <<temp, g_TempADC_Val>>

(* The second read of a pressure.  During a calibration the main loop      *)
(* waits for it; otherwise a temperature may follow.                       *)
StorePressure ==
  /\ adc.channel = "NIBP"
  /\ adc_val' = adc.data
  /\ LET next == temp.need /\ ~ verify.stauts IN
       adc' = [adc EXCEPT !.state = 0, !.tim1 = "off", !.data = "none",
                 !.channel = IF next THEN "TEMP" ELSE @,
                 !.pin = IF next THEN "DRDY" ELSE @]
  /\ verify' = [verify EXCEPT !.wait = @ /\ ~ verify.stauts]
  /\ UNCHANGED <<temp, g_TempADC_Val>>

(* Fault: the request stays. *)
StoreKeepsRequest ==
  /\ adc.channel = "TEMP"
  /\ g_TempADC_Val' = [g_TempADC_Val EXCEPT
                         ![IF temp.channel \in Probes1 THEN 0 ELSE 1] = adc.data]
  /\ adc' = [adc EXCEPT !.state = 0, !.tim1 = "off", !.data = "none"]
  /\ UNCHANGED <<temp, adc_val, verify>>

StoreTemperature ==
  /\ adc.channel = "TEMP"
  /\ g_TempADC_Val' = [g_TempADC_Val EXCEPT
                         ![IF temp.channel \in Probes1 THEN 0 ELSE 1] = adc.data]
  /\ temp' = [temp EXCEPT !.need = FALSE]
  /\ adc' = [adc EXCEPT !.state = 0, !.tim1 = "off", !.data = "none"]
  /\ UNCHANGED <<adc_val, verify>>

(* Timer1: the read, or the end of the multiplexer's delay. *)
COM_ADC_SaveData ==
  /\ adc.tim1 = "COM_ADC_R"
  /\ IF adc.state = 0 THEN SelectInput
     ELSE /\ StorePressure \/ StoreTemperature
          /\ UNCHANGED <<g_HCT595Value, mux, rclk, settled>>
  /\ UNCHANGED <<scenario, main, lag>>

COM_ADC_SampleStart ==
  /\ adc.tim1 = "COM_ADC_START"
  /\ adc' = [adc EXCEPT !.tim1 = "off", !.pin = "DRDY"]
  /\ settled' = TRUE
  /\ UNCHANGED <<scenario, g_HCT595Value, mux, rclk, temp, g_TempADC_Val,
                 adc_val, verify, main, lag>>

-----------------------------------------------------------------------------
(* Temperature_Handler, in the main loop. *)

At(from, to) == main.pc = from /\ main' = [main EXCEPT !.pc = to]

HandlerOnly == UNCHANGED <<scenario, adc, g_TempADC_Val, adc_val, verify>>

(* It is time for the other probe. *)
ChooseProbe ==
  /\ lag > 0
  /\ At("loop", "check")
  /\ temp' = [temp EXCEPT !.channel =
       IF temp.com THEN IF temp.status = 0 THEN "TEMP_COM" ELSE "TEMP_COM_R"
                   ELSE IF temp.status = 0 THEN "TEMP_CH1" ELSE "TEMP_CH2"]
  /\ HandlerOnly /\ UNCHANGED <<g_HCT595Value, mux, rclk, settled, lag>>

(* The last request has not been served: a warning, and no new request. *)
LostSample ==
  /\ temp.need
  /\ At("check", "done")
  /\ HandlerOnly /\ UNCHANGED <<g_HCT595Value, mux, rclk, settled, temp, lag>>

(* AHCT595_SetTempChannel: the memory copy is read, changed and written    *)
(* back, in one go or once to clear the field and once to set it.          *)
LoadCopy ==
  /\ \/ ~ temp.need /\ main.pc = "check"
     \/ main.pc = "reload"
  /\ \E pc \in {"clear", "set"} :
       /\ main.pc = "reload" => pc = "set"
       /\ main' = [main EXCEPT !.pc = pc, !.tmp = g_HCT595Value]
  /\ HandlerOnly /\ UNCHANGED <<g_HCT595Value, mux, rclk, settled, temp, lag>>

ClearField ==
  /\ main.pc = "clear"
  /\ main' = [main EXCEPT !.pc = "reload", !.tmp = NoCopy]
  /\ g_HCT595Value' = [main.tmp EXCEPT !.temp = "TEMP_COM"]
  /\ HandlerOnly /\ UNCHANGED <<mux, rclk, settled, temp, lag>>

SetField ==
  /\ main.pc = "set"
  /\ main' = [main EXCEPT !.pc = "shift", !.tmp = NoCopy]
  /\ g_HCT595Value' = [main.tmp EXCEPT !.temp = temp.channel]
  /\ HandlerOnly /\ UNCHANGED <<mux, rclk, settled, temp, lag>>

(* AHCT595_Refresh: RCLK goes low, the bits are shifted, RCLK goes high.   *)
(* An interrupt that refreshes in between leaves RCLK high: there is no    *)
(* edge left for the main loop's bits, and the interrupt's stay.           *)
ShiftOut ==
  /\ At("shift", "latch")
  /\ rclk' = "LOW"
  /\ HandlerOnly /\ UNCHANGED <<g_HCT595Value, mux, settled, temp, lag>>

Latch ==
  /\ At("latch", "request")
  /\ IF rclk = "LOW" THEN Refresh(g_HCT595Value)
                     ELSE UNCHANGED <<g_HCT595Value, mux, rclk, settled>>
  /\ HandlerOnly /\ UNCHANGED <<temp, lag>>

RequestSample ==
  /\ At("request", "done")
  /\ temp' = [temp EXCEPT !.need = TRUE]
  /\ HandlerOnly /\ UNCHANGED <<g_HCT595Value, mux, rclk, settled, lag>>

(* Fault: the status counts instead of changing to and fro. *)
NextPeriodCounts ==
  /\ At("done", "loop")
  /\ temp' = [temp EXCEPT !.status = @ + 1]
  /\ lag' = lag - 1
  /\ HandlerOnly /\ UNCHANGED <<g_HCT595Value, mux, rclk, settled>>

(* ulNextChangeTime advances by one period: a late handler catches up. *)
NextPeriod ==
  /\ At("done", "loop")
  /\ temp' = [temp EXCEPT !.status = 1 - @]
  /\ lag' = lag - 1
  /\ HandlerOnly /\ UNCHANGED <<g_HCT595Value, mux, rclk, settled>>

Temperature_Handler ==
  \/ ChooseProbe \/ LostSample \/ LoadCopy \/ ClearField \/ SetField
  \/ ShiftOut \/ Latch \/ RequestSample \/ NextPeriod

-----------------------------------------------------------------------------
(* The host's commands, in the main loop. *)

temp_setChannel ==
  /\ "probes" \in scenario
  /\ At("loop", "loop")
  /\ temp' = [temp EXCEPT !.com = ~ @]
  /\ HandlerOnly /\ UNCHANGED <<g_HCT595Value, mux, rclk, settled, lag>>

NIBP_VerifyBySimulator ==
  /\ "calib" \in scenario
  /\ At("loop", "loop")
  /\ verify' = [verify EXCEPT !.stauts = ~ @]
  /\ UNCHANGED <<scenario, adc, g_TempADC_Val, adc_val, g_HCT595Value, mux, rclk,
                 settled, temp, lag>>

MainOnly == UNCHANGED <<scenario, g_TempADC_Val, adc_val, g_HCT595Value, mux, rclk,
                        settled, temp, lag>>

(* The calibration is entered and no temperature is being converted. *)
Calm == verify.stauts /\ mux.adc = "NIBP" /\ adc.channel = "NIBP" /\ settled

(* NIBP_VerifyAction: the host asks for a calibration value.  The code     *)
(* does not ask whether it has entered the calibration.                    *)
NIBP_VerifyAction ==
  /\ verify.stauts \/ "blind" \in scenario
  /\ main.pc = "loop"
  /\ main' = [main EXCEPT !.pc = "announce", !.sum = {}, !.left = SampleCount, !.calm = Calm]
  /\ MainOnly /\ UNCHANGED <<adc, verify>>

(* Fault: the flag is raised after the conversion was started. *)
AnnounceNothing ==
  /\ At("announce", "channel")
  /\ MainOnly /\ UNCHANGED <<adc, verify>>

(* NIBP_ADC_Average, sample by sample. *)
Announce ==
  /\ At("announce", "channel")
  /\ verify' = [verify EXCEPT !.wait = TRUE]
  /\ MainOnly /\ UNCHANGED adc

ArmChannel ==
  /\ At("channel", "state")
  /\ adc' = [adc EXCEPT !.channel = "NIBP"]
  /\ MainOnly /\ UNCHANGED verify

ArmState ==
  /\ At("state", "pin")
  /\ adc' = [adc EXCEPT !.state = 0]
  /\ MainOnly /\ UNCHANGED verify

ArmPin ==
  /\ At("pin", "wait")
  /\ adc' = [adc EXCEPT !.pin = "DRDY", !.owner = "main"]
  /\ MainOnly /\ UNCHANGED verify

TakeSample ==
  /\ verify.wait = FALSE
  /\ main.pc = "wait"
  /\ main' = [main EXCEPT !.pc = "delay", !.sum = @ \cup {adc_val}, !.left = @ - 1]
  /\ MainOnly /\ UNCHANGED <<adc, verify>>

(* Delay1ms(2): a conversion of its own that is still under way comes to   *)
(* its end.                                                                *)
DelayAfterSample ==
  /\ Quiet \/ adc.owner = "isr"
  /\ main.pc = "delay"
  /\ main' = IF main.left > 0 THEN [main EXCEPT !.pc = "announce"]
             ELSE [main EXCEPT !.pc = "loop", !.sum = {}, !.calm = TRUE]
  /\ MainOnly /\ UNCHANGED <<adc, verify>>

NIBP_ADC_Average == Announce \/ ArmChannel \/ ArmState \/ ArmPin \/ TakeSample \/ DelayAfterSample

-----------------------------------------------------------------------------
(* Outside the calibration nobody tells NIBP_ADC_Average that its sample   *)
(* is there: the main loop stands, does not feed the external watchdog     *)
(* (external_watchdog.c), and the DSP is reset.                            *)
WatchdogReset ==
  /\ main.pc = "wait" /\ verify.wait /\ ~ verify.stauts
  /\ adc' = StartAdc
  /\ g_HCT595Value' = StartOutputs /\ mux' = StartOutputs /\ rclk' = "HIGH" /\ settled' = TRUE
  /\ temp' = StartTemp
  /\ g_TempADC_Val' = [i \in {0, 1} |-> "none"] /\ adc_val' = "none"
  /\ verify' = [stauts |-> FALSE, wait |-> FALSE]
  /\ main' = StartMain
  /\ lag' = 0
  /\ UNCHANGED scenario

(* Every 10 ms a sample is started: the ADC has long served the last       *)
(* request when 500 ms are over, and the main loop has run the handler.    *)
InTime ==
  /\ main.pc = "loop" /\ lag = 0
  /\ mux.adc = "NIBP" /\ adc.channel = "NIBP"
  /\ temp.need => verify.stauts

(* 500 ms have passed; in the scenario "late" at any moment. *)
Period ==
  /\ lag < MaxLag
  /\ "late" \in scenario \/ InTime
  /\ lag' = lag + 1
  /\ UNCHANGED <<scenario, adc, g_HCT595Value, mux, rclk, settled, temp, g_TempADC_Val,
                 adc_val, verify, main>>

Interrupt == IVG9_ISR \/ COM_ADC_SaveData \/ COM_ADC_SampleStart
MainStep == Temperature_Handler \/ NIBP_ADC_Average

Next ==
  \/ Interrupt \/ NIBP_StartSample
  \/ MainStep \/ temp_setChannel \/ NIBP_VerifyBySimulator \/ NIBP_VerifyAction
  \/ Period \/ WatchdogReset

Spec == Init /\ [][Next]_vars

(* The converter and the timers run on, every 10 ms a sample is started,   *)
(* and the main loop goes on.                                              *)
FairSpec ==
  Spec /\ WF_vars(Interrupt) /\ WF_vars(NIBP_StartSample) /\ WF_vars(MainStep)

-----------------------------------------------------------------------------
TypeOK ==
  /\ scenario \in Scenarios
  /\ adc \in [channel : {"NIBP", "TEMP"}, state : {0, 1}, pin : {"DIN", "DRDY"},
              tim1 : {"off", "COM_ADC_R", "COM_ADC_START"},
              data : Inputs \cup {"none", "unsettled"}, owner : {"isr", "main"}]
  /\ g_HCT595Value \in Outputs /\ mux \in Outputs
  /\ rclk \in {"HIGH", "LOW"} /\ settled \in BOOLEAN
  /\ temp \in [need : BOOLEAN, channel : Probes, status : {0, 1}, com : BOOLEAN]
  /\ g_TempADC_Val \in [{0, 1} -> Inputs \cup {"none", "unsettled"}]
  /\ adc_val \in Inputs \cup {"none", "unsettled"}
  /\ verify \in [stauts : BOOLEAN, wait : BOOLEAN]
  /\ main.tmp \in Outputs /\ main.sum \subseteq Inputs \cup {"none", "unsettled"}
  /\ main.left \in 0 .. SampleCount /\ main.calm \in BOOLEAN
  /\ lag \in 0 .. MaxLag

(* What is used as the cuff pressure was converted from the pressure       *)
(* sensor, after the multiplexer had settled.  (A main loop that is late,  *)
(* or a calibration that holds a request up, may switch the multiplexer    *)
(* behind the sequencer's back: nothing in the code prevents that.)        *)
PressureIsPressure ==
  [][ (/\ scenario \subseteq {"probes"}
       /\ adc.tim1 = "COM_ADC_R" /\ adc'.tim1 = "off" /\ adc.channel = "NIBP")
        => adc_val' = "NIBP" ]_vars

(* The values of a calibration are pressures, if the host asked for them   *)
(* in the calibration and after the last temperature was converted.        *)
CalibrationIsPressure == main.calm => main.sum \subseteq {"NIBP"}

(* The two temperatures are those of their own probes. *)
TempInItsSlot ==
  /\ g_TempADC_Val[0] \in {"none"} \cup Probes1
  /\ g_TempADC_Val[1] \in {"none"} \cup (Probes \ Probes1)

(* So they are unless the handler had to skip a request: in a calibration, *)
(* or when it catches up.                                                  *)
TempInItsSlotSteady == scenario \subseteq {"probes"} => TempInItsSlot

(* Every request for a temperature is served. *)
TempServed == temp.need ~> (~ temp.need \/ verify.stauts)

(* NIBP_ADC_Average gets its samples in a calibration, whatever the 10 ms  *)
(* interrupt restarts and whatever is being converted when it begins.      *)
CalibrationEnds == main.pc = "announce" /\ verify.stauts ~> main.pc = "loop"
=============================================================================
