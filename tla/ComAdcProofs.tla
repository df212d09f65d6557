---------------------------- MODULE ComAdcProofs ----------------------------
(***************************************************************************)
(* Proofs about the common ADC, for any lag of the main loop and any       *)
(* number of samples: the values of a calibration are pressures, and as    *)
(* long as the main loop keeps up each temperature lands in its own place. *)
(*                                                                         *)
(* The argument: a settled converter holds the value of the input that is  *)
(* selected now (Converted).  During NIBP_ADC_Average nobody selects       *)
(* another input (Averaging).  With a main loop that keeps up a request    *)
(* for a temperature is made only after the shift register is set, and the *)
(* next period begins only when it has been served (Requests); so the      *)
(* handler never meets a conversion of a temperature, its copy of the      *)
(* register is never stale (Register), and the second read of a conversion *)
(* is about the input that was asked for (SecondRead).                     *)
(***************************************************************************)
EXTENDS ComAdc, TLAPS

Values == Inputs \cup {"none", "unsettled"}

(* Where the main loop can be: in Temperature_Handler, in NIBP_ADC_Average. *)
HandlerPcs == {"check", "clear", "reload", "set", "shift", "latch", "request", "done"}
AveragePcs == {"announce", "channel", "state", "pin", "wait", "delay"}

(* The record of the main loop. *)
MainType ==
  main \in [pc : {"loop"} \cup HandlerPcs \cup AveragePcs, tmp : Outputs,
            sum : SUBSET Values, left : 0 .. SampleCount, calm : BOOLEAN]

(* The bounds of the counters where they are decremented. *)
Counters ==
  /\ main.pc \in HandlerPcs => lag > 0
  /\ main.pc \in AveragePcs \ {"delay"} => main.left > 0

(* A settled converter gives the value of the input that is selected now.  *)
Converted == adc.tim1 = "COM_ADC_R" /\ settled => adc.data = Selected(mux)

(* An average that began on the pressure inside a calibration: the         *)
(* multiplexer stays on the pressure, and a sample that is announced and   *)
(* there is a pressure.                                                    *)
Averaging ==
  main.calm =>
    /\ main.pc \in AveragePcs =>
         verify.stauts /\ mux.adc = "NIBP" /\ adc.channel = "NIBP" /\ settled
    /\ main.pc \in {"channel", "state", "pin", "wait"} /\ ~ verify.wait => adc_val = "NIBP"
    /\ main.sum \subseteq {"NIBP"}

(* Without a calibration and with a main loop that keeps up: *)

(* a temperature is converted only on request, and a request is made when  *)
(* the handler is through with the shift register;                         *)
Requests ==
  /\ ~ verify.stauts /\ adc.owner = "isr" /\ main.pc \notin AveragePcs /\ lag <= 1
  /\ adc.channel = "TEMP" => temp.need \/ Quiet
  /\ temp.need => /\ main.pc = "done" \/ (main.pc = "loop" /\ lag = 0)
                  /\ mux.temp = temp.channel

(* meanwhile the handler finds the multiplexer on the pressure, and its    *)
(* copy of the register stays true;                                        *)
Register ==
  /\ main.pc \in HandlerPcs \ {"done"} \/ (main.pc = "loop" /\ lag = 1) =>
       adc.channel = "NIBP" /\ mux.adc = "NIBP" /\ g_HCT595Value.adc = "NIBP"
  /\ main.pc \in {"clear", "set"} => main.tmp.adc = "NIBP"
  /\ main.pc \in {"loop", "check", "request", "done"} => mux = g_HCT595Value
  /\ main.pc = "latch" /\ rclk = "HIGH" => mux = g_HCT595Value
  /\ main.pc \in {"shift", "latch", "request"} => g_HCT595Value.temp = temp.channel

(* and the second read of a conversion is about the input asked for.       *)
SecondRead ==
  /\ adc.pin = "DRDY" => adc.tim1 = "off"
  /\ adc.state = 1 => mux.adc = adc.channel
  /\ adc.state = 1 => settled \/ adc.tim1 = "COM_ADC_START"

(* so both temperatures are what they should be.                           *)
Right == TempInItsSlot

Steady == scenario \subseteq {"probes"} => Requests /\ Register /\ SecondRead /\ Right

IInv == TypeOK /\ MainType /\ Counters /\ Converted /\ Averaging /\ Steady

-----------------------------------------------------------------------------
(* The input that outputs select. *)
LEMMA SelectedType == ASSUME NEW v \in Outputs PROVE Selected(v) \in Inputs
  BY DEF Selected, Outputs, Inputs

(* NIBP_StartSample begins a conversion of the pressure. *)
LEMMA StartSampleIInv == ASSUME IInv, NIBP_StartSample PROVE IInv'
<1>1. /\ Quiet \/ adc.owner = "main"
      /\ adc'.channel = "NIBP" /\ adc'.state = 0 /\ adc'.pin = "DRDY"
      /\ adc'.owner = "isr" /\ adc'.tim1 = adc.tim1 /\ adc'.data = adc.data
  BY DEF NIBP_StartSample, IInv, TypeOK
<1>2. /\ scenario' = scenario /\ g_HCT595Value' = g_HCT595Value /\ mux' = mux /\ rclk' = rclk
      /\ settled' = settled /\ temp' = temp /\ g_TempADC_Val' = g_TempADC_Val
      /\ adc_val' = adc_val /\ verify' = verify /\ main' = main /\ lag' = lag
  BY DEF NIBP_StartSample
<1>3. TypeOK'
  BY <1>2 DEF IInv, TypeOK, NIBP_StartSample
<1>4. MainType' /\ Counters' /\ Converted'
  BY <1>1, <1>2 DEF IInv, MainType, Counters, Converted, Selected
<1>5. Averaging'
  BY <1>1, <1>2 DEF IInv, Averaging
<1>6. Steady'
  <2> SUFFICES ASSUME scenario \subseteq {"probes"} PROVE (Requests /\ Register /\ SecondRead /\ Right)'
    BY <1>2 DEF Steady
  <2>1. Requests /\ Register /\ SecondRead /\ Right
    BY DEF IInv, Steady
  <2>2. Requests'
    BY <1>1, <1>2, <2>1 DEF Requests
  <2>3. Register'
    BY <1>1, <1>2, <2>1 DEF Register
  <2>4. SecondRead'
    BY <1>1, <1>2, <2>1 DEF SecondRead, Requests, Quiet
  <2>5. Right'
    BY <1>2, <2>1 DEF Right, TempInItsSlot
  <2> QED
    BY <2>2, <2>3, <2>4, <2>5
<1> QED
  BY <1>3, <1>4, <1>5, <1>6 DEF IInv

(* IVG9_ISR takes what the converter holds. *)
LEMMA IVG9IInv == ASSUME IInv, IVG9_ISR PROVE IInv'
<1>1. /\ adc.pin = "DRDY"
      /\ adc'.channel = adc.channel /\ adc'.state = adc.state /\ adc'.owner = adc.owner
      /\ adc'.pin = "DIN" /\ adc'.tim1 = "COM_ADC_R"
      /\ settled => adc'.data = Selected(mux)
  BY DEF IVG9_ISR, IInv, TypeOK
<1>2. /\ scenario' = scenario /\ g_HCT595Value' = g_HCT595Value /\ mux' = mux /\ rclk' = rclk
      /\ settled' = settled /\ temp' = temp /\ g_TempADC_Val' = g_TempADC_Val
      /\ adc_val' = adc_val /\ verify' = verify /\ main' = main /\ lag' = lag
  BY DEF IVG9_ISR
<1>3. TypeOK'
  <2>1. (IF settled THEN Selected(mux) ELSE "unsettled") \in Values
    BY SelectedType DEF IInv, TypeOK, Values
  <2> QED
    BY <1>2, <2>1 DEF IInv, TypeOK, IVG9_ISR, Values
<1>4. MainType' /\ Counters' /\ Converted'
  BY <1>1, <1>2 DEF IInv, MainType, Counters, Converted, Selected
<1>5. Averaging'
  BY <1>1, <1>2 DEF IInv, Averaging
<1>6. Steady'
  <2> SUFFICES ASSUME scenario \subseteq {"probes"} PROVE (Requests /\ Register /\ SecondRead /\ Right)'
    BY <1>2 DEF Steady
  <2>1. Requests /\ Register /\ SecondRead /\ Right
    BY DEF IInv, Steady
  <2>2. Requests'
    BY <1>1, <1>2, <2>1 DEF Requests, Quiet
  <2>3. Register'
    BY <1>1, <1>2, <2>1 DEF Register
  <2>4. SecondRead'
    BY <1>1, <1>2, <2>1 DEF SecondRead
  <2>5. Right'
    BY <1>2, <2>1 DEF Right, TempInItsSlot
  <2> QED
    BY <2>2, <2>3, <2>4, <2>5
<1> QED
  BY <1>3, <1>4, <1>5, <1>6 DEF IInv

(* The first read selects the input. *)
LEMMA SelectInputIInv == ASSUME IInv, COM_ADC_SaveData, adc.state = 0 PROVE IInv'
<1>1. /\ adc.tim1 = "COM_ADC_R" /\ adc'.channel = adc.channel /\ adc'.state = 1
      /\ adc'.pin = adc.pin /\ adc'.owner = adc.owner /\ adc'.tim1 = "COM_ADC_START"
  BY DEF COM_ADC_SaveData, SelectInput, IInv, TypeOK
<1>2. /\ scenario' = scenario /\ temp' = temp /\ g_TempADC_Val' = g_TempADC_Val
      /\ adc_val' = adc_val /\ verify' = verify /\ main' = main /\ lag' = lag
      /\ rclk' = "HIGH" /\ mux' = g_HCT595Value'
      /\ g_HCT595Value' = [g_HCT595Value EXCEPT !.adc = adc.channel]
      /\ settled' = (settled /\ Selected(mux') = Selected(mux))
  BY DEF COM_ADC_SaveData, SelectInput, AHCT595_SetComADCChannel, Refresh
<1>3. TypeOK'
  <2>1. g_HCT595Value' \in Outputs /\ mux' \in Outputs /\ rclk' \in {"HIGH", "LOW"}
    BY <1>2 DEF IInv, TypeOK, Outputs
  <2>2. settled' \in BOOLEAN
    BY <1>2, Zenon
  <2>3. adc' = [adc EXCEPT !.state = 1, !.tim1 = "COM_ADC_START", !.data = "none"]
    BY DEF COM_ADC_SaveData, SelectInput
  <2> QED
    BY <1>2, <2>1, <2>2, <2>3 DEF IInv, TypeOK
<1>4. mux'.adc = adc.channel /\ g_HCT595Value'.adc = adc.channel /\ mux'.temp = g_HCT595Value.temp
      /\ g_HCT595Value'.temp = g_HCT595Value.temp
  BY <1>2 DEF IInv, TypeOK, Outputs
<1>5. MainType' /\ Counters' /\ Converted'
  BY <1>1, <1>2 DEF IInv, MainType, Counters, Converted
<1>6. Averaging'
  <2>1. ASSUME mux.adc = "NIBP", adc.channel = "NIBP", settled PROVE settled'
    BY <1>2, <1>4, <2>1 DEF Selected
  <2> QED
    BY <1>1, <1>2, <1>4, <2>1 DEF IInv, Averaging
<1>7. Steady'
  <2> SUFFICES ASSUME scenario \subseteq {"probes"} PROVE (Requests /\ Register /\ SecondRead /\ Right)'
    BY <1>2 DEF Steady
  <2>1. Requests /\ Register /\ SecondRead /\ Right
    BY DEF IInv, Steady
  <2>2. Requests'
    BY <1>1, <1>2, <1>4, <2>1 DEF Requests, Register, Quiet
  <2>3. Register'
    BY <1>1, <1>2, <1>4, <2>1 DEF Register
  <2>4. SecondRead'
    BY <1>1, <1>4, <2>1 DEF SecondRead
  <2>5. Right'
    BY <1>2, <2>1 DEF Right, TempInItsSlot
  <2> QED
    BY <2>2, <2>3, <2>4, <2>5
<1> QED
  BY <1>3, <1>5, <1>6, <1>7 DEF IInv

(* The second read of a pressure. *)
LEMMA StorePressureIInv == ASSUME IInv, COM_ADC_SaveData, adc.state # 0, StorePressure PROVE IInv'
<1>1. /\ adc.channel = "NIBP" /\ adc.tim1 = "COM_ADC_R" /\ adc.state = 1
      /\ adc'.state = 0 /\ adc'.owner = adc.owner /\ adc'.tim1 = "off"
      /\ adc_val' = adc.data
      /\ IF temp.need /\ ~ verify.stauts
         THEN adc'.channel = "TEMP" /\ adc'.pin = "DRDY"
         ELSE adc'.channel = "NIBP" /\ adc'.pin = adc.pin
  BY DEF COM_ADC_SaveData, StorePressure, IInv, TypeOK
<1>2. verify'.stauts = verify.stauts
  BY DEF COM_ADC_SaveData, StorePressure, IInv, TypeOK
<1>3. /\ scenario' = scenario /\ g_HCT595Value' = g_HCT595Value /\ mux' = mux /\ rclk' = rclk
      /\ settled' = settled /\ temp' = temp /\ g_TempADC_Val' = g_TempADC_Val
      /\ main' = main /\ lag' = lag
  BY <1>1 DEF COM_ADC_SaveData, StorePressure
<1>4. TypeOK'
  BY DEF IInv, TypeOK, COM_ADC_SaveData, StorePressure
<1>5. MainType' /\ Counters' /\ Converted'
  BY <1>1, <1>3 DEF IInv, MainType, Counters, Converted
<1>6. Averaging'
  BY <1>1, <1>2, <1>3 DEF IInv, Averaging, AveragePcs, Converted, Selected
<1>7. Steady'
  <2> SUFFICES ASSUME scenario \subseteq {"probes"} PROVE (Requests /\ Register /\ SecondRead /\ Right)'
    BY <1>3 DEF Steady
  <2>1. Requests /\ Register /\ SecondRead /\ Right
    BY DEF IInv, Steady
  <2>2. Requests'
    BY <1>1, <1>2, <1>3, <2>1 DEF Requests, Quiet
  <2>3. Register'
    BY <1>1, <1>3, <2>1 DEF Register, Requests, HandlerPcs
  <2>4. SecondRead'
    BY <1>1, <1>3, <2>1 DEF SecondRead
  <2>5. adc.data = "NIBP"
    BY <1>1, <2>1 DEF IInv, Converted, SecondRead, Selected
  <2>6. Right'
    BY <1>1, <1>3, <2>1, <2>5 DEF Right, TempInItsSlot
  <2> QED
    BY <2>2, <2>3, <2>4, <2>6
<1> QED
  BY <1>4, <1>5, <1>6, <1>7 DEF IInv

(* The second read of a temperature. *)
LEMMA StoreTemperatureIInv == ASSUME IInv, COM_ADC_SaveData, adc.state # 0, StoreTemperature PROVE IInv'
<1>1. /\ adc.channel = "TEMP" /\ adc.tim1 = "COM_ADC_R" /\ adc.state = 1
      /\ adc'.state = 0 /\ adc'.owner = adc.owner /\ adc'.tim1 = "off"
      /\ adc'.channel = "TEMP" /\ adc'.pin = adc.pin
  BY DEF COM_ADC_SaveData, StoreTemperature, IInv, TypeOK
<1>2. temp'.need = FALSE /\ temp'.channel = temp.channel
  BY DEF COM_ADC_SaveData, StoreTemperature, IInv, TypeOK
<1>3. /\ scenario' = scenario /\ g_HCT595Value' = g_HCT595Value /\ mux' = mux /\ rclk' = rclk
      /\ settled' = settled /\ adc_val' = adc_val /\ verify' = verify
      /\ main' = main /\ lag' = lag
  BY <1>1 DEF COM_ADC_SaveData, StoreTemperature
<1>4. TypeOK'
  BY DEF IInv, TypeOK, COM_ADC_SaveData, StoreTemperature
<1>5. MainType' /\ Counters' /\ Converted'
  BY <1>1, <1>3 DEF IInv, MainType, Counters, Converted
<1>6. Averaging'
  BY <1>1, <1>3 DEF IInv, Averaging
<1>7. Steady'
  <2> SUFFICES ASSUME scenario \subseteq {"probes"} PROVE (Requests /\ Register /\ SecondRead /\ Right)'
    BY <1>3 DEF Steady
  <2>1. Requests /\ Register /\ SecondRead /\ Right
    BY DEF IInv, Steady
  <2>2. Requests'
    BY <1>1, <1>2, <1>3, <2>1 DEF Requests, SecondRead, Quiet, IInv, TypeOK
  <2>3. Register'
    BY <1>1, <1>2, <1>3, <2>1 DEF Register
  <2>4. SecondRead'
    BY <1>1, <1>3, <2>1 DEF SecondRead
  <2>5. adc.data = temp.channel
    BY <1>1, <2>1 DEF IInv, TypeOK, Converted, Requests, SecondRead, Selected, Quiet
  <2>6. TempInItsSlot'
    <3>1. g_TempADC_Val' = [g_TempADC_Val EXCEPT ![IF temp.channel \in Probes1 THEN 0 ELSE 1] = temp.channel]
      BY <1>1, <2>5 DEF COM_ADC_SaveData, StoreTemperature
    <3>2. g_TempADC_Val \in [{0, 1} -> Values] /\ temp.channel \in Probes
      BY DEF IInv, TypeOK, Values
    <3> QED
      BY <3>1, <3>2, <2>1 DEF Right, TempInItsSlot
  <2>7. Right'
    BY <1>3, <2>1, <2>6 DEF Right
  <2> QED
    BY <2>2, <2>3, <2>4, <2>7
<1> QED
  BY <1>4, <1>5, <1>6, <1>7 DEF IInv

(* The delay of the multiplexer is over. *)
LEMMA SampleStartIInv == ASSUME IInv, COM_ADC_SampleStart PROVE IInv'
<1>1. /\ adc.tim1 = "COM_ADC_START" /\ adc'.channel = adc.channel /\ adc'.state = adc.state
      /\ adc'.pin = "DRDY" /\ adc'.owner = adc.owner /\ adc'.tim1 = "off" /\ settled' = TRUE
  BY DEF COM_ADC_SampleStart, IInv, TypeOK
<1>2. /\ scenario' = scenario /\ g_HCT595Value' = g_HCT595Value /\ mux' = mux /\ rclk' = rclk
      /\ temp' = temp /\ g_TempADC_Val' = g_TempADC_Val
      /\ adc_val' = adc_val /\ verify' = verify /\ main' = main /\ lag' = lag
  BY DEF COM_ADC_SampleStart
<1>3. TypeOK'
  BY <1>2 DEF IInv, TypeOK, COM_ADC_SampleStart
<1>4. MainType' /\ Counters' /\ Converted'
  BY <1>1, <1>2 DEF IInv, MainType, Counters, Converted
<1>5. Averaging'
  BY <1>1, <1>2 DEF IInv, Averaging
<1>6. Steady'
  <2> SUFFICES ASSUME scenario \subseteq {"probes"} PROVE (Requests /\ Register /\ SecondRead /\ Right)'
    BY <1>2 DEF Steady
  <2>1. Requests /\ Register /\ SecondRead /\ Right
    BY DEF IInv, Steady
  <2>2. Requests'
    BY <1>1, <1>2, <2>1 DEF Requests, Quiet
  <2>3. Register'
    BY <1>1, <1>2, <2>1 DEF Register
  <2>4. SecondRead'
    BY <1>1, <1>2, <2>1 DEF SecondRead
  <2>5. Right'
    BY <1>2, <2>1 DEF Right, TempInItsSlot
  <2> QED
    BY <2>2, <2>3, <2>4, <2>5
<1> QED
  BY <1>3, <1>4, <1>5, <1>6 DEF IInv

(* COM_ADC_SaveData, either read. *)
LEMMA SaveDataIInv == ASSUME IInv, COM_ADC_SaveData PROVE IInv'
  BY SelectInputIInv, StorePressureIInv, StoreTemperatureIInv DEF COM_ADC_SaveData

-----------------------------------------------------------------------------
(* Temperature_Handler leaves the sequencer and the values alone. *)
LEMMA HandlerKeeps ==
  ASSUME IInv, scenario' = scenario, adc' = adc, g_TempADC_Val' = g_TempADC_Val,
         adc_val' = adc_val, verify' = verify, main'.sum = main.sum, main'.calm = main.calm
  PROVE  /\ main'.pc \notin AveragePcs => Averaging'
         /\ Right => Right'
<1>1. ASSUME main'.pc \notin AveragePcs PROVE Averaging'
  BY <1>1 DEF IInv, Averaging, AveragePcs
<1>2. ASSUME Right PROVE Right'
  BY <1>2 DEF Right, TempInItsSlot
<1> QED
  BY <1>1, <1>2

(* It is time for the other probe. *)
LEMMA ChooseProbeIInv == ASSUME IInv, ChooseProbe PROVE IInv'
<1>1. /\ main.pc = "loop" /\ main'.pc = "check" /\ main'.tmp = main.tmp
      /\ main'.sum = main.sum /\ main'.left = main.left /\ main'.calm = main.calm /\ lag \in Nat
      /\ lag > 0 /\ temp'.need = temp.need
  BY DEF ChooseProbe, At, IInv, TypeOK, MainType, NoCopy, Outputs
<1>2. /\ scenario' = scenario /\ adc' = adc /\ adc_val' = adc_val
      /\ g_TempADC_Val' = g_TempADC_Val /\ verify' = verify
      /\ g_HCT595Value' = g_HCT595Value /\ mux' = mux /\ rclk' = rclk
      /\ settled' = settled /\ lag' = lag
  BY DEF ChooseProbe, HandlerOnly, At
<1>3. MainType'
  BY <1>1, <1>2 DEF IInv, TypeOK, MainType, ChooseProbe, At, HandlerPcs, Probes
<1>4. TypeOK'
  BY <1>1, <1>2, <1>3 DEF IInv, TypeOK, MainType, ChooseProbe, Values, Probes
<1>5. Counters' /\ Converted'
  BY <1>1, <1>2 DEF IInv, Counters, HandlerPcs, AveragePcs, Converted
<1>6. Averaging'
  BY <1>1, <1>2, HandlerKeeps DEF AveragePcs
<1>7. Steady'
  <2> SUFFICES ASSUME scenario \subseteq {"probes"} PROVE (Requests /\ Register /\ SecondRead /\ Right)'
    BY <1>2 DEF Steady
  <2>1. Requests /\ Register /\ SecondRead /\ Right
    BY DEF IInv, Steady
  <2>2. Requests'
    BY <1>1, <1>2, <2>1 DEF Requests, Register, HandlerPcs, Quiet, AveragePcs
  <2>3. Register'
    BY <1>1, <1>2, <2>1 DEF Requests, Register, HandlerPcs
  <2>4. SecondRead'
    BY <1>1, <1>2, <2>1 DEF SecondRead
  <2>5. Right'
    BY <1>1, <1>2, <2>1, HandlerKeeps
  <2> QED
    BY <2>2, <2>3, <2>4, <2>5
<1> QED
  BY <1>3, <1>4, <1>5, <1>6, <1>7 DEF IInv

(* The last request has not been served. *)
LEMMA LostSampleIInv == ASSUME IInv, LostSample PROVE IInv'
<1>1. /\ main.pc = "check" /\ main'.pc = "done" /\ main'.tmp = main.tmp
      /\ main'.sum = main.sum /\ main'.left = main.left /\ main'.calm = main.calm /\ lag \in Nat
      /\ temp.need
  BY DEF LostSample, At, IInv, TypeOK, MainType, NoCopy, Outputs
<1>2. /\ scenario' = scenario /\ adc' = adc /\ adc_val' = adc_val
      /\ g_TempADC_Val' = g_TempADC_Val /\ verify' = verify
      /\ g_HCT595Value' = g_HCT595Value /\ mux' = mux /\ rclk' = rclk
      /\ settled' = settled /\ temp' = temp /\ lag' = lag
  BY DEF LostSample, HandlerOnly, At
<1>3. MainType'
  BY <1>1, <1>2 DEF IInv, TypeOK, MainType, LostSample, At, HandlerPcs
<1>4. TypeOK'
  BY <1>1, <1>2, <1>3 DEF IInv, TypeOK, MainType, LostSample, Values
<1>5. Counters' /\ Converted'
  BY <1>1, <1>2 DEF IInv, Counters, HandlerPcs, AveragePcs, Converted
<1>6. Averaging'
  BY <1>1, <1>2, HandlerKeeps DEF AveragePcs
<1>7. Steady'
  <2> SUFFICES ASSUME scenario \subseteq {"probes"} PROVE (Requests /\ Register /\ SecondRead /\ Right)'
    BY <1>2 DEF Steady
  <2>1. Requests /\ Register /\ SecondRead /\ Right
    BY DEF IInv, Steady
  <2>2. Requests'
    BY <1>1, <1>2, <2>1 DEF Requests, Register, HandlerPcs, Quiet, AveragePcs
  <2>3. Register'
    BY <1>1, <1>2, <2>1 DEF Requests, Register, HandlerPcs
  <2>4. SecondRead'
    BY <1>1, <1>2, <2>1 DEF SecondRead
  <2>5. Right'
    BY <1>1, <1>2, <2>1, HandlerKeeps
  <2> QED
    BY <2>2, <2>3, <2>4, <2>5
<1> QED
  BY <1>3, <1>4, <1>5, <1>6, <1>7 DEF IInv

(* The copy of the shift register is read. *)
LEMMA LoadCopyIInv == ASSUME IInv, LoadCopy PROVE IInv'
<1>1. /\ main.pc \in {"check", "reload"} /\ main'.pc \in {"clear", "set"}
      /\ main'.tmp = g_HCT595Value
      /\ main'.sum = main.sum /\ main'.left = main.left /\ main'.calm = main.calm /\ lag \in Nat
  BY DEF LoadCopy, At, IInv, TypeOK, MainType, NoCopy, Outputs
<1>2. /\ scenario' = scenario /\ adc' = adc /\ adc_val' = adc_val
      /\ g_TempADC_Val' = g_TempADC_Val /\ verify' = verify
      /\ g_HCT595Value' = g_HCT595Value /\ mux' = mux /\ rclk' = rclk
      /\ settled' = settled /\ temp' = temp /\ lag' = lag
  BY DEF LoadCopy, HandlerOnly, At
<1>3. MainType'
  BY <1>1, <1>2 DEF IInv, TypeOK, MainType, LoadCopy, At, HandlerPcs
<1>4. TypeOK'
  BY <1>1, <1>2, <1>3 DEF IInv, TypeOK, MainType, LoadCopy, Values
<1>5. Counters' /\ Converted'
  BY <1>1, <1>2 DEF IInv, Counters, HandlerPcs, AveragePcs, Converted
<1>6. Averaging'
  BY <1>1, <1>2, HandlerKeeps DEF AveragePcs
<1>7. Steady'
  <2> SUFFICES ASSUME scenario \subseteq {"probes"} PROVE (Requests /\ Register /\ SecondRead /\ Right)'
    BY <1>2 DEF Steady
  <2>1. Requests /\ Register /\ SecondRead /\ Right
    BY DEF IInv, Steady
  <2>2. Requests'
    BY <1>1, <1>2, <2>1 DEF Requests, Register, HandlerPcs, Quiet, AveragePcs
  <2>3. Register'
    BY <1>1, <1>2, <2>1 DEF Requests, Register, HandlerPcs
  <2>4. SecondRead'
    BY <1>1, <1>2, <2>1 DEF SecondRead
  <2>5. Right'
    BY <1>1, <1>2, <2>1, HandlerKeeps
  <2> QED
    BY <2>2, <2>3, <2>4, <2>5
<1> QED
  BY <1>3, <1>4, <1>5, <1>6, <1>7 DEF IInv

(* The field of the probe is cleared in the copy. *)
LEMMA ClearFieldIInv == ASSUME IInv, ClearField PROVE IInv'
<1>1. /\ main.pc = "clear" /\ main'.pc = "reload" /\ main'.tmp.adc = "NIBP"
      /\ main'.sum = main.sum /\ main'.left = main.left /\ main'.calm = main.calm /\ lag \in Nat
      /\ g_HCT595Value'.adc = main.tmp.adc
  BY DEF ClearField, At, IInv, TypeOK, MainType, NoCopy, Outputs
<1>2. /\ scenario' = scenario /\ adc' = adc /\ adc_val' = adc_val
      /\ g_TempADC_Val' = g_TempADC_Val /\ verify' = verify /\ mux' = mux
      /\ rclk' = rclk /\ settled' = settled /\ temp' = temp /\ lag' = lag
  BY DEF ClearField, HandlerOnly, At
<1>3. MainType'
  BY <1>1, <1>2 DEF IInv, TypeOK, MainType, ClearField, At, HandlerPcs, Outputs, NoCopy, Probes
<1>4. TypeOK'
  BY <1>1, <1>2, <1>3 DEF IInv, TypeOK, MainType, ClearField, Values, Outputs, NoCopy, Probes
<1>5. Counters' /\ Converted'
  BY <1>1, <1>2 DEF IInv, Counters, HandlerPcs, AveragePcs, Converted
<1>6. Averaging'
  BY <1>1, <1>2, HandlerKeeps DEF AveragePcs
<1>7. Steady'
  <2> SUFFICES ASSUME scenario \subseteq {"probes"} PROVE (Requests /\ Register /\ SecondRead /\ Right)'
    BY <1>2 DEF Steady
  <2>1. Requests /\ Register /\ SecondRead /\ Right
    BY DEF IInv, Steady
  <2>2. Requests'
    BY <1>1, <1>2, <2>1 DEF Requests, Register, HandlerPcs, Quiet, AveragePcs, NoCopy, Outputs
  <2>3. Register'
    BY <1>1, <1>2, <2>1 DEF Requests, Register, HandlerPcs, NoCopy, Outputs
  <2>4. SecondRead'
    BY <1>1, <1>2, <2>1 DEF SecondRead, NoCopy, Outputs
  <2>5. Right'
    BY <1>1, <1>2, <2>1, HandlerKeeps
  <2> QED
    BY <2>2, <2>3, <2>4, <2>5
<1> QED
  BY <1>3, <1>4, <1>5, <1>6, <1>7 DEF IInv

(* The field of the probe is set in the copy. *)
LEMMA SetFieldIInv == ASSUME IInv, SetField PROVE IInv'
<1>1. /\ main.pc = "set" /\ main'.pc = "shift" /\ main'.tmp.adc = "NIBP"
      /\ main'.sum = main.sum /\ main'.left = main.left /\ main'.calm = main.calm /\ lag \in Nat
      /\ g_HCT595Value'.adc = main.tmp.adc /\ g_HCT595Value'.temp = temp.channel
  BY DEF SetField, At, IInv, TypeOK, MainType, NoCopy, Outputs
<1>2. /\ scenario' = scenario /\ adc' = adc /\ adc_val' = adc_val
      /\ g_TempADC_Val' = g_TempADC_Val /\ verify' = verify /\ mux' = mux
      /\ rclk' = rclk /\ settled' = settled /\ temp' = temp /\ lag' = lag
  BY DEF SetField, HandlerOnly, At
<1>3. MainType'
  BY <1>1, <1>2 DEF IInv, TypeOK, MainType, SetField, At, HandlerPcs, Outputs, NoCopy, Probes
<1>4. TypeOK'
  BY <1>1, <1>2, <1>3 DEF IInv, TypeOK, MainType, SetField, Values, Outputs, NoCopy, Probes
<1>5. Counters' /\ Converted'
  BY <1>1, <1>2 DEF IInv, Counters, HandlerPcs, AveragePcs, Converted
<1>6. Averaging'
  BY <1>1, <1>2, HandlerKeeps DEF AveragePcs
<1>7. Steady'
  <2> SUFFICES ASSUME scenario \subseteq {"probes"} PROVE (Requests /\ Register /\ SecondRead /\ Right)'
    BY <1>2 DEF Steady
  <2>1. Requests /\ Register /\ SecondRead /\ Right
    BY DEF IInv, Steady
  <2>2. Requests'
    BY <1>1, <1>2, <2>1 DEF Requests, Register, HandlerPcs, Quiet, AveragePcs
  <2>3. Register'
    BY <1>1, <1>2, <2>1 DEF Requests, Register, HandlerPcs
  <2>4. SecondRead'
    BY <1>1, <1>2, <2>1 DEF SecondRead
  <2>5. Right'
    BY <1>1, <1>2, <2>1, HandlerKeeps
  <2> QED
    BY <2>2, <2>3, <2>4, <2>5
<1> QED
  BY <1>3, <1>4, <1>5, <1>6, <1>7 DEF IInv

(* RCLK goes low for the new bits. *)
LEMMA ShiftOutIInv == ASSUME IInv, ShiftOut PROVE IInv'
<1>1. /\ main.pc = "shift" /\ main'.pc = "latch" /\ main'.tmp = main.tmp
      /\ main'.sum = main.sum /\ main'.left = main.left /\ main'.calm = main.calm /\ lag \in Nat
      /\ rclk' = "LOW"
  BY DEF ShiftOut, At, IInv, TypeOK, MainType, NoCopy, Outputs
<1>2. /\ scenario' = scenario /\ adc' = adc /\ adc_val' = adc_val
      /\ g_TempADC_Val' = g_TempADC_Val /\ verify' = verify
      /\ g_HCT595Value' = g_HCT595Value /\ mux' = mux /\ settled' = settled
      /\ temp' = temp /\ lag' = lag
  BY DEF ShiftOut, HandlerOnly, At
<1>3. MainType'
  BY <1>1, <1>2 DEF IInv, TypeOK, MainType, ShiftOut, At, HandlerPcs
<1>4. TypeOK'
  BY <1>1, <1>2, <1>3 DEF IInv, TypeOK, MainType, ShiftOut, Values
<1>5. Counters' /\ Converted'
  BY <1>1, <1>2 DEF IInv, Counters, HandlerPcs, AveragePcs, Converted
<1>6. Averaging'
  BY <1>1, <1>2, HandlerKeeps DEF AveragePcs
<1>7. Steady'
  <2> SUFFICES ASSUME scenario \subseteq {"probes"} PROVE (Requests /\ Register /\ SecondRead /\ Right)'
    BY <1>2 DEF Steady
  <2>1. Requests /\ Register /\ SecondRead /\ Right
    BY DEF IInv, Steady
  <2>2. Requests'
    BY <1>1, <1>2, <2>1 DEF Requests, Register, HandlerPcs, Quiet, AveragePcs
  <2>3. Register'
    BY <1>1, <1>2, <2>1 DEF Requests, Register, HandlerPcs
  <2>4. SecondRead'
    BY <1>1, <1>2, <2>1 DEF SecondRead
  <2>5. Right'
    BY <1>1, <1>2, <2>1, HandlerKeeps
  <2> QED
    BY <2>2, <2>3, <2>4, <2>5
<1> QED
  BY <1>3, <1>4, <1>5, <1>6, <1>7 DEF IInv

(* RCLK goes high, unless an interrupt was faster. *)
LEMMA LatchIInv == ASSUME IInv, Latch PROVE IInv'
<1>1. /\ main.pc = "latch" /\ main'.pc = "request" /\ main'.tmp = main.tmp
      /\ main'.sum = main.sum /\ main'.left = main.left /\ main'.calm = main.calm /\ lag \in Nat
  BY DEF Latch, At, IInv, TypeOK, MainType, NoCopy, Outputs
<1>2. /\ g_HCT595Value' = g_HCT595Value
       /\ \/ rclk = "LOW" /\ mux' = g_HCT595Value /\ rclk' = "HIGH"
             /\ settled' = (settled /\ Selected(g_HCT595Value) = Selected(mux))
          \/ rclk = "HIGH" /\ mux' = mux /\ rclk' = rclk /\ settled' = settled
  BY DEF Latch, Refresh, IInv, TypeOK
<1>3. settled' \in BOOLEAN /\ (settled' => settled /\ Selected(mux') = Selected(mux))
  <2>1. CASE mux' = g_HCT595Value /\ settled' = (settled /\ Selected(g_HCT595Value) = Selected(mux))
    BY <2>1, Zenon
  <2>2. CASE mux' = mux /\ settled' = settled
    BY <2>2 DEF IInv, TypeOK
  <2> QED
    BY <1>2, <2>1, <2>2
<1>4. /\ scenario' = scenario /\ adc' = adc /\ adc_val' = adc_val
      /\ g_TempADC_Val' = g_TempADC_Val /\ verify' = verify /\ temp' = temp
      /\ lag' = lag
  BY DEF Latch, HandlerOnly, At
<1>5. MainType'
  BY <1>1, <1>4 DEF IInv, TypeOK, MainType, Latch, At, HandlerPcs
<1>6. TypeOK'
  BY <1>1, <1>2, <1>3, <1>4, <1>5 DEF IInv, TypeOK, MainType, Values
<1>7. Counters' /\ Converted'
  BY <1>1, <1>3, <1>4 DEF IInv, Counters, HandlerPcs, AveragePcs, Converted
<1>8. Averaging'
  BY <1>1, <1>4, HandlerKeeps DEF AveragePcs
<1>9. Steady'
  <2> SUFFICES ASSUME scenario \subseteq {"probes"} PROVE (Requests /\ Register /\ SecondRead /\ Right)'
    BY <1>4 DEF Steady
  <2>1. Requests /\ Register /\ SecondRead /\ Right
    BY DEF IInv, Steady
  <2>2. Requests'
    BY <1>1, <1>2, <1>4, <2>1 DEF Requests, Register, HandlerPcs, Quiet, AveragePcs
  <2>3. Register'
    BY <1>1, <1>2, <1>4, <2>1 DEF Requests, Register, HandlerPcs
  <2>4. SecondRead'
    BY <1>1, <1>2, <1>4, <2>1 DEF SecondRead, Register, HandlerPcs, Selected
  <2>5. Right'
    BY <1>1, <1>4, <2>1, HandlerKeeps
  <2> QED
    BY <2>2, <2>3, <2>4, <2>5
<1> QED
  BY <1>5, <1>6, <1>7, <1>8, <1>9 DEF IInv

(* The request is made when the multiplexer is set. *)
LEMMA RequestSampleIInv == ASSUME IInv, RequestSample PROVE IInv'
<1>1. /\ main.pc = "request" /\ main'.pc = "done" /\ main'.tmp = main.tmp
      /\ main'.sum = main.sum /\ main'.left = main.left /\ main'.calm = main.calm /\ lag \in Nat
      /\ temp'.channel = temp.channel
  BY DEF RequestSample, At, IInv, TypeOK, MainType, NoCopy, Outputs
<1>2. /\ scenario' = scenario /\ adc' = adc /\ adc_val' = adc_val
      /\ g_TempADC_Val' = g_TempADC_Val /\ verify' = verify
      /\ g_HCT595Value' = g_HCT595Value /\ mux' = mux /\ rclk' = rclk
      /\ settled' = settled /\ lag' = lag
  BY DEF RequestSample, HandlerOnly, At
<1>3. MainType'
  BY <1>1, <1>2 DEF IInv, TypeOK, MainType, RequestSample, At, HandlerPcs
<1>4. TypeOK'
  <2>1. temp' \in [need : BOOLEAN, channel : Probes, status : {0, 1}, com : BOOLEAN]
    BY DEF IInv, TypeOK, RequestSample
  <2>2. lag' \in 0 .. MaxLag
    BY <1>1, <1>2, ComAdcAssumption DEF IInv, TypeOK, Counters, HandlerPcs
  <2> QED
    BY <1>1, <1>2, <1>3, <2>1, <2>2 DEF IInv, TypeOK, MainType, Values
<1>5. Counters' /\ Converted'
  BY <1>1, <1>2 DEF IInv, Counters, HandlerPcs, AveragePcs, Converted
<1>6. Averaging'
  BY <1>1, <1>2, HandlerKeeps DEF AveragePcs
<1>7. Steady'
  <2> SUFFICES ASSUME scenario \subseteq {"probes"} PROVE (Requests /\ Register /\ SecondRead /\ Right)'
    BY <1>2 DEF Steady
  <2>1. Requests /\ Register /\ SecondRead /\ Right
    BY DEF IInv, Steady
  <2>2. Requests'
    BY <1>1, <1>2, <2>1 DEF Requests, Register, HandlerPcs, Quiet, AveragePcs
  <2>3. Register'
    BY <1>1, <1>2, <2>1 DEF Requests, Register, HandlerPcs
  <2>4. SecondRead'
    BY <1>1, <1>2, <2>1 DEF SecondRead
  <2>5. Right'
    BY <1>1, <1>2, <2>1, HandlerKeeps
  <2> QED
    BY <2>2, <2>3, <2>4, <2>5
<1> QED
  BY <1>3, <1>4, <1>5, <1>6, <1>7 DEF IInv

(* The handler has run for this period. *)
LEMMA NextPeriodIInv == ASSUME IInv, NextPeriod PROVE IInv'
<1>1. /\ main.pc = "done" /\ main'.pc = "loop" /\ main'.tmp = main.tmp
      /\ main'.sum = main.sum /\ main'.left = main.left /\ main'.calm = main.calm /\ lag \in Nat
      /\ temp'.channel = temp.channel /\ temp'.need = temp.need /\ lag' = lag - 1 /\ lag > 0
  BY DEF NextPeriod, Counters, HandlerPcs, At, IInv, TypeOK, MainType, NoCopy, Outputs
<1>2. /\ scenario' = scenario /\ adc' = adc /\ adc_val' = adc_val
      /\ g_TempADC_Val' = g_TempADC_Val /\ verify' = verify
      /\ g_HCT595Value' = g_HCT595Value /\ mux' = mux /\ rclk' = rclk
      /\ settled' = settled
  BY DEF NextPeriod, HandlerOnly, At
<1>3. MainType'
  BY <1>1, <1>2 DEF IInv, TypeOK, MainType, NextPeriod, At, HandlerPcs
<1>4. TypeOK'
  <2>1. temp' \in [need : BOOLEAN, channel : Probes, status : {0, 1}, com : BOOLEAN]
    BY DEF IInv, TypeOK, NextPeriod
  <2>2. lag' \in 0 .. MaxLag
    BY <1>1, <1>2, ComAdcAssumption DEF IInv, TypeOK, Counters, HandlerPcs
  <2> QED
    BY <1>1, <1>2, <1>3, <2>1, <2>2 DEF IInv, TypeOK, MainType, Values
<1>5. Counters' /\ Converted'
  BY <1>1, <1>2 DEF IInv, Counters, HandlerPcs, AveragePcs, Converted
<1>6. Averaging'
  BY <1>1, <1>2, HandlerKeeps DEF AveragePcs
<1>7. Steady'
  <2> SUFFICES ASSUME scenario \subseteq {"probes"} PROVE (Requests /\ Register /\ SecondRead /\ Right)'
    BY <1>2 DEF Steady
  <2>1. Requests /\ Register /\ SecondRead /\ Right
    BY DEF IInv, Steady
  <2>2. Requests'
    BY <1>1, <1>2, <2>1 DEF Requests, Register, HandlerPcs, Quiet, AveragePcs
  <2>3. Register'
    BY <1>1, <1>2, <2>1 DEF Requests, Register, HandlerPcs
  <2>4. SecondRead'
    BY <1>1, <1>2, <2>1 DEF SecondRead
  <2>5. Right'
    BY <1>1, <1>2, <2>1, HandlerKeeps
  <2> QED
    BY <2>2, <2>3, <2>4, <2>5
<1> QED
  BY <1>3, <1>4, <1>5, <1>6, <1>7 DEF IInv

(* The host selects the other probes. *)
LEMMA SetChannelIInv == ASSUME IInv, temp_setChannel PROVE IInv'
<1>1. /\ main.pc = "loop" /\ main'.pc = "loop" /\ main'.tmp = main.tmp
      /\ main'.sum = main.sum /\ main'.left = main.left /\ main'.calm = main.calm /\ lag \in Nat
      /\ temp'.channel = temp.channel /\ temp'.need = temp.need
  BY DEF temp_setChannel, At, IInv, TypeOK, MainType, NoCopy, Outputs
<1>2. /\ scenario' = scenario /\ adc' = adc /\ adc_val' = adc_val
      /\ g_TempADC_Val' = g_TempADC_Val /\ verify' = verify
      /\ g_HCT595Value' = g_HCT595Value /\ mux' = mux /\ rclk' = rclk
      /\ settled' = settled /\ lag' = lag
  BY DEF temp_setChannel, HandlerOnly, At
<1>3. MainType'
  BY <1>1, <1>2 DEF IInv, TypeOK, MainType, temp_setChannel, At, HandlerPcs
<1>4. TypeOK'
  <2>1. temp' \in [need : BOOLEAN, channel : Probes, status : {0, 1}, com : BOOLEAN]
    BY DEF IInv, TypeOK, temp_setChannel
  <2>2. lag' \in 0 .. MaxLag
    BY <1>1, <1>2, ComAdcAssumption DEF IInv, TypeOK, Counters, HandlerPcs
  <2> QED
    BY <1>1, <1>2, <1>3, <2>1, <2>2 DEF IInv, TypeOK, MainType, Values
<1>5. Counters' /\ Converted'
  BY <1>1, <1>2 DEF IInv, Counters, HandlerPcs, AveragePcs, Converted
<1>6. Averaging'
  BY <1>1, <1>2, HandlerKeeps DEF AveragePcs
<1>7. Steady'
  <2> SUFFICES ASSUME scenario \subseteq {"probes"} PROVE (Requests /\ Register /\ SecondRead /\ Right)'
    BY <1>2 DEF Steady
  <2>1. Requests /\ Register /\ SecondRead /\ Right
    BY DEF IInv, Steady
  <2>2. Requests'
    BY <1>1, <1>2, <2>1 DEF Requests, Register, HandlerPcs, Quiet, AveragePcs
  <2>3. Register'
    BY <1>1, <1>2, <2>1 DEF Requests, Register, HandlerPcs
  <2>4. SecondRead'
    BY <1>1, <1>2, <2>1 DEF SecondRead
  <2>5. Right'
    BY <1>1, <1>2, <2>1, HandlerKeeps
  <2> QED
    BY <2>2, <2>3, <2>4, <2>5
<1> QED
  BY <1>3, <1>4, <1>5, <1>6, <1>7 DEF IInv

-----------------------------------------------------------------------------
(* The host's commands and NIBP_ADC_Average do not happen in the steady    *)
(* scenario.                                                               *)
LEMMA NoAverageWhenSteady ==
  ASSUME IInv, main.pc \in AveragePcs \/ verify.stauts \/ "blind" \in scenario
  PROVE  ~ (scenario \subseteq {"probes"})
  BY DEF IInv, Steady, Requests

(* They leave the shift register, the probes and the values alone. *)
LEMMA MainKeeps ==
  ASSUME IInv, MainOnly, ~ (scenario \subseteq {"probes"}), MainType', Counters',
         adc' \in [channel : {"NIBP", "TEMP"}, state : {0, 1}, pin : {"DIN", "DRDY"},
                   tim1 : {"off", "COM_ADC_R", "COM_ADC_START"},
                   data : Inputs \cup {"none", "unsettled"}, owner : {"isr", "main"}],
         verify' \in [stauts : BOOLEAN, wait : BOOLEAN],
         adc'.tim1 = adc.tim1, adc'.data = adc.data
  PROVE  /\ TypeOK' /\ Converted' /\ Steady'
         /\ Averaging' => IInv'
<1>1. /\ scenario' = scenario /\ g_TempADC_Val' = g_TempADC_Val /\ adc_val' = adc_val
      /\ g_HCT595Value' = g_HCT595Value /\ mux' = mux /\ rclk' = rclk /\ settled' = settled
      /\ temp' = temp /\ lag' = lag
  BY DEF MainOnly
<1>2. TypeOK'
  BY <1>1 DEF IInv, TypeOK, MainType, Values
<1>3. Converted' /\ Steady'
  BY <1>1 DEF IInv, Converted, Steady
<1> QED
  BY <1>2, <1>3 DEF IInv

(* Entering and leaving the calibration. *)
LEMMA VerifyBySimulatorIInv == ASSUME IInv, NIBP_VerifyBySimulator PROVE IInv'
<1>1. main.pc = "loop" /\ main' = main /\ "calib" \in scenario
  BY DEF NIBP_VerifyBySimulator, At, IInv, MainType
<1>2. /\ scenario' = scenario /\ adc' = adc /\ g_TempADC_Val' = g_TempADC_Val
      /\ adc_val' = adc_val /\ g_HCT595Value' = g_HCT595Value /\ mux' = mux
      /\ rclk' = rclk /\ settled' = settled /\ temp' = temp /\ lag' = lag
  BY DEF NIBP_VerifyBySimulator
<1>3. verify' \in [stauts : BOOLEAN, wait : BOOLEAN]
  BY DEF NIBP_VerifyBySimulator, IInv, TypeOK
<1>4. TypeOK' /\ MainType' /\ Counters'
  BY <1>1, <1>2, <1>3 DEF IInv, TypeOK, MainType, Counters
<1>5. Converted' /\ Averaging' /\ Steady'
  BY <1>1, <1>2 DEF IInv, Converted, Averaging, AveragePcs, Steady
<1> QED
  BY <1>4, <1>5 DEF IInv

(* The host asks for a calibration value. *)
LEMMA VerifyActionIInv == ASSUME IInv, NIBP_VerifyAction PROVE IInv'
<1>1. /\ verify.stauts \/ "blind" \in scenario
      /\ main'.calm => verify.stauts /\ mux.adc = "NIBP" /\ adc.channel = "NIBP" /\ settled
      /\ main'.pc = "announce" /\ main'.sum = {} /\ main'.left = SampleCount
      /\ adc' = adc /\ verify' = verify /\ MainOnly
  BY DEF NIBP_VerifyAction, Calm, IInv, MainType
<1>2. MainType'
  <2>1. SampleCount \in 0 .. SampleCount /\ {} \in SUBSET Values /\ "announce" \in AveragePcs
    BY ComAdcAssumption DEF AveragePcs
  <2>2. main' = [main EXCEPT !.pc = "announce", !.sum = {}, !.left = SampleCount, !.calm = Calm]
    BY DEF NIBP_VerifyAction
  <2>3. Calm \in BOOLEAN
    BY DEF Calm, IInv, TypeOK
  <2> QED
    BY <2>1, <2>2, <2>3 DEF IInv, MainType
<1>3. Counters'
  BY <1>1, ComAdcAssumption DEF Counters, HandlerPcs, AveragePcs
<1>4. Averaging'
  BY <1>1 DEF Averaging, MainOnly
<1> QED
  BY <1>1, <1>2, <1>3, <1>4, NoAverageWhenSteady, MainKeeps DEF IInv, TypeOK

(* One sample of NIBP_ADC_Average: the flag is raised first. *)
LEMMA AnnounceIInv == ASSUME IInv, Announce PROVE IInv'
<1>1. /\ main.pc = "announce" /\ main'.pc = "channel"
      /\ main'.sum = main.sum /\ main'.left = main.left /\ main'.calm = main.calm
      /\ adc' = adc /\ MainOnly
      /\ verify'.wait = TRUE /\ verify'.stauts = verify.stauts
      /\ verify' \in [stauts : BOOLEAN, wait : BOOLEAN]
  BY DEF Announce, At, IInv, MainType, TypeOK
<1>2. MainType'
  BY DEF IInv, MainType, Announce, At, AveragePcs
<1>3. Counters'
  BY <1>1 DEF IInv, Counters, HandlerPcs, AveragePcs
<1>4. Averaging'
  BY <1>1 DEF IInv, Averaging, AveragePcs, MainOnly
<1>5. ~ (scenario \subseteq {"probes"})
  BY <1>1, NoAverageWhenSteady DEF AveragePcs
<1> QED
  BY <1>1, <1>2, <1>3, <1>4, <1>5, MainKeeps DEF IInv, TypeOK

(* The conversion is set up. *)
LEMMA ArmIInv == ASSUME IInv, ArmChannel \/ ArmState \/ ArmPin PROVE IInv'
<1>1. /\ main.pc \in {"channel", "state", "pin"} /\ main'.pc \in {"state", "pin", "wait"}
      /\ main'.sum = main.sum /\ main'.left = main.left /\ main'.calm = main.calm
      /\ adc'.channel \in {"NIBP", adc.channel}
      /\ adc'.tim1 = adc.tim1 /\ adc'.data = adc.data
      /\ verify' = verify /\ MainOnly
  BY DEF ArmChannel, ArmState, ArmPin, At, IInv, MainType, TypeOK
<1>2. adc' \in [channel : {"NIBP", "TEMP"}, state : {0, 1}, pin : {"DIN", "DRDY"},
                tim1 : {"off", "COM_ADC_R", "COM_ADC_START"},
                data : Inputs \cup {"none", "unsettled"}, owner : {"isr", "main"}]
  BY DEF ArmChannel, ArmState, ArmPin, IInv, TypeOK
<1>3. MainType'
  <2>1. \E to \in AveragePcs : main' = [main EXCEPT !.pc = to]
    BY DEF ArmChannel, ArmState, ArmPin, At, AveragePcs
  <2> QED
    BY <2>1 DEF IInv, MainType
<1>4. Counters'
  BY <1>1 DEF IInv, Counters, HandlerPcs, AveragePcs
<1>5. Averaging'
  BY <1>1 DEF IInv, Averaging, AveragePcs, MainOnly
<1>6. ~ (scenario \subseteq {"probes"})
  BY <1>1, NoAverageWhenSteady DEF AveragePcs
<1> QED
  BY <1>1, <1>2, <1>3, <1>4, <1>5, <1>6, MainKeeps DEF IInv, TypeOK

(* The sample is taken when the flag is down. *)
LEMMA TakeSampleIInv == ASSUME IInv, TakeSample PROVE IInv'
<1>1. /\ main.pc = "wait" /\ main'.pc = "delay" /\ verify.wait = FALSE
      /\ main'.sum = main.sum \cup {adc_val} /\ main'.left = main.left - 1
      /\ main'.calm = main.calm
      /\ adc' = adc /\ verify' = verify /\ MainOnly
  BY DEF TakeSample, IInv, MainType
<1>2. main.left - 1 \in 0 .. SampleCount
  BY <1>1, ComAdcAssumption DEF IInv, MainType, Counters, AveragePcs
<1>3. MainType'
  BY <1>2 DEF IInv, MainType, TypeOK, Values, TakeSample, AveragePcs
<1>4. Counters'
  BY <1>1 DEF Counters, HandlerPcs, AveragePcs
<1>5. Averaging'
  BY <1>1 DEF IInv, Averaging, AveragePcs, MainOnly
<1>6. ~ (scenario \subseteq {"probes"})
  BY <1>1, NoAverageWhenSteady DEF AveragePcs
<1> QED
  BY <1>1, <1>3, <1>4, <1>5, <1>6, MainKeeps DEF IInv, TypeOK

(* The delay after a sample. *)
LEMMA DelayIInv == ASSUME IInv, DelayAfterSample PROVE IInv'
<1>1. /\ main.pc = "delay"
      /\ main'.pc = IF main.left > 0 THEN "announce" ELSE "loop"
      /\ main'.sum = IF main.left > 0 THEN main.sum ELSE {}
      /\ main.left > 0 => main'.calm = main.calm
      /\ main'.left = main.left
      /\ adc' = adc /\ verify' = verify /\ MainOnly
  BY DEF DelayAfterSample, IInv, MainType
<1>2. MainType'
  BY DEF IInv, MainType, DelayAfterSample, AveragePcs
<1>3. Counters'
  BY <1>1 DEF Counters, HandlerPcs, AveragePcs
<1>4. Averaging'
  BY <1>1 DEF IInv, Averaging, AveragePcs, MainOnly
<1>5. ~ (scenario \subseteq {"probes"})
  BY <1>1, NoAverageWhenSteady DEF AveragePcs
<1> QED
  BY <1>1, <1>2, <1>3, <1>4, <1>5, MainKeeps DEF IInv, TypeOK

-----------------------------------------------------------------------------
(* A period begins while the ADC is on the pressure, unless "late". *)
LEMMA PeriodIInv == ASSUME IInv, Period PROVE IInv'
<1>1. /\ scenario \subseteq {"probes"} =>
           /\ main.pc = "loop" /\ mux.adc = "NIBP" /\ adc.channel = "NIBP"
           /\ temp.need => verify.stauts
           /\ lag = 0
      /\ lag \in Nat /\ lag' = lag + 1 /\ lag' \in 0 .. MaxLag
  BY ComAdcAssumption DEF Period, InTime, IInv, TypeOK
<1>2. /\ scenario' = scenario /\ adc' = adc /\ g_HCT595Value' = g_HCT595Value /\ mux' = mux
      /\ rclk' = rclk /\ settled' = settled /\ temp' = temp /\ g_TempADC_Val' = g_TempADC_Val
      /\ adc_val' = adc_val /\ verify' = verify /\ main' = main
  BY DEF Period
<1>3. TypeOK' /\ MainType'
  BY <1>1, <1>2 DEF IInv, TypeOK, MainType
<1>4. Counters' /\ Converted'
  BY <1>1, <1>2 DEF IInv, Counters, HandlerPcs, AveragePcs, Converted
<1>5. Averaging'
  BY <1>1, <1>2 DEF IInv, Averaging
<1>6. Steady'
  <2> SUFFICES ASSUME scenario \subseteq {"probes"} PROVE (Requests /\ Register /\ SecondRead /\ Right)'
    BY <1>2 DEF Steady
  <2>1. Requests /\ Register /\ SecondRead /\ Right
    BY DEF IInv, Steady
  <2>2. Requests'
    BY <1>1, <1>2, <2>1 DEF Requests, Quiet
  <2>3. Register'
    BY <1>1, <1>2, <2>1 DEF Register
  <2>4. SecondRead' /\ Right'
    BY <1>2, <2>1 DEF SecondRead, Right, TempInItsSlot
  <2> QED
    BY <2>2, <2>3, <2>4
<1> QED
  BY <1>3, <1>4, <1>5, <1>6 DEF IInv

(* The external watchdog starts the device again. *)
LEMMA WatchdogResetIInv == ASSUME IInv, WatchdogReset PROVE IInv'
<1>1. /\ scenario' = scenario /\ adc' = StartAdc /\ g_HCT595Value' = StartOutputs
      /\ mux' = StartOutputs /\ rclk' = "HIGH" /\ settled' = TRUE /\ temp' = StartTemp
      /\ g_TempADC_Val' = [i \in {0, 1} |-> "none"] /\ adc_val' = "none"
      /\ verify' = [stauts |-> FALSE, wait |-> FALSE] /\ main' = StartMain /\ lag' = 0
  BY DEF WatchdogReset
<1>2. TypeOK' /\ MainType'
  BY <1>1, ComAdcAssumption DEF IInv, TypeOK, MainType, Outputs, Probes, Inputs, NoCopy, Values,
                                StartAdc, StartOutputs, StartTemp, StartMain
<1>3. Counters' /\ Converted' /\ Averaging'
  BY <1>1 DEF Counters, Converted, Averaging, HandlerPcs, AveragePcs, StartAdc, StartMain
<1>4. Requests' /\ Register' /\ SecondRead' /\ Right'
  BY <1>1 DEF Requests, Register, SecondRead, Right, TempInItsSlot, HandlerPcs, AveragePcs,
              StartAdc, StartOutputs, StartTemp, StartMain
<1> QED
  BY <1>2, <1>3, <1>4 DEF IInv, Steady

(* A stuttering step. *)
LEMMA StutterIInv == ASSUME IInv, UNCHANGED vars PROVE IInv'
<1>1. /\ scenario' = scenario /\ adc' = adc /\ g_HCT595Value' = g_HCT595Value /\ mux' = mux
      /\ rclk' = rclk /\ settled' = settled /\ temp' = temp /\ g_TempADC_Val' = g_TempADC_Val
      /\ adc_val' = adc_val /\ verify' = verify /\ main' = main /\ lag' = lag
  BY DEF vars
<1>2. TypeOK' /\ MainType' /\ Counters'
  BY <1>1 DEF IInv, TypeOK, MainType, Counters
<1>3. Converted' /\ Averaging'
  BY <1>1 DEF IInv, Converted, Averaging
<1>4. Steady'
  BY <1>1 DEF IInv, Steady, Requests, Register, SecondRead, Right, TempInItsSlot, Quiet
<1> QED
  BY <1>2, <1>3, <1>4 DEF IInv

(* The device after its start. *)
LEMMA InitIInv == ASSUME Init PROVE IInv
<1>1. TypeOK /\ MainType
  BY ComAdcAssumption DEF Init, TypeOK, MainType, Outputs, Probes, Inputs, NoCopy, Values,
                          StartAdc, StartOutputs, StartTemp, StartMain
<1>2. Counters /\ Converted /\ Averaging
  BY DEF Init, Counters, Converted, Averaging, HandlerPcs, AveragePcs, StartAdc, StartMain
<1>3. Requests /\ Register
  BY DEF Init, Requests, Register, HandlerPcs, AveragePcs,
         StartAdc, StartOutputs, StartTemp, StartMain
<1>4. SecondRead /\ Right
  BY DEF Init, SecondRead, Right, TempInItsSlot, StartAdc, StartOutputs
<1> QED
  BY <1>1, <1>2, <1>3, <1>4 DEF IInv, Steady

(* Every step preserves the invariant. *)
LEMMA NextIInv == ASSUME IInv, [Next]_vars PROVE IInv'
<1>1. CASE Interrupt
  BY <1>1, IVG9IInv, SaveDataIInv, SampleStartIInv DEF Interrupt
<1>2. CASE NIBP_StartSample
  BY <1>2, StartSampleIInv
<1>3. CASE Temperature_Handler
  BY <1>3, ChooseProbeIInv, LostSampleIInv, LoadCopyIInv, ClearFieldIInv, SetFieldIInv,
     ShiftOutIInv, LatchIInv, RequestSampleIInv, NextPeriodIInv DEF Temperature_Handler
<1>4. CASE NIBP_ADC_Average
  BY <1>4, AnnounceIInv, ArmIInv, TakeSampleIInv, DelayIInv DEF NIBP_ADC_Average
<1>5. CASE temp_setChannel \/ NIBP_VerifyBySimulator \/ NIBP_VerifyAction \/ Period \/ WatchdogReset
  BY <1>5, SetChannelIInv, VerifyBySimulatorIInv, VerifyActionIInv, PeriodIInv, WatchdogResetIInv
<1>6. CASE UNCHANGED vars
  BY <1>6, StutterIInv
<1> QED
  BY <1>1, <1>2, <1>3, <1>4, <1>5, <1>6 DEF Next, MainStep

-----------------------------------------------------------------------------
(* The inductive invariant holds in every state, for any lag of the main   *)
(* loop and any number of samples.                                         *)
THEOREM AdcInvariant == Spec => []IInv
  BY InitIInv, NextIInv, PTL DEF Spec

(* TypeOK holds in every state. *)
THEOREM AdcTypes == Spec => []TypeOK
<1>1. IInv => TypeOK
  BY DEF IInv
<1> QED
  BY <1>1, AdcInvariant, PTL

(* CalibrationIsPressure: NIBP_ADC_Average takes only settled values of    *)
(* the pressure, however late Temperature_Handler is, if the host asked in *)
(* the calibration and no temperature was being converted.                 *)
THEOREM SamplesArePressures == Spec => []CalibrationIsPressure
<1>1. IInv => CalibrationIsPressure
  BY DEF IInv, TypeOK, Averaging, CalibrationIsPressure
<1> QED
  BY <1>1, AdcInvariant, PTL

(* TempInItsSlotSteady: with a main loop that keeps up and no calibration, *)
(* g_TempADC_Val holds each temperature in the place of its own probe,     *)
(* although the handler switches the probes without disabling interrupts.  *)
THEOREM TemperatureSlots == Spec => []TempInItsSlotSteady
<1>1. IInv => TempInItsSlotSteady
  BY DEF IInv, Steady, Right, TempInItsSlotSteady
<1> QED
  BY <1>1, AdcInvariant, PTL
=============================================================================
