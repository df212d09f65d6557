# The all-in-one patient-monitor board: models, checks and proofs

This directory specifies parts of the firmware in TLA+, model-checks them with
TLC and proves theorems about them with TLAPS. `PROJECT.json` lists the
components, the runs, which definition models which lines, the hazards and the
theorems. All source paths below are relative to the repository.

## 1. The system

The board measures ECG, respiration, temperature, SpO2 and non-invasive blood
pressure (NIBP) and talks to a host over a serial line. Two processors share the
work:

* The **DSP** (Blackfin BF512, `AllInOneDSP`) runs one endless main loop
  (`AllInOneDSP.c`: `ECG_Handler`, `RESP_Handler`, `NIBP_Handler`, ...,
  `Uart2MCU_RxPacketCheck`, `nibp_algorithm_handler`) and a few interrupt
  handlers. There is no operating system and no lock: the `cli`/`sti` pairs are
  commented out. An interrupt may come between any two accesses of the main
  loop; the handlers do not nest (`EX_INTERRUPT_HANDLER`).
* The **STM32** (`AllInOneSTM32`) watches supplies, the ECG probe and, with a
  pressure sensor and a valve of its own, the cuff. The DSP reaches it over I2C.

| component | state | operations | interaction |
|---|---|---|---|
| SpO2 UART (`module_spo2_uart.c`) | a transmit and a receive ring, the transmit-interrupt enable bit | `SpO2_UART_SendBuf`, `SpO2_UART_GetByte`, `IVG11_SpO2_UART_ISR` | main loop and interrupt share the rings; packets of the host are forwarded unchanged |
| NIBP controller (`module_nibp.c`, `algorithm_nibp.c`) | run status, pump status, work mode, phase of the algorithm, target pressures, five deadlines, two valves and a pump | `NIBP_Handler` and the host's commands in the main loop, `NIBP_StartSample` in the 10 ms interrupt | both contexts write the same globals; the algorithm reports "next target", "inflation done", "all done" |
| STM32 protection (STM32 `module_nibp.c`, `i2c_int.c`) | limit, busy flag, release state, calibration switch, valve | `NIBP_Handler` every 100 ms, the I2C read and write handlers | polled, configured and acknowledged by the DSP over I2C |
| host link (`system_uart.c`, `uart_protocol.c`) | two rings of UART1, the packet reader, the dispatch of commands | `AIO_UART_SendBuf`, `AIO_UART_GetByte`, `Uart_RxPacketCheck`, `onMessageHandler` | uploads come from the main loop and from interrupts |
| ticks and timers (`system_tick.c`) | a 32-bit tick, a table of countdown timers | `SetTimeout`, `ResetTimeout`, `IsTimedout`, `IsOnTime`, `CoreTimer_ISR` | used by everything that waits |
| I2C master (`system_twi.c`, `module_onboard_stm32.c`) | none beyond the peripheral's registers | `TWI_MasterMode_Read`, `TWI_MasterMode_Write`, reads and writes by ID | results are partly ignored by the callers |
| software update (`module_onboard_stm32.c`, `booloader/aio_stm_bootloader`) | packet number, flash address; flash pages, error flag, result of the last write | `aio_stm32_UpdateHandle`; `Write_Memory_Command`, `Read_Memory_Command`, two command loops | host over UART, DSP over I2C, a watchdog |
| common ADC (`external_adc_com.c`, `sn74hc595.c`, `module_temperature.c`) | channel, half of the conversion, pin mode, shift register, requested probe | `NIBP_StartSample`, `IVG9_ISR`, `IVG13_ISR`, `Temperature_Handler`, `NIBP_ADC_Average` | pressure and temperature share one converter; main loop and interrupts share the multiplexer's bits |
| EEPROM and calibration (`eeprom.c`, `module_nibp.c`) | the calibration record in the EEPROM and in RAM, the formula and limits derived from it | page-wise saving, reading back at the start, the host's calibration commands | the supply can fail, I2C results are ignored |
| ECG, respiration, flash, board support | samples, tables, registers | sampling, filtering, storage | little interaction beyond the main loop |

What is hard in this code: the unlocked sharing of state between the main loop
and the interrupts (rings, pump, valves, phase of a measurement); commands of
the host that arrive in any phase of a measurement; flags that survive the
operation they belong to; routines that go on after a call inside them has
stopped everything; a bus that loses transactions and reports some losses as
success; an independent processor that may reset; data that is saved in several
page writes; a result that is read back long after the write it belongs to.
The `hazards` of `PROJECT.json` give each of them at its line.

What makes the components correct:

* rings: bytes leave whole, in order, exactly once; no wake-up is lost; waits end;
* NIBP: a measurement does not outlive its protect timer; an idle monitor has an
  open cuff and a stopped pump; the pump never runs unknown to the flag by which it
  is stopped; it does not run in the deflation; automatic measurements are made
  only when they were chosen;
* protection: an over-pressure is released (a start of the DSP in a release breaks
  this, see section 3); the valve does not stay open; the DSP learns of a release
  and stops; the STM32's limit is that of the patient;
* converter: what is used as a pressure was converted from the pressure sensor,
  a temperature from its own probe; nobody waits for a sample for ever;
* update: what the DSP acknowledges is in the flash; the host finishes only over
  a complete image, and it finishes;
* calibration: fields stay whole; what was saved stays until it is saved again; a
  flag is never there before the points it stands for;
* packets: no command is executed again or out of order; a repeated command gets
  through; bytes are dropped only from a full ring (not if one is received in the
  middle of the wrap, see section 3).

## 2. Modules

| module | what it is |
|---|---|
| `ByteFifo` | abstract specification of a transmit ring: a queue of whole packets |
| `SpO2UartTx` | transmit half of the SpO2 UART, at the grain of single accesses |
| `SpO2UartTxProofs` | its theorems |
| `SpO2UartRx` | receive half |
| `SpO2UartRxProofs` | its theorems |
| `NibpController` | the blood-pressure controller: main loop against sampling interrupt |
| `NibpControllerProofs` | its theorems |
| `NibpProtect` | the STM32's protection and the DSP's side of it |
| `NibpProtectProofs` | its theorems |
| `ComAdc` | the converter shared by pressure and temperature: three interrupts against the main loop |
| `ComAdcProofs` | its theorems |
| `Stm32Update` | the update of the STM32's program: host, DSP, boot loader, flash |
| `Stm32UpdateProofs` | its theorems |
| `Calibration` | the calibration record in the EEPROM, its saving and its use |
| `CalibrationProofs` | its theorems |
| `PacketReader` | the host's packets: receive ring of UART1, packet reader, CRC |
| `MC...` | instances for TLC |

Operators called "Fault: ..." in a comment are wrong versions of the operator
after them. They are used only to show that a property notices the fault.

### SpO2UartTx

Variables carry the names of the code. `SpO2_UART_SendBuf` is split where the
interrupt could see a difference: entering (private copy of the end index),
waiting on a full ring (which switches the interrupt on), storing one byte,
publishing the index, switching the interrupt on. The interrupt's transmit
branch is one step: send a byte or, on an empty ring, switch itself off. The
initial content of the ring is arbitrary.

`Pending` is the refinement mapping: the bytes between the two published
indices. `Fifo == INSTANCE ByteFifo WITH queue <- Pending, thr <- THR`.

### SpO2UartRx

Bytes are numbered. The receive branch of the interrupt is one step and moves
the reader's index when the ring is full. `SpO2_UART_GetByte` loads both indices
in either order, and may read the pop index again or keep it in a register each
time the source names it, because the globals are not `volatile`: all the
outcomes a compiler may produce are allowed.

### NibpController

The state is one record `g` with the globals of `module_nibp.c` (without the
`g_` prefix), the pump (TIMER6) and the pins of the two valves, the flags of the
algorithm, and one flag per deadline ("has run out"); and `code`, what the main
loop still has to do in this pass. `session`, chosen at the start, says which
commands the host uses and which unusual events may happen. It never changes, so
a property can have a premise about it (`OnlyMeasures`, `NoOverload`,
`NoRestart`).

A routine of the code is an operator that gives the sequence of its
assignments. The interrupt performs it whole (`After`: of the assignments to a
field the last one counts); the main loop performs one element at a time
(`MainAssign`), so the interrupt may come between any two assignments. `Call`
marks a place where the main loop reads the globals and decides (`HandlerPart`,
one part of `NIBP_Handler` each; `onMessageHandler`; `nibp_algorithm_handler`).
Within one decision the globals are read together; all later effects are
separate steps.

Abstractions: a pressure is the answer of `IsNIBPOverLoad` for the target in
question (`reached`, `above`, `overload`), with the targets below the limit; the
staircase of the deflation is a number of `Steps`, counted from the target or, when
the pressure has fallen below it by itself (`g_bIsCalculateDrop`), from where it is
(`StairsLeft`); a sequence of samples is
"none", "sampling" or "complete"; the algorithm may, on complete samples, do
nothing, ask for another step, end the inflation or end the measurement; an
unusual measurement is an event of the session (no pulse, wrong cuff,
over-pressure, a target above the range for the third time, the STM32 has
released). A deadline runs out only between two passes of the main loop, and
is followed only while somebody waits for it; the hold timer at any time, because
the interrupt looks at it while the pressure rises and the main loop while it
falls, whatever the pump does. Duty cycles, uploads, alarms and the debug setters are left out:
they change pressures and durations only. The write order inside
`NIBP_SetPWM` (deadline, register, status) is kept.

### NibpProtect

`NIBP_Handler` of the STM32 is split where the I2C interrupt can come between:
busy flag, release state, pin. The DSP's main loop makes one transaction per
step (`StartReadState`, `ClearState`, `PollState`, `PollProtect`,
`WriteProtect`, `SetVerify`). A measurement or a venipuncture may start at any
moment, also in a release: `NIBP_startPumpCtrl` asks for nothing. What the
DSP's interrupt does with the pump meanwhile is `NIBP_RisingCtrl` and
`NIBP_ForceStop`, at any moment. A failing write is lost, and reported as success
or as an error, or arrives and is reported as an error. A disturbed read
returns any bytes: the answer buffer of the STM32 is the record of the supplies
and of the ECG probe, which `i2c_server` rewrites every 10 ms, and
`aio_stm32_readByID` goes on after a lost request. There is no bound on
disturbances. A reset of the STM32 runs its `NIBP_Init`. The pressure has four
levels: below the minimum, between, above the newborns' limit, above
everybody's. The cuff is the environment: it rises while the pump runs against
closed valves and may fall at any time (leak, or the DSP's own valves).

The two modules about NIBP are not composed: `NibpController` sees the STM32 as
an event, `NibpProtect` sees the controller as a pump that is started and
stopped.

### ComAdc

A conversion takes two rounds of "data ready" (`IVG9_ISR`) and "read" (`IVG13_ISR`
through Timer1): the first value is thrown away and the multiplexer set, the
second, after a delay, counts. `adc` is the sequencer's state. A value is
represented by the input it was converted from, or "unsettled" when the
multiplexer had just been switched.

Interrupt handlers are single steps. The main loop can be interrupted between
any two accesses: `AHCT595_SetTempChannel` loads the memory copy of the shift
register, changes its field (in one store or in two, as the compiler likes) and
shifts it out with a falling and a rising edge of the latch clock; an
interrupt in between refreshes the register with its own bits.
`NIBP_ADC_Average` arms the converter with four stores and waits for a flag. A
`scenario`, chosen at the start, says whether the host changes the probes, whether
it calibrates, whether it asks for values outside the calibration ("blind"), and
whether the main loop may fall behind. In the last case a period of 500 ms may end
at any moment; otherwise it ends when the last request has been served
(`InTime`), 490 ms of which is what the code has. A "blind" host stops the main
loop, and the external watchdog resets the DSP (`WatchdogReset`).

### Stm32Update

The image has one chunk per packet. The host (external) sends tag, length,
numbered chunks and end, one packet at a time; it repeats what is not answered
and starts again when the same chunk is asked for too often.
`aio_stm32_UpdateHandle` has one action per kind of packet. Each I2C transaction
may go well, be lost and reported, be lost without a report, or arrive while its
answer is lost. The STM32 runs its program, the boot loader, or the boot
loader's first five seconds; the remains of two programs do not run and are
reset by the watchdog. The flash keeps the rules of its controller: a cell is
programmed only when blank, an attempt on another cell latches `PGERR`, which
only an erase clears, and while it is latched nothing is programmed.
`NIBP_STM32_protectHandle` goes on polling during the update (`PollLimit`); the
boot loader takes its write for a flash write.

### Calibration

The EEPROM and its copy in RAM are functions from the addresses of
`EEPROM_StructureDef` to the calibration a byte comes from. The host's commands are
the code's, in any order, as the code restricts none but the sampling of a point
(`verifyStauts`): the six points (`NIBP_VerifyDebug`), all of them saved as they are
(`NIBP_VerifySave2Eepom`), one of the points 50, 150 and 250 mmHg sampled and saved
at once in two or three writes (`NIBP_VerifyAction`), the protection's points and
their save. Outside the calibration `NIBP_VerifyAction` waits for ever and ends in a
reset by the watchdog.

`EEPROM_BufferWrite` is the sequence of page writes it makes, with the page
roll-over of the chip; a save does one page write per step, which may be lost, and
the supply may fail between two of them. `promised` is what the saves so far were to
leave in the EEPROM, "unknown" for the bytes of a save that was cut short. Assumed of
the hardware: reads over I2C succeed, and a page write happens as a whole or not at
all. What is computed from the points (`NIBP_StepFormula_Init`, `NIBP_ADC2mmHg`,
`NIBP_mmHg2ADC`, the limits of the protection) is numeric and left out; so is any
claim that the points are of one calibration, which the code does not see to.

### PacketReader

Real bytes and the real CRC-8. The host (external) repeats a command until it is
answered; bytes can be lost. The receive ring is that of UART1: one step per
received byte, and `AIO_UART_GetByte` one step per access to the start index and the
flag: it loads the index (`LoadStart`), stores the next one (`StoreStart`; the byte
is read before or after that store, as the compiler likes), wraps it (`WrapStart`)
and clears `bAIOIsOverBufLenght` (`TakeByte`). A byte may be received between any
two of these, but only one during a call, which is far shorter than the 87 us of a
byte; the constant `Preempted` says whether it may also be received between the
wrap and the clearing of the flag. `Uart_RxPacketCheck` takes one byte after the
other; when its 500 tries run out it goes on with the zero that `memset` left.

## 3. Runs

### Passing

| run | instance | what it shows | distinct states |
|---|---|---|---|
| `spo2_tx` | 4 slots, packets of different lengths | ring = queue (`FifoRefinement`), `NoLostWakeup`, `SendBufReturns`, `PublishedBytesLeave` | 2,656 |
| `spo2_rx` | 6 slots, 20 bytes, at most one byte during a `GetByte` | order, no false "empty", loss only from a full ring | 5,967 |
| `nibp` | eight sessions: START and STOP; the continuous mode; cycles on and off; cycles with calibration; cycles with a missing pulse; venipuncture with a release of the STM32; the gas-leak test; debug measurements with over-pressure | `IdleCuffOpen`, `IdlePumpOff`, `PumpKnown`, `NoPumpInDeflation`, `AutoOnlyIfChosen`, `ProtectTimerObeyed` | 1,660,899 |
| `protect` | any number of disturbed transactions, calibrations, starts at any moment, 1 reset, 1 change of the patient | `OpenValveIsOwned`, `PumpYields`, `LimitFollowsPatient` | 80,640 |
| `com_adc` | four scenarios: probes changed; a late main loop; a calibration besides; a host that asks for values outside the calibration | `PressureIsPressure`, `CalibrationIsPressure`, `TempInItsSlotSteady`, `TempServed`, `CalibrationEnds` | 567,652 |
| `stm32_update` | 5 chunks in pages of 3, numbers modulo 3, 4 faults, 2 resets | `AckedIsWrittenOnce`, `DoneMeansFlashed`, `UpdateCompletes` | 99,691 |
| `calibration` | the code's addresses, 2 calibrations, 2 failures; the points 2 and 5 of the cuff and 1 of the protection | `FieldsWhole`, `SavedSurvives`, `FlagComesLast` | 375,895 |
| `packet_reader` | 3 commands, a ring of 10 slots, 2 faults | `NotAgain`, `DiscardOnlyOnOverflow`, `CommandsArrive` | 689,942 |

Several properties have premises, stated in them: sessions (`OnlyMeasures`,
`NoOverload`, `NoRestart`), the steady scenario of the converter, a calibration
that begins calmly. The table at the end of this section says what happens without
each.

### Where the code does not do what it says

| run | property | what happens |
|---|---|---|
| `nibp_sealed_cuff` | `IdleCuffOpen` | no pulse for 40 s at the end of the inflation: the valves are opened and closed again, with the measurement over |
| `stm32_repeat` | `AckedIsWritten` | the result of a write is lost, the chunk is programmed twice, and the rest of the page is acknowledged without being programmed |
| `protect_release` | `OverPressureReleased` | a measurement is started during a release: the DSP's acknowledgement closes the STM32's valve, whose protection stays busy and does not open it again until the cuff is empty |
| `packet_replay` | `DiscardOnlyOnOverflow` | a byte received between the wrap of the start index and the clearing of the overflow flag makes an almost empty ring look full of old bytes |

`findings` in `PROJECT.json` quotes the line each of these contradicts.

A passing run says that a property holds for its instance. Other instances,
outside the passing runs for this reason, violate the same properties; changing
the constants of the configuration (or dropping the premise named) reproduces them:

| configuration, changed | property | what happens |
|---|---|---|
| `SpO2UartRx`, `Burst = 2` | `LossOnlyWhenFull`, `EmptyMeansDelivered` | two bytes during one `GetByte` on a full ring: the late store of the pop index makes the ring look empty |
| `Nibp`, session START, STOP; property without `NoRestart` | `NoPumpInDeflation`, `IdlePumpOff` | a START (likewise `DEBUG_PWM_ON`) during the deflation starts the pump; nothing stops it, and it runs on after the last stair |
| `Nibp`, session `DEBUG_START`, `DEBUG_PWM_OFF` | `PumpKnown` | the debug command's stop falls together with a rising step of the interrupt: the pump runs and is recorded as off |
| `Nibp`, session START, STOP with `weak`, `cuff` or `overMeasure` | `IdleCuffOpen` | the interrupt goes on after the stop it has made itself (run `nibp_sealed_cuff` has the case `weak`) |
| `Nibp`, session CONTINUED, STOP with `weak` | `IdlePumpOff` | the same, with the pump |
| `Nibp`, session `DEBUG_START` with `overload`; properties without `NoOverload` | `IdleCuffOpen`, `IdlePumpOff` | the over-pressure stop of the interrupt falls into a start, which goes on |
| `Nibp`, a session with `GAS_LEAK`, `VENIPUNCTURE`, `CYCLE_ON`, `VERIFY`, `STATIC_ON`, `DEBUG_ALGO_ON` or `DEBUG_PASS`; property without `OnlyMeasures` | `IdleCuffOpen` | the venipuncture and the gas-leak test hold the cuff closed on purpose while `g_NIBP_Status` is off; a calibration and the static mode close it; `CYCLE_OFF` ends the measurement but not its algorithm, `DEBUG_ALGO_ON` starts the algorithm without a measurement; after `DEBUG_PASS` a sample that is left over lets the last stair close the valves once it has ended the measurement |
| `Nibp`, session `VENIPUNCTURE`, `VENIPUNCTURE_STOP` or `GAS_LEAK`, STOP; property without `OnlyMeasures` | `IdlePumpOff` | these fill the cuff without a measurement, and `VENIPUNCTURE_STOP` leaves the pump on |
| `Nibp`, session `CYCLE_ON`, `CYCLE_OFF`, `VENIPUNCTURE`, `VENIPUNCTURE_STOP` | `AutoOnlyIfChosen` | a saved mode outlives its cycle and is restored |
| `Nibp`, session `CYCLE_ON`, `CYCLE_UNKNOWN` | `AutoOnlyIfChosen` | the default branch of `NIBP_SetCycle` is spelled `defalut:`, a label nobody jumps to |
| `ComAdc`, scenario `late`; property without the scenario | `PressureIsPressure`, `TempInItsSlot` | a main loop that catches up switches inputs behind the sequencer's back, and skips a request |
| `ComAdc`, scenario `calib`, `late`; property without the scenario | `TempInItsSlot` | the handler skips a request in a calibration |
| `ComAdc`, scenario `calib`, `blind`; property without `verify.stauts` | `CalibrationEnds` | outside the calibration `NIBP_ADC_Average` waits for ever and the watchdog resets the DSP |
| `PacketReader`, `Preempted = TRUE`, `Size` 16 to 24, `MaxFaults = 1` | `NotAgain` | after the race of `packet_replay` the reader finds an old command in the ring and executes it again |

### Bounds

* Rings: the smallest sizes in which the indices wrap, the ring is full with
  packets of more than one length and the special case of slot 0 occurs. The
  theorems of the transmit ring hold for every size. The receive run ends after
  `MaxBytes` bytes (three laps), so it allows deadlock.
* `Steps` = 2 and `TEST_SLOW_RELE_COUNT` = 1 (5 in the code): a deflation with a
  stair between the first and the last, and a count that has to be reached.
  Rising steps are not bounded: only "first" and "later" matter to the code.
* Sessions: the interleavings of the main loop with the interrupt multiply with
  each command, so a session has the commands of one mode of use. Commands come
  at any pass, in any number. The theorems of `NibpControllerProofs` hold for
  every session but those they name, so the run's choice of sessions is no bound
  on them. `ProtectTimerObeyed` is only model-checked, in these sessions.
* `MaxResets`, `MaxPatients` of the protection: one reset and one change of the
  patient reach each order of a reset, a change and a poll.
* `MaxLag` = 2, `SampleCount` = 2: a handler that runs twice at once, and a
  second sample after a first. `CalibrationIsPressure` and `TempInItsSlotSteady`
  are proved for every lag and every number of samples.
* Update: 5 chunks with numbers modulo 3 (256 in the code) wrap the number and
  have a page that is full and one that is not; 4 faults and 2 resets reach a
  lost acknowledgement, the new start after too many strikes and a reset in each
  of the two attempts. The run ends when the host is done, so it allows deadlock.
* Calibration: two calibrations, so that a second replaces a first, two failures,
  and of the cuff's points one in each of two pages, among them the two with which
  `NIBP_VerifyAction` sets its flag. The theorems have no bounds. It ends when the
  host has made them, so it allows deadlock.
* Packets: the ring of 10 slots is shorter than two packets, so that an
  overtaking packet overflows it; one command's data are the two bytes that begin a
  packet. That no command is made up by a fault is not claimed: CRC-8 can match (the
  hazard at `uart_protocol.c:83` has an example). It ends when all commands are
  executed, so it allows deadlock.

### Fairness

* `SpO2UartTx`: weak fairness of `SendBufStep` (the main loop runs whenever it
  is not interrupted) and of the enabled transmit interrupt. No fairness for the
  host's packets.
* `NibpController` has safety properties only. That every measurement ends is not
  stated, because the code does not see to it: `NIBP_SampleOneTimeByDebug` rearms
  the protect timer (`module_nibp.c:1342`), so a host that repeats `CONTINUED` or
  `DEBUG_START` within 180 s keeps a measurement alive. What is stated is that a
  timer that has run out is obeyed (`ProtectTimerObeyed`).
* `NibpProtect`: weak fairness of the STM32's handler (100 ms) and of a
  transaction the DSP has begun; strong fairness of an undisturbed poll, an
  undisturbed comparison of the limit and a write that arrives: any transaction
  may be disturbed, not all of them for ever. Nothing is assumed of the cuff.
* `ComAdc`: weak fairness of the converter's and the timer's interrupts, of the
  10 ms sample and of the main loop. None of the watchdog.
* `Stm32Update`: the host sends, repeats and receives; the DSP handles each
  packet; the watchdog runs. Strong fairness says that the host repeats its tag
  more often than once in the five seconds of the boot loader.
* `PacketReader`: the host goes on sending, the line carries its bytes, the main
  loop comes back to the reader.
* `SpO2UartRx` and `Calibration` have safety properties only.

## 4. Proofs

`SpO2UartTxProofs`, for every ring size of at least two slots, every set of bytes
and every set of non-empty packets that fit the ring (`TxAssumption`):

* `SpecIInv`: the inductive invariant `TypeOK /\ NoLostWakeup /\ Filling`.
  `NoLostWakeup` is inductive on its own given the types; `Filling` is needed
  for the refinement: while `SendBuf` fills, its private index is exactly
  `uiLen` slots after the published one, the slots in between hold the packet's
  first bytes, and they do not reach the reader.
* `TypeCorrect`, `WakeupNeverLost`.
* `RingImplementsFifo`: `Spec => FifoRefinement`. Storing a byte leaves the
  queue alone because the slot lies outside it (`StorePending`); publishing
  appends the packet (`PublishPending`); the interrupt takes the head
  (`SendPending`). The lemmas on `Inc`, `Dist` and `At` carry the modular
  arithmetic.

`NibpProtectProofs`, for any number of failed transactions, resets, changes of the
patient and starts of the pump, at any moment (`ProtectAssumption`):

* `ProtectInvariant`: the types and where the protection's handler is. An open
  valve is not owned in the middle of `NIBP_Handler`, so the invariant says for each
  of its points what the busy flag and the valve are: busy from before the state is
  set until after the cuff was found empty. An acknowledgement closes the valve and
  clears the state, but leaves the flag, and that is what the proof rests on; the
  mutant of the run changes just that.
* `ReleaseIsOwned`, `ProtectTypes`.

`SpO2UartRxProofs`, for every ring of more than two slots and any number of
bytes. A ring of two slots would break the properties (two moves of the index
reach the byte just received); the code has 1024. At most one byte arrives
during one `SpO2_UART_GetByte` (`Burst <= 1`, a few instructions against 87 us):
with two the properties fail, see section 3.

* `RxInvariant`: `TypeOK /\ Held /\ Waiting /\ Registers /\ Storing`. The
  properties say nothing of the slots, so none is inductive: `Held` says which
  byte every slot holds, by its age; `Waiting` where the reader's index is
  between two reads; `Registers` what the two loaded indices may have missed,
  for both load orders; `Storing` where the index is while a byte was read and
  not yet counted.
* `DeliveredInOrder`, `LostOnlyWhenFull`, `EmptyRingDelivered`; `RxTypes` without
  any hypothesis.

`Stm32UpdateProofs`, for images and pages of any size, packet numbers that wrap
at any value from two on, and any number of losses and resets
(`UpdateAssumption`):

* `UpdateInvariant`: `TypeOK /\ Dialogue /\ InStep /\ Programmed`. `Dialogue`
  lists the packets that can be on the line in each state of the host; `InStep`
  says that the DSP has counted the chunk the host is sending, or all before it,
  so that comparing numbers modulo two or more is enough (`NumberNext`);
  `Programmed` says what the flash holds and what an unread `op_result` stands for.
* `CountedIsWritten`, `EndMeansComplete`. Their hypothesis `PollIsReported` leaves
  out one combination, which the run leaves out too: a write that is lost
  without an error while the protection's poll sets `op_result`, which the DSP
  then takes for its own. `UpdateTypes` has no hypothesis.

`CalibrationProofs`, for any number of calibrations, power failures and lost page
writes, any set of points and any order of commands (`CalibrationAssumption`):

* The saves are computed from `EEPROM_BufferWrite` (`TagsFit`, `NibpFit`,
  `ProtectFit`, `ActionFit`): their page writes cover exactly the bytes of the save,
  none runs over its page (`WrittenPlain`), and the flag is in the last one.
* `CalibrationInvariant`: what is promised and not yet written is in the page writes
  still to come, and in the RAM, which nobody changes meanwhile; the page writes to
  come are a tail of a save that fits; all fields of EEPROM and RAM are whole and of
  their own kind. `SavedSurvives` and `FlagComesLast` follow only from all three.
* `FieldsNeverTorn`, `SavedIsThere`, `FlagIsLast`, `CalibrationTypes`, without
  hypotheses.

`ComAdcProofs`, for all scenarios, any lag of the main loop and any number of samples
(`ComAdcAssumption`):

* `AdcInvariant`: `Converted` (a settled converter holds the value of the input
  that is selected now) and `Counters` hold in all scenarios; `Averaging` (during a
  `NIBP_ADC_Average` that began calmly nobody selects another input); `Requests`,
  `Register` and `SecondRead` in the scenario without calibration and delay: a
  period begins only when the last request has been served, so the handler's copy
  of the shift register is never stale and the second read is about the input
  asked for.
* `SamplesArePressures`, `AdcTypes`, `TemperatureSlots`, without hypotheses (the
  scenario is a premise of the property itself). `PressureIsPressure` is only
  model-checked.

`NibpControllerProofs`, for any number of stairs and of samples and any set of
sessions (`NibpAssumption`):

* In the middle of a routine hardly anything holds of the globals themselves, so
  the invariants speak of `Settled`: the globals when all that is in front of the
  main loop has been executed. Executing an assignment does not change it
  (`SettledAssign`, from `AfterStep`); a routine put in front of the main loop
  changes it as a whole; an interrupt changes of it only the fields that are
  not going to be written (`SettledInterrupt`). `SettledSteps` says this for every
  action. What remains is one lemma per routine, on what it does as a whole
  (`After...`, `Only...`, `Restores...`, `Safe...`) or in which order
  (`Linked`, `Paired`, `Ending`), and one on the interrupt (`RisingEffect`,
  `InterruptEffect`).
* `NibpTypes`, for all sessions. Its invariant `Base` also says that the main loop
  has assignments in front of it first and only calls behind them.
* `NibpPumpKnown`, for all sessions without `DEBUG_PWM_OFF`. `KnownInv`: when a
  routine switches the pump on, the status is the next assignment; when it
  switches it off, the interrupt has been told first (`algo_state` or
  `bIsPumpStop`), so that until the status is written the interrupt cannot start
  it again (`Calm`). The order inside `NIBP_ForceStop` is what the proof rests on;
  the mutant of the run changes just that.
* `NibpNoPumpInDeflation`, for all sessions (the property is about those with
  `NoRestart`). `FallInv`: `Settled`
  has no pump running in the deflation, and no routine starts the pump without
  starting the algorithm after it, so an interrupt that begins the deflation in
  between is undone.
* `NibpIdleCuffOpen`, `NibpIdlePumpOff`, for the sessions of `PulseFound` (no missing
  pulse, wrong cuff or target above the range); the properties themselves are about
  `OnlyMeasures` (START, STOP, the continuous mode, starting and stopping by the
  debug interface) and `NoOverload`. `CuffInv`: in `Settled`, without a
  measurement the algorithm does not inflate, the valves are not closed and,
  under `NoRestart`, the pump is off; a routine that ends the algorithm sets pump
  and valves after it, so a step of the interrupt in between is undone; and the
  last stair begins with no sample counted (`Counted`), else its count could
  close the valves after the end. That needs a staircase of two stairs and a
  count of two samples (`Staircase`; in the code the first stair lies a step
  below the peak, the last below the minimum, and the count is 5). `Counted` was
  found by the proof: it is not visible in the property.
* `NibpAutoOnlyIfChosen`, for the sessions of `CyclesChosen`: no unknown cycle; and
  a host that switches the cycle off does not use both a command that saves the
  mode and one that restores it whatever the mode is (`VENIPUNCTURE_STOP`,
  `STATIC_OFF`). `ModesFit` extends the property to the saved mode.

Each of these hypotheses and premises is about the session, which the host and the
patient choose, and the table of section 3 says what happens in the sessions that
are left out.

Only model-checked: everything with fairness (`SendBufReturns`,
`PublishedBytesLeave`, `PumpYields`, `LimitFollowsPatient`, `TempServed`, `CalibrationEnds`, `UpdateCompletes`,
`CommandsArrive`), because liveness and ENABLED are out of the prover's reach;
`PacketReader`, whose CRC uses bit operations that the prover does not have
(`NotAgain`, `DiscardOnlyOnOverflow`); `PressureIsPressure` of `ComAdc` and
`ProtectTimerObeyed` of `NibpController`.

## 5. Not modelled

The signal processing of ECG, respiration and NIBP (numeric, out of a model
checker's reach); the drivers of SPI, serial flash, GPIO and clocks (register
accesses without interacting state); the periodic sampling of supplies and of
the ECG probe on the STM32; the VDK port, the vendors' libraries, the boot code
and u-boot (older, generated or third-party code, which is nearly all of the
repository's lines). Physical time is abstracted to "has run out".

Left out of parts that are modelled:

* the transmit ring of UART1. It is shared by producers in the main loop and in
  interrupts, and gives up on a full ring with part of a packet in it. Its two
  hazards are listed without a property.
* the SpO2 packet reader. It is the reader of `PacketReader` over the ring of
  `SpO2UartRx`, except that it waits for more than 20 bytes before it starts; a
  module stream of equal packets can keep a reader that starts inside a packet
  there, so nothing like `CommandsArrive` can be claimed of it.
* tick and pressure arithmetic: `SysTick_Compare`, `Delay1ms` across the wrap of
  the tick, the unsigned distance to the next automatic measurement
  (`module_nibp.c:1577`), the unsigned target of the deflation (464), the count of
  over-pressure samples (1255).
* packets with a Length above 250: the loop of the reader does not end for 255.
* the erase commands of the boot loader and `stm_update_go_user_op`, which have
  no caller.
* what is computed from the calibration: the formula and the choice of its segment
  (`module_nibp.c:614-720`) and the limits of the protection (881-889). Both are
  computed once and used with points that the host may change meanwhile; the code
  restricts neither the time nor the order of the host's commands, so no
  consistency of them can be claimed.

## 6. Plan

Done: the rings of the SpO2 UART, the controller, the protection, the common
ADC, the update, the calibration data, the host's packets; theorems about all of
them but the packets. Left, in this order:

1. The transmit ring of UART1, against a weaker abstract queue than `ByteFifo`
   (what a truncated packet leaves behind).
2. `SysTick`: 32-bit tick arithmetic scaled to a small width.
3. The idle cuff for more sessions: with `CYCLE_ON`, once it is settled what
   `NIBP_SetCycle` is meant to do to a running measurement.
4. Composition of `NibpController` and `NibpProtect` on one cuff.
5. The ring of `PacketReader` in a module of its own, without the CRC, so that
   `DiscardOnlyOnOverflow` can be proved.
