---------------------------- MODULE Calibration ----------------------------
(***************************************************************************)
(* The calibration data in the EEPROM (eeprom.c) and who writes it         *)
(* (module_nibp.c).                                                        *)
(*                                                                         *)
(* The host samples the six points of the cuff pressure and the two points *)
(* of the over-pressure protection into g_eeprom_struct, and has them      *)
(* saved: all at once, the protection's, or by NIBP_VerifyAction one point *)
(* at a time.  The code asks for no order of these commands and neither    *)
(* does the model.  EEPROM_BufferWrite cuts a save into page writes; the   *)
(* supply can fail between two of them, and the result of a page write     *)
(* over I2C is never looked at.  At the next start the struct is read      *)
(* back.                                                                   *)
(*                                                                         *)
(* The contents of a byte is abstracted to where it comes from: blank, a   *)
(* constant of the code (a tag or a flag), or the number of a calibration; *)
(* the addresses are those of the code.  A page write happens as a whole   *)
(* or not at all.                                                          *)
(***************************************************************************)
EXTENDS Integers, Sequences

CONSTANTS
  MaxSessions,   \* bound: calibrations the host makes
  MaxFailures,   \* bound: failures of the supply and lost page writes
  HostPoints,    \* the points of the cuff pressure that the host samples
  HostProtect    \* ... and those of the protection

ASSUME CalibrationAssumption ==
  /\ MaxSessions \in Nat \ {0}
  /\ MaxFailures \in Nat
  /\ HostPoints \subseteq 0 .. 5
  /\ HostProtect \subseteq {0, 1}

VARIABLES
  eeprom,        \* the bytes of the EEPROM
  ram,           \* g_eeprom_struct
  todo,          \* the page writes that the running save has left
  saving,        \* the bytes that the running save is of
  promised,      \* what the saves were to leave in the EEPROM
  verifyStauts,
  session,       \* the number of the host's calibration
  failures

vars == <<eeprom, ram, todo, saving, promised, verifyStauts, session, failures>>

-----------------------------------------------------------------------------
(* EEPROM_StructureDef, packed as on the DSP. *)

PAGE_WRITE_LENGHT == 16
Bytes == 0 .. 64

HeadOfEeprom == 0 .. 3                               \* strlen(EEPROM_HEAD) of 8 bytes
Verify_mmHg(i) == 8 + 2*i .. 9 + 2*i
Verify_Val(i) == 20 + 4*i .. 23 + 4*i
IsVerify == 44 .. 47
protect_mmHg(i) == 48 + 2*i .. 49 + 2*i
protect_adc(i) == 52 + 2*i .. 53 + 2*i
ProtectFlag == 56                            \* chIsProtectVerify
TailOfEeprom == 57 .. 60

NIBP_VERIFY_NUM == 6
Points == 0 .. NIBP_VERIFY_NUM - 1
NibpData == 8 .. 47
ProtectData == 48 .. 56

Blank == 0                                   \* 0xFF
Const == MaxSessions + 1                     \* "HEAD", "TAIL", TRUE
Unknown == MaxSessions + 2                   \* of a byte: no save can be relied on
Stamp == 0 .. MaxSessions + 1

Store(memory, bytes, stamp) ==
  [b \in Bytes |-> IF b \in bytes THEN stamp ELSE memory[b]]

Filled(memory, bytes, stamp) == \A b \in bytes : memory[b] = stamp

-----------------------------------------------------------------------------
(* Page writes. *)

Piece(addr, len) == [addr |-> addr, len |-> len]

(* Fault: a write of no bytes at the end. *)
RestAlways(len) == TRUE

HasRest(len) == len % PAGE_WRITE_LENGHT # 0

Pages(addr, len) ==
  LET full == len \div PAGE_WRITE_LENGHT
      rest == Piece(addr + full * PAGE_WRITE_LENGHT, len % PAGE_WRITE_LENGHT)
  IN  [k \in 1 .. full |-> Piece(addr + (k - 1) * PAGE_WRITE_LENGHT, PAGE_WRITE_LENGHT)]
        \o IF HasRest(len) THEN <<rest>> ELSE <<>>

(* Fault: the pages are cut where the data begins. *)
CutAtData(addr, len) == Pages(addr, len)

(* Fault: the first page goes last. *)
FirstPageLast(addr, len) ==
  LET count == PAGE_WRITE_LENGHT - (addr % PAGE_WRITE_LENGHT)
  IN  IF count = PAGE_WRITE_LENGHT \/ len < PAGE_WRITE_LENGHT
      THEN Pages(addr, len)
      ELSE Pages(addr + count, len - count) \o <<Piece(addr, count)>>

(* A write that does not begin at a page and is longer than one is cut at  *)
(* the next page.                                                          *)
EEPROM_BufferWrite(addr, len) ==
  LET count == PAGE_WRITE_LENGHT - (addr % PAGE_WRITE_LENGHT)
  IN  IF count = PAGE_WRITE_LENGHT \/ len < PAGE_WRITE_LENGHT
      THEN Pages(addr, len)
      ELSE <<Piece(addr, count)>> \o Pages(addr + count, len - count)

(* The j-th byte of a page write: the EEPROM goes on at the page's start.  *)
Target(addr, j) ==
  (addr \div PAGE_WRITE_LENGHT) * PAGE_WRITE_LENGHT + ((addr + j) % PAGE_WRITE_LENGHT)

Written(memory, piece) ==
  [b \in Bytes |->
     IF \E j \in 0 .. piece.len - 1 : Target(piece.addr, j) = b
     THEN ram[piece.addr + (CHOOSE j \in 0 .. piece.len - 1 : Target(piece.addr, j) = b)]
     ELSE memory[b]]

(* The save of "bytes" is over, or it is given up. *)
Rest(bytes) == IF Tail(todo) = <<>> THEN {} ELSE bytes

Forget(bytes) == [b \in Bytes |-> IF b \in bytes THEN Unknown ELSE promised[b]]

(* One page write of the save that is running.  It may be lost:            *)
(* TWI_MasterMode_Write returns an error and nobody looks.                 *)
EEPROM_PageWrite ==
  /\ todo # <<>>
  /\ todo' = Tail(todo)
  /\ saving' = Rest(saving)
  /\ \/ /\ eeprom' = Written(eeprom, Head(todo))
        /\ UNCHANGED <<promised, failures>>
     \/ /\ failures < MaxFailures
        /\ failures' = failures + 1
        /\ promised' = Forget(saving)
        /\ eeprom' = eeprom
  /\ UNCHANGED <<ram, verifyStauts, session>>

(* A handler has "bytes" written, which EEPROM_BufferWrite has cut into    *)
(* "pages".                                                                *)
Saving(bytes, pages) ==
  /\ todo' = pages
  /\ saving' = bytes
  /\ promised' = [b \in Bytes |-> IF b \in bytes THEN ram'[b] ELSE promised[b]]

-----------------------------------------------------------------------------
(* The start. *)

Tags == HeadOfEeprom \cup TailOfEeprom

EEPROM_ExamineHeadTail(memory) == Filled(memory, Tags, Const)

EEPROM_RestoreHeadTail == EEPROM_BufferWrite(0, 4) \o EEPROM_BufferWrite(57, 4)

(* Platform_Init: EEPROM_Init, NIBP_Init, and EEPROM_ExamineAll, which     *)
(* puts missing tags back and looks at nothing else.                       *)
Boot ==
  LET known == Forget(saving)
      tagged == EEPROM_ExamineHeadTail(eeprom)
  IN  /\ ram' = Store(eeprom, Tags, Const)
      /\ todo' = IF tagged THEN <<>> ELSE EEPROM_RestoreHeadTail
      /\ saving' = IF tagged THEN {} ELSE Tags
      /\ promised' = IF tagged THEN known ELSE Store(known, Tags, Const)
      /\ verifyStauts' = FALSE

(* A new device, at its first start. *)
Init ==
  /\ eeprom = [b \in Bytes |-> Blank]
  /\ ram = Store(eeprom, Tags, Const)
  /\ todo = EEPROM_RestoreHeadTail
  /\ saving = Tags
  /\ promised = Store(eeprom, Tags, Const)
  /\ verifyStauts = FALSE
  /\ session = 1 /\ failures = 0

(* The supply fails and comes back. *)
PowerFailure ==
  /\ failures < MaxFailures
  /\ failures' = failures + 1
  /\ Boot
  /\ UNCHANGED <<eeprom, session>>

-----------------------------------------------------------------------------
(* The host calibrates.  Handlers run to their end: none starts while a    *)
(* save is running.                                                        *)

Command == todo = <<>>

(* NIBP_VerifyBySimulator: enter the calibration.  The host goes on with   *)
(* its last one or begins another.                                         *)
NIBP_VerifyEnter ==
  /\ Command
  /\ verifyStauts' = TRUE
  /\ \/ session' = session
     \/ session < MaxSessions /\ session' = session + 1
  /\ UNCHANGED <<eeprom, ram, todo, saving, promised, failures>>

(* ... and leave it: what was not saved is dropped, for the cuff pressure  *)
(* (EEPROM_RefreshNIBPVerify).                                             *)
NIBP_VerifyExit ==
  /\ Command
  /\ verifyStauts' = FALSE
  /\ ram' = [b \in Bytes |-> IF b \in NibpData THEN eeprom[b] ELSE ram[b]]
  /\ UNCHANGED <<eeprom, todo, saving, promised, session, failures>>

Point(i) == Verify_mmHg(i) \cup Verify_Val(i)

(* One of the six points. *)
NIBP_VerifyDebug(i) ==
  /\ Command /\ verifyStauts
  /\ ram' = Store(ram, Point(i), session)
  /\ UNCHANGED <<eeprom, todo, saving, promised, verifyStauts, session, failures>>

(* Fault: the length leaves nibp_IsVerify out. *)
NibpSaveShort == EEPROM_BufferWrite(8, 36)

(* From nibp_Verify_mmHg to the end of nibp_IsVerify. *)
NibpSave == EEPROM_BufferWrite(8, 40)

(* All six points as they are in the RAM. *)
NIBP_VerifySave2Eepom ==
  /\ Command
  /\ ram' = Store(ram, IsVerify, Const)
  /\ Saving(NibpData, NibpSave)
  /\ UNCHANGED <<eeprom, verifyStauts, session, failures>>

(* The fields that NIBP_VerifyAction saves one by one. *)
ActionBytes(i) == Point(i) \cup IF i = 5 THEN IsVerify ELSE {}

ActionPages(i) ==
  EEPROM_BufferWrite(8 + 2*i, 2) \o EEPROM_BufferWrite(20 + 4*i, 4)
    \o IF i = 5 THEN EEPROM_BufferWrite(44, 4) ELSE <<>>

(* The point of 50, 150 or 250 mmHg (2, 4 or 5), sampled and saved at      *)
(* once.  nibp_IsVerify is set with the first and the last of them, and    *)
(* saved with the last.                                                    *)
NIBP_VerifyAction(i) ==
  LET flagged == IF i \in {2, 5} THEN Store(ram, IsVerify, Const) ELSE ram
  IN  /\ Command /\ verifyStauts
      /\ ram' = Store(flagged, Point(i), session)
      /\ Saving(ActionBytes(i), ActionPages(i))
      /\ UNCHANGED <<eeprom, verifyStauts, session, failures>>

(* Outside the calibration NIBP_ADC_Average waits for ever, without        *)
(* feeding the external watchdog, which resets the DSP.                    *)
NIBP_VerifyActionHangs ==
  /\ Command /\ ~ verifyStauts
  /\ Boot
  /\ UNCHANGED <<eeprom, session, failures>>

ProtectPoint(i) == protect_mmHg(i) \cup protect_adc(i)

(* NIBP_STM32VerifyAction, a point of the protection. *)
EEPROM_saveRAMSTM32NIBPVerify(i) ==
  /\ Command
  /\ ram' = Store(ram, ProtectPoint(i), session)
  /\ UNCHANGED <<eeprom, todo, saving, promised, verifyStauts, session, failures>>

(* NIBP_STM32VerifyAction, 0xFF. *)
EEPROM_saveSTM32NIBPVerify ==
  /\ Command
  /\ ram' = Store(ram, {ProtectFlag}, Const)
  /\ Saving(ProtectData, EEPROM_BufferWrite(48, 9))
  /\ UNCHANGED <<eeprom, verifyStauts, session, failures>>

Next == \/ EEPROM_PageWrite \/ PowerFailure
        \/ NIBP_VerifyEnter \/ NIBP_VerifyExit \/ NIBP_VerifySave2Eepom
        \/ \E i \in HostPoints : NIBP_VerifyDebug(i)
        \/ \E i \in HostPoints \cap {2, 4, 5} : NIBP_VerifyAction(i)
        \/ NIBP_VerifyActionHangs
        \/ \E i \in HostProtect : EEPROM_saveRAMSTM32NIBPVerify(i)
        \/ EEPROM_saveSTM32NIBPVerify

Spec == Init /\ [][Next]_vars

-----------------------------------------------------------------------------
(* Types. *)
TypeOK ==
  /\ eeprom \in [Bytes -> Stamp] /\ ram \in [Bytes -> Stamp]
  /\ todo \in Seq([addr : Bytes, len : 1 .. PAGE_WRITE_LENGHT])
  /\ saving \subseteq Bytes /\ promised \in [Bytes -> Stamp \cup {Unknown}]
  /\ verifyStauts \in BOOLEAN
  /\ session \in 1 .. MaxSessions /\ failures \in 0 .. MaxFailures

Constants == {HeadOfEeprom, TailOfEeprom, IsVerify, {ProtectFlag}}
Values == {Verify_mmHg(i) : i \in Points} \cup {Verify_Val(i) : i \in Points}
            \cup {protect_mmHg(i) : i \in {0, 1}} \cup {protect_adc(i) : i \in {0, 1}}

(* Every field of the EEPROM holds one value, whole, and of its own kind:  *)
(* wherever a save is cut and interrupted, a page write never runs over    *)
(* the end of its page into other fields.                                  *)
FieldsWhole ==
  \A f \in Constants \cup Values : \E s \in Stamp :
    /\ Filled(eeprom, f, s)
    /\ s # Blank => (s = Const <=> f \in Constants)

(* What the host was told is saved is in the EEPROM until it is saved      *)
(* again: no save, and no save that the supply or the I2C bus cuts short,  *)
(* touches a byte that it is not of, and one that runs to its end without  *)
(* a loss has written each of its bytes.                                   *)
SavedSurvives ==
  \A b \in Bytes \ saving : promised[b] \in {eeprom[b], Unknown}

(* A flag comes to the EEPROM after the points it stands for: a first save *)
(* that the supply cuts short leaves the device uncalibrated at the next   *)
(* start, never calibrated with points that are not there.  (Unless a page *)
(* write of this save was lost.)                                           *)
FlagComesLast ==
  [][ \A flag \in {44, ProtectFlag} :
        eeprom[flag] = Blank /\ eeprom'[flag] # Blank =>
          \A b \in saving : promised[b] \in {eeprom'[b], Unknown} ]_vars
=============================================================================
