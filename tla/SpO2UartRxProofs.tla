-------------------------- MODULE SpO2UartRxProofs --------------------------
(***************************************************************************)
(* Proofs about the SpO2 receive ring, for every ring size from three on   *)
(* and any number of bytes: although the interrupt moves the reader's own  *)
(* index when the ring overflows, SpO2_UART_GetByte delivers in order,     *)
(* skips a byte only when the ring is full, and finds it empty only when   *)
(* everything was delivered.  One byte at most arrives during one GetByte  *)
(* (a few instructions against 87 us a byte): Burst <= 1 is a hypothesis   *)
(* of the theorems.                                                        *)
(*                                                                         *)
(* What the reader must know is how old the byte in a slot is.  Age counts *)
(* the arrivals from it on: the newest byte has age 1, and the slot that   *)
(* will be written next has the oldest one, of age RxBUFSIZE.  The four    *)
(* parts of the invariant say what the slots hold, where the reader's      *)
(* index is between two reads, what its two registers may have missed, and *)
(* where the index is while a byte was read and not yet counted.           *)
(***************************************************************************)
EXTENDS SpO2UartRx, TLAPS

(* The bytes from slot i up to the writer. *)
Behind(i) == IF i <= u32SpO2RxPushIndex THEN u32SpO2RxPushIndex - i
             ELSE u32SpO2RxPushIndex + RxBUFSIZE - i

Age(i) == IF i = u32SpO2RxPushIndex THEN RxBUFSIZE ELSE Behind(i)

(* Every slot that was ever written holds the byte of its age. *)
Held == \A i \in Slot : Age(i) <= received => chSpO2RxBuf[i] = received - Age(i) + 1

(* Outside ReadByte .. StorePop: all that is delivered is behind the       *)
(* reader, an empty ring has nothing left, and what was passed over was    *)
(* lost to an overflow, after which the ring is still all but full.        *)
Waiting ==
  pc # "store" =>
    /\ delivered + Behind(u32SpO2RxPopIndex) <= received
    /\ Behind(u32SpO2RxPopIndex) = 0 => delivered = received
    /\ delivered + Behind(u32SpO2RxPopIndex) < received =>
         Behind(u32SpO2RxPopIndex) >= RxBUFSIZE - 2

(* The interrupt has given up the byte at "pop" since it was loaded: its   *)
(* slot is the next one to be written, but still holds the byte.           *)
Overrun ==
  /\ arrivals = 1
  /\ pop = u32SpO2RxPushIndex
  /\ u32SpO2RxPopIndex = Inc(pop)

(* What the registers may have missed. *)
Registers ==
  /\ pc = "idle" => arrivals = 0
  /\ pc # "store" /\ arrivals = 1 => u32SpO2RxPopIndex # u32SpO2RxPushIndex
  /\ pc \in {"loadPop", "test"} =>
       \/ push = u32SpO2RxPushIndex
       \/ arrivals = 1 /\ Inc(push) = u32SpO2RxPushIndex
  /\ pc \in {"loadPush", "test"} =>
       \/ pop = u32SpO2RxPopIndex
       \/ Overrun /\ delivered + RxBUFSIZE <= received

(* The byte at "pop" is delivered, and the index not yet moved. *)
Storing ==
  pc = "store" =>
    /\ delivered + Age(pop) = received + 1
    /\ \/ pop = u32SpO2RxPopIndex /\ pop # u32SpO2RxPushIndex
       \/ Overrun

IInv == TypeOK /\ Held /\ Waiting /\ Registers /\ Storing

-----------------------------------------------------------------------------
(* The remainder in Inc is a wrap to zero. *)
LEMMA IncWraps ==
  ASSUME NEW i \in Slot
  PROVE  /\ Inc(i) = IF i = RxBUFSIZE - 1 THEN 0 ELSE i + 1
         /\ Inc(i) \in Slot
<1>1. RxBUFSIZE \in Nat /\ RxBUFSIZE > 1 /\ i \in Nat /\ i < RxBUFSIZE
  BY RxAssumption DEF Slot
<1>2. CASE i = RxBUFSIZE - 1
  <2>1. RxBUFSIZE % RxBUFSIZE = 0
    BY <1>1
  <2> QED
    BY <1>1, <1>2, <2>1 DEF Inc, Slot
<1>3. CASE i # RxBUFSIZE - 1
  <2>1. (i + 1) % RxBUFSIZE = i + 1
    BY <1>1, <1>3
  <2> QED
    BY <1>1, <1>3, <2>1 DEF Inc, Slot
<1> QED
  BY <1>2, <1>3

(* The numbers that a step works with. *)
LEMMA Numbers ==
  ASSUME TypeOK
  PROVE  /\ RxBUFSIZE \in Nat /\ RxBUFSIZE > 1
         /\ received \in Nat /\ delivered \in Nat /\ arrivals \in Nat
         /\ u32SpO2RxPopIndex \in Slot /\ u32SpO2RxPushIndex \in Slot
         /\ push \in Slot /\ pop \in Slot
         /\ Slot \subseteq Nat
         /\ \A i \in Slot : Behind(i) \in 0 .. RxBUFSIZE - 1 /\ Age(i) \in 1 .. RxBUFSIZE
  BY RxAssumption DEF TypeOK, Slot, Behind, Age

(* Moving the reader on by one slot brings it one nearer to the writer. *)
LEMMA BehindInc ==
  ASSUME TypeOK, NEW i \in Slot
  PROVE  /\ i # u32SpO2RxPushIndex => Behind(Inc(i)) = Behind(i) - 1
         /\ i = u32SpO2RxPushIndex => Behind(Inc(i)) = RxBUFSIZE - 1
         /\ Behind(i) = 0 <=> i = u32SpO2RxPushIndex
         /\ i # u32SpO2RxPushIndex => Age(i) = Behind(i)
  BY Numbers, IncWraps DEF Slot, Behind, Age

(* An arrival makes every slot one older, except the one just written and  *)
(* the one that will be written next.                                      *)
LEMMA BehindRx ==
  ASSUME TypeOK, NEW i \in Slot, u32SpO2RxPushIndex' = Inc(u32SpO2RxPushIndex)
  PROVE  /\ i # u32SpO2RxPushIndex' => Behind(i)' = Behind(i) + 1
         /\ i = u32SpO2RxPushIndex' => Behind(i) = RxBUFSIZE - 1 /\ Behind(i)' = 0
         /\ i # u32SpO2RxPushIndex => Age(i)' = Age(i) + 1
         /\ i = u32SpO2RxPushIndex => Age(i)' = 1
<1>1. /\ RxBUFSIZE \in Nat /\ RxBUFSIZE > 1
      /\ u32SpO2RxPushIndex \in 0 .. RxBUFSIZE - 1 /\ i \in 0 .. RxBUFSIZE - 1
  BY Numbers DEF Slot
<1>2. u32SpO2RxPushIndex' =
        IF u32SpO2RxPushIndex = RxBUFSIZE - 1 THEN 0 ELSE u32SpO2RxPushIndex + 1
  BY Numbers, IncWraps
<1> QED
  BY <1>1, <1>2 DEF Behind, Age

-----------------------------------------------------------------------------
(* TypeOK is inductive by itself, whatever arrives; here at the start. *)
LEMMA InitTypes == Init => TypeOK
  BY RxAssumption DEF Init, TypeOK, Slot

(* Every step keeps the types. *)
LEMMA NextTypes == TypeOK /\ [Next]_vars => TypeOK'
<1> SUFFICES ASSUME TypeOK, [Next]_vars PROVE TypeOK'
  OBVIOUS
<1> USE DEF TypeOK
<1>1. CASE RxIsr
  <2>1. /\ Inc(u32SpO2RxPushIndex) \in Slot
        /\ PopAfterRx(Inc(u32SpO2RxPushIndex)) \in Slot
    BY IncWraps DEF PopAfterRx
  <2>2. received + 1 \in 0 .. MaxBytes /\ arrivals' \in 0 .. Burst
    BY <1>1, RxAssumption DEF RxIsr
  <2> QED
    BY <1>1, <2>1, <2>2 DEF RxIsr, getByte
<1>2. CASE LoadPushFirst \/ LoadPopFirst \/ LoadPopSecond \/ LoadPushSecond
  BY <1>2 DEF LoadPushFirst, LoadPopFirst, LoadPopSecond, LoadPushSecond, ring
<1>3. CASE NoData
  BY <1>3, RxAssumption DEF NoData, ring
<1>4. CASE ReadByte
  BY <1>4 DEF ReadByte, ring
<1>5. CASE StorePop
  BY <1>5, IncWraps, RxAssumption DEF StorePop, PopAfterRead
<1>6. CASE UNCHANGED vars
  BY <1>6 DEF vars, ring, getByte
<1> QED
  BY <1>1, <1>2, <1>3, <1>4, <1>5, <1>6 DEF Next, SpO2_UART_GetByte

-----------------------------------------------------------------------------
(* SpO2_Module_Init leaves an empty ring. *)
LEMMA InitIInv == Init => IInv
<1> SUFFICES ASSUME Init PROVE IInv
  OBVIOUS
<1>1. TypeOK
  BY InitTypes
<1>2. Behind(0) = 0
  BY DEF Init, Behind
<1> QED
  BY <1>1, <1>2, Numbers DEF IInv, Init, Held, Waiting, Registers, Storing

(* The interrupt: what it gives up is the oldest byte of a full ring, and  *)
(* its slot is not the one being written.                                  *)
LEMMA RxIsrIInv ==
  ASSUME Burst <= 1, RxBUFSIZE > 2, IInv, RxIsr
  PROVE  IInv'
<1> USE DEF IInv
<1>1. TypeOK'
  BY NextTypes DEF Next
<1>2. /\ received' = received + 1
      /\ chSpO2RxBuf' = [chSpO2RxBuf EXCEPT ![u32SpO2RxPushIndex] = received + 1]
      /\ u32SpO2RxPushIndex' = Inc(u32SpO2RxPushIndex)
      /\ u32SpO2RxPopIndex' = IF u32SpO2RxPopIndex = Inc(u32SpO2RxPushIndex)
                              THEN Inc(u32SpO2RxPopIndex) ELSE u32SpO2RxPopIndex
      /\ UNCHANGED <<delivered, pc, push, pop>>
  BY DEF RxIsr, getByte, PopAfterRx
<1>3. /\ pc = "idle" => arrivals' = 0
      /\ pc # "idle" => arrivals = 0 /\ arrivals' = 1
  BY Numbers, RxAssumption DEF RxIsr
<1>4. Held'
  <2> SUFFICES ASSUME NEW i \in Slot, Age(i)' <= received'
               PROVE  chSpO2RxBuf'[i] = received' - Age(i)' + 1
    BY DEF Held
  <2>1. chSpO2RxBuf'[i] = IF i = u32SpO2RxPushIndex THEN received + 1 ELSE chSpO2RxBuf[i]
    BY <1>2 DEF TypeOK
  <2> QED
    BY <1>2, <2>1, BehindRx, Numbers DEF Held
<1>5. CASE u32SpO2RxPopIndex = Inc(u32SpO2RxPushIndex)
  <2>1. /\ u32SpO2RxPopIndex = u32SpO2RxPushIndex'
        /\ u32SpO2RxPopIndex' = Inc(u32SpO2RxPopIndex)
        /\ Behind(u32SpO2RxPopIndex) = RxBUFSIZE - 1
    BY <1>2, <1>5, BehindRx, Numbers
  <2>2. /\ Behind(u32SpO2RxPopIndex)' = RxBUFSIZE - 1
        /\ u32SpO2RxPopIndex' # u32SpO2RxPushIndex'
    BY <1>2, <2>1, IncWraps, Numbers DEF Behind, Slot
  <2> QED
    <3>1. Waiting'
      BY <1>1, <1>2, <2>1, <2>2, Numbers DEF Waiting
    <3>2. pc # "idle" /\ pop = u32SpO2RxPopIndex => Overrun'
      BY <1>2, <1>3, <2>1, <2>2 DEF Overrun
    <3>3. Registers'
      BY <1>2, <1>3, <2>1, <2>2, <3>2, Numbers DEF Registers, Waiting, Overrun
    <3>4. Storing'
      BY <1>2, <1>3, <2>1, <2>2, <3>2, Numbers, BehindRx, BehindInc DEF Storing, Overrun
    <3> QED
      BY <1>1, <1>4, <3>1, <3>3, <3>4
<1>6. CASE u32SpO2RxPopIndex # Inc(u32SpO2RxPushIndex)
  <2>1. /\ u32SpO2RxPopIndex' = u32SpO2RxPopIndex
        /\ u32SpO2RxPopIndex' # u32SpO2RxPushIndex'
        /\ Behind(u32SpO2RxPopIndex)' = Behind(u32SpO2RxPopIndex) + 1
    BY <1>2, <1>6, BehindRx, Numbers
  <2> QED
    BY <1>1, <1>2, <1>3, <1>4, <2>1, Numbers, BehindRx
       DEF Waiting, Registers, Storing, Overrun
<1> QED
  BY <1>5, <1>6

(* Loading an index: later arrivals are all it can miss. *)
LEMMA LoadIInv ==
  ASSUME IInv, LoadPushFirst \/ LoadPopFirst \/ LoadPopSecond \/ LoadPushSecond
  PROVE  IInv'
<1> USE DEF IInv
<1>1. TypeOK'
  BY NextTypes DEF Next, SpO2_UART_GetByte
<1>2. Held'
  BY DEF Held, Age, Behind, LoadPushFirst, LoadPopFirst, LoadPopSecond, LoadPushSecond, ring
<1>3. Waiting'
  BY DEF Waiting, Behind, LoadPushFirst, LoadPopFirst, LoadPopSecond, LoadPushSecond, ring
<1>4. Registers'
  BY DEF Registers, Overrun, LoadPushFirst, LoadPopFirst, LoadPopSecond, LoadPushSecond, ring
<1>5. Storing'
  BY DEF Storing, LoadPushFirst, LoadPopFirst, LoadPopSecond, LoadPushSecond
<1> QED
  BY <1>1, <1>2, <1>3, <1>4, <1>5

(* Nothing to read. *)
LEMMA NoDataIInv ==
  ASSUME IInv, NoData
  PROVE  IInv'
<1> USE DEF IInv
<1>1. TypeOK'
  BY NextTypes DEF Next, SpO2_UART_GetByte
<1>2. Held' /\ Waiting' /\ Registers' /\ Storing'
  BY DEF NoData, ring, Held, Waiting, Registers, Storing, Age, Behind
<1> QED
  BY <1>1, <1>2

(* What ReadByte returns: the byte at the register or at the index, which  *)
(* are both still in the ring, and are newer than the last one.  When one  *)
(* is passed over, the ring is full or was before the last GetByte.        *)
LEMMA ReadByteValue ==
  ASSUME RxBUFSIZE > 2, IInv, ReadByte
  PROVE  /\ delivered' = received - Age(pop') + 1
         /\ delivered' > delivered
         /\ delivered' > delivered + 1 => received - delivered' >= RxBUFSIZE - 3
         /\ \/ pop' = u32SpO2RxPopIndex /\ pop' # u32SpO2RxPushIndex
            \/ pop' = pop /\ Overrun
<1> USE DEF IInv
<1>1. /\ pc = "test" /\ push # pop
      /\ pop' \in {pop, u32SpO2RxPopIndex}
      /\ delivered' = chSpO2RxBuf[pop']
      /\ pop' \in Slot
  BY Numbers DEF ReadByte
<1>2. /\ delivered + Behind(u32SpO2RxPopIndex) <= received
      /\ delivered + Behind(u32SpO2RxPopIndex) < received =>
           Behind(u32SpO2RxPopIndex) >= RxBUFSIZE - 2
  BY <1>1 DEF Waiting
<1>3. CASE pop' = u32SpO2RxPopIndex
  <2>1. u32SpO2RxPopIndex # u32SpO2RxPushIndex
    BY <1>1, Numbers, IncWraps DEF Registers, Overrun, Slot
  <2>2. Age(pop') = Behind(u32SpO2RxPopIndex) /\ Behind(u32SpO2RxPopIndex) > 0
    BY <1>3, <2>1, Numbers, BehindInc
  <2>3. delivered' = received - Age(pop') + 1
    BY <1>1, <1>2, <2>2, Numbers DEF Held
  <2> QED
    BY <1>2, <1>3, <2>1, <2>2, <2>3, Numbers
<1>4. CASE pop' # u32SpO2RxPopIndex
  <2>1. pop' = pop /\ Overrun /\ delivered + RxBUFSIZE <= received
    BY <1>1, <1>4 DEF Registers
  <2>2. Age(pop') = RxBUFSIZE
    BY <2>1 DEF Age, Overrun
  <2>3. delivered' = received - Age(pop') + 1
    BY <1>1, <2>1, <2>2, Numbers DEF Held
  <2> QED
    BY <2>1, <2>2, <2>3, Numbers
<1> QED
  BY <1>3, <1>4

(* The byte that was read is now the last one delivered. *)
LEMMA ReadByteIInv ==
  ASSUME RxBUFSIZE > 2, IInv, ReadByte
  PROVE  IInv'
<1> USE DEF IInv
<1>1. TypeOK'
  BY NextTypes DEF Next, SpO2_UART_GetByte
<1>2. Held' /\ Waiting' /\ Registers'
  BY DEF ReadByte, ring, Held, Waiting, Registers, Age, Behind
<1>3. pop' \in Slot /\ UNCHANGED <<u32SpO2RxPushIndex, u32SpO2RxPopIndex, received, arrivals>>
  BY Numbers DEF ReadByte, ring
<1>4. Age(pop)' = Age(pop')
  BY <1>3 DEF Age, Behind
<1>5. Storing'
  BY <1>3, <1>4, ReadByteValue, Numbers DEF Storing, Overrun
<1> QED
  BY <1>1, <1>2, <1>5

(* The index moves past the delivered byte, and past one more when the     *)
(* interrupt has moved it already: in a ring of three slots or more that   *)
(* one is not the last.                                                    *)
LEMMA StorePopIInv ==
  ASSUME RxBUFSIZE > 2, IInv, StorePop
  PROVE  IInv'
<1> USE DEF IInv
<1>1. TypeOK'
  BY NextTypes DEF Next, SpO2_UART_GetByte
<1>2. /\ pc = "store" /\ pc' = "idle" /\ arrivals' = 0
      /\ UNCHANGED <<chSpO2RxBuf, u32SpO2RxPushIndex, received, delivered, push, pop>>
      /\ u32SpO2RxPopIndex' \in {Inc(pop), Inc(u32SpO2RxPopIndex)}
  BY DEF StorePop, PopAfterRead
<1>3. Held' /\ Registers' /\ Storing'
  BY <1>2 DEF Held, Age, Behind, Registers, Storing
<1>4. Behind(u32SpO2RxPopIndex)' = Behind(u32SpO2RxPopIndex')
  BY <1>2 DEF Behind
<1>5. CASE pop = u32SpO2RxPopIndex /\ pop # u32SpO2RxPushIndex
  <2>1. delivered + Behind(u32SpO2RxPopIndex') = received
    BY <1>2, <1>5, BehindInc, Numbers DEF Storing
  <2> QED
    BY <1>1, <1>2, <1>3, <1>4, <2>1, Numbers DEF Waiting
<1>6. CASE Overrun
  <2>1. delivered = received + 1 - RxBUFSIZE
    BY <1>2, <1>6, Numbers DEF Storing, Overrun, Age
  <2>2. Behind(u32SpO2RxPopIndex') \in {RxBUFSIZE - 1, RxBUFSIZE - 2}
    <3>1. Behind(Inc(pop)) = RxBUFSIZE - 1
      BY <1>6, BehindInc, Numbers DEF Overrun
    <3>2. u32SpO2RxPopIndex # u32SpO2RxPushIndex
      BY <1>6, <3>1, BehindInc, Numbers DEF Overrun
    <3>3. Behind(Inc(u32SpO2RxPopIndex)) = RxBUFSIZE - 2
      BY <1>6, <3>1, <3>2, BehindInc, Numbers DEF Overrun
    <3> QED
      BY <1>2, <3>1, <3>3
  <2> QED
    BY <1>1, <1>2, <1>3, <1>4, <2>1, <2>2, Numbers DEF Waiting
<1> QED
  BY <1>2, <1>5, <1>6 DEF Storing

-----------------------------------------------------------------------------
(* Every step preserves the invariant. *)
LEMMA NextIInv ==
  ASSUME Burst <= 1, RxBUFSIZE > 2, IInv, [Next]_vars
  PROVE  IInv'
<1>1. CASE UNCHANGED vars
  BY <1>1 DEF IInv, TypeOK, Held, Waiting, Registers, Storing, Overrun, Age, Behind,
              vars, ring, getByte
<1> QED
  BY <1>1, RxIsrIInv, LoadIInv, NoDataIInv, ReadByteIInv, StorePopIInv
     DEF Next, SpO2_UART_GetByte

(* TypeOK, however many bytes arrive during a GetByte: both indices stay   *)
(* inside the ring.                                                        *)
THEOREM RxTypes == Spec => []TypeOK
BY InitTypes, NextTypes, PTL DEF Spec

(* IInv is an invariant when at most one byte arrives during a GetByte. *)
THEOREM RxInvariant == ASSUME Burst <= 1, RxBUFSIZE > 2 PROVE Spec => []IInv
BY InitIInv, NextIInv, PTL DEF Spec

(* EmptyMeansDelivered: between two calls of SpO2_UART_GetByte an empty    *)
(* ring means that the newest byte was delivered.                          *)
THEOREM EmptyRingDelivered ==
  ASSUME Burst <= 1, RxBUFSIZE > 2 PROVE Spec => []EmptyMeansDelivered
<1>1. IInv => EmptyMeansDelivered
  BY BehindInc, Numbers DEF IInv, Waiting, EmptyMeansDelivered
<1> QED
  BY <1>1, RxInvariant, PTL

(* InOrder: SpO2_UART_GetByte never returns a byte twice nor an older one. *)
THEOREM DeliveredInOrder ==
  ASSUME Burst <= 1, RxBUFSIZE > 2 PROVE Spec => InOrder
<1>1. IInv /\ [Next]_vars => [pc = "test" /\ pc' = "store" => delivered' > delivered]_vars
  <2> SUFFICES ASSUME IInv, Next, pc = "test", pc' = "store"
               PROVE  delivered' > delivered
    OBVIOUS
  <2>1. ReadByte
    BY DEF Next, SpO2_UART_GetByte, RxIsr, getByte, LoadPushFirst, LoadPopFirst,
           LoadPopSecond, LoadPushSecond, NoData, StorePop
  <2> QED
    BY <2>1, ReadByteValue
<1> QED
  BY <1>1, RxInvariant, PTL DEF Spec, InOrder

(* LossOnlyWhenFull: a byte is passed over only in a full ring, or in one  *)
(* that was full when the interrupt and GetByte both moved the index.      *)
THEOREM LostOnlyWhenFull ==
  ASSUME Burst <= 1, RxBUFSIZE > 2 PROVE Spec => LossOnlyWhenFull
<1>1. IInv /\ [Next]_vars =>
        [delivered' > delivered + 1 => received - delivered' >= RxBUFSIZE - 3]_vars
  <2> SUFFICES ASSUME IInv, Next, delivered' > delivered + 1
               PROVE  received - delivered' >= RxBUFSIZE - 3
    OBVIOUS
  <2>1. CASE ReadByte
    BY <2>1, ReadByteValue
  <2>2. CASE ~ ReadByte
    <3>1. delivered' = delivered
      BY <2>2 DEF Next, SpO2_UART_GetByte, RxIsr, getByte, LoadPushFirst, LoadPopFirst,
                  LoadPopSecond, LoadPushSecond, NoData, StorePop
    <3> QED
      BY <3>1, Numbers DEF IInv
  <2> QED
    BY <2>1, <2>2
<1> QED
  BY <1>1, RxInvariant, PTL DEF Spec, LossOnlyWhenFull
=============================================================================
