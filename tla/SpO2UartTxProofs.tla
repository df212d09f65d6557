-------------------------- MODULE SpO2UartTxProofs --------------------------
(***************************************************************************)
(* Proofs about the SpO2 transmit ring, for every ring size, every set of  *)
(* packets that fit and every interleaving of SendBuf with the interrupt.  *)
(*                                                                         *)
(* Neither the absence of a lost wake-up nor the queue behaviour of the    *)
(* ring is inductive without knowing what SendBuf has stored so far:       *)
(* Filling says that its private index is exactly uiLen slots ahead of the *)
(* published end, that those slots hold the first uiLen bytes of the       *)
(* packet, and that they do not reach around to the reader.                *)
(***************************************************************************)
EXTENDS SpO2UartTx, SequenceTheorems, TLAPS

(* What SendBuf has stored and not yet published. *)
Filling ==
  pc = "fill" =>
    /\ uiIdxTemp = At(uiSpO2TxIdxEnd, uiLen)
    /\ Dist(uiSpO2TxIdxStart, uiSpO2TxIdxEnd) + uiLen <= TxBUFSIZE - 1
    /\ \A k \in 1 .. uiLen : chSpO2TxBuf[At(uiSpO2TxIdxEnd, k - 1)] = p_chBuf[k]

IInv == TypeOK /\ NoLostWakeup /\ Filling

-----------------------------------------------------------------------------
(* Arithmetic of the ring: Inc, Dist and At stay inside it. *)
LEMMA RingTypes ==
  ASSUME NEW i \in Slot, NEW j \in Slot, NEW k \in 0 .. TxBUFSIZE
  PROVE  /\ Inc(i) \in Slot
         /\ Dist(i, j) \in 0 .. (TxBUFSIZE - 1)
         /\ Dist(i, j) = 0 <=> i = j
         /\ At(i, k) \in Slot
         /\ At(i, 0) = i
  BY TxAssumption DEF Slot, Inc, Dist, At

(* Taking one byte: the distance to the writer shrinks by one and the      *)
(* offsets shift by one.                                                   *)
LEMMA RingTake ==
  ASSUME NEW i \in Slot, NEW j \in Slot, i # j,
         NEW k \in 0 .. (TxBUFSIZE - 1)
  PROVE  /\ Dist(Inc(i), j) = Dist(i, j) - 1
         /\ At(Inc(i), k) = At(i, k + 1)
  BY TxAssumption DEF Slot, Inc, Dist, At

(* Moving the writer on by n free slots. *)
LEMMA RingPut ==
  ASSUME NEW i \in Slot, NEW j \in Slot, NEW n \in Nat,
         Dist(i, j) + n <= TxBUFSIZE - 1
  PROVE  /\ Dist(i, At(j, n)) = Dist(i, j) + n
         /\ \A k \in 1 .. n : At(i, Dist(i, j) + k - 1) = At(j, k - 1)
         /\ At(i, Dist(i, j)) = j
  BY TxAssumption DEF Slot, Dist, At

(* IsSpO2TxBufFull leaves exactly one slot free: it is false iff one more  *)
(* byte fits and the ring still does not look empty.                       *)
LEMMA FullIsFull ==
  ASSUME TypeOK, NEW e \in Slot
  PROVE  ~ IsSpO2TxBufFull(e) <=> Dist(uiSpO2TxIdxStart, e) < TxBUFSIZE - 1
  BY TxAssumption DEF TypeOK, IsSpO2TxBufFull, Slot, Dist

(* Two offsets less than a lap apart are different slots. *)
LEMMA RingDistinct ==
  ASSUME NEW i \in Slot, NEW m \in 0 .. (TxBUFSIZE - 1),
         NEW n \in 0 .. (TxBUFSIZE - 1), m # n
  PROVE  At(i, m) # At(i, n)
  BY TxAssumption DEF Slot, At

(* One more step of the private index. *)
LEMMA RingNext ==
  ASSUME NEW i \in Slot, NEW n \in 0 .. (TxBUFSIZE - 1)
  PROVE  Inc(At(i, n)) = At(i, n + 1)
  BY TxAssumption DEF Slot, At, Inc

-----------------------------------------------------------------------------
(* SpO2_Module_Init leaves an empty ring and the interrupt off. *)
LEMMA InitIInv == Init => IInv
  BY TxAssumption DEF Init, IInv, TypeOK, NoLostWakeup, Filling, Slot

(* Entering SendBuf with a packet that fits. *)
LEMMA EnterIInv ==
  ASSUME IInv, NEW p \in Packets, SendBufEnter(p)
  PROVE  IInv'
<1>1. /\ Len(p) \in Nat /\ uiLen' = 0 /\ pc' = "fill" /\ p_chBuf' = p
      /\ uiIdxTemp' = uiSpO2TxIdxEnd
      /\ UNCHANGED <<ring, ETBEI, THR>>
  BY TxAssumption DEF SendBufEnter
<1>2. TypeOK'
  BY <1>1 DEF IInv, TypeOK, ring
<1>3. NoLostWakeup'
  BY SendBufEnter(p) DEF IInv, NoLostWakeup, SendBufEnter, ring
<1>4. Filling'
  <2>1. At(uiSpO2TxIdxEnd, 0) = uiSpO2TxIdxEnd
    BY RingTypes, TxAssumption DEF IInv, TypeOK, Slot, At
  <2>2. Dist(uiSpO2TxIdxStart, uiSpO2TxIdxEnd) <= TxBUFSIZE - 1
    BY TxAssumption DEF IInv, TypeOK, Slot, Dist
  <2> QED BY <1>1, <2>1, <2>2, TxAssumption
          DEF IInv, TypeOK, Filling, ring, Slot, Dist, At
<1> QED BY <1>2, <1>3, <1>4 DEF IInv

(* Storing one byte: the private index moves, nothing is published. *)
LEMMA StoreIInv ==
  ASSUME IInv, SendBufStore
  PROVE  IInv'
<1>a. /\ TypeOK /\ NoLostWakeup
      /\ pc = "fill"
      /\ uiIdxTemp = At(uiSpO2TxIdxEnd, uiLen)
      /\ Dist(uiSpO2TxIdxStart, uiSpO2TxIdxEnd) + uiLen <= TxBUFSIZE - 1
      /\ \A k \in 1 .. uiLen : chSpO2TxBuf[At(uiSpO2TxIdxEnd, k - 1)] = p_chBuf[k]
      /\ p_chBuf \in Packets /\ uiLen \in Nat /\ Len(p_chBuf) \in 1 .. (TxBUFSIZE - 1)
      /\ uiLen < Len(p_chBuf)
      /\ chSpO2TxBuf \in [Slot -> Byte]
      /\ uiSpO2TxIdxStart \in Slot /\ uiSpO2TxIdxEnd \in Slot /\ uiIdxTemp \in Slot
  BY TxAssumption DEF IInv, TypeOK, Filling, SendBufStore
<1>b. /\ chSpO2TxBuf' = [chSpO2TxBuf EXCEPT ![uiIdxTemp] = p_chBuf[uiLen + 1]]
      /\ uiLen' = uiLen + 1
      /\ uiIdxTemp' = Inc(uiIdxTemp)
      /\ UNCHANGED <<uiSpO2TxIdxStart, uiSpO2TxIdxEnd, ETBEI, THR, pc, p_chBuf>>
  BY DEF SendBufStore
<1>1. p_chBuf[uiLen + 1] \in Byte
  BY <1>a, TxAssumption, ElementOfSeq
<1>2. Inc(uiIdxTemp) \in Slot
  BY TxAssumption DEF IInv, TypeOK, Inc, Slot
<1>3. TypeOK'
  BY <1>a, <1>b, <1>1, <1>2 DEF TypeOK
<1>4. NoLostWakeup'
  BY <1>a, <1>b DEF NoLostWakeup
<1>5. Dist(uiSpO2TxIdxStart, uiIdxTemp) < TxBUFSIZE - 1
  BY <1>a, FullIsFull DEF SendBufStore
<1>6. Dist(uiSpO2TxIdxStart, uiIdxTemp) = Dist(uiSpO2TxIdxStart, uiSpO2TxIdxEnd) + uiLen
  BY <1>a, RingPut
<1>7. Dist(uiSpO2TxIdxStart, uiSpO2TxIdxEnd) \in Nat
  BY <1>a, TxAssumption DEF Slot, Dist
<1>8. Inc(uiIdxTemp) = At(uiSpO2TxIdxEnd, uiLen + 1)
  BY <1>a, <1>7, RingNext, TxAssumption
<1>9. ASSUME NEW k \in 1 .. (uiLen + 1)
      PROVE  chSpO2TxBuf'[At(uiSpO2TxIdxEnd, k - 1)] = p_chBuf[k]
  <2>1. At(uiSpO2TxIdxEnd, k - 1) \in Slot
    BY <1>a, TxAssumption DEF Slot, At
  <2>2. CASE k = uiLen + 1
    <3>1. k - 1 = uiLen
      BY <2>2, <1>a
    <3> QED BY <1>a, <1>b, <2>1, <2>2, <3>1
  <2>3. CASE k # uiLen + 1
    <3>1. k \in 1 .. uiLen /\ k - 1 \in 0 .. (TxBUFSIZE - 1)
          /\ uiLen \in 0 .. (TxBUFSIZE - 1) /\ k - 1 # uiLen
      BY <2>3, <1>a, TxAssumption
    <3>2. At(uiSpO2TxIdxEnd, k - 1) # uiIdxTemp
      BY <1>a, <3>1, RingDistinct
    <3> QED BY <1>a, <1>b, <2>1, <3>1, <3>2
  <2> QED BY <2>2, <2>3
<1>10. Filling'
  <2>1. Dist(uiSpO2TxIdxStart, uiSpO2TxIdxEnd) + (uiLen + 1) <= TxBUFSIZE - 1
    BY <1>5, <1>6, <1>7, <1>a, TxAssumption
  <2>2. Dist(uiSpO2TxIdxStart, uiSpO2TxIdxEnd)' = Dist(uiSpO2TxIdxStart, uiSpO2TxIdxEnd)
    BY <1>b DEF Dist
  <2>3. \A k : At(uiSpO2TxIdxEnd, k)' = At(uiSpO2TxIdxEnd, k)
    BY <1>b DEF At
  <2> QED BY <1>a, <1>b, <1>8, <1>9, <2>1, <2>2 DEF Filling, At
<1> QED BY <1>3, <1>4, <1>10 DEF IInv

(* The transmit interrupt takes the oldest published byte. *)
LEMMA SendIInv ==
  ASSUME IInv, TxIsrSend
  PROVE  IInv'
<1>1. /\ uiSpO2TxIdxStart \in Slot /\ uiSpO2TxIdxEnd \in Slot
      /\ uiSpO2TxIdxStart # uiSpO2TxIdxEnd
      /\ chSpO2TxBuf[uiSpO2TxIdxStart] \in Byte
  BY DEF IInv, TypeOK, TxIsrSend
<1>2. /\ Inc(uiSpO2TxIdxStart) \in Slot
      /\ Dist(Inc(uiSpO2TxIdxStart), uiSpO2TxIdxEnd)
           <= Dist(uiSpO2TxIdxStart, uiSpO2TxIdxEnd)
      /\ Dist(Inc(uiSpO2TxIdxStart), uiSpO2TxIdxEnd) \in Nat
      /\ Dist(uiSpO2TxIdxStart, uiSpO2TxIdxEnd) \in Nat
  BY <1>1, TxAssumption DEF Slot, Inc, Dist
<1>3. TypeOK'
  BY <1>1, <1>2 DEF IInv, TypeOK, TxIsrSend, sendBuf
<1>4. NoLostWakeup'
  BY DEF IInv, NoLostWakeup, TxIsrSend, sendBuf
<1>5. Filling'
  <2>1. CASE pc = "fill"
    <3>1. Dist(Inc(uiSpO2TxIdxStart), uiSpO2TxIdxEnd) + uiLen <= TxBUFSIZE - 1
      BY <1>2, <2>1, TxAssumption DEF IInv, Filling, TypeOK
    <3>2. Dist(uiSpO2TxIdxStart, uiSpO2TxIdxEnd)'
             = Dist(Inc(uiSpO2TxIdxStart), uiSpO2TxIdxEnd)
      BY DEF TxIsrSend, Dist
    <3> QED BY <2>1, <3>1, <3>2 DEF IInv, Filling, TxIsrSend, sendBuf, At
  <2>2. CASE pc # "fill"
    BY <2>2 DEF Filling, TxIsrSend, sendBuf
  <2> QED BY <2>1, <2>2
<1> QED BY <1>3, <1>4, <1>5 DEF IInv

(* Every step preserves the invariant. *)
LEMMA NextIInv == IInv /\ [Next]_vars => IInv'
<1> SUFFICES ASSUME IInv, [Next]_vars PROVE IInv'
  OBVIOUS
<1>1. CASE \E p \in Packets : SendBufEnter(p)
  BY <1>1, EnterIInv
<1>2. CASE SendBufWait
  BY <1>2 DEF IInv, TypeOK, NoLostWakeup, Filling, SendBufWait, ring, sendBuf, Dist, At
<1>3. CASE SendBufStore
  BY <1>3, StoreIInv
<1>4. CASE SendBufPublish
  BY <1>4 DEF IInv, TypeOK, NoLostWakeup, Filling, SendBufPublish
<1>5. CASE SendBufEnable
  BY <1>5 DEF IInv, TypeOK, NoLostWakeup, Filling, SendBufEnable, ring
<1>6. CASE TxIsrEmpty
  BY <1>6 DEF IInv, TypeOK, NoLostWakeup, Filling, TxIsrEmpty, ring, sendBuf, Dist, At
<1>7. CASE TxIsrSend
  BY <1>7, SendIInv
<1>8. CASE UNCHANGED vars
  BY <1>8 DEF IInv, TypeOK, NoLostWakeup, Filling, vars, ring, sendBuf, Dist, At
<1> QED BY <1>1, <1>2, <1>3, <1>4, <1>5, <1>6, <1>7, <1>8
        DEF Next, SendBufStep, TxIsr

(* IInv is an invariant of the ring: NoLostWakeup with what SendBuf has stored so far. *)
THEOREM SpecIInv == Spec => []IInv
  BY InitIInv, NextIInv, PTL DEF Spec

(* The indices of the ring and the locals of SendBuf keep their types, at  *)
(* every point where the interrupt may look at them.                       *)
THEOREM TypeCorrect == Spec => []TypeOK
<1>1. IInv => TypeOK  BY DEF IInv
<1> QED BY <1>1, SpecIInv, PTL

(* No published byte is left behind with the transmit interrupt off,       *)
(* except while SendBuf is about to switch it on.                          *)
THEOREM WakeupNeverLost == Spec => []NoLostWakeup
<1>1. IInv => NoLostWakeup  BY DEF IInv
<1> QED BY <1>1, SpecIInv, PTL

-----------------------------------------------------------------------------
(* The ring implements ByteFifo. *)

(* What the queue is made of. *)
LEMMA PendingIsSeq ==
  ASSUME TypeOK
  PROVE  /\ Pending \in Seq(Byte)
         /\ Len(Pending) = Dist(uiSpO2TxIdxStart, uiSpO2TxIdxEnd)
         /\ \A k \in 1 .. Len(Pending) :
              Pending[k] = chSpO2TxBuf[At(uiSpO2TxIdxStart, k - 1)]
<1> DEFINE D == Dist(uiSpO2TxIdxStart, uiSpO2TxIdxEnd)
<1>1. D \in Nat /\ D <= TxBUFSIZE - 1
  BY TxAssumption DEF TypeOK, Slot, Dist
<1>2. \A k \in 1 .. D : chSpO2TxBuf[At(uiSpO2TxIdxStart, k - 1)] \in Byte
  <2>1. \A k \in 1 .. D : At(uiSpO2TxIdxStart, k - 1) \in Slot
    BY <1>1, TxAssumption DEF TypeOK, Slot, At
  <2> QED BY <2>1 DEF TypeOK
<1> HIDE DEF D
<1>3. Pending = [k \in 1 .. D |-> chSpO2TxBuf[At(uiSpO2TxIdxStart, k - 1)]]
  BY DEF Pending, D
<1>4. Pending \in Seq(Byte) /\ Len(Pending) = D
  BY <1>1, <1>2, <1>3, IsASeq
<1> QED BY <1>1, <1>3, <1>4 DEF D

(* A step that leaves the ring alone leaves the queue alone. *)
LEMMA PendingStutter ==
  ASSUME UNCHANGED ring
  PROVE  Pending' = Pending
  BY DEF ring, Pending, Dist, At

(* Storing a byte ahead of the published end does not touch the queue. *)
LEMMA StorePending ==
  ASSUME IInv, SendBufStore
  PROVE  Pending' = Pending
<1>a. /\ TypeOK /\ pc = "fill" /\ uiLen \in Nat
      /\ uiIdxTemp = At(uiSpO2TxIdxEnd, uiLen)
      /\ Dist(uiSpO2TxIdxStart, uiSpO2TxIdxEnd) + uiLen <= TxBUFSIZE - 1
      /\ uiSpO2TxIdxStart \in Slot /\ uiSpO2TxIdxEnd \in Slot /\ uiIdxTemp \in Slot
      /\ chSpO2TxBuf \in [Slot -> Byte]
  BY DEF IInv, TypeOK, Filling, SendBufStore
<1>b. /\ chSpO2TxBuf' = [chSpO2TxBuf EXCEPT ![uiIdxTemp] = p_chBuf[uiLen + 1]]
      /\ UNCHANGED <<uiSpO2TxIdxStart, uiSpO2TxIdxEnd>>
  BY DEF SendBufStore
<1> DEFINE D == Dist(uiSpO2TxIdxStart, uiSpO2TxIdxEnd)
<1>1. D \in Nat /\ D <= TxBUFSIZE - 1
  BY <1>a, TxAssumption DEF Slot, Dist
<1>2. \A k \in 1 .. D : /\ At(uiSpO2TxIdxStart, k - 1) \in Slot
                        /\ At(uiSpO2TxIdxStart, k - 1) # uiIdxTemp
  BY <1>a, <1>1, TxAssumption DEF Slot, At, Dist
<1>3. \A k \in 1 .. D : chSpO2TxBuf'[At(uiSpO2TxIdxStart, k - 1)]
                          = chSpO2TxBuf[At(uiSpO2TxIdxStart, k - 1)]
  BY <1>a, <1>b, <1>2
<1>4. D' = D
  BY <1>b DEF Dist
<1>5. \A k : At(uiSpO2TxIdxStart, k)' = At(uiSpO2TxIdxStart, k)
  BY <1>b DEF At
<1>6. Pending' = [k \in 1 .. D' |-> chSpO2TxBuf'[At(uiSpO2TxIdxStart, k - 1)']]
  BY DEF Pending
<1> HIDE DEF D
<1>7. Pending = [k \in 1 .. D |-> chSpO2TxBuf[At(uiSpO2TxIdxStart, k - 1)]]
  BY DEF Pending, D
<1> QED BY <1>3, <1>4, <1>5, <1>6, <1>7

(* Publishing appends exactly the packet. *)
LEMMA PublishPending ==
  ASSUME IInv, IInv', SendBufPublish
  PROVE  Pending' = Pending \o p_chBuf
<1>a. /\ TypeOK /\ TypeOK' /\ pc = "fill" /\ uiLen = Len(p_chBuf) /\ uiLen \in Nat
      /\ p_chBuf \in Packets
      /\ uiIdxTemp = At(uiSpO2TxIdxEnd, uiLen)
      /\ Dist(uiSpO2TxIdxStart, uiSpO2TxIdxEnd) + uiLen <= TxBUFSIZE - 1
      /\ \A k \in 1 .. uiLen : chSpO2TxBuf[At(uiSpO2TxIdxEnd, k - 1)] = p_chBuf[k]
      /\ uiSpO2TxIdxStart \in Slot /\ uiSpO2TxIdxEnd \in Slot
  BY DEF IInv, TypeOK, Filling, SendBufPublish
<1>b. /\ uiSpO2TxIdxEnd' = uiIdxTemp
      /\ UNCHANGED <<chSpO2TxBuf, uiSpO2TxIdxStart>>
  BY DEF SendBufPublish
<1> DEFINE D == Dist(uiSpO2TxIdxStart, uiSpO2TxIdxEnd)
           Q == Pending \o p_chBuf
<1>1. D \in Nat
  BY <1>a, TxAssumption DEF Slot, Dist
<1>2. p_chBuf \in Seq(Byte)
  BY <1>a, TxAssumption
<1>3. /\ Pending \in Seq(Byte) /\ Len(Pending) = D
      /\ \A k \in 1 .. D : Pending[k] = chSpO2TxBuf[At(uiSpO2TxIdxStart, k - 1)]
  BY <1>a, PendingIsSeq
<1>4. D' = D + uiLen
  BY <1>a, <1>b, RingPut DEF Dist
<1>5. /\ Pending' \in Seq(Byte) /\ Len(Pending') = D + uiLen
      /\ \A k \in 1 .. (D + uiLen) :
           Pending'[k] = chSpO2TxBuf[At(uiSpO2TxIdxStart, k - 1)]
  <2>1. \A k : At(uiSpO2TxIdxStart, k)' = At(uiSpO2TxIdxStart, k)
    BY <1>b DEF At
  <2>2. /\ Pending' \in Seq(Byte) /\ Len(Pending') = D'
        /\ \A k \in 1 .. Len(Pending') :
             Pending'[k] = chSpO2TxBuf'[At(uiSpO2TxIdxStart, k - 1)']
    <3>1. TypeOK => /\ Pending \in Seq(Byte) /\ Len(Pending) = D
                    /\ \A k \in 1 .. Len(Pending) :
                         Pending[k] = chSpO2TxBuf[At(uiSpO2TxIdxStart, k - 1)]
      BY PendingIsSeq
    <3>2. (TypeOK => /\ Pending \in Seq(Byte) /\ Len(Pending) = D
                     /\ \A k \in 1 .. Len(Pending) :
                          Pending[k] = chSpO2TxBuf[At(uiSpO2TxIdxStart, k - 1)])'
      BY PendingIsSeq, PTL
    <3> QED BY <3>2, <1>a
  <2> QED BY <2>1, <2>2, <1>4, <1>b
<1>6. /\ Q \in Seq(Byte) /\ Len(Q) = D + uiLen
      /\ \A k \in 1 .. (D + uiLen) :
           Q[k] = IF k <= D THEN Pending[k] ELSE p_chBuf[k - D]
  <2>1. /\ Q \in Seq(Byte) /\ Len(Q) = Len(Pending) + Len(p_chBuf)
        /\ \A k \in 1 .. (Len(Pending) + Len(p_chBuf)) :
             Q[k] = IF k <= Len(Pending) THEN Pending[k]
                                         ELSE p_chBuf[k - Len(Pending)]
    BY <1>2, <1>3, ConcatProperties
  <2>2. Len(Pending) = D /\ Len(p_chBuf) = uiLen
    BY <1>3, <1>a
  <2> HIDE DEF Q, D
  <2> QED BY <2>1, <2>2
<1> HIDE DEF Q, D
<1>7. ASSUME NEW k \in 1 .. (D + uiLen)
      PROVE  Pending'[k] = Q[k]
  <2>1. CASE k <= D
    <3>1. k \in 1 .. D /\ Q[k] = Pending[k]
      BY <2>1, <1>1, <1>6
    <3> QED BY <3>1, <1>3, <1>5
  <2>2. CASE k > D
    <3>1. k - D \in 1 .. uiLen /\ k = D + (k - D)
      BY <2>2, <1>1, <1>a
    <3>2. At(uiSpO2TxIdxStart, D + (k - D) - 1) = At(uiSpO2TxIdxEnd, (k - D) - 1)
      BY <1>a, <3>1, RingPut DEF D
    <3>3. chSpO2TxBuf[At(uiSpO2TxIdxEnd, (k - D) - 1)] = p_chBuf[k - D]
      BY <1>a, <3>1
    <3>4. Q[k] = p_chBuf[k - D]
      BY <1>6, <1>1, <2>2
    <3>5. D + (k - D) - 1 = k - 1
      BY <1>1
    <3> QED BY <3>2, <3>3, <3>4, <3>5, <1>5
  <2>3. k <= D \/ k > D
    BY <1>1, <1>a
  <2> QED BY <2>1, <2>2, <2>3
<1>8. Pending' = Q
  BY <1>5, <1>6, <1>7, SeqEqual
<1> QED BY <1>8 DEF Q

(* Sending takes the head of the queue. *)
LEMMA SendPending ==
  ASSUME IInv, IInv', TxIsrSend
  PROVE  /\ Pending # << >>
         /\ THR' = Head(Pending)
         /\ Pending' = Tail(Pending)
<1>a. /\ TypeOK /\ TypeOK'
      /\ uiSpO2TxIdxStart \in Slot /\ uiSpO2TxIdxEnd \in Slot
      /\ uiSpO2TxIdxStart # uiSpO2TxIdxEnd
      /\ THR' = chSpO2TxBuf[uiSpO2TxIdxStart]
      /\ uiSpO2TxIdxStart' = Inc(uiSpO2TxIdxStart)
      /\ UNCHANGED <<chSpO2TxBuf, uiSpO2TxIdxEnd>>
  BY DEF IInv, TypeOK, TxIsrSend
<1> DEFINE D == Dist(uiSpO2TxIdxStart, uiSpO2TxIdxEnd)
<1>1. D \in Nat /\ D > 0 /\ D <= TxBUFSIZE - 1
  BY <1>a, TxAssumption DEF Slot, Dist
<1>2. D' = D - 1
  BY <1>a, RingTake, TxAssumption DEF Slot, Dist, Inc
<1>3. /\ Pending \in Seq(Byte) /\ Len(Pending) = D
      /\ \A k \in 1 .. D : Pending[k] = chSpO2TxBuf[At(uiSpO2TxIdxStart, k - 1)]
  BY <1>a, PendingIsSeq
<1>4. /\ Pending' \in Seq(Byte) /\ Len(Pending') = D'
      /\ \A k \in 1 .. Len(Pending') :
           Pending'[k] = chSpO2TxBuf'[At(uiSpO2TxIdxStart, k - 1)']
  <2>1. (TypeOK => /\ Pending \in Seq(Byte) /\ Len(Pending) = D
                   /\ \A k \in 1 .. Len(Pending) :
                        Pending[k] = chSpO2TxBuf[At(uiSpO2TxIdxStart, k - 1)])'
    BY PendingIsSeq, PTL
  <2> QED BY <2>1, <1>a
<1>5. \A k \in 1 .. (D - 1) : At(uiSpO2TxIdxStart, k - 1)' = At(uiSpO2TxIdxStart, k)
  BY <1>a, <1>1, TxAssumption DEF Slot, At, Inc
<1>6. Pending # << >>
  BY <1>1, <1>3
<1>7. /\ Tail(Pending) \in Seq(Byte)
      /\ Len(Tail(Pending)) = D - 1
      /\ \A k \in 1 .. (D - 1) : Tail(Pending)[k] = Pending[k + 1]
  BY <1>3, <1>6, HeadTailProperties
<1> HIDE DEF D
<1>8. ASSUME NEW k \in 1 .. (D - 1)
      PROVE  Pending'[k] = Tail(Pending)[k]
  <2>1. Pending'[k] = chSpO2TxBuf[At(uiSpO2TxIdxStart, k)]
    BY <1>2, <1>4, <1>5, <1>a
  <2>2. k + 1 \in 1 .. D /\ (k + 1) - 1 = k
    BY <1>1
  <2>3. Pending[k + 1] = chSpO2TxBuf[At(uiSpO2TxIdxStart, k)]
    BY <1>3, <2>2
  <2> QED BY <1>7, <2>1, <2>3
<1>9. Pending' = Tail(Pending)
  BY <1>2, <1>4, <1>7, <1>8, SeqEqual
<1>10. Pending[1] = chSpO2TxBuf[uiSpO2TxIdxStart]
  <2>1. At(uiSpO2TxIdxStart, 1 - 1) = uiSpO2TxIdxStart
    BY <1>a, TxAssumption DEF Slot, At
  <2> QED BY <1>1, <1>3, <2>1
<1>11. Head(Pending) = Pending[1]
  BY <1>3, <1>6
<1> QED BY <1>a, <1>6, <1>9, <1>10, <1>11

(* Initially nothing waits. *)
LEMMA InitFifo == Init => Fifo!FifoInit
<1> SUFFICES ASSUME Init PROVE Fifo!FifoInit
  OBVIOUS
<1>1. Dist(uiSpO2TxIdxStart, uiSpO2TxIdxEnd) = 0
  BY DEF Init, Dist
<1>2. Pending = << >>
  BY <1>1 DEF Pending
<1> QED BY <1>2 DEF Init, Fifo!FifoInit

(* Every step of the ring is a step of the queue or leaves it alone. *)
LEMMA NextFifo ==
  IInv /\ IInv' /\ [Next]_vars => [Fifo!FifoNext]_(Fifo!fifoVars)
<1> SUFFICES ASSUME IInv, IInv', [Next]_vars
             PROVE  [Fifo!FifoNext]_(Fifo!fifoVars)
  OBVIOUS
<1>1. CASE UNCHANGED <<ring, THR>>
  BY <1>1, PendingStutter DEF Fifo!fifoVars, ring
<1>2. CASE SendBufStore
  <2>1. Pending' = Pending /\ THR' = THR
    BY <1>2, StorePending DEF SendBufStore
  <2> QED BY <2>1 DEF Fifo!fifoVars
<1>3. CASE SendBufPublish
  <2>1. Pending' = Pending \o p_chBuf /\ p_chBuf \in Packets /\ THR' = THR
    BY <1>3, PublishPending DEF SendBufPublish, IInv, TypeOK
  <2> QED BY <2>1 DEF Fifo!FifoNext, Fifo!Put
<1>4. CASE TxIsrSend
  BY <1>4, SendPending DEF Fifo!FifoNext, Fifo!Get
<1>5. (\E p \in Packets : SendBufEnter(p)) \/ SendBufWait \/ SendBufEnable \/ TxIsrEmpty
      \/ UNCHANGED vars => UNCHANGED <<ring, THR>>
  BY DEF SendBufEnter, SendBufWait, SendBufEnable, TxIsrEmpty, vars
<1> QED BY <1>1, <1>2, <1>3, <1>4, <1>5 DEF Next, SendBufStep, TxIsr

(* The unlocked ring of SendBuf and IVG11_SpO2_UART_ISR is a queue of      *)
(* whole packets, for every ring size and every set of packets that fit.   *)
THEOREM RingImplementsFifo == Spec => FifoRefinement
<1>1. Spec => [][Next]_vars
  BY PTL DEF Spec
<1> QED BY <1>1, InitFifo, NextFifo, SpecIInv, PTL DEF Spec, FifoRefinement, Fifo!FifoSpec
=============================================================================
