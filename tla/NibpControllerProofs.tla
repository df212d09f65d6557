------------------------ MODULE NibpControllerProofs ------------------------
(***************************************************************************)
(* The invariants of the blood-pressure controller, for any staircase, any *)
(* number of samples and any set of sessions.                              *)
(*                                                                         *)
(* The main loop can be interrupted between any two assignments, so in the *)
(* middle of a routine hardly anything holds of the globals themselves.    *)
(* The proofs speak of Settled instead: the globals when all that is still *)
(* in front of the main loop has been executed.  Executing an assignment   *)
(* does not change Settled, a routine changes it as a whole, and an        *)
(* interrupt changes of it only what is not going to be overwritten.  What *)
(* remains to be said about each routine is what it does as a whole and in *)
(* which order it does it; one lemma per routine says so.                  *)
(*                                                                         *)
(* An invariant that some order of commands breaks is proved for the       *)
(* sessions without them.  Each such condition is about the session only   *)
(* (or, for Staircase, about the constants), is named, and says which      *)
(* commands break the invariant.                                           *)
(***************************************************************************)
EXTENDS NibpController, SequenceTheorems, WellFoundedInduction, TLAPS

-----------------------------------------------------------------------------
(* Routines as sequences. *)

(* A sequence, whatever its elements are. *)
IsSeq(r) == r \in Seq({r[i] : i \in 1 .. Len(r)})

(* A sequence over any set is a sequence over its own elements. *)
LEMMA SeqIs ==
  ASSUME NEW S, NEW r \in Seq(S)
  PROVE  IsSeq(r)
<1>1. r \in [1 .. Len(r) -> S] /\ Len(r) \in Nat
  OBVIOUS
<1> DEFINE T == {r[i] : i \in 1 .. Len(r)}
<1>2. r \in [1 .. Len(r) -> T]
  BY <1>1
<1> HIDE DEF T
<1>3. r \in Seq(T)
  BY <1>1, <1>2, SeqDef
<1> QED
  BY <1>3 DEF IsSeq, T

(* The length of a sequence and its positions. *)
LEMMA Lengths ==
  ASSUME NEW r, IsSeq(r)
  PROVE  Len(r) \in Nat /\ DOMAIN r = 1 .. Len(r)
  BY DEF IsSeq

(* Where the elements of two joined sequences are. *)
LEMMA Joined ==
  ASSUME NEW r, IsSeq(r), NEW t, IsSeq(t)
  PROVE  /\ IsSeq(r \o t)
         /\ Len(r \o t) = Len(r) + Len(t)
         /\ \A i \in 1 .. Len(r) : (r \o t)[i] = r[i]
         /\ \A i \in 1 .. Len(t) : (r \o t)[Len(r) + i] = t[i]
         /\ \A i \in 1 .. Len(r \o t) :
              \/ i \in 1 .. Len(r) /\ (r \o t)[i] = r[i]
              \/ i - Len(r) \in 1 .. Len(t) /\ (r \o t)[i] = t[i - Len(r)]
<1> DEFINE S == {r[i] : i \in 1 .. Len(r)} \cup {t[i] : i \in 1 .. Len(t)}
<1>1. r \in Seq(S) /\ t \in Seq(S)
  BY DEF IsSeq
<1> HIDE DEF S
<1>2. r \o t \in Seq(S)
  BY <1>1
<1>3. Len(r \o t) = Len(r) + Len(t) /\ Len(r) \in Nat /\ Len(t) \in Nat
  BY <1>1
<1>4. \A i \in 1 .. Len(r) : (r \o t)[i] = r[i]
  BY <1>1
<1>5. \A i \in 1 .. Len(r) + Len(t) : i > Len(r) => (r \o t)[i] = t[i - Len(r)]
  BY <1>1
<1>6. IsSeq(r \o t)
  BY <1>2, SeqIs
<1>7. \A i \in 1 .. Len(t) : (r \o t)[Len(r) + i] = t[i]
  <2> TAKE i \in 1 .. Len(t)
  <2>1. Len(r) + i \in 1 .. Len(r) + Len(t) /\ Len(r) + i > Len(r) /\ Len(r) + i - Len(r) = i
    BY <1>3
  <2> QED
    BY <2>1, <1>5
<1> QED
  BY <1>3, <1>4, <1>5, <1>6, <1>7

(* Where the elements of the tail are. *)
LEMMA Rest ==
  ASSUME NEW r, IsSeq(r), r # << >>
  PROVE  /\ IsSeq(Tail(r)) /\ Len(r) \in Nat /\ Len(r) >= 1
         /\ Head(r) = r[1] /\ Len(Tail(r)) = Len(r) - 1
         /\ \A i \in 1 .. Len(r) - 1 : Tail(r)[i] = r[i + 1]
<1> DEFINE S == {r[i] : i \in 1 .. Len(r)}
<1>1. r \in Seq(S)
  BY DEF IsSeq
<1> HIDE DEF S
<1>2. Tail(r) \in Seq(S)
  BY <1>1
<1>3. IsSeq(Tail(r))
  BY <1>2, SeqIs
<1>4. Len(r) \in Nat /\ Len(r) >= 1 /\ Head(r) = r[1] /\ Len(Tail(r)) = Len(r) - 1
  BY <1>1
<1>5. \A i \in 1 .. Len(r) - 1 : Tail(r)[i] = r[i + 1]
  BY <1>1, <1>4
<1> QED
  BY <1>3, <1>4, <1>5

(* The sequences written out in the routines. *)
LEMMA Literals ==
  /\ IsSeq(<< >>) /\ Len(<< >>) = 0
  /\ \A a : IsSeq(<<a>>) /\ Len(<<a>>) = 1
  /\ \A a, b : IsSeq(<<a, b>>) /\ Len(<<a, b>>) = 2
  /\ \A a, b, c : IsSeq(<<a, b, c>>) /\ Len(<<a, b, c>>) = 3
  /\ \A a, b, c, d : IsSeq(<<a, b, c, d>>) /\ Len(<<a, b, c, d>>) = 4
  /\ \A a, b, c, d, e : IsSeq(<<a, b, c, d, e>>) /\ Len(<<a, b, c, d, e>>) = 5
  /\ \A a, b, c, d, e, f : IsSeq(<<a, b, c, d, e, f>>) /\ Len(<<a, b, c, d, e, f>>) = 6
  BY DEF IsSeq

-----------------------------------------------------------------------------
(* The state after a routine. *)

(* The routine r has an assignment to the field f. *)
Writes(r, f) == \E i \in 1 .. Len(r) : f \in DOMAIN r[i]

(* A routine neither adds a field nor removes one. *)
LEMMA AfterDomain ==
  ASSUME NEW s, NEW r
  PROVE  DOMAIN After(s, r) = DOMAIN s
  BY DEF After

(* A routine keeps the fields it does not write. *)
LEMMA AfterKept ==
  ASSUME NEW s, NEW r, NEW f \in DOMAIN s, ~ Writes(r, f)
  PROVE  After(s, r)[f] = s[f]
  BY DEF After, Writes

(* What a routine writes does not depend on what was there. *)
LEMMA AfterWritten ==
  ASSUME NEW s, NEW t, NEW r, NEW f \in DOMAIN s, f \in DOMAIN t, Writes(r, f)
  PROVE  After(s, r)[f] = After(t, r)[f]
  BY DEF After, Writes

(* The last assignment, as an index. *)
LEMMA LastWrite ==
  ASSUME NEW r, IsSeq(r), NEW f, Writes(r, f)
  PROVE  \E i \in 1 .. Len(r) : /\ f \in DOMAIN r[i]
                                /\ \A j \in 1 .. Len(r) : f \in DOMAIN r[j] => j <= i
<1>1. Len(r) \in Nat
  BY Lengths
<1> DEFINE W == {Len(r) - i : i \in {k \in 1 .. Len(r) : f \in DOMAIN r[k]}}
           Less == OpToRel(<, Nat)
<1>2. W \subseteq Nat /\ W # {}
  BY <1>1 DEF Writes
<1>3. IsWellFoundedOn(Less, Nat)
  BY NatLessThanWellFounded
<1>4. \A x, y \in Nat : y < x => <<y, x>> \in Less
  BY DEF OpToRel
<1> HIDE DEF Less
<1>5. PICK x \in W : \A y \in W : ~ (<<y, x>> \in Less)
  <2> HIDE DEF W
  <2> QED
    BY <1>2, <1>3, WFMin
<1>6. \A y \in W : x <= y
  <2> HIDE DEF W
  <2> TAKE y \in W
  <2>1. x \in Nat /\ y \in Nat /\ ~ (y < x)
    BY <1>2, <1>4, <1>5
  <2> QED
    BY <2>1
<1>7. PICK i \in 1 .. Len(r) : f \in DOMAIN r[i] /\ x = Len(r) - i
  BY <1>5
<1>8. ASSUME NEW j \in 1 .. Len(r), f \in DOMAIN r[j]
      PROVE  j <= i
  <2>1. Len(r) - j \in W
    BY <1>8
  <2>2. Len(r) - i <= Len(r) - j
    BY <2>1, <1>6, <1>7
  <2> QED
    BY <2>2, <1>1
<1> QED
  BY <1>7, <1>8

(* ... and its value is that of the field. *)
LEMMA AfterLast ==
  ASSUME NEW s, NEW r, IsSeq(r), NEW f \in DOMAIN s,
         NEW i \in 1 .. Len(r), f \in DOMAIN r[i],
         \A j \in 1 .. Len(r) : f \in DOMAIN r[j] => j <= i
  PROVE  After(s, r)[f] = r[i][f]
<1> DEFINE W == {k \in 1 .. Len(r) : f \in DOMAIN r[k]}
           m == CHOOSE k \in W : \A j \in W : j <= k
<1>1. Len(r) \in Nat
  BY Lengths
<1>2. i \in W /\ \A j \in W : j <= i
  OBVIOUS
<1>3. m \in W /\ \A j \in W : j <= m
  BY <1>2
<1>4. m = i
  BY <1>1, <1>2, <1>3
<1>5. After(s, r)[f] = r[m][f]
  BY <1>2 DEF After
<1> QED
  BY <1>4, <1>5

(* A field has the value of some assignment, or keeps its own. *)
LEMMA AfterOneOf ==
  ASSUME NEW s, NEW r, IsSeq(r), NEW f \in DOMAIN s
  PROVE  \/ After(s, r)[f] = s[f] /\ ~ Writes(r, f)
         \/ \E i \in 1 .. Len(r) : f \in DOMAIN r[i] /\ After(s, r)[f] = r[i][f]
<1>1. CASE Writes(r, f)
  BY <1>1, LastWrite, AfterLast
<1>2. CASE ~ Writes(r, f)
  BY <1>2, AfterKept
<1> QED
  BY <1>1, <1>2

(* Executing the first assignment does not change where a routine leads. *)
LEMMA AfterStep ==
  ASSUME NEW s, NEW r, IsSeq(r), r # << >>
  PROVE  After(r[1] @@ s, Tail(r)) = After(s, r)
<1> DEFINE t == Tail(r)
<1>1. /\ IsSeq(t) /\ Len(r) \in Nat /\ Len(r) >= 1 /\ Len(t) = Len(r) - 1
      /\ \A i \in 1 .. Len(r) - 1 : t[i] = r[i + 1]
  BY Rest
<1> HIDE DEF t
<1>2. DOMAIN (r[1] @@ s) = DOMAIN s
  BY DEF @@
<1>3. ASSUME NEW f \in DOMAIN s
      PROVE  After(r[1] @@ s, t)[f] = After(s, r)[f]
  <2>1. CASE Writes(t, f)
    <3>1. PICK i \in 1 .. Len(t) : /\ f \in DOMAIN t[i]
                                   /\ \A j \in 1 .. Len(t) : f \in DOMAIN t[j] => j <= i
      BY <1>1, <2>1, LastWrite
    <3>2. After(r[1] @@ s, t)[f] = t[i][f]
      BY <1>1, <1>2, <3>1, AfterLast
    <3>3. i + 1 \in 1 .. Len(r) /\ f \in DOMAIN r[i + 1] /\ t[i] = r[i + 1]
      BY <1>1, <3>1
    <3>4. ASSUME NEW j \in 1 .. Len(r), f \in DOMAIN r[j]
          PROVE  j <= i + 1
      <4>1. CASE j = 1
        BY <4>1, <1>1
      <4>2. CASE j # 1
        <5>1. j - 1 \in 1 .. Len(t) /\ t[j - 1] = r[j]
          BY <4>2, <1>1
        <5>2. j - 1 <= i
          BY <5>1, <3>1, <3>4
        <5> QED
          BY <5>2, <1>1
      <4> QED
        BY <4>1, <4>2
    <3>5. After(s, r)[f] = r[i + 1][f]
      BY <3>3, <3>4, AfterLast
    <3> QED
      BY <3>2, <3>3, <3>5
  <2>2. CASE ~ Writes(t, f)
    <3>1. After(r[1] @@ s, t)[f] = (r[1] @@ s)[f]
      BY <1>2, <2>2, AfterKept
    <3>2. \A j \in 1 .. Len(r) : f \in DOMAIN r[j] => j <= 1
      <4> SUFFICES ASSUME NEW j \in 1 .. Len(r), j # 1
                   PROVE  f \notin DOMAIN r[j]
        BY <1>1
      <4>1. j - 1 \in 1 .. Len(t) /\ t[j - 1] = r[j]
        BY <1>1
      <4> QED
        BY <4>1, <2>2 DEF Writes
    <3>3. CASE f \in DOMAIN r[1]
      <4>1. After(s, r)[f] = r[1][f]
        BY <3>2, <3>3, <1>1, AfterLast
      <4> QED
        BY <4>1, <3>1, <3>3 DEF @@
    <3>4. CASE f \notin DOMAIN r[1]
      <4>1. ~ Writes(r, f)
        BY <3>2, <3>4, <1>1 DEF Writes
      <4> QED
        BY <4>1, <3>1, <3>4, AfterKept DEF @@
    <3> QED
      BY <3>3, <3>4
  <2> QED
    BY <2>1, <2>2
<1> QED
  BY <1>2, <1>3 DEF After, t

(* Two routines, one after the other. *)
LEMMA AfterJoined ==
  ASSUME NEW s, NEW r, IsSeq(r), NEW t, IsSeq(t)
  PROVE  After(s, r \o t) = After(After(s, r), t)
<1> DEFINE c == r \o t
<1>1. /\ IsSeq(c) /\ Len(c) = Len(r) + Len(t) /\ Len(r) \in Nat /\ Len(t) \in Nat
      /\ \A i \in 1 .. Len(r) : c[i] = r[i]
      /\ \A i \in 1 .. Len(t) : c[Len(r) + i] = t[i]
      /\ \A i \in 1 .. Len(c) :
           \/ i \in 1 .. Len(r) /\ c[i] = r[i]
           \/ i - Len(r) \in 1 .. Len(t) /\ c[i] = t[i - Len(r)]
  <2>1. Len(r) \in Nat /\ Len(t) \in Nat
    BY Lengths
  <2> QED
    BY <2>1, Joined
<1> HIDE DEF c
<1>0. IsSeq(c)
  BY <1>1
<1>2. DOMAIN After(s, r) = DOMAIN s
  BY AfterDomain
<1>3. ASSUME NEW f \in DOMAIN s
      PROVE  After(s, c)[f] = After(After(s, r), t)[f]
  <2>1. CASE Writes(t, f)
    <3>1. PICK i \in 1 .. Len(t) : /\ f \in DOMAIN t[i]
                                   /\ \A j \in 1 .. Len(t) : f \in DOMAIN t[j] => j <= i
      BY <2>1, LastWrite
    <3>2. After(After(s, r), t)[f] = t[i][f]
      BY <1>2, <3>1, AfterLast
    <3>3. Len(r) + i \in 1 .. Len(c) /\ f \in DOMAIN c[Len(r) + i] /\ c[Len(r) + i] = t[i]
      BY <1>1, <3>1
    <3>4. ASSUME NEW j \in 1 .. Len(c), f \in DOMAIN c[j]
          PROVE  j <= Len(r) + i
      <4>1. CASE j \in 1 .. Len(r)
        BY <4>1, <1>1
      <4>2. CASE j - Len(r) \in 1 .. Len(t) /\ c[j] = t[j - Len(r)]
        <5>1. j - Len(r) <= i
          BY <4>2, <3>1, <3>4
        <5> QED
          BY <5>1, <1>1
      <4> QED
        BY <4>1, <4>2, <1>1, SMTT(30)
    <3>5. After(s, c)[f] = c[Len(r) + i][f]
      BY <1>0, <3>3, <3>4, AfterLast, SMTT(30)
    <3> QED
      BY <3>2, <3>3, <3>5
  <2>2. CASE ~ Writes(t, f) /\ Writes(r, f)
    <3>1. PICK i \in 1 .. Len(r) : /\ f \in DOMAIN r[i]
                                   /\ \A j \in 1 .. Len(r) : f \in DOMAIN r[j] => j <= i
      BY <2>2, LastWrite
    <3>2. After(After(s, r), t)[f] = r[i][f]
      BY <1>2, <2>2, <3>1, AfterLast, AfterKept
    <3>3. i \in 1 .. Len(c) /\ f \in DOMAIN c[i] /\ c[i] = r[i]
      BY <1>1, <3>1
    <3>4. ASSUME NEW j \in 1 .. Len(c), f \in DOMAIN c[j]
          PROVE  j <= i
      <4>1. CASE j \in 1 .. Len(r)
        BY <4>1, <1>1, <3>1, <3>4
      <4>2. CASE j - Len(r) \in 1 .. Len(t) /\ c[j] = t[j - Len(r)]
        BY <4>2, <2>2, <3>4 DEF Writes
      <4> QED
        BY <4>1, <4>2, <1>1
    <3>5. After(s, c)[f] = c[i][f]
      BY <1>0, <3>3, <3>4, AfterLast
    <3> QED
      BY <3>2, <3>3, <3>5
  <2>3. CASE ~ Writes(t, f) /\ ~ Writes(r, f)
    <3>1. ~ Writes(c, f)
      <4> SUFFICES ASSUME NEW j \in 1 .. Len(c), f \in DOMAIN c[j]
                   PROVE  FALSE
        BY DEF Writes
      <4>1. CASE j \in 1 .. Len(r) /\ c[j] = r[j]
        BY <4>1, <2>3 DEF Writes
      <4>2. CASE j - Len(r) \in 1 .. Len(t) /\ c[j] = t[j - Len(r)]
        BY <4>2, <2>3 DEF Writes
      <4> QED
        BY <4>1, <4>2, <1>1
    <3> QED
      BY <3>1, <2>3, <1>2, AfterKept
  <2> QED
    BY <2>1, <2>2, <2>3
<1> QED
  BY <1>2, <1>3 DEF After, c

(* Short routines, assignment by assignment. *)
LEMMA After0 ==
  ASSUME NEW s, s = [f \in DOMAIN s |-> s[f]]
  PROVE  After(s, << >>) = s
  BY DEF After, @@

LEMMA After1 ==
  ASSUME NEW s, NEW a
  PROVE  After(s, <<a>>) = a @@ s
  BY DEF After, @@

LEMMA After2 ==
  ASSUME NEW s, NEW a, NEW b
  PROVE  After(s, <<a, b>>) = b @@ (a @@ s)
  BY DEF After, @@

LEMMA After3 ==
  ASSUME NEW s, NEW a, NEW b, NEW c
  PROVE  After(s, <<a, b, c>>) = c @@ (b @@ (a @@ s))
  BY DEF After, @@

LEMMA After4 ==
  ASSUME NEW s, NEW a, NEW b, NEW c, NEW d
  PROVE  After(s, <<a, b, c, d>>) = d @@ (c @@ (b @@ (a @@ s)))
  BY DEF After, @@

LEMMA After5 ==
  ASSUME NEW s, NEW a, NEW b, NEW c, NEW d, NEW e
  PROVE  After(s, <<a, b, c, d, e>>) = e @@ (d @@ (c @@ (b @@ (a @@ s))))
  BY DEF After, @@

-----------------------------------------------------------------------------
(* Types. *)

Fields == DOMAIN FieldType

(* A state of the globals. *)
IsState(s) == s = [f \in Fields |-> s[f]] /\ Typed(s)

(* A routine: assignments of values of their types. *)
Body(r) == IsSeq(r) /\ \A i \in 1 .. Len(r) : Typed(r[i])

(* The fields, by name ... *)
LEMMA FieldsAre ==
    Fields = {"NIBP_Status", "PWM_Status", "pump", "slowPin", "fastPin", "curWorkMode",
            "backup_mode", "curCycler", "algo_state", "bIsPumpStop", "SlowReleTimeStauts", "isRisingStateRele",
            "u8RisingStepCount", "isFisrtRisingStep", "isRisingDone", "isAllDone",
            "risingResult", "stepData", "slowRele", "slowReleCount", "bIsCalculateDrop", "verifyStauts", "algo_sw",
            "u8Venipuncture", "is_gas_leak_test", "gas_leak_tick", "forceOut", "holdOut",
            "weakOut", "sleeveOut", "autoOut", "contTestOut", "contNextOut"}
  BY DEF Fields, FieldType

(* ... their types ... *)
LEMMA FieldTypes ==
  /\ FieldType.NIBP_Status = BOOLEAN
  /\ FieldType.PWM_Status = BOOLEAN
  /\ FieldType.pump = BOOLEAN
  /\ FieldType.slowPin = {"LOW", "HIGH"}
  /\ FieldType.fastPin = {"LOW", "HIGH"}
  /\ FieldType.curWorkMode = WorkMode
  /\ FieldType.backup_mode = WorkMode
  /\ FieldType.curCycler = {"MANUAL", "AUTO", "UNKNOWN"}
  /\ FieldType.algo_state = {"IDLE", "RISING", "FALLING"}
  /\ FieldType.bIsPumpStop = BOOLEAN
  /\ FieldType.SlowReleTimeStauts = BOOLEAN
  /\ FieldType.isRisingStateRele = BOOLEAN
  /\ FieldType.u8RisingStepCount = {0, 1}
  /\ FieldType.isFisrtRisingStep = BOOLEAN
  /\ FieldType.isRisingDone = BOOLEAN
  /\ FieldType.isAllDone = BOOLEAN
  /\ FieldType.risingResult = {"old", "new"}
  /\ FieldType.stepData = {"none", "sampling", "complete"}
  /\ FieldType.slowRele = 0 .. Steps
  /\ FieldType.slowReleCount = 0 .. TEST_SLOW_RELE_COUNT
  /\ FieldType.bIsCalculateDrop = BOOLEAN
  /\ FieldType.verifyStauts = BOOLEAN
  /\ FieldType.algo_sw = BOOLEAN
  /\ FieldType.u8Venipuncture = {"none", "chosen", "180"}
  /\ FieldType.is_gas_leak_test = BOOLEAN
  /\ FieldType.gas_leak_tick = {"off", "armed", "due"}
  /\ FieldType.forceOut = BOOLEAN
  /\ FieldType.holdOut = BOOLEAN
  /\ FieldType.weakOut = BOOLEAN
  /\ FieldType.sleeveOut = BOOLEAN
  /\ FieldType.autoOut = BOOLEAN
  /\ FieldType.contTestOut = BOOLEAN
  /\ FieldType.contNextOut = BOOLEAN
  BY DEF FieldType

(* ... and what a state gives to each. *)
LEMMA StateFields ==
  ASSUME NEW s, IsState(s)
  PROVE  /\ DOMAIN s = Fields
         /\ s.NIBP_Status \in BOOLEAN
         /\ s.PWM_Status \in BOOLEAN
         /\ s.pump \in BOOLEAN
         /\ s.slowPin \in {"LOW", "HIGH"}
         /\ s.fastPin \in {"LOW", "HIGH"}
         /\ s.curWorkMode \in WorkMode
         /\ s.backup_mode \in WorkMode
         /\ s.curCycler \in {"MANUAL", "AUTO", "UNKNOWN"}
         /\ s.algo_state \in {"IDLE", "RISING", "FALLING"}
         /\ s.bIsPumpStop \in BOOLEAN
         /\ s.SlowReleTimeStauts \in BOOLEAN
         /\ s.isRisingStateRele \in BOOLEAN
         /\ s.u8RisingStepCount \in {0, 1}
         /\ s.isFisrtRisingStep \in BOOLEAN
         /\ s.isRisingDone \in BOOLEAN
         /\ s.isAllDone \in BOOLEAN
         /\ s.risingResult \in {"old", "new"}
         /\ s.stepData \in {"none", "sampling", "complete"}
         /\ s.slowRele \in 0 .. Steps
         /\ s.slowReleCount \in 0 .. TEST_SLOW_RELE_COUNT
         /\ s.bIsCalculateDrop \in BOOLEAN
         /\ s.verifyStauts \in BOOLEAN
         /\ s.algo_sw \in BOOLEAN
         /\ s.u8Venipuncture \in {"none", "chosen", "180"}
         /\ s.is_gas_leak_test \in BOOLEAN
         /\ s.gas_leak_tick \in {"off", "armed", "due"}
         /\ s.forceOut \in BOOLEAN
         /\ s.holdOut \in BOOLEAN
         /\ s.weakOut \in BOOLEAN
         /\ s.sleeveOut \in BOOLEAN
         /\ s.autoOut \in BOOLEAN
         /\ s.contTestOut \in BOOLEAN
         /\ s.contNextOut \in BOOLEAN
<1>1. DOMAIN s = Fields /\ \A f \in Fields : s[f] \in FieldType[f]
  BY DEF IsState, Typed
<1> QED
  BY <1>1, FieldsAre, FieldTypes, ZenonT(60)

(* An assignment to a single field. *)
LEMMA TypedOne ==
  /\ \A v \in BOOLEAN : Typed([NIBP_Status |-> v])
  /\ \A v \in BOOLEAN : Typed([PWM_Status |-> v])
  /\ \A v \in BOOLEAN : Typed([pump |-> v])
  /\ \A v \in {"LOW", "HIGH"} : Typed([slowPin |-> v])
  /\ \A v \in {"LOW", "HIGH"} : Typed([fastPin |-> v])
  /\ \A v \in WorkMode : Typed([curWorkMode |-> v])
  /\ \A v \in WorkMode : Typed([backup_mode |-> v])
  /\ \A v \in {"MANUAL", "AUTO", "UNKNOWN"} : Typed([curCycler |-> v])
  /\ \A v \in {"IDLE", "RISING", "FALLING"} : Typed([algo_state |-> v])
  /\ \A v \in BOOLEAN : Typed([bIsPumpStop |-> v])
  /\ \A v \in BOOLEAN : Typed([SlowReleTimeStauts |-> v])
  /\ \A v \in BOOLEAN : Typed([isRisingStateRele |-> v])
  /\ \A v \in {0, 1} : Typed([u8RisingStepCount |-> v])
  /\ \A v \in BOOLEAN : Typed([isFisrtRisingStep |-> v])
  /\ \A v \in BOOLEAN : Typed([isRisingDone |-> v])
  /\ \A v \in BOOLEAN : Typed([isAllDone |-> v])
  /\ \A v \in {"old", "new"} : Typed([risingResult |-> v])
  /\ \A v \in {"none", "sampling", "complete"} : Typed([stepData |-> v])
  /\ \A v \in 0 .. Steps : Typed([slowRele |-> v])
  /\ \A v \in 0 .. TEST_SLOW_RELE_COUNT : Typed([slowReleCount |-> v])
  /\ \A v \in BOOLEAN : Typed([bIsCalculateDrop |-> v])
  /\ \A v \in BOOLEAN : Typed([verifyStauts |-> v])
  /\ \A v \in BOOLEAN : Typed([algo_sw |-> v])
  /\ \A v \in {"none", "chosen", "180"} : Typed([u8Venipuncture |-> v])
  /\ \A v \in BOOLEAN : Typed([is_gas_leak_test |-> v])
  /\ \A v \in {"off", "armed", "due"} : Typed([gas_leak_tick |-> v])
  /\ \A v \in BOOLEAN : Typed([forceOut |-> v])
  /\ \A v \in BOOLEAN : Typed([holdOut |-> v])
  /\ \A v \in BOOLEAN : Typed([weakOut |-> v])
  /\ \A v \in BOOLEAN : Typed([sleeveOut |-> v])
  /\ \A v \in BOOLEAN : Typed([autoOut |-> v])
  /\ \A v \in BOOLEAN : Typed([contTestOut |-> v])
  /\ \A v \in BOOLEAN : Typed([contNextOut |-> v])
<1>1. \A v \in BOOLEAN : Typed([NIBP_Status |-> v])
  BY FieldsAre, FieldTypes DEF Typed, Fields
<1>2. \A v \in BOOLEAN : Typed([PWM_Status |-> v])
  BY FieldsAre, FieldTypes DEF Typed, Fields
<1>3. \A v \in BOOLEAN : Typed([pump |-> v])
  BY FieldsAre, FieldTypes DEF Typed, Fields
<1>4. \A v \in {"LOW", "HIGH"} : Typed([slowPin |-> v])
  BY FieldsAre, FieldTypes DEF Typed, Fields
<1>4a. \A v \in {"LOW", "HIGH"} : Typed([fastPin |-> v])
  BY FieldsAre, FieldTypes DEF Typed, Fields
<1>5. \A v \in WorkMode : Typed([curWorkMode |-> v])
  BY FieldsAre, FieldTypes DEF Typed, Fields
<1>6. \A v \in WorkMode : Typed([backup_mode |-> v])
  BY FieldsAre, FieldTypes DEF Typed, Fields
<1>7. \A v \in {"MANUAL", "AUTO", "UNKNOWN"} : Typed([curCycler |-> v])
  BY FieldsAre, FieldTypes DEF Typed, Fields
<1>8. \A v \in {"IDLE", "RISING", "FALLING"} : Typed([algo_state |-> v])
  BY FieldsAre, FieldTypes DEF Typed, Fields
<1>9. \A v \in BOOLEAN : Typed([bIsPumpStop |-> v])
  BY FieldsAre, FieldTypes DEF Typed, Fields
<1>10. \A v \in BOOLEAN : Typed([SlowReleTimeStauts |-> v])
  BY FieldsAre, FieldTypes DEF Typed, Fields
<1>11. \A v \in BOOLEAN : Typed([isRisingStateRele |-> v])
  BY FieldsAre, FieldTypes DEF Typed, Fields
<1>12. \A v \in {0, 1} : Typed([u8RisingStepCount |-> v])
  BY FieldsAre, FieldTypes DEF Typed, Fields
<1>13. \A v \in BOOLEAN : Typed([isFisrtRisingStep |-> v])
  BY FieldsAre, FieldTypes DEF Typed, Fields
<1>14. \A v \in BOOLEAN : Typed([isRisingDone |-> v])
  BY FieldsAre, FieldTypes DEF Typed, Fields
<1>15. \A v \in BOOLEAN : Typed([isAllDone |-> v])
  BY FieldsAre, FieldTypes DEF Typed, Fields
<1>16. \A v \in {"old", "new"} : Typed([risingResult |-> v])
  BY FieldsAre, FieldTypes DEF Typed, Fields
<1>17. \A v \in {"none", "sampling", "complete"} : Typed([stepData |-> v])
  BY FieldsAre, FieldTypes DEF Typed, Fields
<1>18. \A v \in 0 .. Steps : Typed([slowRele |-> v])
  <2>1. \A v \in FieldType.slowRele : Typed([slowRele |-> v])
    BY FieldsAre DEF Typed, Fields
  <2> QED
    BY <2>1, FieldTypes
<1>19. \A v \in 0 .. TEST_SLOW_RELE_COUNT : Typed([slowReleCount |-> v])
  <2>1. \A v \in FieldType.slowReleCount : Typed([slowReleCount |-> v])
    BY FieldsAre DEF Typed, Fields
  <2> QED
    BY <2>1, FieldTypes
<1>19a. \A v \in BOOLEAN : Typed([bIsCalculateDrop |-> v])
  BY FieldsAre, FieldTypes DEF Typed, Fields
<1>20. \A v \in BOOLEAN : Typed([verifyStauts |-> v])
  BY FieldsAre, FieldTypes DEF Typed, Fields
<1>21. \A v \in BOOLEAN : Typed([algo_sw |-> v])
  BY FieldsAre, FieldTypes DEF Typed, Fields
<1>22. \A v \in {"none", "chosen", "180"} : Typed([u8Venipuncture |-> v])
  BY FieldsAre, FieldTypes DEF Typed, Fields
<1>23. \A v \in BOOLEAN : Typed([is_gas_leak_test |-> v])
  BY FieldsAre, FieldTypes DEF Typed, Fields
<1>24. \A v \in {"off", "armed", "due"} : Typed([gas_leak_tick |-> v])
  BY FieldsAre, FieldTypes DEF Typed, Fields
<1>25. \A v \in BOOLEAN : Typed([forceOut |-> v])
  BY FieldsAre, FieldTypes DEF Typed, Fields
<1>26. \A v \in BOOLEAN : Typed([holdOut |-> v])
  BY FieldsAre, FieldTypes DEF Typed, Fields
<1>27. \A v \in BOOLEAN : Typed([weakOut |-> v])
  BY FieldsAre, FieldTypes DEF Typed, Fields
<1>28. \A v \in BOOLEAN : Typed([sleeveOut |-> v])
  BY FieldsAre, FieldTypes DEF Typed, Fields
<1>29. \A v \in BOOLEAN : Typed([autoOut |-> v])
  BY FieldsAre, FieldTypes DEF Typed, Fields
<1>30. \A v \in BOOLEAN : Typed([contTestOut |-> v])
  BY FieldsAre, FieldTypes DEF Typed, Fields
<1>31. \A v \in BOOLEAN : Typed([contNextOut |-> v])
  BY FieldsAre, FieldTypes DEF Typed, Fields
<1> QED
    BY <1>1, <1>2, <1>3, <1>4, <1>4a, <1>5, <1>6, <1>7, <1>8, <1>9, <1>10, <1>11, <1>12, <1>13,
     <1>14, <1>15, <1>16, <1>17, <1>18, <1>19, <1>19a, <1>20, <1>21, <1>22, <1>23, <1>24, <1>25, <1>26, <1>27,
     <1>28, <1>29, <1>30, <1>31

(* Assignments to several fields at once. *)
LEMMA TypedMany ==
  /\ \A u \in BOOLEAN : Typed([isRisingDone |-> u, risingResult |-> "old"])
  /\ \A u, v, w \in BOOLEAN : Typed([isRisingStateRele |-> u, u8RisingStepCount |-> 0,
            isFisrtRisingStep |-> v, weakOut |-> w])
  /\ \A u, v \in BOOLEAN : Typed([isFisrtRisingStep |-> u, holdOut |-> v])
  /\ \A u \in BOOLEAN : Typed([holdOut |-> u, stepData |-> "sampling"])
  /\ \A u, v \in BOOLEAN : Typed([holdOut |-> u, isRisingStateRele |-> v, stepData |-> "sampling"])
  /\ Typed([stepData |-> "none", risingResult |-> "new"])
  /\ \A u \in BOOLEAN : Typed([stepData |-> "none", isRisingDone |-> u])
  /\ \A u \in BOOLEAN : Typed([stepData |-> "none", isAllDone |-> u])
  /\ Typed([algo_state |-> "FALLING", bIsCalculateDrop |-> FALSE])
<1>0. /\ {"isRisingDone", "risingResult", "isRisingStateRele", "u8RisingStepCount",
                    "isFisrtRisingStep", "weakOut", "holdOut", "stepData", "isAllDone",
                    "algo_state", "bIsCalculateDrop"}
             \subseteq DOMAIN FieldType
      /\ FieldType["isRisingDone"] = BOOLEAN /\ FieldType["risingResult"] = {"old", "new"}
      /\ FieldType["isRisingStateRele"] = BOOLEAN /\ FieldType["u8RisingStepCount"] = {0, 1}
      /\ FieldType["isFisrtRisingStep"] = BOOLEAN /\ FieldType["weakOut"] = BOOLEAN
      /\ FieldType["holdOut"] = BOOLEAN /\ FieldType["isAllDone"] = BOOLEAN
      /\ FieldType["stepData"] = {"none", "sampling", "complete"}
      /\ FieldType["algo_state"] = {"IDLE", "RISING", "FALLING"}
      /\ FieldType["bIsCalculateDrop"] = BOOLEAN
  BY FieldsAre, FieldTypes DEF Fields
<1>1. \A u \in BOOLEAN : Typed([isRisingDone |-> u, risingResult |-> "old"])
  BY <1>0 DEF Typed
<1>2. \A u, v, w \in BOOLEAN : Typed([isRisingStateRele |-> u, u8RisingStepCount |-> 0,
            isFisrtRisingStep |-> v, weakOut |-> w])
  BY <1>0 DEF Typed
<1>3. \A u, v \in BOOLEAN : Typed([isFisrtRisingStep |-> u, holdOut |-> v])
  BY <1>0 DEF Typed
<1>4. \A u \in BOOLEAN : Typed([holdOut |-> u, stepData |-> "sampling"])
  BY <1>0 DEF Typed
<1>5. \A u, v \in BOOLEAN : Typed([holdOut |-> u, isRisingStateRele |-> v, stepData |-> "sampling"])
  BY <1>0 DEF Typed
<1>6. Typed([stepData |-> "none", risingResult |-> "new"])
  BY <1>0 DEF Typed
<1>7. \A u \in BOOLEAN : Typed([stepData |-> "none", isRisingDone |-> u])
  BY <1>0 DEF Typed
<1>8. \A u \in BOOLEAN : Typed([stepData |-> "none", isAllDone |-> u])
  BY <1>0 DEF Typed
<1>9. Typed([algo_state |-> "FALLING", bIsCalculateDrop |-> FALSE])
  <2> DEFINE a == [algo_state |-> "FALLING", bIsCalculateDrop |-> FALSE]
  <2>1. DOMAIN a = {"algo_state", "bIsCalculateDrop"}
    OBVIOUS
  <2>2. a["algo_state"] = "FALLING" /\ a["bIsCalculateDrop"] = FALSE
    OBVIOUS
  <2> HIDE DEF a
  <2>3. Typed(a)
    BY <1>0, <2>1, <2>2 DEF Typed
  <2> QED
    BY <2>3 DEF a
<1> QED
  BY <1>1, <1>2, <1>3, <1>4, <1>5, <1>6, <1>7, <1>8, <1>9

(* An assignment leads from a state to a state ... *)
LEMMA TypedPut ==
  ASSUME NEW s, IsState(s), NEW a, Typed(a)
  PROVE  IsState(a @@ s)
<1>1. DOMAIN s = Fields
  BY DEF IsState
<1> QED
  BY <1>1 DEF IsState, Typed, @@, Fields

(* ... and so does a routine. *)
LEMMA TypedAfter ==
  ASSUME NEW s, IsState(s), NEW r, Body(r)
  PROVE  IsState(After(s, r))
<1>1. DOMAIN s = Fields /\ \A f \in Fields : s[f] \in FieldType[f]
  BY DEF IsState, Typed
<1>2. ASSUME NEW f \in Fields
      PROVE  After(s, r)[f] \in FieldType[f]
  <2>1. CASE After(s, r)[f] = s[f]
    BY <2>1, <1>1
  <2>2. CASE \E i \in 1 .. Len(r) : f \in DOMAIN r[i] /\ After(s, r)[f] = r[i][f]
    BY <2>2 DEF Body, Typed
  <2> QED
    BY <2>1, <2>2, <1>1, AfterOneOf DEF Body
<1>3. After(s, r) = [f \in Fields |-> After(s, r)[f]]
  BY <1>1 DEF After
<1> QED
  BY <1>2, <1>3 DEF IsState, Typed, Fields

(* The routines written out assignment by assignment. *)
LEMMA BodyLiterals ==
  /\ Body(<< >>)
  /\ \A a : Typed(a) => Body(<<a>>)
  /\ \A a, b : Typed(a) /\ Typed(b) => Body(<<a, b>>)
  /\ \A a, b, c : Typed(a) /\ Typed(b) /\ Typed(c) => Body(<<a, b, c>>)
  /\ \A a, b, c, d : Typed(a) /\ Typed(b) /\ Typed(c) /\ Typed(d) => Body(<<a, b, c, d>>)
  /\ \A a, b, c, d, e :
       Typed(a) /\ Typed(b) /\ Typed(c) /\ Typed(d) /\ Typed(e) => Body(<<a, b, c, d, e>>)
  /\ \A a, b, c, d, e, f :
       Typed(a) /\ Typed(b) /\ Typed(c) /\ Typed(d) /\ Typed(e) /\ Typed(f)
         => Body(<<a, b, c, d, e, f>>)
  BY Literals DEF Body

(* Two routines, one after the other. *)
LEMMA BodyJoined ==
  ASSUME NEW r, Body(r), NEW t, Body(t)
  PROVE  Body(r \o t)
  BY Joined DEF Body

-----------------------------------------------------------------------------
(* What the main loop executes: assignments, then calls. *)

IsCall(a) == a \in {Call(f) : f \in Parts}

Calls(c) == IsSeq(c) /\ \A i \in 1 .. Len(c) : IsCall(c[i])

(* Assignments first, then only calls. *)
Program(c) ==
  /\ IsSeq(c)
  /\ \A i \in 1 .. Len(c) : Typed(c[i]) \/ IsCall(c[i])
  /\ \A i, j \in 1 .. Len(c) : i < j /\ IsCall(c[i]) => IsCall(c[j])

(* A call is not an assignment: it writes no field. *)
LEMMA CallWrites ==
  ASSUME NEW a, IsCall(a)
  PROVE  DOMAIN a = {"call"} /\ "call" \notin Fields /\ ~ Typed(a)
  BY FieldsAre DEF IsCall, Call, Typed, Fields

(* A routine in front of a program. *)
LEMMA BodyProgram ==
  ASSUME NEW r, Body(r), NEW t, Program(t)
  PROVE  Program(r \o t)
<1> DEFINE c == r \o t
<1>1. /\ IsSeq(c) /\ Len(c) = Len(r) + Len(t) /\ Len(r) \in Nat /\ Len(t) \in Nat
      /\ \A i \in 1 .. Len(c) :
           \/ i \in 1 .. Len(r) /\ c[i] = r[i]
           \/ i - Len(r) \in 1 .. Len(t) /\ c[i] = t[i - Len(r)]
  <2>1. Len(r) \in Nat /\ Len(t) \in Nat
    BY Lengths DEF Body, Program
  <2> QED
    BY <2>1, Joined DEF Body, Program
<1> HIDE DEF c
<1>2. \A i \in 1 .. Len(c) : Typed(c[i]) \/ IsCall(c[i])
  BY <1>1 DEF Body, Program
<1>3. ASSUME NEW i \in 1 .. Len(c), NEW j \in 1 .. Len(c), i < j, IsCall(c[i])
      PROVE  IsCall(c[j])
  <2>1. i - Len(r) \in 1 .. Len(t) /\ c[i] = t[i - Len(r)]
    <3>1. ~ (i \in 1 .. Len(r) /\ c[i] = r[i])
      BY <1>3, CallWrites DEF Body
    <3> QED
      BY <3>1, <1>1
  <2>2. j - Len(r) \in 1 .. Len(t) /\ c[j] = t[j - Len(r)] /\ i - Len(r) < j - Len(r)
    BY <2>1, <1>1, <1>3
  <2> QED
    BY <2>1, <2>2, <1>3 DEF Program
<1> QED
  BY <1>1, <1>2, <1>3 DEF Program, c

(* Calls behind a program. *)
LEMMA ProgramCalls ==
  ASSUME NEW r, Program(r), NEW t, Calls(t)
  PROVE  Program(r \o t)
<1> DEFINE c == r \o t
<1>1. /\ IsSeq(c) /\ Len(c) = Len(r) + Len(t) /\ Len(r) \in Nat /\ Len(t) \in Nat
      /\ \A i \in 1 .. Len(c) :
           \/ i \in 1 .. Len(r) /\ c[i] = r[i]
           \/ i - Len(r) \in 1 .. Len(t) /\ c[i] = t[i - Len(r)]
  <2>1. Len(r) \in Nat /\ Len(t) \in Nat
    BY Lengths DEF Calls, Program
  <2> QED
    BY <2>1, Joined DEF Calls, Program
<1> HIDE DEF c
<1>2. \A i \in 1 .. Len(c) : Typed(c[i]) \/ IsCall(c[i])
  BY <1>1 DEF Calls, Program
<1>3. ASSUME NEW i \in 1 .. Len(c), NEW j \in 1 .. Len(c), i < j, IsCall(c[i])
      PROVE  IsCall(c[j])
  <2>1. CASE j - Len(r) \in 1 .. Len(t) /\ c[j] = t[j - Len(r)]
    BY <2>1 DEF Calls
  <2>2. CASE j \in 1 .. Len(r) /\ c[j] = r[j]
    <3>1. i \in 1 .. Len(r) /\ c[i] = r[i]
      BY <2>2, <1>1, <1>3
    <3> QED
      BY <3>1, <2>2, <1>3 DEF Program
  <2> QED
    BY <2>1, <2>2, <1>1
<1> QED
  BY <1>1, <1>2, <1>3 DEF Program, c

(* A routine alone, calls alone, one call. *)
LEMMA SimplePrograms ==
  /\ \A r : Body(r) => Program(r)
  /\ \A c : Calls(c) => Program(c)
  /\ \A f \in Parts : Program(<<Call(f)>>)
  BY Literals, CallWrites DEF Body, Calls, Program, IsCall

(* A program goes on as a program; behind its first call are only calls. *)
LEMMA ProgramRest ==
  ASSUME NEW c, Program(c), c # << >>
  PROVE  /\ Program(Tail(c)) /\ Head(c) = c[1]
         /\ IsCall(c[1]) => Calls(Tail(c))
         /\ ~ IsCall(c[1]) => Typed(c[1])
<1>1. /\ IsSeq(Tail(c)) /\ Len(c) \in Nat /\ Len(c) >= 1
      /\ Head(c) = c[1] /\ Len(Tail(c)) = Len(c) - 1
      /\ \A i \in 1 .. Len(c) - 1 : Tail(c)[i] = c[i + 1]
  BY Rest DEF Program
<1>2. \A i \in 1 .. Len(c) - 1 : i + 1 \in 1 .. Len(c) /\ 1 \in 1 .. Len(c) /\ 1 < i + 1
  BY <1>1
<1>3. \A i, j \in 1 .. Len(c) - 1 : i < j => i + 1 < j + 1
  BY <1>1
<1>4. Program(Tail(c))
  BY <1>1, <1>2, <1>3 DEF Program
<1>5. IsCall(c[1]) => Calls(Tail(c))
  BY <1>1, <1>2 DEF Program, Calls
<1>6. ~ IsCall(c[1]) => Typed(c[1])
  BY <1>1 DEF Program
<1> QED
  BY <1>1, <1>4, <1>5, <1>6

-----------------------------------------------------------------------------
(* The routines give fields values of their types. *)

(* The pump. *)
LEMMA BodySetPWM ==
  ASSUME NEW on \in BOOLEAN
  PROVE  Body(NIBP_SetPWM(on))
<1>1. (~ on) \in BOOLEAN
  OBVIOUS
<1> QED
  BY <1>1, TypedOne, BodyLiterals DEF NIBP_SetPWM

(* The valves. *)
LEMMA BodySetPressRelease ==
  ASSUME NEW mode
  PROVE  Body(NIBP_SetPressRelease(mode))
<1>1. /\ (IF mode = "HOLD" THEN "HIGH" ELSE "LOW") \in {"LOW", "HIGH"}
      /\ (IF mode = "FAST" THEN "LOW" ELSE "HIGH") \in {"LOW", "HIGH"}
  OBVIOUS
<1> QED
  BY <1>1, TypedOne, BodyLiterals DEF NIBP_SetPressRelease

(* What starts a measurement. *)
LEMMA BodyStarts ==
  Body(nibp_algorithm_start) /\ Body(NIBP_startPumpCtrl) /\ Body(NIBP_SampleOneTimeByDebug)
<1>1. Body(nibp_algorithm_start)
  BY TypedOne, TypedMany, BodyLiterals DEF nibp_algorithm_start
<1>3. Body(NIBP_startPumpCtrl)
  BY <1>1, BodySetPressRelease, BodySetPWM, BodyJoined DEF NIBP_startPumpCtrl
<1>4. Body(<< [NIBP_Status |-> TRUE],
              [isRisingStateRele |-> FALSE, u8RisingStepCount |-> 0,
               isFisrtRisingStep |-> TRUE, weakOut |-> FALSE],
              [forceOut |-> FALSE] >>)
  BY TypedOne, TypedMany, BodyLiterals
<1>5. Body(NIBP_SampleOneTimeByDebug)
  BY <1>3, <1>4, BodyJoined DEF NIBP_SampleOneTimeByDebug
<1> QED
  BY <1>1, <1>3, <1>5

(* What stops the pump or the measurement. *)
LEMMA BodyStops ==
  Body(NIBP_ForceStop) /\ Body(nibp_debug_stop_pwm) /\ Body(StopForDeflation)
<1>1. Body(<< [curWorkMode |-> "MANUAL"], [NIBP_Status |-> FALSE],
              [bIsPumpStop |-> FALSE], [algo_state |-> "IDLE"] >>)
  BY TypedOne, BodyLiterals DEF WorkMode
<1>2. Body(<< [bIsPumpStop |-> TRUE] >>) /\ Body(<< [bIsPumpStop |-> FALSE] >>)
  BY TypedOne, BodyLiterals
<1>3. Body(NIBP_SetPWM(FALSE)) /\ Body(NIBP_SetPressRelease("FAST"))
      /\ Body(NIBP_SetPressRelease("HOLD"))
  BY BodySetPWM, BodySetPressRelease
<1> QED
  BY <1>1, <1>2, <1>3, BodyJoined DEF NIBP_ForceStop, nibp_debug_stop_pwm, StopForDeflation

(* The pump started again, with a measurement if none runs. *)
LEMMA BodyStart ==
  ASSUME NEW s
  PROVE  Body(nibp_debug_start_pwm(s))
<1>1. Body(<< [bIsPumpStop |-> FALSE] >>)
  BY TypedOne, BodyLiterals
<1> QED
  BY <1>1, BodySetPWM, BodyStarts, BodyJoined DEF nibp_debug_start_pwm

(* Nothing, or the stop of a measurement without a pulse. *)
LEMMA BodyRefresh ==
  ASSUME NEW s, NEW in
  PROVE  Body(NIBP_refreshSlowReleHoldTime(s, in))
  BY BodyStops, BodyLiterals DEF NIBP_refreshSlowReleHoldTime

(* The interrupt leads from states to states, part by part ... *)
LEMMA StagesTyped ==
  ASSUME NEW t, IsState(t), NEW in
  PROVE  /\ IsState(Tagged(t)) /\ IsState(RisingReached(t, in))
         /\ IsState(RisingNextStep(t, in)) /\ IsState(RisingRelease(t, in))
         /\ IsState(RisingDone(t, in))
<1>1. IsState(Tagged(t))
  <2>1. IsState([stepData |-> "complete"] @@ t)
    BY TypedOne, TypedPut
  <2> QED
    BY <2>1 DEF Tagged
<1>2. IsState(RisingReached(t, in))
  <2> DEFINE stopped == After(t, nibp_debug_stop_pwm)
             held == [isFisrtRisingStep |-> FALSE, holdOut |-> FALSE] @@ stopped
  <2>1. IsState(stopped)
    BY BodyStops, TypedAfter
  <2>2. IsState(held)
    BY <2>1, TypedMany, TypedPut
  <2>3. IsState(After(held, NIBP_ForceStop))
    BY <2>2, BodyStops, TypedAfter
  <2>4. IsState(After(stopped, NIBP_refreshSlowReleHoldTime(stopped, in)))
    BY <2>1, BodyRefresh, TypedAfter
  <2>5. IsState([holdOut |-> FALSE, stepData |-> "sampling"]
                  @@ After(stopped, NIBP_refreshSlowReleHoldTime(stopped, in)))
    BY <2>4, TypedMany, TypedPut
  <2> HIDE DEF stopped
  <2> QED
    BY <2>2, <2>3, <2>5 DEF RisingReached, stopped
<1>3. IsState(RisingNextStep(t, in))
  <2> DEFINE u == [risingResult |-> "old"] @@ t
             v == IF t.u8RisingStepCount = 0 THEN [u8RisingStepCount |-> 1] @@ t
                  ELSE IF in.overMeasure THEN After(u, NIBP_ForceStop) ELSE u
  <2>1. IsState(u) /\ IsState([u8RisingStepCount |-> 1] @@ t)
    BY TypedOne, TypedPut
  <2>2. IsState(After(u, NIBP_ForceStop))
    BY <2>1, BodyStops, TypedAfter
  <2>3. IsState(v)
    BY <2>1, <2>2
  <2> HIDE DEF v
  <2>4. IsState([isRisingStateRele |-> TRUE] @@ v)
    BY <2>3, TypedOne, TypedPut
  <2>5. IsState(After(v, nibp_debug_start_pwm(v)))
    BY <2>3, BodyStart, TypedAfter
  <2> QED
    BY <2>4, <2>5 DEF RisingNextStep, v
<1>4. IsState(RisingRelease(t, in))
  <2> DEFINE held == After(t, NIBP_SetPressRelease("HOLD"))
  <2>1. IsState(After(t, NIBP_SetPressRelease("SLOW"))) /\ IsState(held)
    BY BodySetPressRelease, TypedAfter
  <2>2. IsState(After(held, NIBP_refreshSlowReleHoldTime(held, in)))
    BY <2>1, BodyRefresh, TypedAfter
  <2>3. IsState([holdOut |-> FALSE, isRisingStateRele |-> FALSE, stepData |-> "sampling"]
                  @@ After(held, NIBP_refreshSlowReleHoldTime(held, in)))
    BY <2>2, TypedMany, TypedPut
  <2>4. t.isRisingStateRele \in BOOLEAN
    BY StateFields
  <2> QED
    BY <2>1, <2>3, <2>4 DEF RisingRelease
<1>5. IsState(RisingDone(t, in))
  <2> DEFINE falling == [algo_state |-> "FALLING", bIsCalculateDrop |-> FALSE] @@ t
             u == After(falling, NIBP_refreshSlowReleHoldTime(falling, in))
  <2>1. IsState(falling)
    BY TypedMany, TypedPut
  <2>2. IsState(u)
    BY <2>1, BodyRefresh, TypedAfter
  <2>3. Steps \in 0 .. Steps
    BY NibpAssumption
  <2>4. IsState([slowRele |-> Steps] @@ u)
    BY <2>2, <2>3, TypedOne, TypedPut
  <2>5. IsState(After([slowRele |-> Steps] @@ u, StopForDeflation))
    BY <2>4, BodyStops, TypedAfter
  <2> QED
    BY <2>5 DEF RisingDone
<1> QED
  BY <1>1, <1>2, <1>3, <1>4, <1>5

(* ... and as a whole. *)
LEMMA InterruptTyped ==
  ASSUME NEW s, IsState(s), NEW in
  PROVE  IsState(NIBP_StartSample(s, in))
<1>1. IsState(NIBP_RisingCtrl(s, in))
  BY StagesTyped DEF NIBP_RisingCtrl
<1>2. IsState(VenipunctureCtrl(s, in))
  <2>1. Body(<< [gas_leak_tick |-> "armed"] >>)
    BY TypedOne, BodyLiterals
  <2> QED
    BY <2>1, BodySetPWM, BodyJoined, TypedAfter DEF VenipunctureCtrl
<1>3. IsState(After(NIBP_RisingCtrl(s, in), NIBP_ForceStop))
  BY <1>1, BodyStops, TypedAfter
<1> QED
  BY <1>1, <1>2, <1>3 DEF NIBP_StartSample

(* The parts of NIBP_Handler. *)
LEMMA BodyHandlers ==
  ASSUME NEW s, IsState(s), NEW in
  PROVE  /\ Body(NIBP_SampleAutoTest(s)) /\ Body(NIBP_ContinueModeHandle(s))
         /\ Body(GasLeakHandle(s)) /\ Body(NIBP_AutoPressReleHanlder(s, in))
         /\ Body(NIBP_ForceFastRelease(s)) /\ Body(OversleeveHandle(s, in))
<1>1. /\ s.backup_mode \in WorkMode /\ s.SlowReleTimeStauts \in BOOLEAN
      /\ s.holdOut \in BOOLEAN /\ s.slowRele \in 0 .. Steps
      /\ s.slowReleCount \in 0 .. TEST_SLOW_RELE_COUNT
      /\ s.stepData \in {"none", "sampling", "complete"}
  BY StateFields
<1>2. Steps \in Nat /\ TEST_SLOW_RELE_COUNT \in Nat
  BY NibpAssumption
<1>3. Body(NIBP_SampleAutoTest(s))
  <2>1. Body(<< [autoOut |-> FALSE] >>)
    BY TypedOne, BodyLiterals
  <2> QED
    BY <2>1, BodyLiterals, BodyStarts, BodyJoined DEF NIBP_SampleAutoTest
<1>4. Body(NIBP_ContinueModeHandle(s))
  <2>1. Body(<< [curWorkMode |-> s.backup_mode] >>)
    BY <1>1, TypedOne, BodyLiterals
  <2> QED
    BY <2>1, BodyLiterals, BodyStarts DEF NIBP_ContinueModeHandle
<1>5. Body(GasLeakHandle(s))
  <2>1. /\ Body(<< [bIsPumpStop |-> FALSE] >>)
        /\ Body(<< [is_gas_leak_test |-> FALSE], [curWorkMode |-> s.backup_mode] >>)
    BY <1>1, TypedOne, BodyLiterals
  <2> QED
    BY <2>1, BodyLiterals, BodySetPressRelease, BodyJoined DEF GasLeakHandle
<1>6. Body(NIBP_AutoPressReleHanlder(s, in))
  <2>1. CASE ~ s.SlowReleTimeStauts
    <3> DEFINE n == IF s.slowRele = 0 THEN 0 ELSE s.slowRele - 1
    <3>1. n \in 0 .. Steps
      BY <1>1, <1>2
    <3> HIDE DEF n
    <3>2. Body(<< [holdOut |-> FALSE, stepData |-> "sampling"], [SlowReleTimeStauts |-> TRUE],
                  [slowRele |-> n] >>)
      BY <3>1, TypedOne, TypedMany, BodyLiterals
    <3> QED
      BY <2>1, <3>2, BodyRefresh, BodyJoined DEF NIBP_AutoPressReleHanlder, n
  <2>2. CASE s.SlowReleTimeStauts /\ ~ s.holdOut
    BY <2>2, BodyLiterals DEF NIBP_AutoPressReleHanlder
  <2>3. CASE s.SlowReleTimeStauts /\ s.holdOut
    <3> DEFINE count == IF in.above THEN s.slowReleCount ELSE s.slowReleCount + 1
               d == IF s.stepData = "none" THEN "none" ELSE "complete"
    <3>1. count \in Nat /\ (~ StairDone(count) => count \in 0 .. TEST_SLOW_RELE_COUNT)
      BY <1>1, <1>2 DEF StairDone
    <3>2. d \in {"none", "sampling", "complete"}
      OBVIOUS
    <3> HIDE DEF count, d
    <3>3. Body(<< [stepData |-> d] >> \o NIBP_SetPressRelease("SLOW"))
      BY <3>2, TypedOne, BodyLiterals, BodySetPressRelease, BodyJoined
    <3>4. Body(<< [NIBP_Status |-> FALSE], [SlowReleTimeStauts |-> FALSE] >>
                 \o NIBP_SetPressRelease("FAST"))
      BY TypedOne, BodyLiterals, BodySetPressRelease, BodyJoined
    <3>5. 0 \in 0 .. TEST_SLOW_RELE_COUNT
      BY <1>2
    <3>6. Body(<< [slowReleCount |-> 0] >> \o NIBP_SetPressRelease("HOLD")
                 \o << [SlowReleTimeStauts |-> FALSE] >>)
      BY <3>5, TypedOne, BodyLiterals, BodySetPressRelease, BodyJoined
    <3>7. ~ StairDone(count) => Body(<< [slowReleCount |-> count] >>)
      BY <3>1, TypedOne, BodyLiterals
    <3> DEFINE left == StairsLeft(s, in)
               q == IF s.bIsCalculateDrop
                    THEN << [bIsCalculateDrop |-> FALSE], [slowRele |-> left] >> ELSE << >>
               r == IF left > 0
                    THEN << [stepData |-> d] >> \o NIBP_SetPressRelease("SLOW")
                    ELSE << [NIBP_Status |-> FALSE], [SlowReleTimeStauts |-> FALSE] >>
                           \o NIBP_SetPressRelease("FAST")
               t == IF StairDone(count)
                    THEN << [slowReleCount |-> 0] >> \o NIBP_SetPressRelease("HOLD")
                           \o << [SlowReleTimeStauts |-> FALSE] >>
                    ELSE << [slowReleCount |-> count] >>
    <3>10. left \in 0 .. Steps
      BY <1>1, <1>2 DEF StairsLeft
    <3>8. Body(q) /\ Body(r) /\ Body(t)
      <4>1. Body(<< [bIsCalculateDrop |-> FALSE], [slowRele |-> left] >>)
        BY <3>10, TypedOne, BodyLiterals
      <4> QED
        BY <4>1, <3>3, <3>4, <3>6, <3>7, BodyLiterals
    <3>9. NIBP_AutoPressReleHanlder(s, in) = q \o r \o t
      BY <2>3 DEF NIBP_AutoPressReleHanlder, count, d
    <3> QED
      BY <3>8, <3>9, BodyJoined
  <2> QED
    BY <2>1, <2>2, <2>3, <1>1
<1>7. Body(NIBP_ForceFastRelease(s))
  <2>1. /\ Body(<< [NIBP_Status |-> FALSE], [bIsPumpStop |-> FALSE], [algo_state |-> "IDLE"] >>)
        /\ Body(<< [contNextOut |-> FALSE] >>)
    BY TypedOne, BodyLiterals
  <2>2. Body(IF s.curWorkMode = "CONTINUED" THEN << [contNextOut |-> FALSE] >> ELSE << >>)
    BY <2>1, BodyLiterals
  <2> QED
    BY <2>1, <2>2, BodySetPWM, BodySetPressRelease, BodyJoined DEF NIBP_ForceFastRelease
<1>8. Body(OversleeveHandle(s, in))
  BY BodyStops, BodyLiterals DEF OversleeveHandle
<1> QED
  BY <1>3, <1>4, <1>5, <1>6, <1>7, <1>8

(* Each part of NIBP_Handler is a program for the main loop ... *)
LEMMA HandlerProgram ==
  ASSUME NEW s, IsState(s), NEW in, NEW f \in Parts, f \notin {"uart", "algorithm"}
  PROVE  Program(HandlerPart(f, s, in))
<1>1. /\ Body(NIBP_SampleAutoTest(s)) /\ Body(NIBP_ContinueModeHandle(s))
      /\ Body(GasLeakHandle(s)) /\ Body(NIBP_AutoPressReleHanlder(s, in))
      /\ Body(NIBP_ForceFastRelease(s)) /\ Body(OversleeveHandle(s, in))
      /\ Body(<< >>) /\ Body(NIBP_ForceStop)
  BY BodyHandlers, BodyLiterals, BodyStops
<1>2. CASE f = "measuring"
  <2>1. Program(<< Call("protect") >>)
    BY SimplePrograms DEF Parts
  <2>2. Body(IF s.algo_state = "FALLING" THEN NIBP_AutoPressReleHanlder(s, in) ELSE << >>)
    BY <1>1
  <2> QED
    BY <1>1, <1>2, <2>1, <2>2, SimplePrograms, BodyProgram DEF HandlerPart
<1>3. CASE f # "measuring"
  <2>1. Body(HandlerPart(f, s, in))
    BY <1>1, <1>3 DEF HandlerPart, Parts
  <2> QED
    BY <2>1, SimplePrograms
<1> QED
  BY <1>2, <1>3

(* An assignment and a call, which ends NIBP_SetCycle. *)
LEMMA LastCall ==
  ASSUME NEW a, Typed(a), NEW b, IsCall(b)
  PROVE  Program(<<a, b>>)
<1>1. ~ IsCall(a)
  BY CallWrites
<1>2. IsSeq(<<a, b>>) /\ Len(<<a, b>>) = 2
  BY Literals
<1>3. <<a, b>>[1] = a /\ <<a, b>>[2] = b
  OBVIOUS
<1>4. \A i \in 1 .. 2 : i = 1 \/ i = 2
  OBVIOUS
<1> QED
  BY <1>1, <1>2, <1>3, <1>4 DEF Program

(* ... and so is the handler of each command. *)
LEMMA CommandProgram ==
  ASSUME NEW s, IsState(s), NEW cmd \in AllCommands
  PROVE  Program(onMessageHandler(cmd, s))
<1>1. /\ s.curWorkMode \in WorkMode /\ s.backup_mode \in WorkMode
      /\ s.curCycler \in {"MANUAL", "AUTO", "UNKNOWN"}
  BY StateFields
<1>2. ASSUME NEW cycler \in {"MANUAL", "AUTO", "UNKNOWN"}
      PROVE  Program(NIBP_SetCycle(cycler))
  <2>1. Body(CycleMode(cycler))
    BY TypedOne, BodyLiterals DEF CycleMode, WorkMode
  <2>2. Body(<< [curCycler |-> cycler], [NIBP_Status |-> FALSE],
                [SlowReleTimeStauts |-> FALSE] >>)
    BY TypedOne, BodyLiterals
  <2>3. Program(<< [autoOut |-> TRUE], Call("SampleAutoTest") >>)
    <3>1. Typed([autoOut |-> TRUE]) /\ IsCall(Call("SampleAutoTest"))
      BY TypedOne DEF IsCall, Parts
    <3> QED
      BY <3>1, LastCall
  <2>4. Program(IF cycler = "MANUAL" THEN << >>
                ELSE << [autoOut |-> TRUE], Call("SampleAutoTest") >>)
    BY <2>3, BodyLiterals, SimplePrograms
  <2> QED
    BY <2>1, <2>2, <2>4, BodySetPressRelease, BodyJoined, BodyProgram DEF NIBP_SetCycle
<1>3. Body(NIBP_SampleOneTime(s))
  <2>1. Body(<< [curWorkMode |-> "MANUAL"] >>) /\ Body(<< [bIsPumpStop |-> FALSE] >>)
    BY TypedOne, BodyLiterals DEF WorkMode
  <2>2. Body(IF s.NIBP_Status THEN NIBP_SetPWM(TRUE) ELSE NIBP_SampleOneTimeByDebug)
    BY BodySetPWM, BodyStarts
  <2> QED
    BY <2>1, <2>2, BodyJoined DEF NIBP_SampleOneTime
<1>4. Body(NIBP_setVenipuncture(s))
  <2>1. Body(<< [u8Venipuncture |-> "chosen"], [backup_mode |-> s.curWorkMode],
                [curWorkMode |-> "VENIPUNCTURE"], [NIBP_Status |-> FALSE] >>)
    BY <1>1, TypedOne, BodyLiterals DEF WorkMode
  <2> QED
    BY <2>1, BodyStarts, BodyJoined DEF NIBP_setVenipuncture
<1>5. Body(venipunctureStop(s))
  <2>1. Body(<< [bIsPumpStop |-> FALSE] >>) /\ Body(<< [curWorkMode |-> s.backup_mode] >>)
    BY <1>1, TypedOne, BodyLiterals
  <2> QED
    BY <2>1, BodySetPressRelease, BodyJoined DEF venipunctureStop
<1>6. Body(NIBP_setContinueMode(s))
  <2>1. Body(<< [backup_mode |-> s.curWorkMode], [curWorkMode |-> "CONTINUED"],
                [contTestOut |-> FALSE] >>)
    BY <1>1, TypedOne, BodyLiterals DEF WorkMode
  <2> QED
    BY <2>1, BodyStarts, BodyJoined DEF NIBP_setContinueMode
<1>7. Body(NIBP_setGasLeakTest(s))
  <2>1. Body(<< [is_gas_leak_test |-> TRUE], [u8Venipuncture |-> "180"],
                [backup_mode |-> s.curWorkMode], [curWorkMode |-> "VENIPUNCTURE"],
                [gas_leak_tick |-> "off"], [NIBP_Status |-> FALSE] >>)
    BY <1>1, TypedOne, BodyLiterals DEF WorkMode
  <2> QED
    BY <2>1, BodyStarts, BodyJoined DEF NIBP_setGasLeakTest
<1>8. Body(nibp_staticPressureOn(s))
  <2>1. /\ Body(<< [NIBP_Status |-> FALSE], [bIsPumpStop |-> FALSE] >>)
        /\ Body(<< [backup_mode |-> s.curWorkMode], [curWorkMode |-> "VENIPUNCTURE"] >>)
    BY <1>1, TypedOne, BodyLiterals DEF WorkMode
  <2> QED
    BY <2>1, BodySetPWM, BodySetPressRelease, BodyStarts, BodyJoined DEF nibp_staticPressureOn
<1>9. Body(nibp_staticPressureOff(s))
  <2>1. Body(<< [curWorkMode |-> s.backup_mode] >>)
    BY <1>1, TypedOne, BodyLiterals
  <2> QED
    BY <2>1, BodySetPressRelease, BodyJoined DEF nibp_staticPressureOff
<1>10. Body(nibp_debug_pass_step(s))
  <2>1. Body(<< [bIsCalculateDrop |-> TRUE] >>)
    BY TypedOne, BodyLiterals
  <2> QED
    BY <2>1, BodySetPWM, BodyLiterals, BodyJoined DEF nibp_debug_pass_step
<1>11. Program(NIBP_VerifyExit(s))
  <2>1. Body(<< [verifyStauts |-> FALSE] >>)
    BY TypedOne, BodyLiterals
  <2> QED
    BY <1>1, <1>2, <2>1, BodyProgram DEF NIBP_VerifyExit
<1>12. /\ Body(<< [verifyStauts |-> TRUE] >>)
       /\ Body(<< [curWorkMode |-> "DEBUG"] >>)
       /\ Body(<< [algo_sw |-> TRUE] >>) /\ Body(<< [algo_sw |-> FALSE] >>)
  BY TypedOne, BodyLiterals DEF WorkMode
<1>13. /\ Body(<< [verifyStauts |-> TRUE] >> \o NIBP_SetPressRelease("HOLD"))
       /\ Body(<< [curWorkMode |-> "DEBUG"] >> \o NIBP_SampleOneTimeByDebug)
       /\ Body(<< [curWorkMode |-> "DEBUG"] >> \o nibp_debug_start_pwm(s))
       /\ Body(<< [algo_sw |-> TRUE] >> \o nibp_algorithm_start)
  BY <1>12, BodySetPressRelease, BodyStarts, BodyStart, BodyJoined
<1>14. Body(NIBP_ForceStop) /\ Body(nibp_debug_stop_pwm)
  BY BodyStops
<1>15. CASE cmd \in {"CYCLE_OFF", "CYCLE_ON", "CYCLE_UNKNOWN", "VERIFY_EXIT"}
  BY <1>15, <1>2, <1>11 DEF onMessageHandler
<1>16. CASE cmd \notin {"CYCLE_OFF", "CYCLE_ON", "CYCLE_UNKNOWN", "VERIFY_EXIT"}
  <2>1. Body(onMessageHandler(cmd, s))
    BY <1>3, <1>4, <1>5, <1>6, <1>7, <1>8, <1>9, <1>10, <1>12, <1>13, <1>14, <1>16
       DEF onMessageHandler, AllCommands
  <2> QED
    BY <2>1, SimplePrograms
<1> QED
  BY <1>15, <1>16

-----------------------------------------------------------------------------
(* The invariant that all the others rest on. *)

Base == IsState(g) /\ Program(code) /\ session \in Sessions

(* The start. *)
LEMMA InitBase ==
  ASSUME Init
  PROVE  Base
<1>1. IsState(g)
  <2>1. 0 \in 0 .. Steps /\ 0 \in 0 .. TEST_SLOW_RELE_COUNT
    BY NibpAssumption
  <2>2. g = [f \in Fields |-> g[f]]
    BY FieldsAre DEF Init
  <2>3. /\ g.NIBP_Status \in BOOLEAN
        /\ g.PWM_Status \in BOOLEAN
        /\ g.pump \in BOOLEAN
        /\ g.bIsPumpStop \in BOOLEAN
        /\ g.SlowReleTimeStauts \in BOOLEAN
        /\ g.isRisingStateRele \in BOOLEAN
        /\ g.isFisrtRisingStep \in BOOLEAN
        /\ g.isRisingDone \in BOOLEAN
        /\ g.isAllDone \in BOOLEAN
        /\ g.bIsCalculateDrop \in BOOLEAN
        /\ g.verifyStauts \in BOOLEAN
        /\ g.algo_sw \in BOOLEAN
        /\ g.is_gas_leak_test \in BOOLEAN
        /\ g.forceOut \in BOOLEAN
        /\ g.holdOut \in BOOLEAN
        /\ g.weakOut \in BOOLEAN
        /\ g.sleeveOut \in BOOLEAN
        /\ g.autoOut \in BOOLEAN
        /\ g.contTestOut \in BOOLEAN
        /\ g.contNextOut \in BOOLEAN
    BY DEF Init
  <2>4. /\ g.slowPin \in {"LOW", "HIGH"}
        /\ g.fastPin \in {"LOW", "HIGH"}
        /\ g.curWorkMode \in WorkMode
        /\ g.backup_mode \in WorkMode
        /\ g.curCycler \in {"MANUAL", "AUTO", "UNKNOWN"}
        /\ g.algo_state \in {"IDLE", "RISING", "FALLING"}
        /\ g.u8RisingStepCount \in {0, 1}
        /\ g.risingResult \in {"old", "new"}
        /\ g.stepData \in {"none", "sampling", "complete"}
        /\ g.slowRele \in 0 .. Steps
        /\ g.slowReleCount \in 0 .. TEST_SLOW_RELE_COUNT
        /\ g.u8Venipuncture \in {"none", "chosen", "180"}
        /\ g.gas_leak_tick \in {"off", "armed", "due"}
    BY <2>1 DEF Init, WorkMode
  <2>5. \A f \in {"NIBP_Status", "PWM_Status", "pump", "bIsPumpStop", "SlowReleTimeStauts",
                  "isRisingStateRele", "isFisrtRisingStep", "isRisingDone", "isAllDone",
                  "bIsCalculateDrop", "verifyStauts", "algo_sw", "is_gas_leak_test", "forceOut", "holdOut",
                  "weakOut", "sleeveOut", "autoOut", "contTestOut", "contNextOut"} :
          g[f] \in FieldType[f]
    BY <2>3, FieldTypes, SMTT(30)
  <2>6. \A f \in {"slowPin", "fastPin", "curWorkMode", "backup_mode", "curCycler", "algo_state",
                  "u8RisingStepCount", "risingResult", "stepData", "slowRele", "slowReleCount",
                  "u8Venipuncture", "gas_leak_tick"} :
          g[f] \in FieldType[f]
    BY <2>4, FieldTypes, ZenonT(60)
  <2>7. \A f \in Fields : g[f] \in FieldType[f]
    BY <2>5, <2>6, FieldsAre
  <2> QED
    BY <2>2, <2>7 DEF IsState, Typed, Fields
<1>2. Program(code)
  BY BodyLiterals, SimplePrograms DEF Init
<1> QED
  BY <1>1, <1>2 DEF Init, Base

(* A step of the main loop at a call finds nothing else to be executed. *)
LEMMA AtCall ==
  ASSUME Base, code # << >>, "call" \in DOMAIN Head(code)
  PROVE  /\ Calls(Tail(code)) /\ Head(code) = code[1] /\ Calls(code)
         /\ \E f \in Parts : Head(code) = Call(f) /\ Head(code).call = f
<1>1. Head(code) = code[1] /\ IsCall(code[1])
  <2>1. "call" \notin Fields
    BY FieldsAre
  <2> QED
    BY <2>1, ProgramRest DEF Base, Typed, Fields
<1>2. Calls(Tail(code))
  BY <1>1, ProgramRest DEF Base
<1>3. Calls(code)
  <2>1. IsSeq(code) /\ Len(code) \in Nat /\ Len(code) >= 1
    BY Rest DEF Base, Program
  <2>2. \A i \in 1 .. Len(code) : i = 1 \/ 1 < i
    BY <2>1
  <2> QED
    BY <1>1, <2>1, <2>2 DEF Calls, Base, Program
<1>4. \E f \in Parts : Head(code) = Call(f) /\ Head(code).call = f
  BY <1>1 DEF IsCall, Call
<1> QED
  BY <1>1, <1>2, <1>3, <1>4

(* A pass of the main loop begins with calls only. *)
LEMMA PassProgram ==
  Calls(NIBP_Handler \o << Call("uart"), Call("algorithm") >>)
<1>1. \A f \in Parts : IsCall(Call(f))
  BY DEF IsCall
<1>2. Calls(NIBP_Handler) /\ Calls(<< Call("uart"), Call("algorithm") >>)
  BY <1>1, Literals DEF Calls, NIBP_Handler, Parts
<1> QED
  BY <1>2, Joined DEF Calls

(* The flags of the timers. *)
Timers ==
  {"forceOut", "holdOut", "weakOut", "sleeveOut", "autoOut", "contTestOut", "contNextOut"}

(* What the algorithm reports. *)
Reports == {"stepData", "risingResult", "isRisingDone", "isAllDone"}

(* The five kinds of steps that do not execute an assignment or a routine. *)
LEMMA QuietSteps ==
  ASSUME Base, Timeout \/ GasTimeout \/ nibp_algorithm_handler
  PROVE  /\ IsState(g)' /\ session' = session
         /\ \A f \in Fields \ (Timers \cup Reports \cup {"gas_leak_tick"}) : g'[f] = g[f]
         /\ Calls(code) /\ Calls(code)' /\ (code' = code \/ code' = Tail(code))
         /\ code = << >> \/ \A f \in Timers : g'[f] = g[f]
<1>1. DOMAIN g = Fields /\ IsState(g)
  BY DEF Base, IsState
<1>2. ASSUME NEW t \in Timers, NEW waited, Expire(t, waited)
      PROVE  /\ IsState(g)' /\ session' = session /\ code = << >> /\ code' = code
             /\ \A f \in Fields \ Timers : g'[f] = g[f]
  <2>1. t \in Fields /\ TRUE \in FieldType[t]
    BY FieldsAre, FieldTypes DEF Timers
  <2> QED
    BY <1>1, <1>2, <2>1 DEF Expire, IsState, Typed, Fields
<1>3. ASSUME NEW a, Typed(a), DOMAIN a \subseteq Reports \cup {"gas_leak_tick"}, g' = a @@ g
      PROVE  /\ IsState(g)'
             /\ \A f \in Fields \ (Reports \cup {"gas_leak_tick"}) : g'[f] = g[f]
  <2>1. IsState(a @@ g)
    BY <1>1, <1>3, TypedPut
  <2> QED
    BY <1>1, <1>3, <2>1 DEF @@
<1>4. code = << >> => Calls(code)
  BY Literals DEF Calls
<1>5. Timers \cap (Reports \cup {"gas_leak_tick"}) = {} /\ Timers \subseteq Fields
  BY FieldsAre DEF Timers, Reports
<1>6. CASE Timeout
  <2>1. PICK t \in Timers, waited \in {TRUE, FALSE} : Expire(t, waited)
    BY <1>6 DEF Timeout, Timers, Expire
  <2> QED
    BY <2>1, <1>2, <1>4
<1>7. CASE GasTimeout
  <2>1. Typed([gas_leak_tick |-> "due"])
    BY TypedOne
  <2> QED
    BY <1>7, <2>1, <1>3, <1>4, <1>5 DEF GasTimeout
<1>8. CASE nibp_algorithm_handler
  <2>1. Calls(code) /\ Calls(Tail(code)) /\ code' = Tail(code) /\ session' = session
    <3>1. "call" \in DOMAIN Head(code) /\ code # << >>
      BY <1>8 DEF nibp_algorithm_handler, Call
    <3> QED
      BY <1>8, <3>1, AtCall DEF nibp_algorithm_handler
  <2>2. IsState(g)' /\ \A f \in Fields \ (Reports \cup {"gas_leak_tick"}) : g'[f] = g[f]
    <3>1. CASE g' = g
      BY <3>1, <1>1 DEF IsState
    <3>2. CASE g' = [stepData |-> "none"] @@ g
      <4>1. Typed([stepData |-> "none"]) /\ DOMAIN [stepData |-> "none"] \subseteq Reports
        BY TypedOne DEF Reports
      <4> QED
        BY <3>2, <4>1, <1>3
    <3>3. CASE g' = [stepData |-> "none", risingResult |-> "new"] @@ g
      <4>1. /\ Typed([stepData |-> "none", risingResult |-> "new"])
            /\ DOMAIN [stepData |-> "none", risingResult |-> "new"] \subseteq Reports
        BY TypedMany DEF Reports
      <4> QED
        BY <3>3, <4>1, <1>3
    <3>4. CASE g' = [stepData |-> "none", isRisingDone |-> TRUE] @@ g
      <4>1. /\ Typed([stepData |-> "none", isRisingDone |-> TRUE])
            /\ DOMAIN [stepData |-> "none", isRisingDone |-> TRUE] \subseteq Reports
        BY TypedMany DEF Reports
      <4> QED
        BY <3>4, <4>1, <1>3
    <3>5. CASE g' = [stepData |-> "none", isAllDone |-> TRUE] @@ g
      <4>1. /\ Typed([stepData |-> "none", isAllDone |-> TRUE])
            /\ DOMAIN [stepData |-> "none", isAllDone |-> TRUE] \subseteq Reports
        BY TypedMany DEF Reports
      <4> QED
        BY <3>5, <4>1, <1>3
    <3> QED
      BY <1>8, <3>1, <3>2, <3>3, <3>4, <3>5 DEF nibp_algorithm_handler
  <2> QED
    BY <2>1, <2>2, <1>5
<1> QED
  BY <1>6, <1>7, <1>8

(* A step at a call: nothing is left to be assigned, and a program is put  *)
(* in front of the other calls.                                            *)
LEMMA CallSteps ==
  ASSUME Base, MainHandler \/ Uart2MCU_RxPacketCheck
  PROVE  /\ g' = g /\ session' = session /\ code # << >> /\ Calls(code) /\ Calls(Tail(code))
         /\ \/ code' = Tail(code)
            \/ \E f \in Parts \ {"uart", "algorithm"}, in \in Input :
                 code' = HandlerPart(f, g, in) \o Tail(code)
            \/ \E cmd \in session.commands : code' = onMessageHandler(cmd, g) \o Tail(code)
<1>1. CASE MainHandler
  <2>1. PICK f \in Parts : Head(code) = Call(f) /\ Head(code).call = f
    BY <1>1, AtCall DEF MainHandler
  <2> QED
    BY <1>1, <2>1, AtCall DEF MainHandler
<1>2. CASE Uart2MCU_RxPacketCheck
  <2>1. "call" \in DOMAIN Head(code) /\ code # << >>
    BY <1>2 DEF Uart2MCU_RxPacketCheck, Call
  <2> QED
    BY <1>2, <2>1, AtCall DEF Uart2MCU_RxPacketCheck
<1> QED
  BY <1>1, <1>2

(* A session is made of known commands and known events. *)
LEMMA SessionParts ==
  ASSUME Base
  PROVE  session.commands \subseteq AllCommands /\ session.events \subseteq AllEvents
  BY NibpAssumption DEF Base

(* Every step keeps it. *)
LEMMA NextBase ==
  ASSUME Base, [Next]_vars
  PROVE  Base'
<1>1. CASE MainLoop
  BY <1>1, PassProgram, SimplePrograms DEF MainLoop, Base
<1>2. CASE MainAssign
  <2>1. Head(code) = code[1] /\ Typed(code[1]) /\ Program(Tail(code))
    BY <1>2, ProgramRest, CallWrites DEF MainAssign, Base
  <2> QED
    BY <1>2, <2>1, TypedPut DEF MainAssign, Base
<1>3. CASE MainHandler \/ Uart2MCU_RxPacketCheck
  <2>1. /\ g' = g /\ session' = session /\ Calls(Tail(code))
        /\ \/ code' = Tail(code)
           \/ \E f \in Parts \ {"uart", "algorithm"}, in \in Input :
                code' = HandlerPart(f, g, in) \o Tail(code)
           \/ \E cmd \in session.commands : code' = onMessageHandler(cmd, g) \o Tail(code)
    BY <1>3, CallSteps
  <2>2. Program(code')
    BY <2>1, HandlerProgram, CommandProgram, ProgramCalls, SimplePrograms, SessionParts DEF Base
  <2> QED
    BY <2>1, <2>2 DEF Base
<1>4. CASE IVG8_ISR
  BY <1>4, InterruptTyped DEF IVG8_ISR, Base
<1>5. CASE Timeout \/ GasTimeout \/ nibp_algorithm_handler
  BY <1>5, QuietSteps, SimplePrograms DEF Base
<1>6. CASE UNCHANGED vars
  BY <1>6 DEF Base, vars
<1> QED
  BY <1>1, <1>2, <1>3, <1>4, <1>5, <1>6 DEF Next, MainStep

(* So it holds in every reachable state. *)
LEMMA SpecBase == Spec => []Base
<1>1. Init => Base
  BY InitBase
<1>2. Base /\ [Next]_vars => Base'
  BY NextBase
<1> QED
  BY <1>1, <1>2, PTL DEF Spec

(* Every assignment the main loop has in front of it and every global has  *)
(* a value of its type, whatever the host sends and the sensors measure.   *)
THEOREM NibpTypes == Spec => []TypeOK
<1>1. Base => TypeOK
  BY DEF Base, TypeOK, IsState, Program, IsCall, Fields
<1> QED
  BY <1>1, SpecBase, PTL


-----------------------------------------------------------------------------
(* What a routine comes to: one assignment, of the last values. *)

(* The assignment b put over the assignment a. *)
Then(a, b) == [f \in DOMAIN a \cup DOMAIN b |-> IF f \in DOMAIN b THEN b[f] ELSE a[f]]

(* The routine r comes to the one assignment a. *)
Sets(r, a) == IsSeq(r) /\ \A s : After(s, r) = a @@ s

(* Two routines come to the second assignment put over the first. *)
LEMMA SetsJoined ==
  ASSUME NEW r, NEW a, Sets(r, a), NEW t, NEW b, Sets(t, b)
  PROVE  Sets(r \o t, Then(a, b))
<1>1. ASSUME NEW s
      PROVE  After(s, r \o t) = Then(a, b) @@ s
  <2>1. After(s, r \o t) = b @@ (a @@ s)
    BY AfterJoined DEF Sets
  <2> QED
    BY <2>1 DEF @@, Then
<1> QED
  BY <1>1, Joined DEF Sets

(* The routines written out assignment by assignment. *)
LEMMA SetsLiterals ==
  /\ \A a : Sets(<<a>>, a)
  /\ \A a, b : Sets(<<a, b>>, Then(a, b))
  /\ \A a, b, c : Sets(<<a, b, c>>, Then(Then(a, b), c))
  /\ \A a, b, c, d : Sets(<<a, b, c, d>>, Then(Then(Then(a, b), c), d))
<1>1. \A a, b, s : b @@ (a @@ s) = Then(a, b) @@ s
  BY DEF @@, Then
<1>2. \A a : Sets(<<a>>, a)
  BY Literals, After1 DEF Sets
<1>3. ASSUME NEW a, NEW b
      PROVE  Sets(<<a, b>>, Then(a, b))
  BY <1>1, Literals, After2 DEF Sets
<1>4. ASSUME NEW a, NEW b, NEW c
      PROVE  Sets(<<a, b, c>>, Then(Then(a, b), c))
  BY <1>1, Literals, After3 DEF Sets
<1>5. ASSUME NEW a, NEW b, NEW c, NEW d
      PROVE  Sets(<<a, b, c, d>>, Then(Then(Then(a, b), c), d))
  BY <1>1, Literals, After4 DEF Sets
<1> QED
  BY <1>2, <1>3, <1>4, <1>5

(* NIBP_SetPWM comes to one assignment of its three fields. *)
LEMMA SetsPWM ==
  ASSUME NEW on \in BOOLEAN
  PROVE  Sets(NIBP_SetPWM(on), [sleeveOut |-> ~ on, pump |-> on, PWM_Status |-> on])
<1>1. Then(Then([sleeveOut |-> ~ on], [pump |-> on]), [PWM_Status |-> on])
        = [sleeveOut |-> ~ on, pump |-> on, PWM_Status |-> on]
  BY DEF Then
<1> QED
  BY <1>1, SetsLiterals DEF NIBP_SetPWM

(* NIBP_SetPressRelease comes to one assignment of its two pins. *)
LEMMA SetsPressRelease ==
  /\ Sets(NIBP_SetPressRelease("HOLD"), [slowPin |-> "HIGH", fastPin |-> "HIGH"])
  /\ Sets(NIBP_SetPressRelease("SLOW"), [slowPin |-> "LOW", fastPin |-> "HIGH"])
  /\ Sets(NIBP_SetPressRelease("FAST"), [slowPin |-> "LOW", fastPin |-> "LOW"])
<1>1. \A v, w : Then([slowPin |-> v], [fastPin |-> w]) = [slowPin |-> v, fastPin |-> w]
  BY DEF Then
<1>2. /\ NIBP_SetPressRelease("HOLD") = << [slowPin |-> "HIGH"], [fastPin |-> "HIGH"] >>
      /\ NIBP_SetPressRelease("SLOW") = << [slowPin |-> "LOW"], [fastPin |-> "HIGH"] >>
      /\ NIBP_SetPressRelease("FAST") = << [slowPin |-> "LOW"], [fastPin |-> "LOW"] >>
  BY DEF NIBP_SetPressRelease
<1> QED
  BY <1>1, <1>2, SetsLiterals

(* The fields that the valves, a pump command, an algorithm start, a start *)
(* or a stop writes.                                                       *)
ValveFields == {"slowPin", "fastPin"}

PumpFields == {"sleeveOut", "pump", "PWM_Status"}

StartFields == {"algo_state", "isAllDone", "isRisingDone", "risingResult", "stepData"}

StopFields == {"curWorkMode", "NIBP_Status", "bIsPumpStop", "algo_state", "slowPin", "fastPin"} \cup PumpFields

MeasureFields ==
  {"NIBP_Status", "isRisingStateRele", "u8RisingStepCount", "isFisrtRisingStep",
   "weakOut", "forceOut", "slowPin", "fastPin"} \cup PumpFields \cup StartFields

(* After NIBP_ForceStop: no measurement, no pump, open valves. *)
LEMMA AfterForceStop ==
  ASSUME NEW s, DOMAIN s = Fields, NEW t, t = After(s, NIBP_ForceStop)
  PROVE  /\ t.curWorkMode = "MANUAL" /\ ~ t.NIBP_Status /\ ~ t.bIsPumpStop
         /\ t.algo_state = "IDLE" /\ ~ t.pump /\ ~ t.PWM_Status /\ t.slowPin = "LOW" /\ t.fastPin = "LOW"
         /\ \A f \in Fields \ StopFields : t[f] = s[f]
<1> DEFINE a == Then(Then(Then([curWorkMode |-> "MANUAL"], [NIBP_Status |-> FALSE]),
                          [bIsPumpStop |-> FALSE]), [algo_state |-> "IDLE"])
           b == [sleeveOut |-> TRUE, pump |-> FALSE, PWM_Status |-> FALSE]
           v == [slowPin |-> "LOW", fastPin |-> "LOW"]
           c == Then(Then(a, b), v)
<1>1. Sets(<< [curWorkMode |-> "MANUAL"], [NIBP_Status |-> FALSE],
              [bIsPumpStop |-> FALSE], [algo_state |-> "IDLE"] >>, a)
  BY SetsLiterals
<1>2. Sets(NIBP_SetPWM(FALSE), b) /\ Sets(NIBP_SetPressRelease("FAST"), v)
  BY SetsPWM, SetsPressRelease
<1>3. Sets(NIBP_ForceStop, c)
  <2> HIDE DEF a, b, v
  <2> QED
    BY <1>1, <1>2, SetsJoined DEF NIBP_ForceStop
<1>4. t = c @@ s /\ StopFields \subseteq Fields
  BY <1>3, FieldsAre DEF Sets, StopFields, PumpFields
<1> QED
  BY <1>4, SMTT(30) DEF Then, @@, StopFields, PumpFields

(* After nibp_debug_stop_pwm: no pump, and the interrupt has been told. *)
LEMMA AfterStopPwm ==
  ASSUME NEW s, DOMAIN s = Fields, NEW t, t = After(s, nibp_debug_stop_pwm)
  PROVE  /\ t.bIsPumpStop /\ ~ t.pump /\ ~ t.PWM_Status
         /\ \A f \in Fields \ ({"bIsPumpStop"} \cup PumpFields) : t[f] = s[f]
<1> DEFINE b == [sleeveOut |-> TRUE, pump |-> FALSE, PWM_Status |-> FALSE]
<1>1. Sets(<< [bIsPumpStop |-> TRUE] >>, [bIsPumpStop |-> TRUE]) /\ Sets(NIBP_SetPWM(FALSE), b)
  BY SetsPWM, SetsLiterals
<1>2. Sets(nibp_debug_stop_pwm, Then([bIsPumpStop |-> TRUE], b))
  <2> HIDE DEF b
  <2> QED
    BY <1>1, SetsJoined DEF nibp_debug_stop_pwm
<1>3. t = Then([bIsPumpStop |-> TRUE], b) @@ s /\ {"bIsPumpStop"} \cup PumpFields \subseteq Fields
  BY <1>2, FieldsAre DEF Sets, PumpFields
<1> QED
  BY <1>3 DEF Then, @@, PumpFields

(* At the beginning of the deflation: no pump, closed valves. *)
LEMMA AfterStopForDeflation ==
  ASSUME NEW s, DOMAIN s = Fields, NEW t, t = After(s, StopForDeflation)
  PROVE  /\ ~ t.bIsPumpStop /\ ~ t.pump /\ ~ t.PWM_Status /\ t.slowPin = "HIGH" /\ t.fastPin = "HIGH"
         /\ \A f \in Fields \ ({"slowPin", "fastPin", "bIsPumpStop"} \cup PumpFields) : t[f] = s[f]
<1> DEFINE b == [sleeveOut |-> TRUE, pump |-> FALSE, PWM_Status |-> FALSE]
           v == [slowPin |-> "HIGH", fastPin |-> "HIGH"]
           c == Then(Then(b, v), [bIsPumpStop |-> FALSE])
<1>1. /\ Sets(NIBP_SetPWM(FALSE), b) /\ Sets(NIBP_SetPressRelease("HOLD"), v)
      /\ Sets(<< [bIsPumpStop |-> FALSE] >>, [bIsPumpStop |-> FALSE])
  BY SetsPWM, SetsPressRelease, SetsLiterals
<1>2. Sets(StopForDeflation, c)
  <2> HIDE DEF b, v
  <2> QED
    BY <1>1, SetsJoined DEF StopForDeflation
<1>3. t = c @@ s /\ {"slowPin", "fastPin", "bIsPumpStop"} \cup PumpFields \subseteq Fields
  BY <1>2, FieldsAre DEF Sets, PumpFields
<1> QED
  BY <1>3 DEF Then, @@, PumpFields

(* NIBP_startPumpCtrl closes the valves, starts the pump and the           *)
(* algorithm ...                                                           *)
LEMMA SetsStart ==
  \E c : /\ Sets(NIBP_startPumpCtrl, c)
         /\ DOMAIN c = ValveFields \cup PumpFields \cup StartFields
         /\ c.slowPin = "HIGH" /\ c.fastPin = "HIGH" /\ c.pump /\ c.PWM_Status /\ c.algo_state = "RISING"
<1> DEFINE a == Then(Then(Then([algo_state |-> "RISING"], [isAllDone |-> FALSE]),
                          [isRisingDone |-> FALSE, risingResult |-> "old"]), [stepData |-> "none"])
           b == [sleeveOut |-> FALSE, pump |-> TRUE, PWM_Status |-> TRUE]
           v == [slowPin |-> "HIGH", fastPin |-> "HIGH"]
           c == Then(Then(v, b), a)
<1>1. Sets(nibp_algorithm_start, a)
  BY SetsLiterals DEF nibp_algorithm_start
<1>2. Sets(NIBP_SetPWM(TRUE), b) /\ Sets(NIBP_SetPressRelease("HOLD"), v)
  BY SetsPWM, SetsPressRelease
<1>3. Sets(NIBP_startPumpCtrl, c)
  <2> HIDE DEF a, b, v
  <2> QED
    BY <1>1, <1>2, SetsJoined DEF NIBP_startPumpCtrl
<1>4. DOMAIN c = ValveFields \cup PumpFields \cup StartFields
  BY DEF Then, ValveFields, PumpFields, StartFields
<1>5. c.slowPin = "HIGH" /\ c.fastPin = "HIGH" /\ c.pump /\ c.PWM_Status /\ c.algo_state = "RISING"
  BY DEF Then
<1> HIDE DEF c
<1> QED
  BY <1>3, <1>4, <1>5

(* ... and NIBP_SampleOneTimeByDebug also declares a measurement. *)
LEMMA SetsMeasure ==
  \E c : /\ Sets(NIBP_SampleOneTimeByDebug, c)
         /\ DOMAIN c = MeasureFields
         /\ c.NIBP_Status /\ c.slowPin = "HIGH" /\ c.fastPin = "HIGH" /\ c.pump /\ c.PWM_Status /\ c.algo_state = "RISING"
<1>1. PICK b : /\ Sets(NIBP_startPumpCtrl, b)
               /\ DOMAIN b = ValveFields \cup PumpFields \cup StartFields
               /\ b.slowPin = "HIGH" /\ b.fastPin = "HIGH" /\ b.pump /\ b.PWM_Status /\ b.algo_state = "RISING"
  BY SetsStart
<1> DEFINE a == Then(Then([NIBP_Status |-> TRUE],
                          [isRisingStateRele |-> FALSE, u8RisingStepCount |-> 0,
                           isFisrtRisingStep |-> TRUE, weakOut |-> FALSE]),
                     [forceOut |-> FALSE])
<1>2. Sets(<< [NIBP_Status |-> TRUE],
              [isRisingStateRele |-> FALSE, u8RisingStepCount |-> 0,
               isFisrtRisingStep |-> TRUE, weakOut |-> FALSE],
              [forceOut |-> FALSE] >>, a)
  BY SetsLiterals
<1>3. Sets(NIBP_SampleOneTimeByDebug, Then(a, b))
  <2> HIDE DEF a
  <2> QED
    BY <1>1, <1>2, SetsJoined DEF NIBP_SampleOneTimeByDebug
<1>4. DOMAIN Then(a, b) = MeasureFields
  BY <1>1 DEF Then, ValveFields, MeasureFields
<1>5. /\ Then(a, b).NIBP_Status /\ Then(a, b).slowPin = "HIGH" /\ Then(a, b).fastPin = "HIGH" /\ Then(a, b).pump
      /\ Then(a, b).PWM_Status /\ Then(a, b).algo_state = "RISING"
  BY <1>1 DEF Then, ValveFields, PumpFields, StartFields
<1> HIDE DEF a
<1> QED
  BY <1>3, <1>4, <1>5

(* After nibp_debug_start_pwm the pump runs; a measurement starts if none  *)
(* ran.                                                                    *)
LEMMA AfterStartPwm ==
  ASSUME NEW s, DOMAIN s = Fields, NEW t, t = After(s, nibp_debug_start_pwm(s))
  PROVE  /\ t.pump /\ t.PWM_Status /\ ~ t.bIsPumpStop
         /\ s.NIBP_Status => \A f \in Fields \ ({"bIsPumpStop"} \cup PumpFields) : t[f] = s[f]
         /\ ~ s.NIBP_Status => /\ t.NIBP_Status /\ t.slowPin = "HIGH" /\ t.fastPin = "HIGH" /\ t.algo_state = "RISING"
                               /\ \A f \in Fields \ ({"bIsPumpStop"} \cup MeasureFields) : t[f] = s[f]
<1>1. Sets(<< [bIsPumpStop |-> FALSE] >>, [bIsPumpStop |-> FALSE])
  BY SetsLiterals
<1>2. /\ {"bIsPumpStop", "NIBP_Status", "slowPin", "fastPin", "algo_state"} \cup PumpFields \subseteq Fields
      /\ "bIsPumpStop" \notin MeasureFields
      /\ {"NIBP_Status", "slowPin", "fastPin", "algo_state", "pump", "PWM_Status"} \subseteq MeasureFields
  BY FieldsAre DEF PumpFields, MeasureFields, StartFields
<1>3. CASE s.NIBP_Status
  <2> DEFINE b == [sleeveOut |-> FALSE, pump |-> TRUE, PWM_Status |-> TRUE]
  <2>1. Sets(NIBP_SetPWM(TRUE), b)
    BY SetsPWM
  <2>2. Sets(nibp_debug_start_pwm(s), Then(b, [bIsPumpStop |-> FALSE]))
    <3> HIDE DEF b
    <3> QED
      BY <1>1, <1>3, <2>1, SetsJoined DEF nibp_debug_start_pwm
  <2>3. t = Then(b, [bIsPumpStop |-> FALSE]) @@ s
    BY <2>2 DEF Sets
  <2>4. /\ t.pump /\ t.PWM_Status /\ ~ t.bIsPumpStop
        /\ \A f \in Fields \ ({"bIsPumpStop"} \cup PumpFields) : t[f] = s[f]
    BY <1>2, <2>3 DEF Then, @@, PumpFields
  <2> QED
    BY <1>3, <2>4
<1>4. CASE ~ s.NIBP_Status
  <2>1. PICK b : /\ Sets(NIBP_SampleOneTimeByDebug, b) /\ DOMAIN b = MeasureFields
                 /\ b.NIBP_Status /\ b.slowPin = "HIGH" /\ b.fastPin = "HIGH" /\ b.pump /\ b.PWM_Status
                 /\ b.algo_state = "RISING"
    BY SetsMeasure
  <2>2. Sets(nibp_debug_start_pwm(s), Then(b, [bIsPumpStop |-> FALSE]))
    BY <1>1, <1>4, <2>1, SetsJoined DEF nibp_debug_start_pwm
  <2>3. t = Then(b, [bIsPumpStop |-> FALSE]) @@ s
    BY <2>2 DEF Sets
  <2> DEFINE c == Then(b, [bIsPumpStop |-> FALSE])
  <2>4. /\ DOMAIN c = MeasureFields \cup {"bIsPumpStop"} /\ c["bIsPumpStop"] = FALSE
        /\ \A f \in MeasureFields : c[f] = b[f]
    BY <1>2, <2>1 DEF Then
  <2> HIDE DEF c
  <2>5. t = c @@ s
    BY <2>3 DEF c
  <2>6. \A f \in Fields : t[f] = IF f \in MeasureFields \cup {"bIsPumpStop"} THEN c[f] ELSE s[f]
    BY <2>4, <2>5 DEF @@
  <2>7. /\ t["pump"] = b["pump"] /\ t["PWM_Status"] = b["PWM_Status"]
        /\ t["NIBP_Status"] = b["NIBP_Status"] /\ t["bIsPumpStop"] = FALSE
        /\ t["slowPin"] = b["slowPin"] /\ t["fastPin"] = b["fastPin"] /\ t["algo_state"] = b["algo_state"]
    BY <1>2, <2>4, <2>6 DEF PumpFields
  <2>8. \A f \in Fields \ ({"bIsPumpStop"} \cup MeasureFields) : t[f] = s[f]
    BY <2>6
  <2> QED
    BY <1>4, <2>1, <2>7, <2>8
<1> QED
  BY <1>3, <1>4

-----------------------------------------------------------------------------
(* The interrupt.  Some globals it never touches, and the mode it only     *)
(* sets to manual.                                                         *)

Untouched ==
  {"curCycler", "backup_mode", "u8Venipuncture", "is_gas_leak_test", "verifyStauts",
   "slowReleCount", "SlowReleTimeStauts"}

(* A change from s to t that is like those of the interrupt. *)
Mild(s, t) ==
  /\ \A f \in Untouched : t[f] = s[f]
  /\ t.curWorkMode \in {s.curWorkMode, "MANUAL"}
  /\ t.bIsCalculateDrop => s.bIsCalculateDrop

(* A running pump is known to run. *)
Known(s) == s.pump => s.PWM_Status

(* Two such changes, one after the other. *)
LEMMA MildTrans ==
  ASSUME NEW s, NEW t, NEW u, Mild(s, t), Mild(t, u)
  PROVE  Mild(s, u)
  BY DEF Mild

(* The emergency stop is one. *)
LEMMA MildStop ==
  ASSUME NEW s, DOMAIN s = Fields
  PROVE  Mild(s, After(s, NIBP_ForceStop))
<1>1. Untouched \cup {"bIsCalculateDrop"} \subseteq Fields \ StopFields
  BY FieldsAre DEF Untouched, StopFields, PumpFields
<1> QED
  BY <1>1, AfterForceStop DEF Mild

(* An assignment to other fields is one. *)
LEMMA MildPut ==
  ASSUME NEW s, DOMAIN s = Fields, NEW a,
         DOMAIN a \cap (Untouched \cup {"curWorkMode"}) = {},
         "bIsCalculateDrop" \in DOMAIN a => ~ a.bIsCalculateDrop
  PROVE  Mild(s, a @@ s)
<1>1. Untouched \cup {"curWorkMode", "bIsCalculateDrop"} \subseteq Fields
  BY FieldsAre DEF Untouched
<1> QED
  BY <1>1 DEF Mild, @@

(* Without an unusual event nothing in the interrupt stops a measurement. *)
Usual(in) == ~ in.overload /\ ~ in.weak /\ ~ in.cuff /\ ~ in.overMeasure

LEMMA RefreshEffect ==
  ASSUME NEW s, IsState(s), NEW in, NEW t, t = After(s, NIBP_refreshSlowReleHoldTime(s, in))
  PROVE  t = s \/ (~ Usual(in) /\ t = After(s, NIBP_ForceStop))
  BY After0 DEF Usual, NIBP_refreshSlowReleHoldTime, IsState

(* The target is reached: the pump stops, the measurement goes on. *)
LEMMA ReachedEffect ==
  ASSUME NEW s, IsState(s), NEW in, NEW t, t = RisingReached(s, in), t # s
  PROVE  /\ Mild(s, t) /\ ~ t.holdOut /\ ~ t.pump /\ ~ t.PWM_Status
         /\ t.algo_state \in {s.algo_state, "IDLE"}
         /\ Usual(in) => t.algo_state = s.algo_state /\ t.NIBP_Status = s.NIBP_Status
<1> DEFINE stopped == After(s, nibp_debug_stop_pwm)
           held == [isFisrtRisingStep |-> FALSE, holdOut |-> FALSE] @@ stopped
           u == After(stopped, NIBP_refreshSlowReleHoldTime(stopped, in))
<1>1. /\ DOMAIN s = Fields
      /\ {"holdOut", "pump", "PWM_Status", "algo_state", "curWorkMode", "NIBP_Status"}
           \cup Untouched \subseteq Fields
  BY StateFields, FieldsAre DEF Untouched
<1>2. IsState(stopped)
  BY BodyStops, TypedAfter
<1>3. /\ Mild(s, stopped) /\ ~ stopped.pump /\ ~ stopped.PWM_Status
      /\ stopped.algo_state = s.algo_state /\ stopped.NIBP_Status = s.NIBP_Status
  <2>1. Untouched \cup {"curWorkMode", "algo_state", "NIBP_Status", "bIsCalculateDrop"}
          \subseteq Fields \ ({"bIsPumpStop"} \cup PumpFields)
    BY FieldsAre DEF Untouched, PumpFields
  <2> QED
    BY <1>1, <2>1, AfterStopPwm DEF Mild
<1> HIDE DEF stopped
<1>4. DOMAIN stopped = Fields
  BY <1>2, StateFields
<1>5. /\ Mild(s, held) /\ DOMAIN held = Fields /\ ~ held.holdOut /\ ~ held.pump
      /\ ~ held.PWM_Status /\ held.algo_state = s.algo_state /\ held.NIBP_Status = s.NIBP_Status
  <2>1. Mild(stopped, held)
    BY <1>4, MildPut DEF Untouched
  <2> QED
    BY <1>1, <1>3, <1>4, <2>1, MildTrans DEF @@
<1>6. CASE s.isFisrtRisingStep
  <2>1. CASE t = held
    BY <2>1, <1>5
  <2>2. CASE t = After(held, NIBP_ForceStop) /\ in.cuff
    <3>1. Mild(held, t) /\ ~ t.pump /\ ~ t.PWM_Status /\ t.algo_state = "IDLE"
      BY <2>2, <1>5, MildStop, AfterForceStop
    <3>2. t.holdOut = held.holdOut
      <4>1. "holdOut" \in Fields \ StopFields
        BY <1>1 DEF StopFields, PumpFields
      <4> QED
        BY <4>1, <2>2, <1>5, AfterForceStop
    <3> QED
      BY <2>2, <3>1, <3>2, <1>5, MildTrans DEF Usual
  <2> QED
    BY <1>6, <2>1, <2>2 DEF RisingReached, stopped
<1>7. CASE ~ s.isFisrtRisingStep
  <2>1. t = [holdOut |-> FALSE, stepData |-> "sampling"] @@ u
    BY <1>7 DEF RisingReached, stopped
  <2>2. /\ Mild(stopped, u) /\ DOMAIN u = Fields /\ ~ u.pump /\ ~ u.PWM_Status
        /\ u.algo_state \in {s.algo_state, "IDLE"}
        /\ Usual(in) => u.algo_state = s.algo_state /\ u.NIBP_Status = s.NIBP_Status
    <3>1. CASE u = stopped
      BY <3>1, <1>3, <1>4 DEF Mild
    <3>2. CASE u = After(stopped, NIBP_ForceStop) /\ ~ Usual(in)
      BY <3>2, <1>4, MildStop, AfterForceStop, AfterDomain
    <3> QED
      BY <3>1, <3>2, <1>2, RefreshEffect
  <2> HIDE DEF u
  <2>3. Mild(u, t)
    BY <2>1, <2>2, MildPut DEF Untouched
  <2>4. /\ ~ t.holdOut /\ t.pump = u.pump /\ t.PWM_Status = u.PWM_Status
        /\ t.algo_state = u.algo_state /\ t.NIBP_Status = u.NIBP_Status
    BY <1>1, <2>1, <2>2 DEF @@
  <2> QED
    BY <1>3, <2>2, <2>3, <2>4, MildTrans
<1> QED
  BY <1>6, <1>7

(* The hold is over: the pump starts only if it was stopped for a hold. *)
LEMMA NextStepEffect ==
  ASSUME NEW s, IsState(s), NEW in, NEW t, t = RisingNextStep(s, in), t # s
  PROVE  /\ ~ s.PWM_Status /\ s.bIsPumpStop /\ s.holdOut
         /\ Mild(s, t) /\ (Known(s) => Known(t))
         /\ t.algo_state \in {s.algo_state, "IDLE", "RISING"}
         /\ Usual(in) => /\ t.algo_state \in {s.algo_state, "RISING"}
                         /\ s.NIBP_Status => t.NIBP_Status
<1> DEFINE u == [risingResult |-> "old"] @@ s
           v == IF s.u8RisingStepCount = 0 THEN [u8RisingStepCount |-> 1] @@ s
                ELSE IF in.overMeasure THEN After(u, NIBP_ForceStop) ELSE u
<1>1. /\ DOMAIN s = Fields
      /\ {"holdOut", "pump", "PWM_Status", "algo_state", "curWorkMode", "NIBP_Status"}
           \cup Untouched \subseteq Fields
  BY StateFields, FieldsAre DEF Untouched
<1>2. ~ s.PWM_Status /\ s.bIsPumpStop /\ s.holdOut
      /\ t = IF in.above THEN [isRisingStateRele |-> TRUE] @@ v
             ELSE After(v, nibp_debug_start_pwm(v))
  BY DEF RisingNextStep
<1>3. ASSUME NEW a, DOMAIN a \cap (Untouched \cup {"curWorkMode", "pump", "PWM_Status",
                                                 "algo_state", "NIBP_Status",
                                                 "bIsCalculateDrop"}) = {},
             NEW x, DOMAIN x = Fields
      PROVE  /\ Mild(x, a @@ x) /\ DOMAIN (a @@ x) = Fields
             /\ (a @@ x).pump = x.pump /\ (a @@ x).PWM_Status = x.PWM_Status
             /\ (a @@ x).algo_state = x.algo_state /\ (a @@ x).NIBP_Status = x.NIBP_Status
  <2>1. Mild(x, a @@ x)
    BY <1>3, MildPut
  <2> QED
    BY <1>1, <1>3, <2>1 DEF @@
<1>4. /\ Mild(s, v) /\ (Known(s) => Known(v)) /\ DOMAIN v = Fields
      /\ v.algo_state \in {s.algo_state, "IDLE"}
      /\ Usual(in) => v.algo_state = s.algo_state /\ v.NIBP_Status = s.NIBP_Status
  <2>1. CASE v = [u8RisingStepCount |-> 1] @@ s
    BY <2>1, <1>1, <1>3 DEF Untouched, Known
  <2>2. /\ Mild(s, u) /\ (Known(s) => Known(u)) /\ DOMAIN u = Fields
        /\ u.algo_state = s.algo_state /\ u.NIBP_Status = s.NIBP_Status
    BY <1>1, <1>3 DEF Untouched, Known
  <2> HIDE DEF u
  <2>3. CASE v = After(u, NIBP_ForceStop) /\ in.overMeasure
    BY <2>2, <2>3, MildStop, MildTrans, AfterForceStop, AfterDomain DEF Known, Usual
  <2> QED
    BY <2>1, <2>2, <2>3
<1> HIDE DEF v
<1>5. CASE t = [isRisingStateRele |-> TRUE] @@ v
  <2>1. /\ Mild(v, t) /\ t.pump = v.pump /\ t.PWM_Status = v.PWM_Status
        /\ t.algo_state = v.algo_state /\ t.NIBP_Status = v.NIBP_Status
    BY <1>3, <1>4, <1>5 DEF Untouched
  <2> QED
    BY <1>2, <1>4, <2>1, MildTrans DEF Known
<1>6. CASE t = After(v, nibp_debug_start_pwm(v))
  <2>1. /\ t.pump /\ t.PWM_Status
        /\ v.NIBP_Status => \A f \in Fields \ ({"bIsPumpStop"} \cup PumpFields) : t[f] = v[f]
        /\ ~ v.NIBP_Status => /\ t.NIBP_Status /\ t.algo_state = "RISING"
                              /\ \A f \in Fields \ ({"bIsPumpStop"} \cup MeasureFields) : t[f] = v[f]
    BY <1>4, <1>6, AfterStartPwm
  <2>2. /\ Untouched \cup {"curWorkMode", "algo_state", "NIBP_Status", "bIsCalculateDrop"}
             \subseteq Fields \ ({"bIsPumpStop"} \cup PumpFields)
        /\ Untouched \cup {"curWorkMode", "bIsCalculateDrop"} \subseteq Fields \ ({"bIsPumpStop"} \cup MeasureFields)
    BY FieldsAre DEF Untouched, PumpFields, MeasureFields, StartFields
  <2>3. Mild(v, t)
    BY <2>1, <2>2 DEF Mild
  <2>4. t.algo_state \in {v.algo_state, "RISING"} /\ (v.NIBP_Status => t.NIBP_Status)
    BY <2>1, <2>2
  <2> QED
    BY <1>2, <1>4, <2>1, <2>3, <2>4, MildTrans DEF Known
<1> QED
  BY <1>2, <1>5, <1>6

(* The release of a pressure that is too high leaves the pump alone. *)
LEMMA ReleaseEffect ==
  ASSUME NEW s, IsState(s), NEW in, NEW t, t = RisingRelease(s, in), t # s
  PROVE  /\ Mild(s, t) /\ (Known(s) => Known(t)) /\ (t.pump => s.pump)
         /\ \/ ~ t.holdOut
            \/ \A f \in Fields \ ValveFields : t[f] = s[f]
         /\ t.algo_state \in {s.algo_state, "IDLE"}
         /\ Usual(in) => t.algo_state = s.algo_state /\ t.NIBP_Status = s.NIBP_Status
<1> DEFINE held == [slowPin |-> "HIGH", fastPin |-> "HIGH"] @@ s
           u == After(held, NIBP_refreshSlowReleHoldTime(held, in))
<1>1. /\ DOMAIN s = Fields /\ s.isRisingStateRele \in BOOLEAN
      /\ {"holdOut", "pump", "PWM_Status", "algo_state", "curWorkMode", "NIBP_Status"}
           \cup Untouched \subseteq Fields
  BY StateFields, FieldsAre DEF Untouched
<1>2. CASE t = [slowPin |-> "LOW", fastPin |-> "HIGH"] @@ s
  <2>1. Mild(s, t)
    BY <1>1, <1>2, MildPut DEF Untouched
  <2> QED
    BY <1>1, <1>2, <2>1 DEF @@, Known, ValveFields
<1>3. CASE t = [holdOut |-> FALSE, isRisingStateRele |-> FALSE, stepData |-> "sampling"] @@ u
  <2>1. IsState(held)
    BY SetsPressRelease, BodySetPressRelease, TypedAfter DEF Sets
  <2>2. /\ Mild(s, held) /\ DOMAIN held = Fields /\ held.pump = s.pump
        /\ held.PWM_Status = s.PWM_Status /\ held.algo_state = s.algo_state
        /\ held.NIBP_Status = s.NIBP_Status
    <3>1. Mild(s, held)
      BY <1>1, MildPut DEF Untouched
    <3> QED
      BY <1>1, <3>1 DEF @@
  <2> HIDE DEF held
  <2>3. /\ Mild(held, u) /\ DOMAIN u = Fields /\ (Known(s) => Known(u)) /\ (u.pump => s.pump)
        /\ u.algo_state \in {s.algo_state, "IDLE"}
        /\ Usual(in) => u.algo_state = s.algo_state /\ u.NIBP_Status = s.NIBP_Status
    <3>1. CASE u = held
      BY <3>1, <2>2 DEF Mild, Known
    <3>2. CASE u = After(held, NIBP_ForceStop) /\ ~ Usual(in)
      BY <3>2, <2>2, MildStop, AfterForceStop, AfterDomain DEF Known
    <3> QED
      BY <3>1, <3>2, <2>1, RefreshEffect
  <2> HIDE DEF u
  <2>4. Mild(u, t)
    BY <1>3, <2>3, MildPut DEF Untouched
  <2>5. /\ ~ t.holdOut /\ t.pump = u.pump /\ t.PWM_Status = u.PWM_Status
        /\ t.algo_state = u.algo_state /\ t.NIBP_Status = u.NIBP_Status
    BY <1>1, <1>3, <2>3 DEF @@
  <2> QED
    BY <2>2, <2>3, <2>4, <2>5, MildTrans DEF Known
<1>4. /\ After(s, NIBP_SetPressRelease("SLOW")) = [slowPin |-> "LOW", fastPin |-> "HIGH"] @@ s
      /\ After(s, NIBP_SetPressRelease("HOLD")) = held
  BY SetsPressRelease DEF Sets
<1> QED
  BY <1>1, <1>2, <1>3, <1>4 DEF RisingRelease

(* The inflation is done: no pump, closed valves, a full staircase. *)
LEMMA DoneEffect ==
  ASSUME NEW s, IsState(s), NEW in, NEW t, t = RisingDone(s, in), t # s
  PROVE  /\ Mild(s, t) /\ ~ t.pump /\ ~ t.PWM_Status /\ ~ t.bIsPumpStop
         /\ Usual(in) => /\ t.algo_state = "FALLING" /\ t.slowRele = Steps
                         /\ t.NIBP_Status = s.NIBP_Status
<1> DEFINE falling == [algo_state |-> "FALLING", bIsCalculateDrop |-> FALSE] @@ s
           u == After(falling, NIBP_refreshSlowReleHoldTime(falling, in))
           w == [slowRele |-> Steps] @@ u
<1>1. /\ DOMAIN s = Fields
      /\ {"slowRele", "algo_state", "curWorkMode", "NIBP_Status"} \cup Untouched \subseteq Fields
  BY StateFields, FieldsAre DEF Untouched
<1>2. IsState(falling)
  BY TypedMany, TypedPut
<1>3. /\ Mild(s, falling) /\ DOMAIN falling = Fields
      /\ falling.algo_state = "FALLING" /\ falling.NIBP_Status = s.NIBP_Status
  <2>1. Mild(s, falling)
    BY <1>1, MildPut DEF Untouched
  <2> QED
    BY <1>1, <2>1 DEF @@
<1> HIDE DEF falling
<1>4. /\ Mild(falling, u) /\ DOMAIN u = Fields
      /\ Usual(in) => u.algo_state = "FALLING" /\ u.NIBP_Status = s.NIBP_Status
  <2>1. CASE u = falling
    BY <2>1, <1>3 DEF Mild
  <2>2. CASE u = After(falling, NIBP_ForceStop) /\ ~ Usual(in)
    BY <2>2, <1>3, MildStop, AfterDomain
  <2> QED
    BY <2>1, <2>2, <1>2, RefreshEffect
<1> HIDE DEF u
<1>5. /\ Mild(u, w) /\ DOMAIN w = Fields /\ w.slowRele = Steps
      /\ w.algo_state = u.algo_state /\ w.NIBP_Status = u.NIBP_Status
  <2>1. Mild(u, w)
    BY <1>4, MildPut DEF Untouched
  <2> QED
    BY <1>1, <1>4, <2>1 DEF @@
<1> HIDE DEF w
<1>6. t = After(w, StopForDeflation)
  BY DEF RisingDone, w, u, falling
<1>7. /\ ~ t.bIsPumpStop /\ ~ t.pump /\ ~ t.PWM_Status
      /\ \A f \in Fields \ ({"slowPin", "fastPin", "bIsPumpStop"} \cup PumpFields) : t[f] = w[f]
  BY <1>5, <1>6, AfterStopForDeflation
<1>8. {"slowRele", "algo_state", "curWorkMode", "NIBP_Status", "bIsCalculateDrop"} \cup Untouched
        \subseteq Fields \ ({"slowPin", "fastPin", "bIsPumpStop"} \cup PumpFields)
  BY FieldsAre DEF Untouched, PumpFields
<1>9. Mild(w, t) /\ t.slowRele = w.slowRele /\ t.algo_state = w.algo_state
      /\ t.NIBP_Status = w.NIBP_Status
  BY <1>7, <1>8 DEF Mild
<1> QED
  BY <1>3, <1>4, <1>5, <1>7, <1>9, MildTrans

(* The pump cannot be started by the interrupt. *)
Calm(s) ==
  \/ s.algo_state # "RISING" \/ ~ s.holdOut \/ ~ s.bIsPumpStop
  \/ s.PWM_Status /\ s.curWorkMode # "VENIPUNCTURE"

(* NIBP_RisingCtrl, its four parts together. *)
LEMMA RisingEffect ==
  ASSUME NEW s, IsState(s), NEW in, NEW t, t = NIBP_RisingCtrl(s, in)
  PROVE  /\ IsState(t) /\ Mild(s, t) /\ (Known(s) => Known(t))
         /\ s.algo_state # "RISING" => t = s
         /\ s.algo_state = "RISING" /\ t.algo_state = "FALLING" => ~ t.pump
         /\ Usual(in) => /\ s.NIBP_Status => t.NIBP_Status
                         /\ s.algo_state = "RISING" =>
                              t.algo_state = "RISING" \/ (t.algo_state = "FALLING" /\ t.slowRele = Steps)
         /\ Calm(s) /\ (s.curWorkMode # "VENIPUNCTURE" \/ ~ s.PWM_Status)
              => Calm(t) /\ (t.pump => s.pump)
<1> DEFINE a == Tagged(s)
           b == RisingReached(a, in)
           c == RisingNextStep(b, in)
           d == RisingRelease(c, in)
           e == RisingDone(d, in)
<1>1. IsState(a) /\ IsState(b) /\ IsState(c) /\ IsState(d) /\ IsState(e)
  BY StagesTyped
<1>2. /\ Mild(s, a) /\ a.pump = s.pump /\ a.PWM_Status = s.PWM_Status /\ a.holdOut = s.holdOut
      /\ a.bIsPumpStop = s.bIsPumpStop /\ a.algo_state = s.algo_state
      /\ a.NIBP_Status = s.NIBP_Status /\ a.curWorkMode = s.curWorkMode
  <2>1. CASE a = s
    BY <2>1 DEF Mild
  <2>2. CASE a = [stepData |-> "complete"] @@ s
    <3>1. /\ DOMAIN s = Fields
          /\ {"pump", "PWM_Status", "holdOut", "bIsPumpStop", "algo_state", "NIBP_Status",
              "curWorkMode"} \subseteq Fields
      BY StateFields, FieldsAre
    <3>2. Mild(s, a)
      BY <2>2, <3>1, MildPut DEF Untouched
    <3> QED
      BY <2>2, <3>1, <3>2 DEF @@
  <2> QED
    BY <2>1, <2>2 DEF Tagged
<1>3. CASE s.algo_state # "RISING"
  BY <1>3 DEF NIBP_RisingCtrl, Mild, Calm
<1>4. CASE s.algo_state = "RISING"
  <2>0. t = e
    BY <1>4 DEF NIBP_RisingCtrl
  <2> HIDE DEF a
  <2>1. \/ b = a
        \/ /\ Mild(a, b) /\ ~ b.holdOut /\ ~ b.pump /\ ~ b.PWM_Status
           /\ b.algo_state \in {a.algo_state, "IDLE"}
           /\ Usual(in) => b.algo_state = a.algo_state /\ b.NIBP_Status = a.NIBP_Status
    BY <1>1, ReachedEffect
  <2> HIDE DEF b
  <2>2. \/ c = b
        \/ /\ ~ b.PWM_Status /\ b.bIsPumpStop /\ b.holdOut
           /\ Mild(b, c) /\ (Known(b) => Known(c))
           /\ c.algo_state \in {b.algo_state, "IDLE", "RISING"}
           /\ Usual(in) => /\ c.algo_state \in {b.algo_state, "RISING"}
                           /\ b.NIBP_Status => c.NIBP_Status
    BY <1>1, NextStepEffect
  <2> HIDE DEF c
  <2>3. \/ d = c
        \/ /\ Mild(c, d) /\ (Known(c) => Known(d)) /\ (d.pump => c.pump)
           /\ \/ ~ d.holdOut
              \/ \A f \in Fields \ ValveFields : d[f] = c[f]
           /\ d.algo_state \in {c.algo_state, "IDLE"}
           /\ Usual(in) => d.algo_state = c.algo_state /\ d.NIBP_Status = c.NIBP_Status
    BY <1>1, ReleaseEffect
  <2> HIDE DEF d
  <2>4. \/ e = d
        \/ /\ Mild(d, e) /\ ~ e.pump /\ ~ e.PWM_Status /\ ~ e.bIsPumpStop
           /\ Usual(in) => /\ e.algo_state = "FALLING" /\ e.slowRele = Steps
                           /\ e.NIBP_Status = d.NIBP_Status
    BY <1>1, DoneEffect
  <2> HIDE DEF e
  <2>5. Mild(s, b)
    BY <1>2, <2>1, MildTrans
  <2>6. Mild(s, c)
    BY <2>5, <2>2, MildTrans
  <2>7. Mild(s, d)
    BY <2>6, <2>3, MildTrans
  <2>8. Mild(s, e)
    BY <2>7, <2>4, MildTrans
  <2>9. Known(s) => Known(e)
    BY <1>2, <2>1, <2>2, <2>3, <2>4 DEF Known
  <2>10. d.algo_state # "FALLING"
    BY <1>2, <1>4, <2>1, <2>2, <2>3
  <2>11. e.algo_state = "FALLING" => ~ e.pump
    BY <2>4, <2>10
  <2>12. ASSUME Usual(in)
         PROVE  /\ s.NIBP_Status => e.NIBP_Status
                /\ e.algo_state = "RISING" \/ (e.algo_state = "FALLING" /\ e.slowRele = Steps)
    <3>1. b.algo_state = "RISING" /\ b.NIBP_Status = s.NIBP_Status
      BY <1>2, <1>4, <2>1, <2>12
    <3>2. c.algo_state = "RISING" /\ (s.NIBP_Status => c.NIBP_Status)
      BY <3>1, <2>2, <2>12
    <3>3. d.algo_state = "RISING" /\ (s.NIBP_Status => d.NIBP_Status)
      BY <3>2, <2>3, <2>12
    <3> QED
      BY <3>3, <2>4, <2>12
  <2>13. ASSUME Calm(s), s.curWorkMode # "VENIPUNCTURE" \/ ~ s.PWM_Status
         PROVE  Calm(e) /\ (e.pump => s.pump)
    <3>1. ~ s.holdOut \/ ~ s.bIsPumpStop \/ (s.PWM_Status /\ s.curWorkMode # "VENIPUNCTURE")
      BY <1>4, <2>13 DEF Calm
    <3>2. /\ ~ b.holdOut \/ ~ b.bIsPumpStop \/ (b.PWM_Status /\ b.curWorkMode # "VENIPUNCTURE")
          /\ b.pump => s.pump
      BY <3>1, <1>2, <2>1
    <3>3. c = b
      BY <3>2, <2>2
    <3>4. {"holdOut", "bIsPumpStop", "PWM_Status", "curWorkMode", "pump"}
            \subseteq Fields \ ValveFields
      BY FieldsAre DEF ValveFields
    <3>5. /\ ~ d.holdOut \/ ~ d.bIsPumpStop \/ (d.PWM_Status /\ d.curWorkMode # "VENIPUNCTURE")
          /\ d.pump => s.pump
      BY <3>2, <3>3, <3>4, <2>3
    <3> QED
      BY <3>5, <2>4 DEF Calm
  <2> QED
    BY <1>1, <1>4, <2>0, <2>8, <2>9, <2>11, <2>12, <2>13
<1> QED
  BY <1>3, <1>4

(* The state of the measurement and its valves. *)
CuffFields == {"NIBP_Status", "algo_state", "slowPin", "fastPin", "slowRele"}

(* What the interrupt may do to the globals. *)
LEMMA InterruptEffect ==
  ASSUME NEW s, IsState(s), NEW in, NEW t, t = NIBP_StartSample(s, in)
  PROVE  /\ IsState(t) /\ Mild(s, t) /\ (Known(s) => Known(t))
         /\ t.algo_state = "FALLING" => ~ t.pump \/ (s.algo_state = "FALLING" /\ t.pump = s.pump)
         /\ Usual(in) =>
              /\ s.algo_state # "RISING" => /\ \A f \in CuffFields : t[f] = s[f]
                                            /\ t.pump => s.pump
              /\ s.NIBP_Status => t.NIBP_Status
              /\ s.algo_state = "RISING" =>
                   t.algo_state = "RISING" \/ (t.algo_state = "FALLING" /\ t.slowRele = Steps)
         /\ Calm(s) => Calm(t) /\ (t.pump => s.pump)
<1>0. IsState(t)
  BY InterruptTyped
<1>1. CASE s.PWM_Status /\ s.curWorkMode = "VENIPUNCTURE" /\ t = s
  BY <1>0, <1>1 DEF Mild
<1>2. CASE /\ s.PWM_Status /\ s.curWorkMode = "VENIPUNCTURE"
           /\ t = After(s, << [gas_leak_tick |-> "armed"] >> \o NIBP_SetPWM(FALSE))
  <2> DEFINE b == [sleeveOut |-> TRUE, pump |-> FALSE, PWM_Status |-> FALSE]
             c == Then([gas_leak_tick |-> "armed"], b)
  <2>1. Sets(<< [gas_leak_tick |-> "armed"] >>, [gas_leak_tick |-> "armed"])
        /\ Sets(NIBP_SetPWM(FALSE), b)
    BY SetsLiterals, SetsPWM
  <2>2. Sets(<< [gas_leak_tick |-> "armed"] >> \o NIBP_SetPWM(FALSE), c)
    <3> HIDE DEF b
    <3> QED
      BY <2>1, SetsJoined
  <2>3. t = c @@ s
    BY <1>2, <2>2 DEF Sets
  <2>4. /\ DOMAIN s = Fields
        /\ {"pump", "PWM_Status", "algo_state", "holdOut", "bIsPumpStop", "curWorkMode"}
             \cup Untouched \cup CuffFields \subseteq Fields
    BY StateFields, FieldsAre DEF Untouched, CuffFields
  <2>5. /\ ~ t.pump /\ ~ t.PWM_Status /\ t.algo_state = s.algo_state /\ t.holdOut = s.holdOut
        /\ t.bIsPumpStop = s.bIsPumpStop
    BY <2>3, <2>4 DEF Then, @@
  <2>7. \A f \in CuffFields : t[f] = s[f]
    BY <2>3, <2>4 DEF Then, @@, CuffFields
  <2>6. Mild(s, t)
    <3>1. DOMAIN c = {"gas_leak_tick", "sleeveOut", "pump", "PWM_Status"}
      BY DEF Then
    <3> HIDE DEF c
    <3> QED
      BY <2>3, <2>4, <3>1, MildPut DEF Untouched
  <2> QED
    BY <1>0, <1>2, <2>5, <2>6, <2>7 DEF Known, Calm, CuffFields
<1>3. CASE ~ (s.PWM_Status /\ s.curWorkMode = "VENIPUNCTURE")
  <2> DEFINE u == NIBP_RisingCtrl(s, in)
  <2>1. /\ IsState(u) /\ Mild(s, u) /\ (Known(s) => Known(u))
        /\ s.algo_state # "RISING" => u = s
        /\ s.algo_state = "RISING" /\ u.algo_state = "FALLING" => ~ u.pump
        /\ Usual(in) => /\ s.NIBP_Status => u.NIBP_Status
                        /\ s.algo_state = "RISING" =>
                             u.algo_state = "RISING" \/ (u.algo_state = "FALLING" /\ u.slowRele = Steps)
        /\ Calm(s) => Calm(u) /\ (u.pump => s.pump)
    BY <1>3, RisingEffect
  <2> HIDE DEF u
  <2>2. CASE t = u
    BY <2>1, <2>2
  <2>3. CASE t = After(u, NIBP_ForceStop) /\ in.overload
    <3>1. DOMAIN u = Fields
      BY <2>1, StateFields
    <3>2. Mild(u, t) /\ t.algo_state = "IDLE" /\ ~ t.pump
      BY <2>3, <3>1, MildStop, AfterForceStop
    <3> QED
      BY <1>0, <2>1, <2>3, <3>2, MildTrans DEF Known, Calm, Usual
  <2> QED
    BY <1>3, <2>2, <2>3 DEF NIBP_StartSample, u
<1> QED
  BY <1>1, <1>2, <1>3 DEF NIBP_StartSample, VenipunctureCtrl

-----------------------------------------------------------------------------
(* Where the main loop is going: the globals when all that is in front of  *)
(* it is executed.                                                         *)

Settled == After(g, code)

(* Calls alone change nothing ... *)
LEMMA CallsKeep ==
  ASSUME NEW s, IsState(s), NEW c, Calls(c)
  PROVE  After(s, c) = s
<1>1. \A f \in Fields : ~ Writes(c, f)
  BY CallWrites DEF Calls, Writes
<1>2. DOMAIN s = Fields /\ s = [f \in Fields |-> s[f]]
  BY DEF IsState
<1>3. \A f \in Fields : After(s, c)[f] = s[f]
  BY <1>1, <1>2, AfterKept
<1> QED
  BY <1>2, <1>3 DEF After

(* ... and behind a program they change nothing more. *)
LEMMA RoutineThenCalls ==
  ASSUME NEW s, IsState(s), NEW r, Program(r), NEW c, Calls(c)
  PROVE  After(s, r \o c) = After(s, r)
<1>1. \A f \in Fields : ~ Writes(c, f)
  BY CallWrites DEF Calls, Writes
<1>2. DOMAIN s = Fields
  BY DEF IsState
<1>3. After(s, r \o c) = After(After(s, r), c)
  BY AfterJoined DEF Program, Calls
<1>4. DOMAIN After(s, r) = Fields
  BY <1>2, AfterDomain
<1>5. \A f \in Fields : After(After(s, r), c)[f] = After(s, r)[f]
  BY <1>1, <1>4, AfterKept
<1> QED
  BY <1>2, <1>3, <1>4, <1>5 DEF After

(* Executing an assignment does not change where the main loop is going. *)
LEMMA SettledAssign ==
  ASSUME Base, MainAssign
  PROVE  Settled' = Settled
<1>1. IsSeq(code) /\ code # << >> /\ Head(code) = code[1]
  BY ProgramRest DEF Base, Program, MainAssign
<1> QED
  BY <1>1, AfterStep DEF MainAssign, Settled

(* An interrupt changes only what is not going to be written. *)
LEMMA SettledInterrupt ==
  ASSUME Base, IVG8_ISR, NEW f \in Fields
  PROVE  \/ Writes(code, f) /\ Settled'[f] = Settled[f]
         \/ ~ Writes(code, f) /\ Settled'[f] = g'[f] /\ Settled[f] = g[f]
<1>1. DOMAIN g = Fields /\ DOMAIN g' = Fields /\ code' = code
  BY NextBase, StateFields DEF Base, Next, IVG8_ISR
<1> QED
  BY <1>1, AfterWritten, AfterKept DEF Settled

(* The fields that a timer or the algorithm's report changes. *)
Reported == Timers \cup Reports \cup {"gas_leak_tick"}

(* The steps of the system, seen from there. *)
LEMMA SettledSteps ==
  ASSUME Base, [Next]_vars
  PROVE  /\ session' = session
         /\ \/ MainAssign /\ Settled' = Settled
            \/ IVG8_ISR
            \/ g' = g /\ code' = code /\ Settled' = Settled
            \/ /\ Calls(code) /\ Settled = g
               /\ \/ /\ Calls(code') /\ Settled' = g'
                     /\ \A f \in Fields \ Reported : g'[f] = g[f]
                  \/ /\ g' = g /\ Calls(Tail(code))
                     /\ \E f \in Parts \ {"uart", "algorithm"}, in \in Input :
                          /\ code' = HandlerPart(f, g, in) \o Tail(code)
                          /\ Settled' = After(g, HandlerPart(f, g, in))
                  \/ /\ g' = g /\ Calls(Tail(code))
                     /\ \E cmd \in session.commands :
                          /\ code' = onMessageHandler(cmd, g) \o Tail(code)
                          /\ Settled' = After(g, onMessageHandler(cmd, g))
<1>1. IsState(g) /\ (Calls(code) => Settled = g)
  BY CallsKeep DEF Base, Settled
<1>2. CASE MainLoop
  <2>1. code = << >> /\ Calls(code) /\ Calls(code') /\ g' = g /\ session' = session
    BY <1>2, PassProgram, Literals DEF MainLoop, Calls
  <2>2. After(g, code') = g
    BY <1>1, <2>1, CallsKeep
  <2> QED
    BY <1>1, <2>1, <2>2 DEF Settled
<1>3. CASE MainAssign
  BY <1>3, SettledAssign DEF MainAssign
<1>4. CASE MainHandler \/ Uart2MCU_RxPacketCheck
  <2>1. /\ g' = g /\ session' = session /\ code # << >> /\ Calls(code) /\ Calls(Tail(code))
        /\ \/ code' = Tail(code)
           \/ \E f \in Parts \ {"uart", "algorithm"}, in \in Input :
                code' = HandlerPart(f, g, in) \o Tail(code)
           \/ \E cmd \in session.commands : code' = onMessageHandler(cmd, g) \o Tail(code)
    BY <1>4, CallSteps
  <2>2. CASE code' = Tail(code)
    <3>1. After(g, code') = g
      BY <1>1, <2>1, <2>2, CallsKeep
    <3> QED
      BY <1>1, <2>1, <2>2, <3>1 DEF Settled
  <2>3. CASE \E f \in Parts \ {"uart", "algorithm"}, in \in Input :
               code' = HandlerPart(f, g, in) \o Tail(code)
    <3>1. PICK f \in Parts \ {"uart", "algorithm"}, in \in Input :
                 code' = HandlerPart(f, g, in) \o Tail(code)
      BY <2>3
    <3>2. Program(HandlerPart(f, g, in))
      BY <1>1, HandlerProgram
    <3>3. After(g, code') = After(g, HandlerPart(f, g, in))
      BY <1>1, <2>1, <3>1, <3>2, RoutineThenCalls
    <3> QED
      BY <1>1, <2>1, <3>1, <3>3 DEF Settled
  <2>4. CASE \E cmd \in session.commands : code' = onMessageHandler(cmd, g) \o Tail(code)
    <3>1. PICK cmd \in session.commands : code' = onMessageHandler(cmd, g) \o Tail(code)
      BY <2>4
    <3>2. Program(onMessageHandler(cmd, g))
      BY <1>1, CommandProgram, SessionParts
    <3>3. After(g, code') = After(g, onMessageHandler(cmd, g))
      BY <1>1, <2>1, <3>1, <3>2, RoutineThenCalls
    <3> QED
      BY <1>1, <2>1, <3>1, <3>3 DEF Settled
  <2> QED
    BY <2>1, <2>2, <2>3, <2>4
<1>5. CASE IVG8_ISR
  BY <1>5 DEF IVG8_ISR
<1>6. CASE Timeout \/ GasTimeout \/ nibp_algorithm_handler
  <2>1. /\ IsState(g') /\ session' = session /\ Calls(code) /\ Calls(code')
        /\ \A f \in Fields \ Reported : g'[f] = g[f]
    BY <1>6, QuietSteps DEF Reported
  <2>2. After(g', code') = g'
    BY <2>1, CallsKeep
  <2> QED
    BY <1>1, <2>1, <2>2 DEF Settled
<1>7. CASE UNCHANGED vars
  BY <1>7 DEF vars, Settled
<1> QED
  BY <1>2, <1>3, <1>4, <1>5, <1>6, <1>7 DEF Next, MainStep

-----------------------------------------------------------------------------
(* The fields a routine writes. *)

Only(r, X) == IsSeq(r) /\ \A i \in 1 .. Len(r) : DOMAIN r[i] \subseteq X

(* The routines written out assignment by assignment. *)
LEMMA OnlyLiterals ==
  ASSUME NEW X
  PROVE  /\ Only(<< >>, X)
         /\ \A a : DOMAIN a \subseteq X => Only(<<a>>, X)
         /\ \A a, b : DOMAIN a \cup DOMAIN b \subseteq X => Only(<<a, b>>, X)
         /\ \A a, b, c : DOMAIN a \cup DOMAIN b \cup DOMAIN c \subseteq X => Only(<<a, b, c>>, X)
         /\ \A a, b, c, d : DOMAIN a \cup DOMAIN b \cup DOMAIN c \cup DOMAIN d \subseteq X
                              => Only(<<a, b, c, d>>, X)
  BY Literals DEF Only

(* Two routines, one after the other. *)
LEMMA OnlyJoined ==
  ASSUME NEW X, NEW r, Only(r, X), NEW t, Only(t, X)
  PROVE  Only(r \o t, X)
  BY Joined DEF Only

(* More fields are allowed. *)
LEMMA OnlyMore ==
  ASSUME NEW X, NEW Y, X \subseteq Y, NEW r, Only(r, X)
  PROVE  Only(r, Y)
  BY DEF Only

(* The fields of the routines that start and stop. *)
LEMMA OnlyBasics ==
  /\ \A mode : Only(NIBP_SetPressRelease(mode), ValveFields)
  /\ \A on : Only(NIBP_SetPWM(on), PumpFields)
  /\ Only(nibp_algorithm_start, StartFields)
  /\ Only(NIBP_startPumpCtrl, ValveFields \cup PumpFields \cup StartFields)
  /\ Only(NIBP_SampleOneTimeByDebug, MeasureFields)
  /\ Only(NIBP_ForceStop, StopFields)
  /\ Only(nibp_debug_stop_pwm, {"bIsPumpStop"} \cup PumpFields)
  /\ \A s : Only(nibp_debug_start_pwm(s), {"bIsPumpStop"} \cup MeasureFields)
<1>0. \A mode : Only(NIBP_SetPressRelease(mode), ValveFields)
  BY OnlyLiterals DEF NIBP_SetPressRelease, ValveFields
<1>1. \A on : Only(NIBP_SetPWM(on), PumpFields)
  BY OnlyLiterals DEF NIBP_SetPWM, PumpFields
<1>2. Only(nibp_algorithm_start, StartFields)
  BY OnlyLiterals DEF nibp_algorithm_start, StartFields
<1>3. Only(NIBP_startPumpCtrl, ValveFields \cup PumpFields \cup StartFields)
  <2> DEFINE X == ValveFields \cup PumpFields \cup StartFields
  <2>1. Only(NIBP_SetPressRelease("HOLD"), X)
    BY <1>0, OnlyMore
  <2>2. Only(NIBP_SetPWM(TRUE), X) /\ Only(nibp_algorithm_start, X)
    BY <1>1, <1>2, OnlyMore
  <2> HIDE DEF X
  <2>3. Only(NIBP_startPumpCtrl, X)
    BY <2>1, <2>2, OnlyJoined DEF NIBP_startPumpCtrl
  <2> QED
    BY <2>3 DEF X
<1>4. Only(NIBP_SampleOneTimeByDebug, MeasureFields)
  <2>1. Only(<< [NIBP_Status |-> TRUE],
                [isRisingStateRele |-> FALSE, u8RisingStepCount |-> 0,
                 isFisrtRisingStep |-> TRUE, weakOut |-> FALSE],
                [forceOut |-> FALSE] >>, MeasureFields)
    BY OnlyLiterals DEF MeasureFields
  <2>2. Only(NIBP_startPumpCtrl, MeasureFields)
    BY <1>3, OnlyMore DEF MeasureFields, ValveFields
  <2> QED
    BY <2>1, <2>2, OnlyJoined DEF NIBP_SampleOneTimeByDebug
<1>5. Only(NIBP_ForceStop, StopFields)
  <2>1. Only(<< [curWorkMode |-> "MANUAL"], [NIBP_Status |-> FALSE],
                [bIsPumpStop |-> FALSE], [algo_state |-> "IDLE"] >>, StopFields)
    BY OnlyLiterals DEF StopFields
  <2>2. Only(NIBP_SetPWM(FALSE), StopFields)
    BY <1>1, OnlyMore DEF StopFields
  <2>3. Only(NIBP_SetPressRelease("FAST"), StopFields)
    BY <1>0, OnlyMore DEF StopFields, ValveFields
  <2> QED
    BY <2>1, <2>2, <2>3, OnlyJoined DEF NIBP_ForceStop
<1>6. Only(nibp_debug_stop_pwm, {"bIsPumpStop"} \cup PumpFields)
  <2> DEFINE X == {"bIsPumpStop"} \cup PumpFields
  <2>1. Only(<< [bIsPumpStop |-> TRUE] >>, X) /\ Only(NIBP_SetPWM(FALSE), X)
    BY <1>1, OnlyLiterals, OnlyMore
  <2> HIDE DEF X
  <2>2. Only(nibp_debug_stop_pwm, X)
    BY <2>1, OnlyJoined DEF nibp_debug_stop_pwm
  <2> QED
    BY <2>2 DEF X
<1>7. ASSUME NEW s
      PROVE  Only(nibp_debug_start_pwm(s), {"bIsPumpStop"} \cup MeasureFields)
  <2> DEFINE X == {"bIsPumpStop"} \cup MeasureFields
  <2>1. PumpFields \subseteq MeasureFields
    BY DEF MeasureFields
  <2>2. /\ Only(<< [bIsPumpStop |-> FALSE] >>, X) /\ Only(NIBP_SetPWM(TRUE), X)
        /\ Only(NIBP_SampleOneTimeByDebug, X)
    BY <1>1, <1>4, <2>1, OnlyLiterals, OnlyMore
  <2> HIDE DEF X
  <2>3. Only(nibp_debug_start_pwm(s), X)
    BY <2>2, OnlyJoined DEF nibp_debug_start_pwm
  <2> QED
    BY <2>3 DEF X
<1> QED
  BY <1>0, <1>1, <1>2, <1>3, <1>4, <1>5, <1>6, <1>7

(* The deflation and its end. *)
DeflationFields ==
  StopFields \cup {"holdOut", "stepData", "SlowReleTimeStauts", "slowRele", "slowReleCount",
                   "bIsCalculateDrop", "contNextOut"}

(* The fields of the routines of the deflation and of the end. *)
LEMMA OnlyDeflation ==
  ASSUME NEW s, IsState(s), NEW in
  PROVE  /\ Only(NIBP_AutoPressReleHanlder(s, in), DeflationFields)
         /\ Only(NIBP_ForceFastRelease(s), DeflationFields \ {"curWorkMode"})
         /\ Only(OversleeveHandle(s, in), StopFields)
<1>1. s.SlowReleTimeStauts \in BOOLEAN /\ s.holdOut \in BOOLEAN
  BY StateFields
<1>2. Only(NIBP_AutoPressReleHanlder(s, in), DeflationFields)
  <2>1. CASE ~ s.SlowReleTimeStauts
    <3>1. Only(NIBP_refreshSlowReleHoldTime(s, in), DeflationFields)
      BY OnlyBasics, OnlyMore, OnlyLiterals DEF NIBP_refreshSlowReleHoldTime, DeflationFields
    <3>2. \A n : Only(<< [holdOut |-> FALSE, stepData |-> "sampling"],
                         [SlowReleTimeStauts |-> TRUE], [slowRele |-> n] >>, DeflationFields)
      BY OnlyLiterals DEF DeflationFields
    <3> QED
      BY <2>1, <3>1, <3>2, OnlyJoined DEF NIBP_AutoPressReleHanlder
  <2>2. CASE s.SlowReleTimeStauts /\ ~ s.holdOut
    BY <2>2, OnlyLiterals DEF NIBP_AutoPressReleHanlder
  <2>3. CASE s.SlowReleTimeStauts /\ s.holdOut
    <3> DEFINE count == IF in.above THEN s.slowReleCount ELSE s.slowReleCount + 1
               left == StairsLeft(s, in)
               d == IF s.stepData = "none" THEN "none" ELSE "complete"
    <3> HIDE DEF count, left, d
    <3>1. Only(<< [bIsCalculateDrop |-> FALSE], [slowRele |-> left] >>, DeflationFields)
          /\ Only(<< >>, DeflationFields)
      BY OnlyLiterals DEF DeflationFields, StopFields
    <3>2. Only(<< [stepData |-> d] >>, DeflationFields)
      BY OnlyLiterals DEF DeflationFields, StopFields
    <3>3. Only(<< [NIBP_Status |-> FALSE], [SlowReleTimeStauts |-> FALSE] >>, DeflationFields)
      BY OnlyLiterals DEF DeflationFields, StopFields
    <3>4. Only(<< [slowReleCount |-> 0] >>, DeflationFields)
          /\ Only(<< [slowReleCount |-> count] >>, DeflationFields)
          /\ Only(<< [SlowReleTimeStauts |-> FALSE] >>, DeflationFields)
      BY OnlyLiterals DEF DeflationFields, StopFields
    <3>5. \A mode : Only(NIBP_SetPressRelease(mode), DeflationFields)
      BY OnlyBasics, OnlyMore DEF DeflationFields, StopFields, ValveFields
    <3> DEFINE q == IF s.bIsCalculateDrop
                    THEN << [bIsCalculateDrop |-> FALSE], [slowRele |-> left] >> ELSE << >>
               r == IF left > 0
                    THEN << [stepData |-> d] >> \o NIBP_SetPressRelease("SLOW")
                    ELSE << [NIBP_Status |-> FALSE], [SlowReleTimeStauts |-> FALSE] >>
                           \o NIBP_SetPressRelease("FAST")
               t == IF StairDone(count)
                    THEN << [slowReleCount |-> 0] >> \o NIBP_SetPressRelease("HOLD")
                           \o << [SlowReleTimeStauts |-> FALSE] >>
                    ELSE << [slowReleCount |-> count] >>
    <3>6. Only(q, DeflationFields) /\ Only(r, DeflationFields) /\ Only(t, DeflationFields)
      BY <3>1, <3>2, <3>3, <3>4, <3>5, OnlyJoined
    <3>7. NIBP_AutoPressReleHanlder(s, in) = q \o r \o t
      BY <2>3 DEF NIBP_AutoPressReleHanlder, count, left, d
    <3> HIDE DEF q, r, t
    <3> QED
      BY <3>6, <3>7, OnlyJoined
  <2> QED
    BY <1>1, <2>1, <2>2, <2>3
<1>3. Only(NIBP_ForceFastRelease(s), DeflationFields \ {"curWorkMode"})
  <2> DEFINE X == DeflationFields \ {"curWorkMode"}
  <2>1. /\ Only(<< [NIBP_Status |-> FALSE], [bIsPumpStop |-> FALSE], [algo_state |-> "IDLE"] >>, X)
        /\ Only(<< [contNextOut |-> FALSE] >>, X) /\ Only(<< >>, X)
    BY OnlyLiterals DEF DeflationFields, StopFields
  <2>2. PumpFields \subseteq X /\ ValveFields \subseteq X
    BY DEF DeflationFields, StopFields, PumpFields, ValveFields
  <2>3. Only(NIBP_SetPWM(FALSE), X) /\ Only(NIBP_SetPressRelease("FAST"), X)
    BY <2>2, OnlyBasics, OnlyMore
  <2> HIDE DEF X
  <2>4. Only(IF s.curWorkMode = "CONTINUED" THEN << [contNextOut |-> FALSE] >> ELSE << >>, X)
    BY <2>1
  <2>5. Only(NIBP_ForceFastRelease(s), X)
    BY <2>1, <2>3, <2>4, OnlyJoined DEF NIBP_ForceFastRelease
  <2> QED
    BY <2>5 DEF X
<1>4. Only(OversleeveHandle(s, in), StopFields)
  BY OnlyBasics, OnlyLiterals DEF OversleeveHandle
<1> QED
  BY <1>2, <1>3, <1>4

-----------------------------------------------------------------------------
(* The modes.  A routine that is not about cycles leaves the cycle alone,  *)
(* enters the automatic mode only by restoring the backup, and backs up    *)
(* the mode it finds when it enters a mode that restores it.               *)

ModeFields == {"curCycler", "curWorkMode", "backup_mode"}

(* The commands that save the mode they find ... *)
Saving == {"VENIPUNCTURE", "CONTINUED", "GAS_LEAK", "STATIC_ON"}

(* ... and those that restore it, without looking at the present mode. *)
Leaving == {"VENIPUNCTURE_STOP", "STATIC_OFF"}

(* The modes whose end restores the backup. *)
Passing == {"CONTINUED", "VENIPUNCTURE"}

(* The backup can be restored. *)
Restorable(s) == s.curWorkMode \in Passing \/ session.commands \cap Leaving # {}

(* The assignment a, in a routine chosen in state s. *)
Restoring(a, s, saving) ==
  /\ "curCycler" \notin DOMAIN a
  /\ "curWorkMode" \in DOMAIN a =>
       \/ a.curWorkMode \in {"MANUAL", "DEBUG"}
       \/ a.curWorkMode \in Passing /\ saving
       \/ a.curWorkMode = s.backup_mode /\ Restorable(s)
  /\ "backup_mode" \in DOMAIN a => saving /\ a.backup_mode = s.curWorkMode

Restores(r, s, saving) == IsSeq(r) /\ \A i \in 1 .. Len(r) : Restoring(r[i], s, saving)

(* The routines written out assignment by assignment. *)
LEMMA RestoresLiterals ==
  ASSUME NEW s, NEW saving
  PROVE  /\ Restores(<< >>, s, saving)
         /\ \A a : Restoring(a, s, saving) => Restores(<<a>>, s, saving)
         /\ \A a, b : Restoring(a, s, saving) /\ Restoring(b, s, saving) => Restores(<<a, b>>, s, saving)
         /\ \A a, b, c : Restoring(a, s, saving) /\ Restoring(b, s, saving) /\ Restoring(c, s, saving)
              => Restores(<<a, b, c>>, s, saving)
         /\ \A a, b, c, d : /\ Restoring(a, s, saving) /\ Restoring(b, s, saving)
                            /\ Restoring(c, s, saving) /\ Restoring(d, s, saving)
              => Restores(<<a, b, c, d>>, s, saving)
         /\ \A a, b, c, d, e, f :
              /\ Restoring(a, s, saving) /\ Restoring(b, s, saving) /\ Restoring(c, s, saving)
              /\ Restoring(d, s, saving) /\ Restoring(e, s, saving) /\ Restoring(f, s, saving)
              => Restores(<<a, b, c, d, e, f>>, s, saving)
  BY Literals DEF Restores

(* Two routines, one after the other. *)
LEMMA RestoresJoined ==
  ASSUME NEW s, NEW saving, NEW r, Restores(r, s, saving), NEW t, Restores(t, s, saving)
  PROVE  Restores(r \o t, s, saving)
  BY Joined DEF Restores

(* Routines about other things than modes. *)
LEMMA RestoresOther ==
  ASSUME NEW s, NEW saving, NEW X, X \cap ModeFields = {}, NEW r, Only(r, X)
  PROVE  Restores(r, s, saving)
  BY DEF Restores, Restoring, Only, ModeFields

(* The routines that start and stop. *)
LEMMA RestoresBasics ==
  ASSUME NEW s, NEW saving
  PROVE  /\ \A mode : Restores(NIBP_SetPressRelease(mode), s, saving)
         /\ \A on : Restores(NIBP_SetPWM(on), s, saving)
         /\ Restores(nibp_algorithm_start, s, saving) /\ Restores(NIBP_startPumpCtrl, s, saving)
         /\ Restores(NIBP_SampleOneTimeByDebug, s, saving)
         /\ Restores(nibp_debug_stop_pwm, s, saving)
         /\ \A t : Restores(nibp_debug_start_pwm(t), s, saving)
         /\ Restores(NIBP_ForceStop, s, saving)
<1>1. /\ ValveFields \cap ModeFields = {} /\ PumpFields \cap ModeFields = {} /\ StartFields \cap ModeFields = {}
      /\ MeasureFields \cap ModeFields = {} /\ (ValveFields \cup PumpFields \cup StartFields) \cap ModeFields = {}
      /\ ({"bIsPumpStop"} \cup PumpFields) \cap ModeFields = {}
      /\ ({"bIsPumpStop"} \cup MeasureFields) \cap ModeFields = {}
  BY DEF ValveFields, PumpFields, StartFields, MeasureFields, ModeFields
<1>2. /\ \A mode : Restores(NIBP_SetPressRelease(mode), s, saving)
      /\ \A on : Restores(NIBP_SetPWM(on), s, saving)
      /\ Restores(nibp_algorithm_start, s, saving) /\ Restores(NIBP_startPumpCtrl, s, saving)
      /\ Restores(NIBP_SampleOneTimeByDebug, s, saving) /\ Restores(nibp_debug_stop_pwm, s, saving)
      /\ \A t : Restores(nibp_debug_start_pwm(t), s, saving)
  BY <1>1, OnlyBasics, RestoresOther
<1>3. Restores(NIBP_ForceStop, s, saving)
  <2>1. Restores(<< [curWorkMode |-> "MANUAL"], [NIBP_Status |-> FALSE],
                    [bIsPumpStop |-> FALSE], [algo_state |-> "IDLE"] >>, s, saving)
    BY RestoresLiterals DEF Restoring
  <2> QED
    BY <1>2, <2>1, RestoresJoined DEF NIBP_ForceStop
<1> QED
  BY <1>2, <1>3

(* The parts of NIBP_Handler restore the backup or leave the modes alone. *)
LEMMA RestoresHandlers ==
  ASSUME NEW s, IsState(s), NEW in, NEW f \in Parts \ {"uart", "algorithm"}, NEW saving
  PROVE  Restores(HandlerPart(f, s, in), s, saving)
<1>1. s.SlowReleTimeStauts \in BOOLEAN /\ s.holdOut \in BOOLEAN
  BY StateFields
<1>2. Restores(NIBP_SampleAutoTest(s), s, saving)
  <2>1. Restores(<< [autoOut |-> FALSE] >>, s, saving) /\ Restores(<< >>, s, saving)
    BY RestoresLiterals DEF Restoring
  <2> QED
    BY <2>1, RestoresBasics, RestoresJoined DEF NIBP_SampleAutoTest
<1>3. s.curWorkMode = "CONTINUED" => Restores(NIBP_ContinueModeHandle(s), s, saving)
  <2> SUFFICES ASSUME s.curWorkMode = "CONTINUED"
               PROVE  Restores(NIBP_ContinueModeHandle(s), s, saving)
    OBVIOUS
  <2>1. Restores(<< [curWorkMode |-> s.backup_mode] >>, s, saving) /\ Restores(<< >>, s, saving)
    BY RestoresLiterals DEF Restoring, Restorable, Passing
  <2> QED
    BY <2>1, RestoresBasics DEF NIBP_ContinueModeHandle
<1>4. s.curWorkMode = "VENIPUNCTURE" => Restores(GasLeakHandle(s), s, saving)
  <2> SUFFICES ASSUME s.curWorkMode = "VENIPUNCTURE"
               PROVE  Restores(GasLeakHandle(s), s, saving)
    OBVIOUS
  <2>1. /\ Restores(<< [bIsPumpStop |-> FALSE] >>, s, saving)
        /\ Restores(<< [is_gas_leak_test |-> FALSE], [curWorkMode |-> s.backup_mode] >>, s, saving)
    BY RestoresLiterals DEF Restoring, Restorable, Passing
  <2> QED
    BY <2>1, RestoresLiterals, RestoresBasics, RestoresJoined DEF GasLeakHandle
<1>5. Restores(NIBP_AutoPressReleHanlder(s, in), s, saving)
  <2>1. CASE ~ s.SlowReleTimeStauts
    <3>1. Restores(NIBP_refreshSlowReleHoldTime(s, in), s, saving)
      BY RestoresBasics, RestoresLiterals DEF NIBP_refreshSlowReleHoldTime
    <3>2. \A n : Restores(<< [holdOut |-> FALSE, stepData |-> "sampling"],
                             [SlowReleTimeStauts |-> TRUE], [slowRele |-> n] >>, s, saving)
      BY RestoresLiterals DEF Restoring
    <3> QED
      BY <2>1, <3>1, <3>2, RestoresJoined DEF NIBP_AutoPressReleHanlder
  <2>2. CASE s.SlowReleTimeStauts /\ ~ s.holdOut
    BY <2>2, RestoresLiterals DEF NIBP_AutoPressReleHanlder
  <2>3. CASE s.SlowReleTimeStauts /\ s.holdOut
    <3> DEFINE count == IF in.above THEN s.slowReleCount ELSE s.slowReleCount + 1
               left == StairsLeft(s, in)
               d == IF s.stepData = "none" THEN "none" ELSE "complete"
    <3> HIDE DEF count, left, d
    <3>1. Restores(<< [bIsCalculateDrop |-> FALSE], [slowRele |-> left] >>, s, saving)
          /\ Restores(<< >>, s, saving)
      BY RestoresLiterals DEF Restoring
    <3>2. Restores(<< [stepData |-> d] >>, s, saving)
      BY RestoresLiterals DEF Restoring
    <3>3. Restores(<< [NIBP_Status |-> FALSE], [SlowReleTimeStauts |-> FALSE] >>, s, saving)
      BY RestoresLiterals DEF Restoring
    <3>4. Restores(<< [slowReleCount |-> 0] >>, s, saving)
          /\ Restores(<< [slowReleCount |-> count] >>, s, saving)
          /\ Restores(<< [SlowReleTimeStauts |-> FALSE] >>, s, saving)
      BY RestoresLiterals DEF Restoring
    <3>5. \A mode : Restores(NIBP_SetPressRelease(mode), s, saving)
      BY RestoresBasics
    <3> DEFINE q == IF s.bIsCalculateDrop
                    THEN << [bIsCalculateDrop |-> FALSE], [slowRele |-> left] >> ELSE << >>
               r == IF left > 0
                    THEN << [stepData |-> d] >> \o NIBP_SetPressRelease("SLOW")
                    ELSE << [NIBP_Status |-> FALSE], [SlowReleTimeStauts |-> FALSE] >>
                           \o NIBP_SetPressRelease("FAST")
               t == IF StairDone(count)
                    THEN << [slowReleCount |-> 0] >> \o NIBP_SetPressRelease("HOLD")
                           \o << [SlowReleTimeStauts |-> FALSE] >>
                    ELSE << [slowReleCount |-> count] >>
    <3>6. Restores(q, s, saving) /\ Restores(r, s, saving) /\ Restores(t, s, saving)
      BY <3>1, <3>2, <3>3, <3>4, <3>5, RestoresJoined
    <3>7. NIBP_AutoPressReleHanlder(s, in) = q \o r \o t
      BY <2>3 DEF NIBP_AutoPressReleHanlder, count, left, d
    <3> HIDE DEF q, r, t
    <3> QED
      BY <3>6, <3>7, RestoresJoined
  <2> QED
    BY <1>1, <2>1, <2>2, <2>3
<1>6. Restores(NIBP_ForceFastRelease(s), s, saving)
  <2>1. (DeflationFields \ {"curWorkMode"}) \cap ModeFields = {}
    BY DEF DeflationFields, StopFields, PumpFields, ModeFields
  <2> QED
    BY <2>1, OnlyDeflation, RestoresOther
<1>7. Restores(OversleeveHandle(s, in), s, saving)
  BY RestoresBasics, RestoresLiterals DEF OversleeveHandle
<1>8. Restores(<< Call("protect") >>, s, saving)
  BY RestoresLiterals DEF Restoring, Call
<1>9. Restores(NIBP_ForceStop, s, saving) /\ Restores(<< >>, s, saving)
  BY RestoresBasics, RestoresLiterals
<1>10. CASE f = "measuring"
  <2>1. Restores(IF s.algo_state = "FALLING" THEN NIBP_AutoPressReleHanlder(s, in) ELSE << >>, s, saving)
    BY <1>5, <1>9
  <2> QED
    BY <1>8, <1>9, <1>10, <2>1, RestoresJoined DEF HandlerPart
<1>11. CASE f # "measuring"
  BY <1>2, <1>3, <1>4, <1>6, <1>7, <1>9, <1>11 DEF HandlerPart, Parts
<1> QED
  BY <1>10, <1>11

(* The commands that set the cycle. *)
Cycles == {"CYCLE_OFF", "CYCLE_ON", "CYCLE_UNKNOWN", "VERIFY_EXIT"}

(* So do the commands that are not about cycles; four of them save the     *)
(* mode.                                                                   *)
LEMMA RestoresCommands ==
  ASSUME NEW s, IsState(s), NEW cmd \in AllCommands \ Cycles, cmd \in session.commands
  PROVE  Restores(onMessageHandler(cmd, s), s, cmd \in Saving)
<1>1. CASE cmd \in Saving
  <2>1. /\ Restores(<< [u8Venipuncture |-> "chosen"], [backup_mode |-> s.curWorkMode],
                       [curWorkMode |-> "VENIPUNCTURE"], [NIBP_Status |-> FALSE] >>, s, TRUE)
        /\ Restores(<< [backup_mode |-> s.curWorkMode], [curWorkMode |-> "CONTINUED"],
                       [contTestOut |-> FALSE] >>, s, TRUE)
    BY RestoresLiterals DEF Restoring, Passing
  <2>2. Restores(<< [is_gas_leak_test |-> TRUE], [u8Venipuncture |-> "180"],
                    [backup_mode |-> s.curWorkMode], [curWorkMode |-> "VENIPUNCTURE"],
                    [gas_leak_tick |-> "off"], [NIBP_Status |-> FALSE] >>, s, TRUE)
    BY RestoresLiterals DEF Restoring, Passing
  <2>3. /\ Restores(<< [NIBP_Status |-> FALSE], [bIsPumpStop |-> FALSE] >>, s, TRUE)
        /\ Restores(<< [backup_mode |-> s.curWorkMode], [curWorkMode |-> "VENIPUNCTURE"] >>, s, TRUE)
    BY RestoresLiterals DEF Restoring, Passing
  <2>4. /\ Restores(NIBP_setVenipuncture(s), s, TRUE) /\ Restores(NIBP_setContinueMode(s), s, TRUE)
        /\ Restores(NIBP_setGasLeakTest(s), s, TRUE)
    BY <2>1, <2>2, RestoresBasics, RestoresJoined
       DEF NIBP_setVenipuncture, NIBP_setContinueMode, NIBP_setGasLeakTest
  <2>5. Restores(nibp_staticPressureOn(s), s, TRUE)
    BY <2>3, RestoresBasics, RestoresJoined DEF nibp_staticPressureOn
  <2>6. CASE cmd = "VENIPUNCTURE"
    BY <2>4, <2>6 DEF onMessageHandler, Saving
  <2>7. CASE cmd = "CONTINUED"
    BY <2>4, <2>7 DEF onMessageHandler, Saving
  <2>8. CASE cmd = "GAS_LEAK"
    BY <2>4, <2>8 DEF onMessageHandler, Saving
  <2>9. CASE cmd = "STATIC_ON"
    BY <2>5, <2>9 DEF onMessageHandler, Saving
  <2> QED
    BY <1>1, <2>6, <2>7, <2>8, <2>9 DEF Saving
<1>2. CASE cmd \notin Saving
  <2> DEFINE sv == cmd \in Saving
  <2> HIDE DEF sv
  <2>1. /\ Restores(<< [curWorkMode |-> "MANUAL"] >>, s, sv)
        /\ Restores(<< [bIsPumpStop |-> FALSE] >>, s, sv)
        /\ Restores(<< [curWorkMode |-> "DEBUG"] >>, s, sv)
        /\ Restores(<< [algo_sw |-> TRUE] >>, s, sv) /\ Restores(<< [algo_sw |-> FALSE] >>, s, sv)
        /\ Restores(<< [verifyStauts |-> TRUE] >>, s, sv)
        /\ Restores(<< [bIsCalculateDrop |-> TRUE] >>, s, sv)
        /\ Restores(<< >>, s, sv)
    BY RestoresLiterals DEF Restoring
  <2>2. cmd \in Leaving =>
          Restores(<< [curWorkMode |-> s.backup_mode] >>, s, sv)
    BY RestoresLiterals DEF Restoring, Restorable
  <2>3. Restores(NIBP_SampleOneTime(s), s, sv)
    <3>1. Restores(IF s.NIBP_Status THEN NIBP_SetPWM(TRUE) ELSE NIBP_SampleOneTimeByDebug, s, sv)
      BY RestoresBasics
    <3> QED
      BY <2>1, <3>1, RestoresJoined DEF NIBP_SampleOneTime
  <2>4. /\ Restores(<< [curWorkMode |-> "DEBUG"] >> \o NIBP_SampleOneTimeByDebug, s, sv)
        /\ Restores(<< [curWorkMode |-> "DEBUG"] >> \o nibp_debug_start_pwm(s), s, sv)
        /\ Restores(<< [algo_sw |-> TRUE] >> \o nibp_algorithm_start, s, sv)
        /\ Restores(<< [verifyStauts |-> TRUE] >> \o NIBP_SetPressRelease("HOLD"), s, sv)
    BY <2>1, RestoresBasics, RestoresJoined
  <2>5. Restores(nibp_debug_pass_step(s), s, sv)
    BY <2>1, RestoresBasics, RestoresJoined DEF nibp_debug_pass_step
  <2>6. /\ Restores(NIBP_ForceStop, s, sv) /\ Restores(nibp_debug_stop_pwm, s, sv)
        /\ cmd \in Leaving =>
             Restores(venipunctureStop(s), s, sv) /\ Restores(nibp_staticPressureOff(s), s, sv)
    BY <2>1, <2>2, RestoresBasics, RestoresJoined DEF venipunctureStop, nibp_staticPressureOff
  <2>7. Restores(onMessageHandler(cmd, s), s, sv)
    BY <1>2, <2>1, <2>3, <2>4, <2>5, <2>6 DEF onMessageHandler, AllCommands, Cycles, Saving, Leaving
  <2> QED
    BY <2>7 DEF sv
<1> QED
  BY <1>1, <1>2

(* What such a routine can come to. *)
LEMMA RestoresAfter ==
  ASSUME NEW s, IsState(s), NEW saving, NEW r, Restores(r, s, saving), NEW z, z = After(s, r)
  PROVE  /\ z.curCycler = s.curCycler
         /\ \/ z.curWorkMode \in {"MANUAL", "DEBUG", s.curWorkMode}
            \/ z.curWorkMode \in Passing /\ saving
            \/ z.curWorkMode = s.backup_mode /\ Restorable(s)
         /\ \/ z.backup_mode = s.backup_mode /\ ~ Writes(r, "backup_mode")
            \/ saving /\ z.backup_mode = s.curWorkMode
<1>1. DOMAIN s = Fields /\ ModeFields \subseteq Fields
  BY StateFields, FieldsAre DEF ModeFields
<1>2. \A f \in ModeFields :
        \/ z[f] = s[f] /\ ~ Writes(r, f)
        \/ \E i \in 1 .. Len(r) : f \in DOMAIN r[i] /\ z[f] = r[i][f]
  BY <1>1, AfterOneOf DEF Restores
<1> QED
  BY <1>2 DEF Restores, Restoring, ModeFields

(* A command that saves the mode does so. *)
LEMMA SavesMode ==
  ASSUME NEW s, NEW cmd \in Saving
  PROVE  Writes(onMessageHandler(cmd, s), "backup_mode")
<1>1. \A r, t : IsSeq(r) /\ IsSeq(t) /\ (Writes(r, "backup_mode") \/ Writes(t, "backup_mode"))
                => Writes(r \o t, "backup_mode")
  <2> SUFFICES ASSUME NEW r, NEW t, IsSeq(r), IsSeq(t),
                      Writes(r, "backup_mode") \/ Writes(t, "backup_mode")
               PROVE  Writes(r \o t, "backup_mode")
    OBVIOUS
  <2>1. Len(r) \in Nat /\ Len(t) \in Nat
    BY Lengths
  <2>2. CASE Writes(r, "backup_mode")
    BY <2>1, <2>2, Joined DEF Writes
  <2>3. CASE Writes(t, "backup_mode")
    <3>1. PICK i \in 1 .. Len(t) : "backup_mode" \in DOMAIN t[i]
      BY <2>3 DEF Writes
    <3>2. Len(r) + i \in 1 .. Len(r \o t) /\ (r \o t)[Len(r) + i] = t[i]
      BY <2>1, Joined
    <3> QED
      BY <3>1, <3>2 DEF Writes
  <2> QED
    BY <2>2, <2>3
<1>2. \A r, a, i : /\ Writes(<< [u8Venipuncture |-> a], [backup_mode |-> r], [curWorkMode |-> i],
                                [NIBP_Status |-> FALSE] >>, "backup_mode")
                  /\ Writes(<< [backup_mode |-> r], [curWorkMode |-> i], [contTestOut |-> FALSE] >>,
                             "backup_mode")
                  /\ Writes(<< [backup_mode |-> r], [curWorkMode |-> i] >>, "backup_mode")
  BY DEF Writes
<1>3. \A r, a, i : Writes(<< [is_gas_leak_test |-> TRUE], [u8Venipuncture |-> a],
                             [backup_mode |-> r], [curWorkMode |-> i],
                             [gas_leak_tick |-> "off"], [NIBP_Status |-> FALSE] >>, "backup_mode")
  BY DEF Writes
<1>4. /\ IsSeq(NIBP_startPumpCtrl) /\ IsSeq(NIBP_SampleOneTimeByDebug)
      /\ IsSeq(NIBP_SetPWM(FALSE)) /\ IsSeq(nibp_algorithm_start)
      /\ \A mode : IsSeq(NIBP_SetPressRelease(mode))
  BY OnlyBasics DEF Only
<1>5. Writes(NIBP_setVenipuncture(s), "backup_mode") /\ Writes(NIBP_setContinueMode(s), "backup_mode")
  BY <1>1, <1>2, <1>4, Literals DEF NIBP_setVenipuncture, NIBP_setContinueMode
<1>6. Writes(NIBP_setGasLeakTest(s), "backup_mode")
  BY <1>1, <1>3, <1>4, Literals DEF NIBP_setGasLeakTest
<1>7. Writes(nibp_staticPressureOn(s), "backup_mode")
  <2> DEFINE r == << [NIBP_Status |-> FALSE], [bIsPumpStop |-> FALSE] >> \o NIBP_SetPWM(FALSE)
             t == << [backup_mode |-> s.curWorkMode], [curWorkMode |-> "VENIPUNCTURE"] >>
             u == NIBP_SetPressRelease("FAST")
             v == NIBP_SetPressRelease("HOLD")
  <2>1. IsSeq(r) /\ IsSeq(t) /\ Writes(t, "backup_mode") /\ IsSeq(u) /\ IsSeq(v)
    BY <1>2, <1>4, Literals, Joined
  <2>2. nibp_staticPressureOn(s) = (((r \o u) \o t) \o v) \o nibp_algorithm_start
    BY DEF nibp_staticPressureOn
  <2> HIDE DEF r, t, u, v
  <2>3. IsSeq(r \o u)
    BY <2>1, Joined
  <2>4. IsSeq((r \o u) \o t) /\ Writes((r \o u) \o t, "backup_mode")
    BY <1>1, <2>1, <2>3, Joined
  <2>5. IsSeq(((r \o u) \o t) \o v) /\ Writes(((r \o u) \o t) \o v, "backup_mode")
    BY <1>1, <2>1, <2>4, Joined
  <2> QED
    BY <1>1, <1>4, <2>2, <2>5
<1> QED
  BY <1>5, <1>6, <1>7 DEF onMessageHandler, Saving

(* A cycle of the list is the mode afterwards, and the host's choice. *)
LEMMA AfterSetCycle ==
  ASSUME NEW s, DOMAIN s = Fields, NEW cycler \in {"MANUAL", "AUTO"},
         NEW z, z = After(s, NIBP_SetCycle(cycler))
  PROVE  z.curCycler = cycler /\ z.curWorkMode = cycler /\ z.backup_mode = s.backup_mode
<1> DEFINE e == Then(Then([curCycler |-> cycler], [NIBP_Status |-> FALSE]),
                     [SlowReleTimeStauts |-> FALSE])
           v == [slowPin |-> "LOW", fastPin |-> "LOW"]
           b == Then([autoOut |-> TRUE], Call("SampleAutoTest"))
           m == [curWorkMode |-> cycler]
           r == << [curCycler |-> cycler], [NIBP_Status |-> FALSE],
                   [SlowReleTimeStauts |-> FALSE] >>
           p == NIBP_SetPressRelease("FAST")
<1>1. Sets(CycleMode(cycler), m)
  BY SetsLiterals DEF CycleMode
<1>2. Sets(r, e) /\ Sets(p, v)
  BY SetsLiterals, SetsPressRelease
<1>3. ModeFields \subseteq Fields
  BY FieldsAre DEF ModeFields
<1>4. Sets((CycleMode(cycler) \o r) \o p, Then(Then(m, e), v))
  <2> HIDE DEF m, e, v, r, p
  <2>1. Sets(CycleMode(cycler) \o r, Then(m, e))
    BY <1>1, <1>2, SetsJoined
  <2> QED
    BY <1>2, <2>1, SetsJoined
<1>5. CASE cycler = "MANUAL"
  <2>1. Sets(<< >>, << >>)
    BY Literals DEF Sets, After, @@
  <2>2. Sets(NIBP_SetCycle(cycler), Then(Then(Then(m, e), v), << >>))
    <3> HIDE DEF m, e, v
    <3> QED
      BY <1>4, <1>5, <2>1, SetsJoined DEF NIBP_SetCycle
  <2>3. z = Then(Then(Then(m, e), v), << >>) @@ s
    BY <2>2 DEF Sets
  <2> QED
    BY <1>3, <2>3, SMTT(30) DEF Then, @@, ModeFields
<1>6. CASE cycler # "MANUAL"
  <2>1. Sets(<< [autoOut |-> TRUE], Call("SampleAutoTest") >>, b)
    BY SetsLiterals
  <2>2. Sets(NIBP_SetCycle(cycler), Then(Then(Then(m, e), v), b))
    <3> HIDE DEF m, e, v, b
    <3> QED
      BY <1>4, <1>6, <2>1, SetsJoined DEF NIBP_SetCycle
  <2>3. z = Then(Then(Then(m, e), v), b) @@ s
    BY <2>2 DEF Sets
  <2> QED
    BY <1>3, <2>3 DEF Then, @@, ModeFields, Call
<1> QED
  BY <1>5, <1>6

(* Leaving the calibration chooses the last cycle again. *)
LEMMA AfterVerifyExit ==
  ASSUME NEW s, DOMAIN s = Fields, s.curCycler \in {"MANUAL", "AUTO"},
         NEW z, z = After(s, NIBP_VerifyExit(s))
  PROVE  z.curCycler = s.curCycler /\ z.curWorkMode = s.curCycler /\ z.backup_mode = s.backup_mode
<1> DEFINE u == After(s, << [verifyStauts |-> FALSE] >>)
<1>1. IsSeq(<< [verifyStauts |-> FALSE] >>) /\ IsSeq(NIBP_SetCycle(s.curCycler))
  <2>1. IsSeq(CycleMode(s.curCycler))
    BY Literals DEF CycleMode
  <2>2. (\A c, d, e : IsSeq(<<c, d, e>>)) /\ IsSeq(NIBP_SetPressRelease("FAST"))
    BY Literals, OnlyBasics DEF Only
  <2>3. IsSeq(IF s.curCycler = "MANUAL" THEN << >>
              ELSE << [autoOut |-> TRUE], Call("SampleAutoTest") >>)
    BY Literals
  <2> QED
    BY <2>1, <2>2, <2>3, Literals, Joined DEF NIBP_SetCycle
<1>2. z = After(u, NIBP_SetCycle(s.curCycler))
  BY <1>1, AfterJoined DEF NIBP_VerifyExit
<1>3. u = [verifyStauts |-> FALSE] @@ s
  BY After1
<1>4. DOMAIN u = Fields /\ u.backup_mode = s.backup_mode
  <2>1. "backup_mode" \in Fields
    BY FieldsAre
  <2> QED
    BY <1>3, <2>1 DEF @@
<1> HIDE DEF u
<1> QED
  BY <1>2, <1>4, AfterSetCycle

(* Only automatic and manual cycles are chosen.  A host that turns the     *)
(* cycle off does not also use both a command that saves the mode and one  *)
(* that restores it: the saved mode may be that of a cycle which has been  *)
(* turned off since.                                                       *)
CyclesChosen ==
  /\ "CYCLE_UNKNOWN" \notin session.commands
  /\ \/ "CYCLE_OFF" \notin session.commands
     \/ session.commands \cap Saving = {}
     \/ session.commands \cap Leaving = {}

(* The automatic mode, current or saved where it can be restored, is the   *)
(* host's choice; a host that never saves a mode has none saved.           *)
ModesFit(s) ==
  /\ s.curCycler \in {"MANUAL", "AUTO"}
  /\ s.curWorkMode = "AUTO" => s.curCycler = "AUTO"
  /\ s.backup_mode = "AUTO" /\ Restorable(s) => s.curCycler = "AUTO"
  /\ session.commands \cap Saving = {} => s.backup_mode = "MANUAL"

(* The invariant behind AutoOnlyIfChosen. *)
AutoInv == CyclesChosen /\ ModesFit(Settled)

(* A routine that is not about cycles keeps the modes fitting ... *)
LEMMA AutoRoutine ==
  ASSUME Base, CyclesChosen, ModesFit(g), NEW r, NEW saving,
         saving => session.commands \cap Saving # {},
         Restores(r, g, saving), saving => Writes(r, "backup_mode")
  PROVE  ModesFit(After(g, r))
<1> DEFINE z == After(g, r)
<1>1. /\ z.curCycler = g.curCycler
      /\ \/ z.curWorkMode \in {"MANUAL", "DEBUG", g.curWorkMode}
         \/ z.curWorkMode \in Passing /\ saving
         \/ z.curWorkMode = g.backup_mode /\ Restorable(g)
      /\ \/ z.backup_mode = g.backup_mode /\ ~ Writes(r, "backup_mode")
         \/ saving /\ z.backup_mode = g.curWorkMode
  BY RestoresAfter DEF Base
<1> HIDE DEF z
<1>2. ModesFit(z)
  BY <1>1 DEF ModesFit, Restorable, Passing
<1> QED
  BY <1>2 DEF z

(* ... and so does every command of such a session. *)
LEMMA AutoCommand ==
  ASSUME Base, CyclesChosen, ModesFit(g), NEW cmd \in session.commands
  PROVE  ModesFit(After(g, onMessageHandler(cmd, g)))
<1> DEFINE z == After(g, onMessageHandler(cmd, g))
<1>1. cmd \in AllCommands /\ DOMAIN g = Fields /\ IsState(g)
  BY SessionParts, StateFields DEF Base
<1>2. CASE cmd \notin Cycles
  BY <1>1, <1>2, RestoresCommands, SavesMode, AutoRoutine
<1>3. CASE cmd = "CYCLE_OFF"
  <2>1. onMessageHandler(cmd, g) = NIBP_SetCycle("MANUAL")
    BY <1>3 DEF onMessageHandler
  <2>2. z.curCycler = "MANUAL" /\ z.curWorkMode = "MANUAL" /\ z.backup_mode = g.backup_mode
    BY <1>1, <2>1, AfterSetCycle
  <2> HIDE DEF z
  <2>3. ModesFit(z)
    BY <1>3, <2>2 DEF ModesFit, CyclesChosen, Restorable, Passing
  <2> QED
    BY <2>3 DEF z
<1>4. CASE cmd = "CYCLE_ON"
  <2>1. onMessageHandler(cmd, g) = NIBP_SetCycle("AUTO")
    BY <1>4 DEF onMessageHandler
  <2>2. z.curCycler = "AUTO" /\ z.curWorkMode = "AUTO" /\ z.backup_mode = g.backup_mode
    BY <1>1, <2>1, AfterSetCycle
  <2> HIDE DEF z
  <2>3. ModesFit(z)
    BY <2>2 DEF ModesFit, Restorable, Passing
  <2> QED
    BY <2>3 DEF z
<1>5. CASE cmd = "VERIFY_EXIT"
  <2>1. onMessageHandler(cmd, g) = NIBP_VerifyExit(g)
    BY <1>5 DEF onMessageHandler
  <2>2. z.curCycler = g.curCycler /\ z.curWorkMode = g.curCycler /\ z.backup_mode = g.backup_mode
    BY <1>1, <2>1, AfterVerifyExit DEF ModesFit
  <2> HIDE DEF z
  <2>3. ModesFit(z)
    BY <2>2 DEF ModesFit, Restorable, Passing
  <2> QED
    BY <2>3 DEF z
<1> QED
  BY <1>2, <1>3, <1>4, <1>5 DEF Cycles, CyclesChosen

(* The start. *)
LEMMA AutoInit ==
  ASSUME Init, CyclesChosen
  PROVE  AutoInv
<1>1. Base
  BY InitBase
<1>2. Settled = g
  BY <1>1, Literals, CallsKeep DEF Settled, Init, Base, Calls
<1> QED
  BY <1>2 DEF AutoInv, ModesFit, Init

(* Every step keeps it. *)
LEMMA AutoNext ==
  ASSUME Base, AutoInv, [Next]_vars
  PROVE  AutoInv'
<1>1. session' = session /\ CyclesChosen /\ CyclesChosen'
  BY SettledSteps DEF AutoInv, CyclesChosen
<1>2. ASSUME NEW s, NEW t, ModesFit(s), \A f \in ModeFields : t[f] = s[f], t = Settled'
      PROVE  AutoInv'
  BY <1>1, <1>2 DEF AutoInv, ModesFit, ModeFields, Restorable
<1>3. CASE Settled' = Settled
  BY <1>1, <1>3 DEF AutoInv, ModesFit, Restorable
<1>4. CASE IVG8_ISR
  <2>1. PICK in \in Input : g' = NIBP_StartSample(g, in)
    BY <1>4 DEF IVG8_ISR
  <2>2. Mild(g, g')
    BY <2>1, InterruptEffect DEF Base
  <2>3. ModeFields \subseteq Fields
    BY FieldsAre DEF ModeFields
  <2>4. Settled'.curCycler = Settled.curCycler /\ Settled'.backup_mode = Settled.backup_mode
        /\ Settled'.curWorkMode \in {Settled.curWorkMode, "MANUAL"}
    BY <1>4, <2>2, <2>3, SettledInterrupt DEF Mild, Untouched, ModeFields
  <2> QED
    BY <1>1, <2>4 DEF AutoInv, ModesFit, Restorable, Passing
<1>5. CASE /\ Calls(code) /\ Settled = g /\ Settled' = g'
           /\ \A f \in Fields \ Reported : g'[f] = g[f]
  <2>1. ModeFields \subseteq Fields \ Reported
    BY FieldsAre DEF ModeFields, Reported, Timers, Reports
  <2> QED
    BY <1>2, <1>5, <2>1 DEF AutoInv
<1>6. CASE Settled = g /\ \E f \in Parts \ {"uart", "algorithm"}, in \in Input :
             Settled' = After(g, HandlerPart(f, g, in))
  <2>1. PICK f \in Parts \ {"uart", "algorithm"}, in \in Input :
               Settled' = After(g, HandlerPart(f, g, in))
    BY <1>6
  <2>2. Restores(HandlerPart(f, g, in), g, FALSE)
    BY RestoresHandlers DEF Base
  <2>3. ModesFit(Settled')
    BY <1>1, <1>6, <2>1, <2>2, AutoRoutine DEF AutoInv
  <2> QED
    BY <1>1, <2>3 DEF AutoInv, ModesFit, Restorable
<1>7. CASE Settled = g /\ \E cmd \in session.commands :
             Settled' = After(g, onMessageHandler(cmd, g))
  <2>1. ModesFit(Settled')
    BY <1>1, <1>7, AutoCommand DEF AutoInv
  <2> QED
    BY <1>1, <2>1 DEF AutoInv, ModesFit, Restorable
<1> QED
  BY <1>3, <1>4, <1>5, <1>6, <1>7, SettledSteps

(* NIBP_SetCycle and the modes with a backup: in a session in which only   *)
(* automatic and manual cycles are chosen, and no saved mode outlives the  *)
(* cycle it comes from, the monitor measures on its own only while the     *)
(* host's last choice is an automatic cycle.                               *)
THEOREM NibpAutoOnlyIfChosen == Spec /\ CyclesChosen => []AutoOnlyIfChosen
<1>1. Init /\ CyclesChosen => AutoInv
  BY AutoInit
<1>2. Base /\ AutoInv /\ [Next]_vars => AutoInv'
  BY AutoNext
<1>3. Base /\ AutoInv => AutoOnlyIfChosen
  <2> SUFFICES ASSUME Base, AutoInv, code = << >>, g.curWorkMode = "AUTO"
               PROVE  g.curCycler = "AUTO"
    BY DEF AutoOnlyIfChosen
  <2>1. Settled = g
    BY Literals, CallsKeep DEF Settled, Base, Calls
  <2> QED
    BY <2>1 DEF AutoInv, ModesFit
<1> QED
  BY <1>1, <1>2, <1>3, SpecBase, PTL DEF Spec

-----------------------------------------------------------------------------
(* The pump and the deflation.  A program never starts the deflation, and  *)
(* when it starts the pump it starts the algorithm afterwards.             *)

Linked(c) ==
  /\ IsSeq(c)
  /\ \A i \in 1 .. Len(c) : "algo_state" \in DOMAIN c[i] => c[i].algo_state # "FALLING"
  /\ \A i \in 1 .. Len(c) : "pump" \in DOMAIN c[i] /\ c[i].pump =>
       \E j \in 1 .. Len(c) : i < j /\ "algo_state" \in DOMAIN c[j]

(* Two routines, one after the other. *)
LEMMA LinkedJoined ==
  ASSUME NEW r, Linked(r), NEW t, Linked(t)
  PROVE  Linked(r \o t)
<1> DEFINE c == r \o t
<1>1. /\ IsSeq(c) /\ Len(c) = Len(r) + Len(t) /\ Len(r) \in Nat /\ Len(t) \in Nat
      /\ \A i \in 1 .. Len(r) : c[i] = r[i]
      /\ \A i \in 1 .. Len(t) : c[Len(r) + i] = t[i]
      /\ \A i \in 1 .. Len(c) :
           \/ i \in 1 .. Len(r) /\ c[i] = r[i]
           \/ i - Len(r) \in 1 .. Len(t) /\ c[i] = t[i - Len(r)]
  <2>1. Len(r) \in Nat /\ Len(t) \in Nat /\ IsSeq(r) /\ IsSeq(t)
    BY Lengths DEF Linked
  <2> QED
    BY <2>1, Joined
<1> HIDE DEF c
<1>2. ASSUME NEW i \in 1 .. Len(c), "pump" \in DOMAIN c[i], c[i].pump
      PROVE  \E j \in 1 .. Len(c) : i < j /\ "algo_state" \in DOMAIN c[j]
  <2>1. CASE i \in 1 .. Len(r) /\ c[i] = r[i]
    <3>1. PICK j \in 1 .. Len(r) : i < j /\ "algo_state" \in DOMAIN r[j]
      BY <1>2, <2>1 DEF Linked
    <3> QED
      BY <3>1, <1>1
  <2>2. CASE i - Len(r) \in 1 .. Len(t) /\ c[i] = t[i - Len(r)]
    <3>1. PICK j \in 1 .. Len(t) : i - Len(r) < j /\ "algo_state" \in DOMAIN t[j]
      BY <1>2, <2>2 DEF Linked
    <3>2. Len(r) + j \in 1 .. Len(c) /\ i < Len(r) + j /\ c[Len(r) + j] = t[j]
      BY <3>1, <1>1
    <3> QED
      BY <3>1, <3>2
  <2> QED
    BY <1>1, <2>1, <2>2
<1>3. \A i \in 1 .. Len(c) : "algo_state" \in DOMAIN c[i] => c[i].algo_state # "FALLING"
  BY <1>1 DEF Linked
<1>4. Linked(c)
  BY <1>1, <1>2, <1>3 DEF Linked
<1> QED
  BY <1>4 DEF c

(* The rest of a program. *)
LEMMA LinkedRest ==
  ASSUME NEW c, Linked(c), c # << >>
  PROVE  Linked(Tail(c))
<1> DEFINE t == Tail(c)
<1>1. /\ IsSeq(t) /\ Len(c) \in Nat /\ Len(t) = Len(c) - 1
      /\ \A i \in 1 .. Len(c) - 1 : t[i] = c[i + 1]
  BY Rest DEF Linked
<1> HIDE DEF t
<1>2. \A i \in 1 .. Len(t) : i + 1 \in 1 .. Len(c) /\ t[i] = c[i + 1]
  BY <1>1
<1>3. ASSUME NEW i \in 1 .. Len(t), "pump" \in DOMAIN t[i], t[i].pump
      PROVE  \E j \in 1 .. Len(t) : i < j /\ "algo_state" \in DOMAIN t[j]
  <2>1. PICK j \in 1 .. Len(c) : i + 1 < j /\ "algo_state" \in DOMAIN c[j]
    BY <1>2, <1>3 DEF Linked
  <2>2. j - 1 \in 1 .. Len(t) /\ i < j - 1 /\ t[j - 1] = c[j]
    BY <1>1, <2>1
  <2> QED
    BY <2>1, <2>2
<1>4. Linked(t)
  BY <1>1, <1>2, <1>3 DEF Linked
<1> QED
  BY <1>4 DEF t

(* Routines about other things. *)
LEMMA LinkedOther ==
  ASSUME NEW X, X \cap {"pump", "algo_state"} = {}, NEW r, Only(r, X)
  PROVE  Linked(r)
  BY DEF Only, Linked

(* The routines written out assignment by assignment. *)
LEMMA LinkedLiterals ==
  /\ Linked(<< >>)
  /\ \A a : {"pump", "algo_state"} \cap DOMAIN a = {} => Linked(<<a>>)
  /\ \A a, b : {"pump", "algo_state"} \cap (DOMAIN a \cup DOMAIN b) = {} => Linked(<<a, b>>)
  /\ \A a, b, c : {"pump", "algo_state"} \cap (DOMAIN a \cup DOMAIN b \cup DOMAIN c) = {}
                    => Linked(<<a, b, c>>)
  /\ \A a, b, c, d :
       {"pump", "algo_state"} \cap (DOMAIN a \cup DOMAIN b \cup DOMAIN c \cup DOMAIN d) = {}
         => Linked(<<a, b, c, d>>)
  /\ \A a, b, c, d, e, f :
       {"pump", "algo_state"} \cap (DOMAIN a \cup DOMAIN b \cup DOMAIN c \cup DOMAIN d
                                    \cup DOMAIN e \cup DOMAIN f) = {}
         => Linked(<<a, b, c, d, e, f>>)
  BY Literals DEF Linked

(* Calls. *)
LEMMA LinkedCalls ==
  ASSUME NEW c, Calls(c)
  PROVE  Linked(c)
<1>1. \A i \in 1 .. Len(c) : DOMAIN c[i] = {"call"}
  BY CallWrites DEF Calls
<1> QED
  BY <1>1 DEF Calls, Linked

(* The routines that start and stop. *)
LEMMA LinkedBasics ==
  /\ \A mode : Linked(NIBP_SetPressRelease(mode))
  /\ Linked(NIBP_SetPWM(FALSE)) /\ Linked(nibp_algorithm_start) /\ Linked(NIBP_startPumpCtrl)
  /\ Linked(NIBP_SampleOneTimeByDebug) /\ Linked(NIBP_ForceStop) /\ Linked(nibp_debug_stop_pwm)
<1>0. \A mode : Linked(NIBP_SetPressRelease(mode))
  BY OnlyBasics, LinkedOther DEF ValveFields
<1>1. Linked(NIBP_SetPWM(FALSE))
  <2> DEFINE a == [sleeveOut |-> TRUE]
             b == [pump |-> FALSE]
             c == [PWM_Status |-> FALSE]
  <2>1. DOMAIN a = {"sleeveOut"} /\ DOMAIN b = {"pump"} /\ DOMAIN c = {"PWM_Status"} /\ ~ b.pump
    OBVIOUS
  <2>2. NIBP_SetPWM(FALSE) = <<a, b, c>>
    BY DEF NIBP_SetPWM
  <2> HIDE DEF a, b, c
  <2>3. Linked(<<a, b, c>>)
    BY <2>1, Literals DEF Linked
  <2> QED
    BY <2>2, <2>3
<1>2. Linked(nibp_algorithm_start) /\ "algo_state" \in DOMAIN nibp_algorithm_start[1]
      /\ Len(nibp_algorithm_start) = 4
  <2> DEFINE a == [algo_state |-> "RISING"]
             b == [isAllDone |-> FALSE]
             c == [isRisingDone |-> FALSE, risingResult |-> "old"]
             d == [stepData |-> "none"]
  <2>1. /\ DOMAIN a = {"algo_state"} /\ a.algo_state # "FALLING" /\ DOMAIN b = {"isAllDone"}
        /\ DOMAIN c = {"isRisingDone", "risingResult"} /\ DOMAIN d = {"stepData"}
    OBVIOUS
  <2>2. nibp_algorithm_start = <<a, b, c, d>>
    BY DEF nibp_algorithm_start
  <2> HIDE DEF a, b, c, d
  <2>3. Linked(<<a, b, c, d>>) /\ <<a, b, c, d>>[1] = a /\ Len(<<a, b, c, d>>) = 4
    BY <2>1, Literals DEF Linked
  <2> QED
    BY <2>1, <2>2, <2>3
<1>3. Linked(NIBP_startPumpCtrl)
  <2> DEFINE r == NIBP_SetPressRelease("HOLD") \o NIBP_SetPWM(TRUE)
             t == nibp_algorithm_start
             c == r \o t
  <2>1. Only(r, ValveFields \cup PumpFields)
    <3> DEFINE X == ValveFields \cup PumpFields
    <3>1. Only(NIBP_SetPressRelease("HOLD"), X) /\ Only(NIBP_SetPWM(TRUE), X)
      BY OnlyBasics, OnlyMore
    <3> HIDE DEF X
    <3>2. Only(NIBP_SetPressRelease("HOLD") \o NIBP_SetPWM(TRUE), X)
      BY <3>1, OnlyJoined
    <3> QED
      BY <3>2 DEF X
  <2> HIDE DEF r, t
  <2>2. Linked(t) /\ Len(t) = 4 /\ "algo_state" \in DOMAIN t[1]
    BY <1>2 DEF t
  <2>3. /\ IsSeq(c) /\ Len(c) = Len(r) + 4 /\ Len(r) \in Nat
        /\ c[Len(r) + 1] = t[1]
        /\ \A i \in 1 .. Len(c) :
             \/ i \in 1 .. Len(r) /\ c[i] = r[i]
             \/ i - Len(r) \in 1 .. Len(t) /\ c[i] = t[i - Len(r)]
    <3>1. IsSeq(r) /\ IsSeq(t) /\ Len(r) \in Nat /\ 1 \in 1 .. Len(t)
      BY <2>1, <2>2, Lengths DEF Only, Linked
    <3>2. /\ IsSeq(c) /\ Len(c) = Len(r) + Len(t)
          /\ \A i \in 1 .. Len(t) : c[Len(r) + i] = t[i]
          /\ \A i \in 1 .. Len(c) :
               \/ i \in 1 .. Len(r) /\ c[i] = r[i]
               \/ i - Len(r) \in 1 .. Len(t) /\ c[i] = t[i - Len(r)]
      BY <3>1, Joined
    <3> HIDE DEF c
    <3> QED
      BY <2>2, <3>1, <3>2
  <2> HIDE DEF c
  <2>4. \A i \in 1 .. Len(r) : DOMAIN r[i] \subseteq {"slowPin", "fastPin", "sleeveOut", "pump", "PWM_Status"}
    BY <2>1 DEF Only, PumpFields, ValveFields
  <2>5. \A i \in 1 .. Len(c) : "algo_state" \in DOMAIN c[i] => c[i].algo_state # "FALLING"
    <3> TAKE i \in 1 .. Len(c)
    <3>1. CASE i \in 1 .. Len(r) /\ c[i] = r[i]
      BY <2>4, <3>1
    <3>2. CASE i - Len(r) \in 1 .. Len(t) /\ c[i] = t[i - Len(r)]
      BY <2>2, <3>2 DEF Linked
    <3> QED
      BY <2>3, <3>1, <3>2
  <2>6. ASSUME NEW i \in 1 .. Len(c), "pump" \in DOMAIN c[i], c[i].pump
        PROVE  \E j \in 1 .. Len(c) : i < j /\ "algo_state" \in DOMAIN c[j]
    <3>1. CASE i \in 1 .. Len(r)
      <4>1. Len(r) + 1 \in 1 .. Len(c) /\ i < Len(r) + 1
        BY <2>3, <3>1
      <4> QED
        BY <4>1, <2>2, <2>3
    <3>2. CASE i - Len(r) \in 1 .. Len(t) /\ c[i] = t[i - Len(r)]
      <4>1. PICK j \in 1 .. Len(t) : i - Len(r) < j /\ "algo_state" \in DOMAIN t[j]
        BY <2>2, <2>6, <3>2 DEF Linked
      <4>2. i - Len(r) \in 1 .. 4 /\ j \in 1 .. 4
        BY <2>2, <3>2, <4>1
      <4>3. DOMAIN t[1] = {"algo_state"} /\ \A k \in 2 .. 4 : "pump" \notin DOMAIN t[k]
        BY DEF t, nibp_algorithm_start
      <4>4. "pump" \notin DOMAIN t[i - Len(r)]
        BY <4>2, <4>3
      <4> QED
        BY <2>6, <3>2, <4>4
    <3> QED
      BY <2>3, <3>1, <3>2
  <2>7. Linked(c)
    BY <2>3, <2>5, <2>6 DEF Linked
  <2> QED
    BY <2>7 DEF NIBP_startPumpCtrl, c, r, t
<1>4. Linked(NIBP_SampleOneTimeByDebug)
  <2>1. Linked(<< [NIBP_Status |-> TRUE],
                  [isRisingStateRele |-> FALSE, u8RisingStepCount |-> 0,
                   isFisrtRisingStep |-> TRUE, weakOut |-> FALSE],
                  [forceOut |-> FALSE] >>)
    BY LinkedLiterals
  <2> QED
    BY <1>3, <2>1, LinkedJoined DEF NIBP_SampleOneTimeByDebug
<1>5. Linked(NIBP_ForceStop)
  <2>1. Linked(<< [curWorkMode |-> "MANUAL"], [NIBP_Status |-> FALSE],
                  [bIsPumpStop |-> FALSE], [algo_state |-> "IDLE"] >>)
    <3> DEFINE a == [curWorkMode |-> "MANUAL"]
               b == [NIBP_Status |-> FALSE]
               c == [bIsPumpStop |-> FALSE]
               d == [algo_state |-> "IDLE"]
    <3>1. /\ DOMAIN a = {"curWorkMode"} /\ DOMAIN b = {"NIBP_Status"}
          /\ DOMAIN c = {"bIsPumpStop"} /\ DOMAIN d = {"algo_state"} /\ d.algo_state # "FALLING"
      OBVIOUS
    <3> HIDE DEF a, b, c, d
    <3>2. Linked(<<a, b, c, d>>)
      BY <3>1, Literals DEF Linked
    <3> QED
      BY <3>2 DEF a, b, c, d
  <2> QED
    BY <1>0, <1>1, <2>1, LinkedJoined DEF NIBP_ForceStop
<1>6. Linked(nibp_debug_stop_pwm)
  <2>1. Linked(<< [bIsPumpStop |-> TRUE] >>)
    BY LinkedLiterals
  <2> QED
    BY <1>1, <2>1, LinkedJoined DEF nibp_debug_stop_pwm
<1> QED
  BY <1>0, <1>1, <1>2, <1>3, <1>4, <1>5, <1>6

(* The parts of NIBP_Handler ... *)
LEMMA LinkedHandlers ==
  ASSUME NEW s, IsState(s), NEW in, NEW f \in Parts \ {"uart", "algorithm"}
  PROVE  Linked(HandlerPart(f, s, in))
<1>1. s.SlowReleTimeStauts \in BOOLEAN /\ s.holdOut \in BOOLEAN
  BY StateFields
<1>2. Linked(NIBP_SampleAutoTest(s))
  <2>1. Linked(<< [autoOut |-> FALSE] >>) /\ Linked(<< >>)
    BY LinkedLiterals
  <2> QED
    BY <2>1, LinkedBasics, LinkedJoined DEF NIBP_SampleAutoTest
<1>3. Linked(NIBP_ContinueModeHandle(s))
  <2>1. Linked(<< [curWorkMode |-> s.backup_mode] >>) /\ Linked(<< >>)
    BY LinkedLiterals
  <2> QED
    BY <2>1, LinkedBasics DEF NIBP_ContinueModeHandle
<1>4. Linked(GasLeakHandle(s))
  <2>1. /\ Linked(<< [bIsPumpStop |-> FALSE] >>)
        /\ Linked(<< [is_gas_leak_test |-> FALSE], [curWorkMode |-> s.backup_mode] >>)
    BY LinkedLiterals
  <2> QED
    BY <2>1, LinkedLiterals, LinkedBasics, LinkedJoined DEF GasLeakHandle
<1>5. Linked(NIBP_AutoPressReleHanlder(s, in))
  <2>1. CASE ~ s.SlowReleTimeStauts
    <3>1. Linked(NIBP_refreshSlowReleHoldTime(s, in))
      BY LinkedBasics, LinkedLiterals DEF NIBP_refreshSlowReleHoldTime
    <3>2. \A n : Linked(<< [holdOut |-> FALSE, stepData |-> "sampling"],
                           [SlowReleTimeStauts |-> TRUE], [slowRele |-> n] >>)
      BY LinkedLiterals
    <3> QED
      BY <2>1, <3>1, <3>2, LinkedJoined DEF NIBP_AutoPressReleHanlder
  <2>2. CASE s.SlowReleTimeStauts /\ ~ s.holdOut
    BY <2>2, LinkedLiterals DEF NIBP_AutoPressReleHanlder
  <2>3. CASE s.SlowReleTimeStauts /\ s.holdOut
    <3> DEFINE count == IF in.above THEN s.slowReleCount ELSE s.slowReleCount + 1
               left == StairsLeft(s, in)
               d == IF s.stepData = "none" THEN "none" ELSE "complete"
    <3> HIDE DEF count, left, d
    <3>1. Linked(<< [bIsCalculateDrop |-> FALSE], [slowRele |-> left] >>)
          /\ Linked(<< >>)
      BY LinkedLiterals
    <3>2. Linked(<< [stepData |-> d] >>)
      BY LinkedLiterals
    <3>3. Linked(<< [NIBP_Status |-> FALSE], [SlowReleTimeStauts |-> FALSE] >>)
      BY LinkedLiterals
    <3>4. Linked(<< [slowReleCount |-> 0] >>)
          /\ Linked(<< [slowReleCount |-> count] >>)
          /\ Linked(<< [SlowReleTimeStauts |-> FALSE] >>)
      BY LinkedLiterals
    <3>5. \A mode : Linked(NIBP_SetPressRelease(mode))
      BY LinkedBasics
    <3> DEFINE q == IF s.bIsCalculateDrop
                    THEN << [bIsCalculateDrop |-> FALSE], [slowRele |-> left] >> ELSE << >>
               r == IF left > 0
                    THEN << [stepData |-> d] >> \o NIBP_SetPressRelease("SLOW")
                    ELSE << [NIBP_Status |-> FALSE], [SlowReleTimeStauts |-> FALSE] >>
                           \o NIBP_SetPressRelease("FAST")
               t == IF StairDone(count)
                    THEN << [slowReleCount |-> 0] >> \o NIBP_SetPressRelease("HOLD")
                           \o << [SlowReleTimeStauts |-> FALSE] >>
                    ELSE << [slowReleCount |-> count] >>
    <3>6. Linked(q) /\ Linked(r) /\ Linked(t)
      BY <3>1, <3>2, <3>3, <3>4, <3>5, LinkedJoined
    <3>7. NIBP_AutoPressReleHanlder(s, in) = q \o r \o t
      BY <2>3 DEF NIBP_AutoPressReleHanlder, count, left, d
    <3> HIDE DEF q, r, t
    <3> QED
      BY <3>6, <3>7, LinkedJoined
  <2> QED
    BY <1>1, <2>1, <2>2, <2>3
<1>6. Linked(NIBP_ForceFastRelease(s))
  <2>1. Linked(<< [NIBP_Status |-> FALSE], [bIsPumpStop |-> FALSE], [algo_state |-> "IDLE"] >>)
    <3> DEFINE a == [NIBP_Status |-> FALSE]
               b == [bIsPumpStop |-> FALSE]
               c == [algo_state |-> "IDLE"]
    <3>1. /\ DOMAIN a = {"NIBP_Status"} /\ DOMAIN b = {"bIsPumpStop"}
          /\ DOMAIN c = {"algo_state"} /\ c.algo_state # "FALLING"
      OBVIOUS
    <3> HIDE DEF a, b, c
    <3>2. Linked(<<a, b, c>>)
      BY <3>1, Literals DEF Linked
    <3> QED
      BY <3>2 DEF a, b, c
  <2>2. Linked(IF s.curWorkMode = "CONTINUED" THEN << [contNextOut |-> FALSE] >> ELSE << >>)
    BY LinkedLiterals
  <2> QED
    BY <2>1, <2>2, LinkedBasics, LinkedJoined DEF NIBP_ForceFastRelease
<1>7. Linked(OversleeveHandle(s, in))
  BY LinkedBasics, LinkedLiterals DEF OversleeveHandle
<1>8. Linked(<< Call("protect") >>)
  BY LinkedLiterals DEF Call
<1>9. Linked(NIBP_ForceStop) /\ Linked(<< >>)
  BY LinkedBasics, LinkedLiterals
<1>10. CASE f = "measuring"
  <2>1. Linked(IF s.algo_state = "FALLING" THEN NIBP_AutoPressReleHanlder(s, in) ELSE << >>)
    BY <1>5, <1>9
  <2> QED
    BY <1>8, <1>9, <1>10, <2>1, LinkedJoined DEF HandlerPart
<1>11. CASE f # "measuring"
  BY <1>2, <1>3, <1>4, <1>6, <1>7, <1>9, <1>11 DEF HandlerPart, Parts
<1> QED
  BY <1>10, <1>11

(* ... and all commands but the two that start the pump alone. *)
LEMMA LinkedCommands ==
  ASSUME NEW s, NEW cmd \in AllCommands \ {"START", "DEBUG_PWM_ON"}
  PROVE  Linked(onMessageHandler(cmd, s))
<1>1. /\ \A m : Linked(<< [curWorkMode |-> m] >>)
      /\ \A b : Linked(<< [algo_sw |-> b] >>) /\ Linked(<< >>)
      /\ \A b : Linked(<< [verifyStauts |-> b] >>)
      /\ Linked(<< [bIsPumpStop |-> FALSE] >>) /\ Linked(<< [bIsCalculateDrop |-> TRUE] >>)
  BY LinkedLiterals
<1>2. ASSUME NEW cycler
      PROVE  Linked(NIBP_SetCycle(cycler))
  <2>1. Linked(CycleMode(cycler))
    BY <1>1 DEF CycleMode
  <2>2. Linked(<< [curCycler |-> cycler], [NIBP_Status |-> FALSE],
                  [SlowReleTimeStauts |-> FALSE] >>)
    BY LinkedLiterals
  <2>3. Linked(<< [autoOut |-> TRUE], Call("SampleAutoTest") >>)
    BY LinkedLiterals DEF Call
  <2> QED
    BY <1>1, <2>1, <2>2, <2>3, LinkedBasics, LinkedJoined DEF NIBP_SetCycle
<1>3. Linked(NIBP_setVenipuncture(s)) /\ Linked(NIBP_setContinueMode(s))
  <2>1. /\ Linked(<< [u8Venipuncture |-> "chosen"], [backup_mode |-> s.curWorkMode],
                     [curWorkMode |-> "VENIPUNCTURE"], [NIBP_Status |-> FALSE] >>)
        /\ Linked(<< [backup_mode |-> s.curWorkMode], [curWorkMode |-> "CONTINUED"],
                     [contTestOut |-> FALSE] >>)
    BY LinkedLiterals
  <2> QED
    BY <2>1, LinkedBasics, LinkedJoined DEF NIBP_setVenipuncture, NIBP_setContinueMode
<1>4. Linked(NIBP_setGasLeakTest(s))
  <2>1. Linked(<< [is_gas_leak_test |-> TRUE], [u8Venipuncture |-> "180"],
                  [backup_mode |-> s.curWorkMode], [curWorkMode |-> "VENIPUNCTURE"],
                  [gas_leak_tick |-> "off"], [NIBP_Status |-> FALSE] >>)
    BY LinkedLiterals
  <2> QED
    BY <2>1, LinkedBasics, LinkedJoined DEF NIBP_setGasLeakTest
<1>5. Linked(venipunctureStop(s)) /\ Linked(nibp_staticPressureOff(s))
  BY <1>1, LinkedBasics, LinkedJoined DEF venipunctureStop, nibp_staticPressureOff
<1>6. Linked(nibp_staticPressureOn(s))
  <2>1. /\ Linked(<< [NIBP_Status |-> FALSE], [bIsPumpStop |-> FALSE] >>)
        /\ Linked(<< [backup_mode |-> s.curWorkMode], [curWorkMode |-> "VENIPUNCTURE"] >>)
    BY LinkedLiterals
  <2> QED
    BY <2>1, LinkedBasics, LinkedJoined DEF nibp_staticPressureOn
<1>7. Linked(nibp_debug_pass_step(s))
  BY <1>1, LinkedBasics, LinkedJoined DEF nibp_debug_pass_step
<1>8. Linked(NIBP_VerifyExit(s))
  BY <1>1, <1>2, LinkedJoined DEF NIBP_VerifyExit
<1>9. /\ Linked(<< [curWorkMode |-> "DEBUG"] >> \o NIBP_SampleOneTimeByDebug)
      /\ Linked(<< [algo_sw |-> TRUE] >> \o nibp_algorithm_start)
      /\ Linked(<< [verifyStauts |-> TRUE] >> \o NIBP_SetPressRelease("HOLD"))
  BY <1>1, LinkedBasics, LinkedJoined
<1>10. Linked(NIBP_ForceStop) /\ Linked(nibp_debug_stop_pwm)
  BY LinkedBasics
<1> QED
  BY <1>1, <1>2, <1>3, <1>4, <1>5, <1>6, <1>7, <1>8, <1>9, <1>10 DEF onMessageHandler, AllCommands

(* In the deflation the pump is off. *)
Deflating(s) == s.algo_state = "FALLING" => ~ s.pump

(* The invariant behind NoPumpInDeflation. *)
FallInv == NoRestart /\ Linked(code) /\ Deflating(Settled)

(* Such a routine does not leave the pump running in the deflation. *)
LEMMA FallRoutine ==
  ASSUME NEW s, IsState(s), Deflating(s), NEW r, Linked(r)
  PROVE  Deflating(After(s, r))
<1> DEFINE z == After(s, r)
<1>1. DOMAIN s = Fields /\ {"algo_state", "pump"} \subseteq Fields /\ IsSeq(r)
  BY StateFields, FieldsAre DEF Linked
<1>2. /\ \/ z["algo_state"] = s["algo_state"] /\ ~ Writes(r, "algo_state")
         \/ \E i \in 1 .. Len(r) : "algo_state" \in DOMAIN r[i] /\ z["algo_state"] = r[i]["algo_state"]
      /\ \/ z["pump"] = s["pump"] /\ ~ Writes(r, "pump")
         \/ \E i \in 1 .. Len(r) : "pump" \in DOMAIN r[i] /\ z["pump"] = r[i]["pump"]
  BY <1>1, AfterOneOf
<1> HIDE DEF z
<1>3. ASSUME z.algo_state = "FALLING", z.pump
      PROVE  FALSE
  <2>1. s.algo_state = "FALLING" /\ ~ Writes(r, "algo_state")
    BY <1>2, <1>3 DEF Linked
  <2>2. \A i \in 1 .. Len(r) : ~ ("pump" \in DOMAIN r[i] /\ r[i].pump)
    BY <2>1 DEF Linked, Writes
  <2>3. s.pump
    BY <1>2, <1>3, <2>2
  <2> QED
    BY <2>1, <2>3 DEF Deflating
<1>4. Deflating(z)
  BY <1>3 DEF Deflating
<1> QED
  BY <1>4 DEF z

(* The start. *)
LEMMA FallInit ==
  ASSUME Init, NoRestart
  PROVE  FallInv
<1>1. Base
  BY InitBase
<1>2. Settled = g /\ Linked(code)
  BY <1>1, Literals, CallsKeep, LinkedLiterals DEF Settled, Init, Base, Calls
<1> QED
  BY <1>2 DEF FallInv, Deflating, Init

(* Every step keeps it. *)
LEMMA FallNext ==
  ASSUME Base, FallInv, [Next]_vars
  PROVE  FallInv'
<1>1. session' = session /\ IsState(g) /\ NoRestart' /\ {"algo_state", "pump"} \subseteq Fields
  BY SettledSteps, FieldsAre DEF Base, FallInv, NoRestart
<1>2. CASE MainAssign
  <2>1. Linked(code')
    BY <1>2, LinkedRest DEF FallInv, MainAssign
  <2> QED
    BY <1>1, <1>2, <2>1, SettledAssign DEF FallInv
<1>3. CASE IVG8_ISR
  <2>1. PICK in \in Input : g' = NIBP_StartSample(g, in)
    BY <1>3 DEF IVG8_ISR
  <2>2. /\ code' = code
        /\ g'.algo_state = "FALLING" => ~ g'.pump \/ (g.algo_state = "FALLING" /\ g'.pump = g.pump)
    BY <1>1, <1>3, <2>1, InterruptEffect DEF IVG8_ISR
  <2>3. /\ \/ Writes(code, "algo_state") /\ Settled'["algo_state"] = Settled["algo_state"]
           \/ /\ ~ Writes(code, "algo_state") /\ Settled'["algo_state"] = g'["algo_state"]
              /\ Settled["algo_state"] = g["algo_state"]
        /\ \/ Writes(code, "pump") /\ Settled'["pump"] = Settled["pump"]
           \/ ~ Writes(code, "pump") /\ Settled'["pump"] = g'["pump"] /\ Settled["pump"] = g["pump"]
    BY <1>1, <1>3, SettledInterrupt
  <2>4. ASSUME Settled'.algo_state = "FALLING", Settled'.pump
        PROVE  FALSE
    <3>1. CASE Writes(code, "algo_state")
      <4>1. PICK i \in 1 .. Len(code) :
                   "algo_state" \in DOMAIN code[i] /\ Settled["algo_state"] = code[i]["algo_state"]
        <5>1. DOMAIN g = Fields /\ IsSeq(code)
          BY <1>1, StateFields DEF FallInv, Linked
        <5>2. \/ Settled["algo_state"] = g["algo_state"] /\ ~ Writes(code, "algo_state")
              \/ \E i \in 1 .. Len(code) :
                   "algo_state" \in DOMAIN code[i] /\ Settled["algo_state"] = code[i]["algo_state"]
          BY <1>1, <5>1, AfterOneOf DEF Settled
        <5> QED
          BY <3>1, <5>2
      <4> QED
        BY <2>3, <2>4, <3>1, <4>1 DEF FallInv, Linked
    <3>2. CASE ~ Writes(code, "algo_state")
      <4>1. g'.algo_state = "FALLING" /\ Settled.algo_state = g.algo_state
        BY <2>3, <2>4, <3>2
      <4>2. CASE Writes(code, "pump")
        <5>1. DOMAIN g = Fields /\ IsSeq(code)
          BY <1>1, StateFields DEF FallInv, Linked
        <5>4. \/ Settled["pump"] = g["pump"] /\ ~ Writes(code, "pump")
              \/ \E i \in 1 .. Len(code) :
                   "pump" \in DOMAIN code[i] /\ Settled["pump"] = code[i]["pump"]
          BY <1>1, <5>1, AfterOneOf DEF Settled
        <5>2. PICK i \in 1 .. Len(code) : "pump" \in DOMAIN code[i] /\ Settled["pump"] = code[i]["pump"]
          BY <4>2, <5>4
        <5>3. Settled'["pump"] = Settled["pump"]
          BY <2>3, <4>2
        <5> QED
          BY <2>4, <3>2, <5>2, <5>3 DEF FallInv, Linked, Writes
      <4>3. CASE ~ Writes(code, "pump")
        BY <2>2, <2>3, <2>4, <4>1, <4>3 DEF FallInv, Deflating
      <4> QED
        BY <4>2, <4>3
    <3> QED
      BY <3>1, <3>2
  <2> QED
    BY <1>1, <2>2, <2>4 DEF FallInv, Deflating
<1>4. CASE g' = g /\ code' = code /\ Settled' = Settled
  BY <1>1, <1>4 DEF FallInv
<1>5. CASE /\ Calls(code) /\ Settled = g /\ Calls(code') /\ Settled' = g'
           /\ \A f \in Fields \ Reported : g'[f] = g[f]
  <2>1. {"algo_state", "pump"} \subseteq Fields \ Reported
    BY <1>1 DEF Reported, Timers, Reports
  <2>2. g'.algo_state = g.algo_state /\ g'.pump = g.pump
    BY <1>5, <2>1
  <2>3. Linked(code')
    BY <1>5, LinkedCalls
  <2> QED
    BY <1>1, <1>5, <2>2, <2>3 DEF FallInv, Deflating
<1>6. CASE /\ Settled = g /\ Calls(Tail(code))
           /\ \E f \in Parts \ {"uart", "algorithm"}, in \in Input :
                /\ code' = HandlerPart(f, g, in) \o Tail(code)
                /\ Settled' = After(g, HandlerPart(f, g, in))
  <2>1. PICK f \in Parts \ {"uart", "algorithm"}, in \in Input :
               /\ code' = HandlerPart(f, g, in) \o Tail(code)
               /\ Settled' = After(g, HandlerPart(f, g, in))
    BY <1>6
  <2>2. Linked(HandlerPart(f, g, in))
    BY <1>1, LinkedHandlers
  <2>3. Linked(code')
    BY <1>6, <2>1, <2>2, LinkedCalls, LinkedJoined
  <2>4. Deflating(Settled')
    BY <1>1, <1>6, <2>1, <2>2, FallRoutine DEF FallInv
  <2> QED
    BY <1>1, <2>3, <2>4 DEF FallInv
<1>7. CASE /\ Settled = g /\ Calls(Tail(code))
           /\ \E cmd \in session.commands :
                /\ code' = onMessageHandler(cmd, g) \o Tail(code)
                /\ Settled' = After(g, onMessageHandler(cmd, g))
  <2>1. PICK cmd \in session.commands : /\ code' = onMessageHandler(cmd, g) \o Tail(code)
                                        /\ Settled' = After(g, onMessageHandler(cmd, g))
    BY <1>7
  <2>2. cmd \in AllCommands \ {"START", "DEBUG_PWM_ON"}
    BY SessionParts DEF FallInv, NoRestart
  <2>3. Linked(onMessageHandler(cmd, g))
    BY <2>2, LinkedCommands
  <2>4. Linked(code')
    BY <1>7, <2>1, <2>3, LinkedCalls, LinkedJoined
  <2>5. Deflating(Settled')
    BY <1>1, <1>7, <2>1, <2>3, FallRoutine DEF FallInv
  <2> QED
    BY <1>1, <2>4, <2>5 DEF FallInv
<1> QED
  BY <1>2, <1>3, <1>4, <1>5, <1>6, <1>7, SettledSteps

(* In a session without START and DEBUG_PWM_ON, which restart the pump in  *)
(* any phase, the pump is off while the pressure comes down: whatever      *)
(* starts the pump behind the interrupt's back starts the algorithm again  *)
(* after it.                                                               *)
THEOREM NibpNoPumpInDeflation == Spec => []NoPumpInDeflation
<1>1. Init /\ NoRestart => FallInv
  BY FallInit
<1>2. Base /\ FallInv /\ [Next]_vars => FallInv'
  BY FallNext
<1>3. Base /\ FallInv => NoPumpInDeflation
  <2> SUFFICES ASSUME Base, FallInv, code = << >>
               PROVE  g.algo_state = "FALLING" => ~ g.pump
    BY DEF NoPumpInDeflation
  <2>1. Settled = g
    BY Literals, CallsKeep DEF Settled, Base, Calls
  <2> QED
    BY <2>1 DEF FallInv, Deflating
<1>4. Base /\ ~ NoRestart /\ [Next]_vars => ~ NoRestart'
  BY SettledSteps DEF NoRestart
<1>5. ~ NoRestart => NoPumpInDeflation
  BY DEF NoPumpInDeflation
<1>6. Spec /\ NoRestart => []NoPumpInDeflation
  BY <1>1, <1>2, <1>3, SpecBase, PTL DEF Spec
<1>7. Spec /\ ~ NoRestart => []NoPumpInDeflation
  BY <1>4, <1>5, SpecBase, PTL DEF Spec
<1> QED
  BY <1>6, <1>7, PTL

-----------------------------------------------------------------------------
(* The pump and its status.  In a program the pump is switched on just     *)
(* before the status says so.  When it is switched off the status follows  *)
(* at once, and before that the interrupt has been told not to start it    *)
(* or, in nibp_debug_pass_step, is busy with a pump that runs.             *)

StatusOn == [PWM_Status |-> TRUE]

(* The pump and its status are assigned each on its own. *)
Single(a) == \A f \in {"pump", "PWM_Status"} : f \in DOMAIN a => DOMAIN a = {f}

(* The fields whose assignments have an order. *)
OrderFields == PumpFields \cup {"bIsCalculateDrop"}

(* The three assignments of NIBP_SetPWM(FALSE), and the one with which     *)
(* nibp_debug_pass_step announces them ...                                 *)
Stopping(a) ==
  \/ DOMAIN a = {"bIsCalculateDrop"} /\ a.bIsCalculateDrop
  \/ DOMAIN a = {"sleeveOut"} /\ a.sleeveOut
  \/ DOMAIN a = {"pump"} /\ ~ a.pump
  \/ DOMAIN a = {"PWM_Status"} /\ ~ a.PWM_Status

(* ... and what comes before each of them. *)
Before(b, a) ==
  /\ DOMAIN a = {"sleeveOut"} => \/ DOMAIN b = {"algo_state"} /\ b.algo_state = "IDLE"
                                 \/ DOMAIN b = {"bIsPumpStop"} /\ ~ b.bIsPumpStop
                                 \/ DOMAIN b = {"bIsCalculateDrop"} /\ b.bIsCalculateDrop
  /\ DOMAIN a = {"bIsCalculateDrop"} => ~ a.bIsCalculateDrop
  /\ DOMAIN a = {"pump"} => DOMAIN b = {"sleeveOut"} /\ b.sleeveOut
  /\ DOMAIN a = {"PWM_Status"} => DOMAIN b = {"pump"} /\ ~ b.pump

(* The order of the assignments to the pump in a program. *)
Paired(c) ==
  /\ IsSeq(c)
  /\ \A i \in 1 .. Len(c) : Single(c[i])
  /\ \A i \in 1 .. Len(c) : "pump" \in DOMAIN c[i] /\ c[i].pump =>
       i + 1 \in 1 .. Len(c) /\ c[i + 1] = StatusOn
  /\ \A i \in 1 .. Len(c) - 1 : Stopping(c[i + 1]) => Before(c[i], c[i + 1])

(* A routine that can be called at any moment. *)
Whole(c) == Paired(c) /\ (Len(c) > 0 => ~ Stopping(c[1]))

(* Two programs, if a stop at the seam has been announced. *)
LEMMA PairedJoined ==
  ASSUME NEW r, Paired(r), NEW t, Paired(t),
         Len(r) > 0 /\ Len(t) > 0 /\ Stopping(t[1]) => Before(r[Len(r)], t[1])
  PROVE  Paired(r \o t) /\ (Whole(r) /\ (Len(r) > 0 \/ Whole(t)) => Whole(r \o t))
<1> DEFINE c == r \o t
<1>1. /\ IsSeq(c) /\ Len(c) = Len(r) + Len(t) /\ Len(r) \in Nat /\ Len(t) \in Nat
      /\ \A i \in 1 .. Len(r) : c[i] = r[i]
      /\ \A i \in 1 .. Len(t) : c[Len(r) + i] = t[i]
      /\ \A i \in 1 .. Len(c) :
           \/ i \in 1 .. Len(r) /\ c[i] = r[i]
           \/ i - Len(r) \in 1 .. Len(t) /\ c[i] = t[i - Len(r)]
  <2>1. Len(r) \in Nat /\ Len(t) \in Nat /\ IsSeq(r) /\ IsSeq(t)
    BY Lengths DEF Paired
  <2> QED
    BY <2>1, Joined
<1> HIDE DEF c
<1>2. ASSUME NEW i \in 1 .. Len(c), "pump" \in DOMAIN c[i], c[i].pump
      PROVE  i + 1 \in 1 .. Len(c) /\ c[i + 1] = StatusOn
  <2>1. CASE i \in 1 .. Len(r) /\ c[i] = r[i]
    <3>1. i + 1 \in 1 .. Len(r) /\ r[i + 1] = StatusOn
      BY <1>2, <2>1 DEF Paired
    <3> QED
      BY <3>1, <1>1
  <2>2. CASE i - Len(r) \in 1 .. Len(t) /\ c[i] = t[i - Len(r)]
    <3> DEFINE k == i - Len(r)
    <3>1. k \in 1 .. Len(t) /\ c[i] = t[k] /\ i = Len(r) + k
      BY <1>1, <2>2
    <3> HIDE DEF k
    <3>2. k + 1 \in 1 .. Len(t) /\ t[k + 1] = StatusOn
      BY <1>2, <3>1 DEF Paired
    <3>3. Len(r) + (k + 1) = i + 1 /\ i + 1 \in 1 .. Len(c) /\ c[Len(r) + (k + 1)] = t[k + 1]
      BY <3>1, <3>2, <1>1
    <3> QED
      BY <3>2, <3>3
  <2> QED
    BY <1>1, <2>1, <2>2
<1>3. \A i \in 1 .. Len(c) : Single(c[i])
  BY <1>1 DEF Paired
<1>4. ASSUME NEW i \in 1 .. Len(c) - 1, Stopping(c[i + 1])
      PROVE  Before(c[i], c[i + 1])
  <2>1. CASE i + 1 \in 1 .. Len(r)
    <3>1. i \in 1 .. Len(r) - 1 /\ c[i] = r[i] /\ c[i + 1] = r[i + 1]
      BY <1>1, <2>1
    <3> QED
      BY <1>4, <3>1 DEF Paired
  <2>2. CASE i = Len(r)
    <3>1. /\ Len(r) > 0 /\ Len(t) > 0 /\ Len(r) \in 1 .. Len(r) /\ 1 \in 1 .. Len(t)
      BY <1>1, <2>2
    <3>2. c[i] = r[Len(r)] /\ c[i + 1] = t[1]
      BY <1>1, <2>2, <3>1
    <3> QED
      BY <1>4, <3>1, <3>2
  <2>3. CASE i > Len(r)
    <3> DEFINE k == i - Len(r)
    <3>0. /\ Len(r) \in Nat /\ Len(t) \in Nat /\ i \in Nat /\ i > Len(r)
          /\ i <= Len(r) + Len(t) - 1
      BY <1>1, <2>3
    <3>1. /\ k \in 1 .. Len(t) - 1 /\ k \in 1 .. Len(t) /\ k + 1 \in 1 .. Len(t)
          /\ Len(r) + k = i /\ Len(r) + (k + 1) = i + 1
      BY <3>0
    <3> HIDE DEF k
    <3>2. c[Len(r) + k] = t[k] /\ c[Len(r) + (k + 1)] = t[k + 1]
      BY <1>1, <3>1
    <3>3. c[i] = t[k] /\ c[i + 1] = t[k + 1]
      BY <3>1, <3>2
    <3> QED
      BY <1>4, <3>1, <3>3 DEF Paired
  <2> QED
    BY <1>1, <2>1, <2>2, <2>3
<1>5. Paired(c)
  BY <1>1, <1>2, <1>3, <1>4 DEF Paired
<1>6. ASSUME Whole(r), Len(r) > 0 \/ Whole(t)
      PROVE  Whole(c)
  <2>1. CASE Len(r) > 0
    <3>1. 1 \in 1 .. Len(r) /\ c[1] = r[1]
      BY <1>1, <2>1
    <3> QED
      BY <1>5, <1>6, <2>1, <3>1 DEF Whole
  <2>2. CASE Len(r) = 0 /\ Len(t) > 0 /\ Whole(t)
    <3>1. 1 \in 1 .. Len(t) /\ Len(r) + 1 = 1 /\ c[Len(r) + 1] = t[1]
      BY <1>1, <2>2
    <3> QED
      BY <1>5, <2>2, <3>1 DEF Whole
  <2>3. CASE Len(c) = 0
    BY <1>5, <2>3 DEF Whole
  <2> QED
    BY <1>1, <1>6, <2>1, <2>2, <2>3
<1>7. Paired(c) /\ (Whole(r) /\ (Len(r) > 0 \/ Whole(t)) => Whole(c))
  BY <1>5, <1>6
<1> QED
  BY <1>7 DEF c

(* A routine that can be called at any moment may follow any other. *)
LEMMA WholeJoined ==
  ASSUME NEW r, NEW t, Whole(t)
  PROVE  /\ Paired(r) => Paired(r \o t)
         /\ Whole(r) => Whole(r \o t)
<1>1. /\ Paired(r) => Paired(r \o t)
      /\ Paired(r) /\ Whole(r) => Whole(r \o t)
  BY PairedJoined DEF Whole
<1> QED
  BY <1>1 DEF Whole

(* The rest of a program. *)
LEMMA PairedRest ==
  ASSUME NEW c, Paired(c), c # << >>
  PROVE  Paired(Tail(c))
<1> DEFINE t == Tail(c)
<1>1. /\ IsSeq(t) /\ Len(c) \in Nat /\ Len(t) = Len(c) - 1
      /\ \A i \in 1 .. Len(c) - 1 : t[i] = c[i + 1]
  BY Rest DEF Paired
<1> HIDE DEF t
<1>2. \A i \in 1 .. Len(t) : i + 1 \in 1 .. Len(c) /\ t[i] = c[i + 1]
  BY <1>1
<1>3. ASSUME NEW i \in 1 .. Len(t), "pump" \in DOMAIN t[i], t[i].pump
      PROVE  i + 1 \in 1 .. Len(t) /\ t[i + 1] = StatusOn
  <2>1. (i + 1) + 1 \in 1 .. Len(c) /\ c[(i + 1) + 1] = StatusOn
    BY <1>2, <1>3 DEF Paired
  <2>2. i + 1 \in 1 .. Len(t)
    BY <1>1, <2>1
  <2> QED
    BY <1>2, <2>1, <2>2
<1>4. ASSUME NEW i \in 1 .. Len(t) - 1, Stopping(t[i + 1])
      PROVE  Before(t[i], t[i + 1])
  <2>1. i + 1 \in 1 .. Len(c) - 1 /\ i \in 1 .. Len(t) /\ i + 1 \in 1 .. Len(t)
    BY <1>1
  <2>2. t[i] = c[i + 1] /\ t[i + 1] = c[(i + 1) + 1]
    BY <1>2, <2>1
  <2> QED
    BY <1>4, <2>1, <2>2 DEF Paired
<1>5. Paired(t)
  BY <1>1, <1>2, <1>3, <1>4 DEF Paired
<1> QED
  BY <1>5 DEF t

(* The routines written out assignment by assignment. *)
LEMMA WholeLiterals ==
  /\ Whole(<< >>)
  /\ \A a : OrderFields \cap DOMAIN a = {} => Whole(<<a>>)
  /\ \A a, b : OrderFields \cap (DOMAIN a \cup DOMAIN b) = {} => Whole(<<a, b>>)
  /\ \A a, b, c : OrderFields \cap (DOMAIN a \cup DOMAIN b \cup DOMAIN c) = {} => Whole(<<a, b, c>>)
  /\ \A a, b, c, d :
       OrderFields \cap (DOMAIN a \cup DOMAIN b \cup DOMAIN c \cup DOMAIN d) = {}
         => Whole(<<a, b, c, d>>)
  /\ \A a, b, c, d, e, f :
       OrderFields \cap (DOMAIN a \cup DOMAIN b \cup DOMAIN c \cup DOMAIN d
                        \cup DOMAIN e \cup DOMAIN f) = {}
         => Whole(<<a, b, c, d, e, f>>)
  /\ \A n : Whole(<< [bIsCalculateDrop |-> FALSE], [slowRele |-> n] >>)
<1>1. ASSUME NEW r, IsSeq(r), \A i \in 1 .. Len(r) : OrderFields \cap DOMAIN r[i] = {}
      PROVE  Whole(r)
  <2>1. \A i \in 1 .. Len(r) : ~ Stopping(r[i]) /\ Single(r[i]) /\ "pump" \notin DOMAIN r[i]
    BY <1>1 DEF Stopping, Single, OrderFields, PumpFields
  <2>2. Len(r) \in Nat
    BY <1>1, Lengths
  <2>3. \A i \in 1 .. Len(r) - 1 : i + 1 \in 1 .. Len(r)
    BY <2>2
  <2>4. Len(r) > 0 => 1 \in 1 .. Len(r)
    BY <2>2
  <2> QED
    BY <1>1, <2>1, <2>3, <2>4 DEF Whole, Paired
<1>2. ASSUME NEW n
      PROVE  Whole(<< [bIsCalculateDrop |-> FALSE], [slowRele |-> n] >>)
  <2> DEFINE a == [bIsCalculateDrop |-> FALSE]
             b == [slowRele |-> n]
  <2>1. DOMAIN a = {"bIsCalculateDrop"} /\ ~ a.bIsCalculateDrop /\ DOMAIN b = {"slowRele"}
    OBVIOUS
  <2> HIDE DEF a, b
  <2>2. Single(a) /\ Single(b) /\ ~ Stopping(a) /\ ~ Stopping(b)
    BY <2>1 DEF Single, Stopping
  <2>3. Whole(<<a, b>>)
    BY <2>1, <2>2, Literals DEF Whole, Paired
  <2> QED
    BY <2>3 DEF a, b
<1> HIDE DEF Whole
<1> QED
  BY <1>1, <1>2, Literals, SMTT(30)

(* Calls. *)
LEMMA WholeCalls ==
  ASSUME NEW c, Calls(c)
  PROVE  Whole(c)
<1>1. \A i \in 1 .. Len(c) : DOMAIN c[i] = {"call"}
  BY CallWrites DEF Calls
<1>2. \A i \in 1 .. Len(c) : ~ Stopping(c[i]) /\ Single(c[i]) /\ "pump" \notin DOMAIN c[i]
  BY <1>1 DEF Stopping, Single
<1>3. Len(c) \in Nat /\ IsSeq(c)
  BY Lengths DEF Calls
<1>4. (\A i \in 1 .. Len(c) - 1 : i + 1 \in 1 .. Len(c)) /\ (Len(c) > 0 => 1 \in 1 .. Len(c))
  BY <1>3
<1> QED
  BY <1>2, <1>3, <1>4 DEF Whole, Paired

(* NIBP_SetPWM(FALSE), which may not come unannounced. *)
LEMMA PairedStop ==
  Paired(NIBP_SetPWM(FALSE)) /\ Len(NIBP_SetPWM(FALSE)) = 3
    /\ DOMAIN NIBP_SetPWM(FALSE)[1] = {"sleeveOut"}
<1> DEFINE a == [sleeveOut |-> TRUE]
           b == [pump |-> FALSE]
           c == [PWM_Status |-> FALSE]
<1>1. /\ DOMAIN a = {"sleeveOut"} /\ DOMAIN b = {"pump"} /\ DOMAIN c = {"PWM_Status"}
      /\ ~ b.pump /\ a.sleeveOut
  OBVIOUS
<1>2. NIBP_SetPWM(FALSE) = <<a, b, c>>
  BY DEF NIBP_SetPWM
<1> HIDE DEF a, b, c
<1>3. Single(a) /\ Single(b) /\ Single(c) /\ Before(a, b) /\ Before(b, c)
  BY <1>1 DEF Single, Before
<1>4. Paired(<<a, b, c>>) /\ Len(<<a, b, c>>) = 3 /\ <<a, b, c>>[1] = a
  BY <1>1, <1>3, Literals DEF Paired
<1> QED
  BY <1>1, <1>2, <1>4

(* Nor may nibp_debug_pass_step. *)
LEMMA PairedPass ==
  LET r == << [bIsCalculateDrop |-> TRUE] >> \o NIBP_SetPWM(FALSE)
  IN  Paired(r) /\ Len(r) > 0 /\ DOMAIN r[1] = {"bIsCalculateDrop"}
<1> DEFINE a == [bIsCalculateDrop |-> TRUE]
           t == NIBP_SetPWM(FALSE)
<1>1. DOMAIN a = {"bIsCalculateDrop"} /\ a.bIsCalculateDrop
  OBVIOUS
<1>2. Paired(t) /\ Len(t) = 3 /\ DOMAIN t[1] = {"sleeveOut"}
  BY PairedStop
<1> HIDE DEF a, t
<1>3. Paired(<<a>>) /\ Len(<<a>>) = 1 /\ <<a>>[1] = a /\ IsSeq(<<a>>)
  BY <1>1, Literals DEF Paired, Single
<1>4. Before(<<a>>[Len(<<a>>)], t[1])
  BY <1>1, <1>2, <1>3 DEF Before
<1>5. Paired(<<a>> \o t)
  BY <1>2, <1>3, <1>4, PairedJoined
<1>6. Len(<<a>> \o t) = 4 /\ (<<a>> \o t)[1] = a
  <2> DEFINE r == <<a>>
  <2>1. Len(r) = 1 /\ Len(t) = 3 /\ 1 \in 1 .. Len(r) /\ r[1] = a
    BY <1>2, <1>3
  <2>2. IsSeq(r) /\ IsSeq(t)
    BY <1>2, <1>3 DEF Paired
  <2> HIDE DEF r
  <2>3. Len(r \o t) = Len(r) + Len(t) /\ \A i \in 1 .. Len(r) : (r \o t)[i] = r[i]
    BY <2>2, Joined
  <2>4. Len(r \o t) = 4 /\ (r \o t)[1] = a
    BY <2>1, <2>3
  <2> QED
    BY <2>4 DEF r
<1>7. /\ Paired(<<a>> \o t) /\ Len(<<a>> \o t) > 0
      /\ DOMAIN (<<a>> \o t)[1] = {"bIsCalculateDrop"}
  BY <1>1, <1>5, <1>6
<1> QED
  BY <1>7 DEF a, t

(* The pump is stopped after the interrupt has been told. *)
LEMMA WholeStop ==
  ASSUME NEW r, Whole(r), Len(r) > 0,
         \/ DOMAIN r[Len(r)] = {"algo_state"} /\ r[Len(r)].algo_state = "IDLE"
         \/ DOMAIN r[Len(r)] = {"bIsPumpStop"} /\ ~ r[Len(r)].bIsPumpStop
  PROVE  Whole(r \o NIBP_SetPWM(FALSE))
<1> DEFINE t == NIBP_SetPWM(FALSE)
<1>1. Paired(t) /\ Len(t) = 3 /\ DOMAIN t[1] = {"sleeveOut"}
  BY PairedStop
<1> HIDE DEF t
<1>2. Before(r[Len(r)], t[1])
  BY <1>1 DEF Before
<1>3. Paired(r)
  BY DEF Whole
<1>4. Whole(r \o t)
  BY <1>1, <1>2, <1>3, PairedJoined
<1> QED
  BY <1>4 DEF t

(* The routines that start, and the emergency stop. *)
LEMMA WholeBasics ==
  /\ \A mode : Whole(NIBP_SetPressRelease(mode))
  /\ Whole(NIBP_SetPWM(TRUE)) /\ Whole(nibp_algorithm_start) /\ Whole(NIBP_startPumpCtrl)
  /\ Whole(NIBP_SampleOneTimeByDebug) /\ Whole(NIBP_ForceStop)
<1>0. \A mode : Whole(NIBP_SetPressRelease(mode))
  BY WholeLiterals DEF NIBP_SetPressRelease, OrderFields, PumpFields
<1>1. Whole(NIBP_SetPWM(TRUE))
  <2> DEFINE a == [sleeveOut |-> FALSE]
             b == [pump |-> TRUE]
  <2>1. DOMAIN a = {"sleeveOut"} /\ ~ a.sleeveOut /\ DOMAIN b = {"pump"} /\ b.pump
    OBVIOUS
  <2>2. DOMAIN StatusOn = {"PWM_Status"} /\ StatusOn.PWM_Status
    BY DEF StatusOn
  <2>3. NIBP_SetPWM(TRUE) = <<a, b, StatusOn>>
    BY DEF NIBP_SetPWM, StatusOn
  <2> HIDE DEF a, b
  <2>4. /\ Single(a) /\ Single(b) /\ Single(StatusOn)
        /\ ~ Stopping(a) /\ ~ Stopping(b) /\ ~ Stopping(StatusOn)
    BY <2>1, <2>2 DEF Single, Stopping
  <2>5. Whole(<<a, b, StatusOn>>)
    BY <2>1, <2>2, <2>4, Literals DEF Whole, Paired
  <2> QED
    BY <2>3, <2>5
<1>2. Whole(nibp_algorithm_start)
  BY WholeLiterals DEF nibp_algorithm_start, OrderFields, PumpFields
<1>3. Whole(NIBP_startPumpCtrl)
  <2>1. Whole(NIBP_SetPressRelease("HOLD") \o NIBP_SetPWM(TRUE))
    BY <1>0, <1>1, WholeJoined
  <2> QED
    BY <1>2, <2>1, WholeJoined DEF NIBP_startPumpCtrl
<1>4. Whole(NIBP_SampleOneTimeByDebug)
  <2>1. Whole(<< [NIBP_Status |-> TRUE],
                 [isRisingStateRele |-> FALSE, u8RisingStepCount |-> 0,
                  isFisrtRisingStep |-> TRUE, weakOut |-> FALSE],
                 [forceOut |-> FALSE] >>)
    BY WholeLiterals DEF OrderFields, PumpFields
  <2> QED
    BY <1>3, <2>1, WholeJoined DEF NIBP_SampleOneTimeByDebug
<1>5. Whole(NIBP_ForceStop)
  <2> DEFINE r == << [curWorkMode |-> "MANUAL"], [NIBP_Status |-> FALSE],
                     [bIsPumpStop |-> FALSE], [algo_state |-> "IDLE"] >>
  <2>1. Whole(r)
    BY WholeLiterals DEF OrderFields, PumpFields
  <2>2. Len(r) = 4 /\ DOMAIN r[4] = {"algo_state"} /\ r[4].algo_state = "IDLE"
    OBVIOUS
  <2> HIDE DEF r
  <2>4. Whole(r \o NIBP_SetPWM(FALSE))
    <3>1. Len(r) > 0 /\ DOMAIN r[Len(r)] = {"algo_state"} /\ r[Len(r)].algo_state = "IDLE"
      BY <2>2
    <3> QED
      BY <2>1, <3>1, WholeStop
  <2>5. Whole((r \o NIBP_SetPWM(FALSE)) \o NIBP_SetPressRelease("FAST"))
    BY <1>0, <2>4, WholeJoined
  <2> QED
    BY <2>5 DEF NIBP_ForceStop, r
<1> QED
  BY <1>0, <1>1, <1>2, <1>3, <1>4, <1>5

(* The parts of NIBP_Handler. *)
LEMMA WholeHandlers ==
  ASSUME NEW s, IsState(s), NEW in, NEW f \in Parts \ {"uart", "algorithm"}
  PROVE  Whole(HandlerPart(f, s, in))
<1>1. s.SlowReleTimeStauts \in BOOLEAN /\ s.holdOut \in BOOLEAN
  BY StateFields
<1>2. Whole(NIBP_SampleAutoTest(s))
  <2>1. Whole(<< [autoOut |-> FALSE] >>) /\ Whole(<< >>)
    BY WholeLiterals DEF OrderFields, PumpFields
  <2> QED
    BY <2>1, WholeBasics, WholeJoined DEF NIBP_SampleAutoTest
<1>3. Whole(NIBP_ContinueModeHandle(s))
  <2>1. Whole(<< [curWorkMode |-> s.backup_mode] >>) /\ Whole(<< >>)
    BY WholeLiterals DEF OrderFields, PumpFields
  <2> QED
    BY <2>1, WholeBasics DEF NIBP_ContinueModeHandle
<1>4. Whole(GasLeakHandle(s))
  <2>1. /\ Whole(<< [bIsPumpStop |-> FALSE] >>)
        /\ Whole(<< [is_gas_leak_test |-> FALSE], [curWorkMode |-> s.backup_mode] >>)
        /\ Whole(<< >>)
    BY WholeLiterals DEF OrderFields, PumpFields
  <2> QED
    BY <2>1, WholeBasics, WholeJoined DEF GasLeakHandle
<1>5. Whole(NIBP_AutoPressReleHanlder(s, in))
  <2>1. CASE ~ s.SlowReleTimeStauts
    <3>1. Whole(NIBP_refreshSlowReleHoldTime(s, in))
      BY WholeBasics, WholeLiterals DEF NIBP_refreshSlowReleHoldTime
    <3>2. \A n : Whole(<< [holdOut |-> FALSE, stepData |-> "sampling"],
                          [SlowReleTimeStauts |-> TRUE], [slowRele |-> n] >>)
      BY WholeLiterals DEF OrderFields, PumpFields
    <3> QED
      BY <2>1, <3>1, <3>2, WholeJoined DEF NIBP_AutoPressReleHanlder
  <2>2. CASE s.SlowReleTimeStauts /\ ~ s.holdOut
    BY <2>2, WholeLiterals DEF NIBP_AutoPressReleHanlder
  <2>3. CASE s.SlowReleTimeStauts /\ s.holdOut
    <3> DEFINE count == IF in.above THEN s.slowReleCount ELSE s.slowReleCount + 1
               left == StairsLeft(s, in)
               d == IF s.stepData = "none" THEN "none" ELSE "complete"
    <3> HIDE DEF count, left, d
    <3>1. Whole(<< [bIsCalculateDrop |-> FALSE], [slowRele |-> left] >>)
          /\ Whole(<< >>)
      BY WholeLiterals DEF OrderFields, PumpFields
    <3>2. Whole(<< [stepData |-> d] >>)
      BY WholeLiterals DEF OrderFields, PumpFields
    <3>3. Whole(<< [NIBP_Status |-> FALSE], [SlowReleTimeStauts |-> FALSE] >>)
      BY WholeLiterals DEF OrderFields, PumpFields
    <3>4. Whole(<< [slowReleCount |-> 0] >>)
          /\ Whole(<< [slowReleCount |-> count] >>)
          /\ Whole(<< [SlowReleTimeStauts |-> FALSE] >>)
      BY WholeLiterals DEF OrderFields, PumpFields
    <3>5. \A mode : Whole(NIBP_SetPressRelease(mode))
      BY WholeBasics
    <3> DEFINE q == IF s.bIsCalculateDrop
                    THEN << [bIsCalculateDrop |-> FALSE], [slowRele |-> left] >> ELSE << >>
               r == IF left > 0
                    THEN << [stepData |-> d] >> \o NIBP_SetPressRelease("SLOW")
                    ELSE << [NIBP_Status |-> FALSE], [SlowReleTimeStauts |-> FALSE] >>
                           \o NIBP_SetPressRelease("FAST")
               t == IF StairDone(count)
                    THEN << [slowReleCount |-> 0] >> \o NIBP_SetPressRelease("HOLD")
                           \o << [SlowReleTimeStauts |-> FALSE] >>
                    ELSE << [slowReleCount |-> count] >>
    <3>6. Whole(q) /\ Whole(r) /\ Whole(t)
      BY <3>1, <3>2, <3>3, <3>4, <3>5, WholeJoined
    <3>7. NIBP_AutoPressReleHanlder(s, in) = q \o r \o t
      BY <2>3 DEF NIBP_AutoPressReleHanlder, count, left, d
    <3> HIDE DEF q, r, t
    <3> QED
      BY <3>6, <3>7, WholeJoined
  <2> QED
    BY <1>1, <2>1, <2>2, <2>3
<1>6. Whole(NIBP_ForceFastRelease(s))
  <2> DEFINE r == << [NIBP_Status |-> FALSE], [bIsPumpStop |-> FALSE], [algo_state |-> "IDLE"] >>
  <2>1. Whole(r)
    BY WholeLiterals DEF OrderFields, PumpFields
  <2>2. Len(r) = 3 /\ DOMAIN r[3] = {"algo_state"} /\ r[3].algo_state = "IDLE"
    OBVIOUS
  <2>3. /\ Whole(NIBP_SetPressRelease("FAST"))
        /\ Whole(IF s.curWorkMode = "CONTINUED" THEN << [contNextOut |-> FALSE] >> ELSE << >>)
    BY WholeLiterals, WholeBasics DEF OrderFields, PumpFields
  <2> HIDE DEF r
  <2>4. Whole(r \o NIBP_SetPWM(FALSE))
    <3>1. Len(r) > 0 /\ DOMAIN r[Len(r)] = {"algo_state"} /\ r[Len(r)].algo_state = "IDLE"
      BY <2>2
    <3> QED
      BY <2>1, <3>1, WholeStop
  <2>5. Whole((r \o NIBP_SetPWM(FALSE)) \o NIBP_SetPressRelease("FAST"))
    BY <2>3, <2>4, WholeJoined
  <2>6. Whole(((r \o NIBP_SetPWM(FALSE)) \o NIBP_SetPressRelease("FAST"))
              \o (IF s.curWorkMode = "CONTINUED" THEN << [contNextOut |-> FALSE] >> ELSE << >>))
    BY <2>3, <2>5, WholeJoined
  <2> QED
    BY <2>6 DEF NIBP_ForceFastRelease, r
<1>7. Whole(OversleeveHandle(s, in))
  BY WholeBasics, WholeLiterals DEF OversleeveHandle
<1>8. Whole(<< Call("protect") >>)
  BY WholeLiterals DEF Call, OrderFields, PumpFields
<1>9. Whole(NIBP_ForceStop) /\ Whole(<< >>)
  BY WholeBasics, WholeLiterals
<1>10. CASE f = "measuring"
  <2>1. Whole(IF s.algo_state = "FALLING" THEN NIBP_AutoPressReleHanlder(s, in) ELSE << >>)
    BY <1>5, <1>9
  <2> QED
    BY <1>8, <1>9, <1>10, <2>1, WholeJoined DEF HandlerPart
<1>11. CASE f # "measuring"
  BY <1>2, <1>3, <1>4, <1>6, <1>7, <1>9, <1>11 DEF HandlerPart, Parts
<1> QED
  BY <1>10, <1>11

(* nibp_debug_pass_step stops the pump without telling the interrupt not   *)
(* to start it, but only while the pump runs.                              *)
LEMMA WholeCommands ==
  ASSUME NEW s, NEW cmd \in AllCommands \ {"DEBUG_PWM_OFF"}, NEW r, r = onMessageHandler(cmd, s)
  PROVE  \/ Whole(r)
         \/ /\ r = << [bIsCalculateDrop |-> TRUE] >> \o NIBP_SetPWM(FALSE)
            /\ s.PWM_Status /\ s.curWorkMode = "DEBUG"
<1>1. /\ \A m : Whole(<< [curWorkMode |-> m] >>)
      /\ \A b : Whole(<< [algo_sw |-> b] >>) /\ Whole(<< >>)
      /\ \A b : Whole(<< [verifyStauts |-> b] >>)
      /\ \A b : Whole(<< [bIsPumpStop |-> b] >>)
      /\ \A mode : Whole(NIBP_SetPressRelease(mode))
  BY WholeLiterals, WholeBasics DEF OrderFields, PumpFields
<1>2. ASSUME NEW cycler
      PROVE  Whole(NIBP_SetCycle(cycler))
  <2>1. Whole(CycleMode(cycler))
    BY <1>1 DEF CycleMode
  <2>2. Whole(<< [curCycler |-> cycler], [NIBP_Status |-> FALSE],
                 [SlowReleTimeStauts |-> FALSE] >>)
    BY WholeLiterals DEF OrderFields, PumpFields
  <2>3. Whole(<< [autoOut |-> TRUE], Call("SampleAutoTest") >>)
    BY WholeLiterals DEF Call, OrderFields, PumpFields
  <2> QED
    BY <1>1, <2>1, <2>2, <2>3, WholeJoined DEF NIBP_SetCycle
<1>3. Whole(NIBP_setVenipuncture(s)) /\ Whole(NIBP_setContinueMode(s))
  <2>1. /\ Whole(<< [u8Venipuncture |-> "chosen"], [backup_mode |-> s.curWorkMode],
                    [curWorkMode |-> "VENIPUNCTURE"], [NIBP_Status |-> FALSE] >>)
        /\ Whole(<< [backup_mode |-> s.curWorkMode], [curWorkMode |-> "CONTINUED"],
                    [contTestOut |-> FALSE] >>)
    BY WholeLiterals DEF OrderFields, PumpFields
  <2> QED
    BY <2>1, WholeBasics, WholeJoined DEF NIBP_setVenipuncture, NIBP_setContinueMode
<1>4. Whole(NIBP_setGasLeakTest(s))
  <2>1. Whole(<< [is_gas_leak_test |-> TRUE], [u8Venipuncture |-> "180"],
                 [backup_mode |-> s.curWorkMode], [curWorkMode |-> "VENIPUNCTURE"],
                 [gas_leak_tick |-> "off"], [NIBP_Status |-> FALSE] >>)
    BY WholeLiterals DEF OrderFields, PumpFields
  <2> QED
    BY <2>1, WholeBasics, WholeJoined DEF NIBP_setGasLeakTest
<1>5. Whole(venipunctureStop(s)) /\ Whole(nibp_staticPressureOff(s))
  BY <1>1, WholeJoined DEF venipunctureStop, nibp_staticPressureOff
<1>6. Whole(nibp_staticPressureOn(s))
  <2> DEFINE u == << [NIBP_Status |-> FALSE], [bIsPumpStop |-> FALSE] >>
             v == << [backup_mode |-> s.curWorkMode], [curWorkMode |-> "VENIPUNCTURE"] >>
             p == NIBP_SetPressRelease("FAST")
             q == NIBP_SetPressRelease("HOLD")
  <2>1. Whole(u) /\ Whole(v) /\ Whole(p) /\ Whole(q)
    BY <1>1, WholeLiterals DEF OrderFields, PumpFields
  <2>2. Len(u) = 2 /\ DOMAIN u[2] = {"bIsPumpStop"} /\ ~ u[2].bIsPumpStop
    OBVIOUS
  <2> HIDE DEF u, v, p, q
  <2>3. Whole(u \o NIBP_SetPWM(FALSE))
    <3>1. Len(u) > 0 /\ DOMAIN u[Len(u)] = {"bIsPumpStop"} /\ ~ u[Len(u)].bIsPumpStop
      BY <2>2
    <3> QED
      BY <2>1, <3>1, WholeStop
  <2>4. Whole((u \o NIBP_SetPWM(FALSE)) \o p)
    BY <2>1, <2>3, WholeJoined
  <2>5. Whole(((u \o NIBP_SetPWM(FALSE)) \o p) \o v)
    BY <2>1, <2>4, WholeJoined
  <2>6. Whole((((u \o NIBP_SetPWM(FALSE)) \o p) \o v) \o q)
    BY <2>1, <2>5, WholeJoined
  <2>7. Whole(((((u \o NIBP_SetPWM(FALSE)) \o p) \o v) \o q) \o nibp_algorithm_start)
    BY <2>6, WholeBasics, WholeJoined
  <2> QED
    BY <2>7 DEF nibp_staticPressureOn, u, v, p, q
<1>7. CASE cmd = "DEBUG_PASS"
  BY <1>1, <1>7 DEF onMessageHandler, nibp_debug_pass_step
<1>8. Whole(NIBP_VerifyExit(s))
  BY <1>1, <1>2, WholeJoined DEF NIBP_VerifyExit
<1>9. /\ Whole(<< [curWorkMode |-> "DEBUG"] >> \o NIBP_SampleOneTimeByDebug)
      /\ Whole(<< [algo_sw |-> TRUE] >> \o nibp_algorithm_start)
      /\ Whole(<< [verifyStauts |-> TRUE] >> \o NIBP_SetPressRelease("HOLD"))
      /\ Whole(NIBP_ForceStop)
  BY <1>1, WholeBasics, WholeJoined
<1>10. /\ Whole(<< [curWorkMode |-> "DEBUG"] >> \o nibp_debug_start_pwm(s))
       /\ Whole(NIBP_SampleOneTime(s))
  <2>1. Whole(IF s.NIBP_Status THEN NIBP_SetPWM(TRUE) ELSE NIBP_SampleOneTimeByDebug)
    BY WholeBasics
  <2>2. Whole(nibp_debug_start_pwm(s))
    BY <1>1, <2>1, WholeJoined DEF nibp_debug_start_pwm
  <2>3. Whole(NIBP_SampleOneTime(s))
    BY <1>1, <2>1, WholeJoined DEF NIBP_SampleOneTime
  <2> QED
    BY <1>1, <2>2, <2>3, WholeJoined
<1>11. CASE cmd # "DEBUG_PASS"
  BY <1>1, <1>2, <1>3, <1>4, <1>5, <1>6, <1>8, <1>9, <1>10, <1>11 DEF onMessageHandler, AllCommands
<1> QED
  BY <1>7, <1>11

(* DEBUG_PWM_OFF lets the interrupt start the pump again (bIsPumpStop) and *)
(* then stops it: a step of the inflation between the two assignments of   *)
(* NIBP_SetPWM leaves the pump running with the status off.                *)
NoPumpOff == "DEBUG_PWM_OFF" \notin session.commands

(* The invariant behind PumpKnown: until the status is written the         *)
(* interrupt does not start the pump.                                      *)
KnownInv ==
  /\ NoPumpOff /\ Paired(code)
  /\ code # << >> /\ Stopping(code[1]) =>
       Calm(g) /\ (DOMAIN code[1] = {"PWM_Status"} => ~ g.pump)
  /\ Known(g) \/ (code # << >> /\ code[1] = StatusOn)

(* Executing an assignment. *)
LEMMA KnownAssign ==
  ASSUME Base, KnownInv, MainAssign
  PROVE  KnownInv'
<1> DEFINE a == code[1]
           t == Tail(code)
<1>1. /\ IsSeq(t) /\ Len(code) \in Nat /\ Len(t) = Len(code) - 1 /\ Len(code) >= 1
      /\ \A i \in 1 .. Len(code) - 1 : t[i] = code[i + 1]
      /\ Head(code) = a /\ code # << >>
  BY Rest DEF KnownInv, Paired, MainAssign
<1>2. g' = a @@ g /\ code' = t /\ session' = session
  BY <1>1 DEF MainAssign
<1>3. /\ Paired(code) /\ Paired(t) /\ NoPumpOff'
      /\ Stopping(a) => Calm(g) /\ (DOMAIN a = {"PWM_Status"} => ~ g.pump)
      /\ Known(g) \/ a = StatusOn
  BY <1>1, <1>2, PairedRest DEF KnownInv, NoPumpOff
<1>4. Single(a) /\ ("pump" \in DOMAIN a /\ a.pump => 2 \in 1 .. Len(code) /\ code[2] = StatusOn)
  <2>1. 1 \in 1 .. Len(code) /\ 1 + 1 = 2
    BY <1>1
  <2> QED
    BY <1>3, <2>1 DEF Paired
<1>5. t # << >> => t[1] = code[2] /\ (Stopping(code[2]) => Before(a, code[2]))
  <2>1. ASSUME t # << >>
        PROVE  1 \in 1 .. Len(code) - 1
    <3>1. Len(t) \in Nat /\ Len(t) # 0
      BY <1>1, <2>1, Lengths, EmptySeq DEF IsSeq
    <3> QED
      BY <1>1, <3>1
  <2>2. ASSUME 1 \in 1 .. Len(code) - 1
        PROVE  t[1] = code[1 + 1] /\ (Stopping(code[1 + 1]) => Before(code[1], code[1 + 1]))
    BY <1>1, <1>3, <2>2 DEF Paired
  <2> QED
    BY <2>1, <2>2
<1>6. /\ DOMAIN g = Fields /\ g.pump \in BOOLEAN
            /\ {"pump", "PWM_Status", "algo_state", "holdOut", "bIsPumpStop", "curWorkMode"}
          \subseteq Fields
  BY StateFields, FieldsAre DEF Base
<1>7. \A f \in Fields : g'[f] = IF f \in DOMAIN a THEN a[f] ELSE g[f]
  BY <1>2, <1>6 DEF @@
<1> HIDE DEF a, t
<1>8. Known(g') \/ (t # << >> /\ t[1] = StatusOn)
  <2>1. CASE "pump" \in DOMAIN a
    <3>1. CASE a.pump
      <4>1. Len(t) > 0
        BY <1>1, <1>4, <2>1, <3>1
      <4>2. t # << >>
        BY <4>1, Literals
      <4> QED
        BY <1>4, <1>5, <2>1, <3>1, <4>2
    <3>2. CASE ~ a.pump
      BY <1>6, <1>7, <2>1, <3>2 DEF Known
    <3> QED
      BY <3>1, <3>2
  <2>2. CASE "pump" \notin DOMAIN a /\ "PWM_Status" \in DOMAIN a
    <3>1. DOMAIN a = {"PWM_Status"} /\ g'.PWM_Status = a.PWM_Status /\ g'.pump = g.pump
      BY <1>4, <1>6, <1>7, <2>2 DEF Single
    <3>2. CASE a.PWM_Status
      BY <3>1, <3>2 DEF Known
    <3>3. CASE ~ a.PWM_Status
      BY <1>3, <3>1, <3>3 DEF Known, Stopping
    <3> QED
      BY <3>2, <3>3
  <2>3. CASE "pump" \notin DOMAIN a /\ "PWM_Status" \notin DOMAIN a
    <3>1. g'.PWM_Status = g.PWM_Status /\ g'.pump = g.pump
      BY <1>6, <1>7, <2>3
    <3>2. a # StatusOn
      BY <2>3 DEF StatusOn
    <3> QED
      BY <1>3, <3>1, <3>2 DEF Known
  <2> QED
    BY <2>1, <2>2, <2>3
<1>9. ASSUME t # << >>, Stopping(t[1])
      PROVE  Calm(g') /\ (DOMAIN t[1] = {"PWM_Status"} => ~ g'.pump)
  <2>1. Before(a, t[1])
    BY <1>5, <1>9
  <2>2. CASE DOMAIN t[1] = {"sleeveOut"}
    <3>1. CASE DOMAIN a = {"bIsCalculateDrop"} /\ a.bIsCalculateDrop
      <4>1. Calm(g)
        BY <1>3, <3>1 DEF Stopping
      <4>2. /\ g'.algo_state = g.algo_state /\ g'.holdOut = g.holdOut
            /\ g'.bIsPumpStop = g.bIsPumpStop /\ g'.PWM_Status = g.PWM_Status
            /\ g'.curWorkMode = g.curWorkMode
        BY <1>6, <1>7, <3>1
      <4> QED
        BY <2>2, <4>1, <4>2 DEF Calm
    <3>2. CASE g'.algo_state = "IDLE" \/ ~ g'.bIsPumpStop
      BY <2>2, <3>2 DEF Calm
    <3> QED
      BY <1>6, <1>7, <2>1, <2>2, <3>1, <3>2 DEF Before
  <2>3. CASE DOMAIN t[1] \in {{"pump"}, {"PWM_Status"}}
    <3>1. /\ Stopping(a) /\ DOMAIN a \in {{"sleeveOut"}, {"pump"}}
          /\ DOMAIN t[1] = {"PWM_Status"} => DOMAIN a = {"pump"} /\ ~ a.pump
      BY <2>1, <2>3 DEF Before, Stopping
    <3>2. Calm(g)
      BY <1>3, <3>1
    <3>3. /\ g'.algo_state = g.algo_state /\ g'.holdOut = g.holdOut
          /\ g'.bIsPumpStop = g.bIsPumpStop /\ g'.PWM_Status = g.PWM_Status
          /\ g'.curWorkMode = g.curWorkMode
      BY <1>6, <1>7, <3>1
    <3>4. DOMAIN t[1] = {"PWM_Status"} => ~ g'.pump
      BY <1>6, <1>7, <3>1
    <3> QED
      BY <3>2, <3>3, <3>4 DEF Calm
  <2>4. CASE DOMAIN t[1] = {"bIsCalculateDrop"}
    BY <1>9, <2>1, <2>4 DEF Before, Stopping
  <2> QED
    BY <1>9, <2>2, <2>3, <2>4 DEF Stopping
<1> QED
  BY <1>2, <1>3, <1>8, <1>9 DEF KnownInv

(* Every step keeps it. *)
LEMMA KnownNext ==
  ASSUME Base, KnownInv, [Next]_vars
  PROVE  KnownInv'
<1>1. session' = session /\ IsState(g) /\ NoPumpOff'
  BY SettledSteps DEF Base, KnownInv, NoPumpOff
<1>2. CASE MainAssign
  BY <1>2, KnownAssign
<1>3. CASE IVG8_ISR
  <2>1. PICK in \in Input : g' = NIBP_StartSample(g, in)
    BY <1>3 DEF IVG8_ISR
  <2>2. /\ code' = code /\ (Known(g) => Known(g'))
        /\ Calm(g) => Calm(g') /\ (g'.pump => g.pump)
    BY <1>1, <1>3, <2>1, InterruptEffect DEF IVG8_ISR
  <2> QED
    BY <1>1, <2>2 DEF KnownInv
<1>4. CASE g' = g /\ code' = code
  BY <1>1, <1>4 DEF KnownInv
<1>5. ASSUME Calls(code)
      PROVE  Known(g)
  <2>1. ASSUME code # << >>
        PROVE  code[1] # StatusOn
    <3>1. Len(code) \in Nat /\ Len(code) >= 1 /\ IsCall(code[1])
      BY <1>5, <2>1, Rest DEF Calls
    <3> QED
      BY <3>1, CallWrites DEF StatusOn
  <2> QED
    BY <2>1 DEF KnownInv
<1>6. ASSUME NEW r, NEW c, Calls(c), code' = r \o c, g' = g, Calls(code), Paired(r),
             Len(r) > 0 /\ Stopping(r[1]) => Calm(g) /\ DOMAIN r[1] # {"PWM_Status"}
      PROVE  KnownInv'
  <2>1. Whole(c) /\ Paired(code')
    BY <1>6, WholeCalls, WholeJoined
  <2>2. ASSUME code' # << >>, Stopping(code'[1])
        PROVE  Calm(g) /\ DOMAIN code'[1] # {"PWM_Status"}
    <3>1. CASE Len(r) = 0
      <4>1. r = << >> /\ c \in Seq({c[i] : i \in 1 .. Len(c)})
        BY <1>6, <3>1, EmptySeq DEF Paired, IsSeq, Calls
      <4>2. code' = c
        BY <1>6, <4>1
      <4>3. Len(c) > 0
        BY <1>6, <2>2, <4>2, Rest DEF Calls
      <4> QED
        BY <2>1, <2>2, <4>2, <4>3 DEF Whole
    <3>2. CASE Len(r) # 0
      <4>1. IsSeq(r) /\ IsSeq(c) /\ Len(r) \in Nat
        BY <1>6, Lengths DEF Paired, Calls
      <4>2. 1 \in 1 .. Len(r) /\ Len(r) > 0
        BY <3>2, <4>1
      <4>3. code'[1] = r[1]
        BY <1>6, <4>1, <4>2, Joined
      <4> QED
        BY <1>6, <2>2, <4>2, <4>3
    <3> QED
      BY <3>1, <3>2
  <2>3. Known(g)
    BY <1>5, <1>6
  <2> QED
    BY <1>1, <1>6, <2>1, <2>2, <2>3 DEF KnownInv
<1>7. CASE /\ Calls(code) /\ Calls(code')
           /\ \A f \in Fields \ Reported : g'[f] = g[f]
  <2>1. {"PWM_Status", "pump"} \subseteq Fields \ Reported
    BY FieldsAre DEF Reported, Timers, Reports
  <2>2. Known(g')
    BY <1>5, <1>7, <2>1 DEF Known
  <2>3. Whole(code')
    BY <1>7, WholeCalls
  <2>4. code' # << >> => Len(code') > 0
    <3>1. IsSeq(code')
      BY <1>7 DEF Calls
    <3> QED
      BY <3>1, Rest
  <2> QED
    BY <1>1, <2>2, <2>3, <2>4 DEF KnownInv, Whole
<1>8. CASE /\ Calls(code) /\ g' = g /\ Calls(Tail(code))
           /\ \E f \in Parts \ {"uart", "algorithm"}, in \in Input :
                code' = HandlerPart(f, g, in) \o Tail(code)
  <2>1. PICK f \in Parts \ {"uart", "algorithm"}, in \in Input :
               code' = HandlerPart(f, g, in) \o Tail(code)
    BY <1>8
  <2>2. Whole(HandlerPart(f, g, in))
    BY <1>1, WholeHandlers
  <2> QED
    BY <1>6, <1>8, <2>1, <2>2 DEF Whole
<1>9. CASE /\ Calls(code) /\ g' = g /\ Calls(Tail(code))
           /\ \E cmd \in session.commands : code' = onMessageHandler(cmd, g) \o Tail(code)
  <2>1. PICK cmd \in session.commands : code' = onMessageHandler(cmd, g) \o Tail(code)
    BY <1>9
  <2> DEFINE r == onMessageHandler(cmd, g)
  <2>2. cmd \in AllCommands \ {"DEBUG_PWM_OFF"}
    BY SessionParts DEF KnownInv, NoPumpOff
  <2>3. \/ Whole(r)
        \/ /\ r = << [bIsCalculateDrop |-> TRUE] >> \o NIBP_SetPWM(FALSE)
           /\ g.PWM_Status /\ g.curWorkMode = "DEBUG"
    BY <2>2, WholeCommands
  <2> HIDE DEF r
  <2>4. Paired(r) /\ (Len(r) > 0 /\ Stopping(r[1]) => Calm(g) /\ DOMAIN r[1] # {"PWM_Status"})
    BY <2>3, PairedPass DEF Whole, Calm
  <2>5. code' = r \o Tail(code)
    BY <2>1 DEF r
  <2> QED
    BY <1>6, <1>9, <2>4, <2>5
<1> QED
  BY <1>2, <1>3, <1>4, <1>7, <1>8, <1>9, SettledSteps

(* The pump is never running behind the back of its status, whatever the   *)
(* host does except switching the pump off by the debug command and        *)
(* wherever the interrupt comes.                                           *)
THEOREM NibpPumpKnown == Spec /\ NoPumpOff => []PumpKnown
<1>1. Init /\ NoPumpOff => KnownInv
  <2>1. ASSUME Init, NoPumpOff
        PROVE  KnownInv
    <3>1. Paired(code) /\ code = << >>
      BY <2>1, WholeLiterals DEF Init, Whole
    <3> QED
      BY <2>1, <3>1 DEF KnownInv, Known, Init
  <2> QED
    BY <2>1
<1>2. Base /\ KnownInv /\ [Next]_vars => KnownInv'
  BY KnownNext
<1>3. Base /\ KnownInv => PumpKnown
  <2>1. ASSUME Base, KnownInv, g.pump, ~ g.PWM_Status
        PROVE  code # << >> /\ Head(code) = [PWM_Status |-> TRUE]
    <3>1. code # << >> /\ code[1] = StatusOn
      BY <2>1 DEF KnownInv, Known
    <3>2. Head(code) = code[1]
      BY <2>1, <3>1, Rest DEF KnownInv, Paired
    <3> QED
      BY <3>1, <3>2 DEF StatusOn
  <2> QED
    BY <2>1 DEF PumpKnown
<1> QED
  BY <1>1, <1>2, <1>3, SpecBase, PTL DEF Spec

-----------------------------------------------------------------------------
(* The cuff outside a measurement.  A program that ends the algorithm sets *)
(* the pump and the valves afterwards.                                     *)

(* A program does not begin the deflation, and when it ends the algorithm  *)
(* it sets the field f afterwards.                                         *)
Ends(c, f) ==
  /\ IsSeq(c)
  /\ \A i \in 1 .. Len(c) : "algo_state" \in DOMAIN c[i] =>
       \/ c[i].algo_state = "RISING"
       \/ /\ c[i].algo_state = "IDLE"
          /\ \E j \in 1 .. Len(c) : i < j /\ f \in DOMAIN c[j]

(* Two routines, one after the other. *)
LEMMA EndsJoined ==
  ASSUME NEW f, NEW r, Ends(r, f), NEW t, Ends(t, f)
  PROVE  Ends(r \o t, f)
<1> DEFINE c == r \o t
<1>1. /\ IsSeq(c) /\ Len(c) = Len(r) + Len(t) /\ Len(r) \in Nat /\ Len(t) \in Nat
      /\ \A i \in 1 .. Len(r) : c[i] = r[i]
      /\ \A i \in 1 .. Len(t) : c[Len(r) + i] = t[i]
      /\ \A i \in 1 .. Len(c) :
           \/ i \in 1 .. Len(r) /\ c[i] = r[i]
           \/ i - Len(r) \in 1 .. Len(t) /\ c[i] = t[i - Len(r)]
  <2>1. Len(r) \in Nat /\ Len(t) \in Nat /\ IsSeq(r) /\ IsSeq(t)
    BY Lengths DEF Ends
  <2> QED
    BY <2>1, Joined
<1> HIDE DEF c
<1>2. ASSUME NEW i \in 1 .. Len(c), "algo_state" \in DOMAIN c[i], c[i].algo_state # "RISING"
      PROVE  /\ c[i].algo_state = "IDLE"
             /\ \E j \in 1 .. Len(c) : i < j /\ f \in DOMAIN c[j]
  <2>1. CASE i \in 1 .. Len(r) /\ c[i] = r[i]
    <3>1. PICK j \in 1 .. Len(r) : i < j /\ f \in DOMAIN r[j]
      BY <1>2, <2>1 DEF Ends
    <3>2. r[i].algo_state = "IDLE"
      BY <1>2, <2>1 DEF Ends
    <3> QED
      BY <2>1, <3>1, <3>2, <1>1
  <2>2. CASE i - Len(r) \in 1 .. Len(t) /\ c[i] = t[i - Len(r)]
    <3> DEFINE k == i - Len(r)
    <3>1. k \in 1 .. Len(t) /\ c[i] = t[k] /\ i = Len(r) + k
      BY <1>1, <2>2
    <3> HIDE DEF k
    <3>2. PICK j \in 1 .. Len(t) : k < j /\ f \in DOMAIN t[j]
      BY <1>2, <3>1 DEF Ends
    <3>3. t[k].algo_state = "IDLE"
      BY <1>2, <3>1 DEF Ends
    <3>4. Len(r) + j \in 1 .. Len(c) /\ i < Len(r) + j /\ c[Len(r) + j] = t[j]
      BY <3>1, <3>2, <1>1
    <3> QED
      BY <3>1, <3>2, <3>3, <3>4
  <2> QED
    BY <1>1, <2>1, <2>2
<1>3. Ends(c, f)
  BY <1>1, <1>2 DEF Ends
<1> QED
  BY <1>3 DEF c

(* A routine that writes the field at its end. *)
LEMMA EndsWith ==
  ASSUME NEW f, NEW r, IsSeq(r), NEW t, IsSeq(t), Writes(t, f), ~ Writes(t, "algo_state"),
                  \A i \in 1 .. Len(r) : "algo_state" \in DOMAIN r[i] => r[i].algo_state \in
                                                                                     {"IDLE",
                                                                                     "RISING"}
  PROVE  Ends(r \o t, f)
<1> DEFINE c == r \o t
<1>1. /\ IsSeq(c) /\ Len(c) = Len(r) + Len(t) /\ Len(r) \in Nat /\ Len(t) \in Nat
      /\ \A i \in 1 .. Len(t) : c[Len(r) + i] = t[i]
      /\ \A i \in 1 .. Len(c) :
           \/ i \in 1 .. Len(r) /\ c[i] = r[i]
           \/ i - Len(r) \in 1 .. Len(t) /\ c[i] = t[i - Len(r)]
  <2>1. Len(r) \in Nat /\ Len(t) \in Nat
    BY Lengths
  <2> QED
    BY <2>1, Joined
<1>2. PICK k \in 1 .. Len(t) : f \in DOMAIN t[k]
  BY DEF Writes
<1> HIDE DEF c
<1>3. ASSUME NEW i \in 1 .. Len(c), "algo_state" \in DOMAIN c[i]
      PROVE  /\ c[i].algo_state \in {"IDLE", "RISING"}
             /\ \E j \in 1 .. Len(c) : i < j /\ f \in DOMAIN c[j]
  <2>1. i \in 1 .. Len(r) /\ c[i] = r[i]
    BY <1>1, <1>3 DEF Writes
  <2>2. Len(r) + k \in 1 .. Len(c) /\ i < Len(r) + k /\ c[Len(r) + k] = t[k]
    BY <1>1, <2>1
  <2>3. c[i].algo_state \in {"IDLE", "RISING"}
    BY <1>3, <2>1
  <2>4. f \in DOMAIN c[Len(r) + k]
    BY <1>2, <2>2
  <2> QED
    BY <2>2, <2>3, <2>4
<1>4. Ends(c, f)
  BY <1>1, <1>3 DEF Ends
<1> QED
  BY <1>4 DEF c

(* The rest of a program. *)
LEMMA EndsRest ==
  ASSUME NEW f, NEW c, Ends(c, f), c # << >>
  PROVE  Ends(Tail(c), f)
<1> DEFINE t == Tail(c)
<1>1. /\ IsSeq(t) /\ Len(c) \in Nat /\ Len(t) = Len(c) - 1
      /\ \A i \in 1 .. Len(c) - 1 : t[i] = c[i + 1]
  BY Rest DEF Ends
<1> HIDE DEF t
<1>2. \A i \in 1 .. Len(t) : i + 1 \in 1 .. Len(c) /\ t[i] = c[i + 1]
  BY <1>1
<1>3. ASSUME NEW i \in 1 .. Len(t), "algo_state" \in DOMAIN t[i], t[i].algo_state # "RISING"
      PROVE  /\ t[i].algo_state = "IDLE"
             /\ \E j \in 1 .. Len(t) : i < j /\ f \in DOMAIN t[j]
  <2>1. PICK j \in 1 .. Len(c) : i + 1 < j /\ f \in DOMAIN c[j]
    BY <1>2, <1>3 DEF Ends
  <2>2. c[i + 1].algo_state = "IDLE"
    BY <1>2, <1>3 DEF Ends
  <2>3. j - 1 \in 1 .. Len(t) /\ i < j - 1 /\ t[j - 1] = c[j]
    BY <1>1, <2>1
  <2> QED
    BY <1>2, <2>1, <2>2, <2>3
<1>4. Ends(t, f)
  BY <1>1, <1>2, <1>3 DEF Ends
<1> QED
  BY <1>4 DEF t

(* Routines that leave the algorithm alone. *)
LEMMA EndsOther ==
  ASSUME NEW f, NEW X, "algo_state" \notin X, NEW r, Only(r, X)
  PROVE  Ends(r, f)
  BY DEF Only, Ends

(* Calls. *)
LEMMA EndsCalls ==
  ASSUME NEW f, NEW c, Calls(c)
  PROVE  Ends(c, f)
<1>1. \A i \in 1 .. Len(c) : DOMAIN c[i] = {"call"}
  BY CallWrites DEF Calls
<1> QED
  BY <1>1 DEF Calls, Ends

(* Both the pump and the valves. *)
Ending(c) == Ends(c, "pump") /\ Ends(c, "slowPin")

(* Two routines, one after the other. *)
LEMMA EndingJoined ==
  ASSUME NEW r, Ending(r), NEW t, Ending(t)
  PROVE  Ending(r \o t)
  BY EndsJoined DEF Ending

(* Routines that leave the algorithm alone. *)
LEMMA EndingOther ==
  ASSUME NEW X, "algo_state" \notin X, NEW r, Only(r, X)
  PROVE  Ending(r)
  BY EndsOther DEF Ending

(* The routine r, which may end the algorithm, with the pump and the       *)
(* valves behind it.                                                       *)
LEMMA EndingStop ==
  ASSUME NEW r, IsSeq(r),
         \A i \in 1 .. Len(r) : "algo_state" \in DOMAIN r[i] => r[i].algo_state = "IDLE"
  PROVE  Ending((r \o NIBP_SetPWM(FALSE)) \o NIBP_SetPressRelease("FAST"))
<1> DEFINE p == NIBP_SetPWM(FALSE)
           v == NIBP_SetPressRelease("FAST")
           c == r \o p
<1>1. /\ IsSeq(p) /\ Writes(p, "pump") /\ ~ Writes(p, "algo_state")
      /\ IsSeq(v) /\ Writes(v, "slowPin") /\ ~ Writes(v, "algo_state") /\ Only(v, ValveFields)
  <2>1. Only(p, PumpFields)
    BY OnlyBasics
  <2>2. Len(p) = 3 /\ "pump" \in DOMAIN p[2]
    BY DEF NIBP_SetPWM
  <2>3. Writes(p, "pump")
    <3> HIDE DEF p
    <3> QED
      BY <2>2 DEF Writes
  <2>4. Only(v, ValveFields)
    BY OnlyBasics
  <2>5. Len(v) = 2 /\ "slowPin" \in DOMAIN v[1]
    BY DEF NIBP_SetPressRelease
  <2>6. Writes(v, "slowPin")
    <3> HIDE DEF v
    <3> QED
      BY <2>5 DEF Writes
  <2> HIDE DEF p, v
  <2> QED
    BY <2>1, <2>3, <2>4, <2>6 DEF Only, Writes, PumpFields, ValveFields
<1> HIDE DEF p, v
<1>2. Ends(c, "pump")
  BY <1>1, EndsWith
<1> HIDE DEF c
<1>3. Ends(v, "pump")
  BY <1>1, EndsOther DEF ValveFields
<1>4. Ends(c \o v, "pump")
  BY <1>2, <1>3, EndsJoined
<1>5. IsSeq(c) /\ \A i \in 1 .. Len(c) :
         "algo_state" \in DOMAIN c[i] => c[i].algo_state \in {"IDLE", "RISING"}
  BY <1>2 DEF Ends
<1>6. Ends(c \o v, "slowPin")
  BY <1>1, <1>5, EndsWith
<1>7. Ending(c \o v)
  BY <1>4, <1>6 DEF Ending
<1> QED
  BY <1>7 DEF c, p, v

(* The routines that start, and the emergency stop. *)
LEMMA EndingBasics ==
  Ending(nibp_algorithm_start) /\ Ending(NIBP_startPumpCtrl) /\ Ending(NIBP_SampleOneTimeByDebug)
    /\ Ending(NIBP_ForceStop)
<1>1. Ending(nibp_algorithm_start)
  <2> DEFINE a == [algo_state |-> "RISING"]
             b == [isAllDone |-> FALSE]
             c == [isRisingDone |-> FALSE, risingResult |-> "old"]
             d == [stepData |-> "none"]
  <2>1. /\ DOMAIN a = {"algo_state"} /\ a.algo_state = "RISING" /\ DOMAIN b = {"isAllDone"}
        /\ DOMAIN c = {"isRisingDone", "risingResult"} /\ DOMAIN d = {"stepData"}
    OBVIOUS
  <2> HIDE DEF a, b, c, d
  <2>2. Ending(<<a, b, c, d>>)
    BY <2>1, Literals DEF Ending, Ends
  <2> QED
    BY <2>2 DEF nibp_algorithm_start, a, b, c, d
<1>2. Ending(NIBP_startPumpCtrl)
  <2>1. Ending(NIBP_SetPressRelease("HOLD"))
    <3>1. Only(NIBP_SetPressRelease("HOLD"), ValveFields) /\ "algo_state" \notin ValveFields
      BY OnlyBasics DEF ValveFields
    <3> QED
      BY <3>1, EndingOther
  <2>2. Ending(NIBP_SetPWM(TRUE))
    <3>1. Only(NIBP_SetPWM(TRUE), PumpFields) /\ "algo_state" \notin PumpFields
      BY OnlyBasics DEF PumpFields
    <3> QED
      BY <3>1, EndingOther
  <2> QED
    BY <1>1, <2>1, <2>2, EndingJoined DEF NIBP_startPumpCtrl
<1>3. Ending(NIBP_SampleOneTimeByDebug)
  <2> DEFINE r == << [NIBP_Status |-> TRUE],
                     [isRisingStateRele |-> FALSE, u8RisingStepCount |-> 0,
                      isFisrtRisingStep |-> TRUE, weakOut |-> FALSE],
                     [forceOut |-> FALSE] >>
             X == {"NIBP_Status", "isRisingStateRele", "u8RisingStepCount", "isFisrtRisingStep",
                   "weakOut", "forceOut"}
  <2>1. Only(r, X) /\ "algo_state" \notin X
    BY OnlyLiterals
  <2> HIDE DEF r, X
  <2>2. Ending(r)
    BY <2>1, EndingOther
  <2> QED
    BY <1>2, <2>2, EndingJoined DEF NIBP_SampleOneTimeByDebug, r
<1>4. Ending(NIBP_ForceStop)
  <2> DEFINE a == [curWorkMode |-> "MANUAL"]
             b == [NIBP_Status |-> FALSE]
             c == [bIsPumpStop |-> FALSE]
             d == [algo_state |-> "IDLE"]
             r == <<a, b, c, d>>
  <2>1. /\ DOMAIN a = {"curWorkMode"} /\ DOMAIN b = {"NIBP_Status"}
        /\ DOMAIN c = {"bIsPumpStop"} /\ DOMAIN d = {"algo_state"} /\ d.algo_state = "IDLE"
    OBVIOUS
  <2> HIDE DEF a, b, c, d
  <2>2. IsSeq(r) /\ \A i \in 1 .. Len(r) : "algo_state" \in DOMAIN r[i] => r[i].algo_state = "IDLE"
    BY <2>1, Literals
  <2> HIDE DEF r
  <2>3. Ending((r \o NIBP_SetPWM(FALSE)) \o NIBP_SetPressRelease("FAST"))
    BY <2>2, EndingStop
  <2> QED
    BY <2>3 DEF NIBP_ForceStop, r, a, b, c, d
<1> QED
  BY <1>1, <1>2, <1>3, <1>4

(* The pulse is found: the interrupt goes on after the stop that each of   *)
(* these three events makes.                                               *)
PulseFound == session.events \cap {"weak", "cuff", "overMeasure"} = {}

(* The sessions in which, besides, a measurement is only started, stopped  *)
(* and watched.  The others do break the invariants: a gas-leak test, or a *)
(* cycle chosen in the inflation, leaves the algorithm inflating without a *)
(* measurement, and a venipuncture stopped leaves the pump on.             *)
Measures == OnlyMeasures /\ PulseFound

(* A staircase of at least two stairs (it starts above the minimum), and   *)
(* more than one sample below the target before a stair is held.           *)
Staircase == Steps > 1 /\ TEST_SLOW_RELE_COUNT > 0

(* When no measurement runs, nothing inflates the cuff or keeps it closed. *)
Resting(s) ==
  ~ s.NIBP_Status => /\ s.algo_state # "RISING" /\ s.slowPin = "LOW"
                     /\ NoRestart => ~ s.pump

(* The last stair begins with no sample counted: otherwise the count could *)
(* close the valve after the measurement has ended.  Nor are the stairs    *)
(* counted anew.                                                           *)
Counted(s) ==
  /\ ~ s.bIsCalculateDrop
  /\ /\ s.NIBP_Status /\ s.algo_state = "FALLING"
     /\ s.slowRele = 0 \/ (s.slowRele = 1 /\ ~ s.SlowReleTimeStauts)
     => s.slowReleCount = 0

(* A routine that keeps this. *)
Safe(s, r) ==
  /\ Ending(r) /\ Resting(After(s, r)) /\ Counted(After(s, r))
  /\ Writes(r, "slowRele") => s.algo_state # "RISING" /\ ~ Writes(r, "algo_state")

(* A routine keeps the other fields. *)
LEMMA OnlyKept ==
  ASSUME NEW s, NEW X, NEW r, Only(r, X), NEW f \in DOMAIN s, f \notin X
  PROVE  After(s, r)[f] = s[f] /\ ~ Writes(r, f)
<1>1. ~ Writes(r, f)
  BY DEF Only, Writes
<1> QED
  BY <1>1, AfterKept

(* The fields this is about. *)
LEMMA CuffState ==
  {"NIBP_Status", "algo_state", "slowPin", "fastPin", "pump", "slowRele", "slowReleCount",
   "SlowReleTimeStauts", "bIsCalculateDrop"} \subseteq Fields
  BY FieldsAre

(* A routine that leaves all alone except perhaps the pump. *)
LEMMA SafeOnly ==
  ASSUME NEW s, IsState(s), Resting(s), Counted(s), NEW X, NEW r, Only(r, X),
         X \cap {"NIBP_Status", "algo_state", "slowPin", "fastPin", "slowRele", "slowReleCount",
                 "SlowReleTimeStauts", "bIsCalculateDrop"} = {},
         s.NIBP_Status \/ "pump" \notin X \/ ~ After(s, r).pump
  PROVE  Safe(s, r)
<1> DEFINE z == After(s, r)
<1>1. DOMAIN s = Fields
  BY StateFields
<1>2. /\ z.NIBP_Status = s.NIBP_Status /\ z.algo_state = s.algo_state
      /\ z.slowPin = s.slowPin /\ z.bIsCalculateDrop = s.bIsCalculateDrop
      /\ z.slowRele = s.slowRele /\ z.slowReleCount = s.slowReleCount
      /\ z.SlowReleTimeStauts = s.SlowReleTimeStauts /\ ~ Writes(r, "slowRele")
  BY <1>1, OnlyKept, CuffState
<1>3. "pump" \notin X => z.pump = s.pump
  BY <1>1, OnlyKept, CuffState
<1>4. Ending(r)
  BY EndingOther
<1> HIDE DEF z
<1>5. Resting(z) /\ Counted(z)
  <2>1. s.NIBP_Status \/ "pump" \notin X \/ ~ z.pump
    BY DEF z
  <2> QED
    BY <1>2, <1>3, <2>1 DEF Resting, Counted
<1> QED
  BY <1>2, <1>4, <1>5 DEF Safe, z

(* A routine that starts a measurement. *)
Starts(r) ==
  /\ Ending(r) /\ ~ Writes(r, "slowRele") /\ ~ Writes(r, "bIsCalculateDrop")
  /\ \A s : DOMAIN s = Fields => After(s, r).NIBP_Status /\ After(s, r).algo_state = "RISING"

(* Starting a measurement is safe: it is declared, and the staircase is    *)
(* new.                                                                    *)
LEMMA StartsSafe ==
  ASSUME NEW s, IsState(s), Counted(s), NEW r, Starts(r)
  PROVE  Safe(s, r)
<1>1. DOMAIN s = Fields /\ "bIsCalculateDrop" \in Fields
  BY StateFields, CuffState
<1>2. /\ After(s, r).NIBP_Status /\ After(s, r).algo_state = "RISING"
      /\ ~ After(s, r).bIsCalculateDrop
  BY <1>1, AfterKept DEF Starts, Counted
<1> QED
  BY <1>2 DEF Starts, Safe, Resting, Counted

(* NIBP_SampleOneTimeByDebug starts one. *)
LEMMA StartsMeasure == Starts(NIBP_SampleOneTimeByDebug)
<1> DEFINE r == NIBP_SampleOneTimeByDebug
<1>1. PICK c : /\ Sets(r, c) /\ DOMAIN c = MeasureFields /\ c.NIBP_Status
               /\ c.algo_state = "RISING"
  BY SetsMeasure
<1>2. Only(r, MeasureFields) /\ Ending(r)
  BY OnlyBasics, EndingBasics
<1>3. /\ {"NIBP_Status", "algo_state"} \subseteq MeasureFields
      /\ "slowRele" \notin MeasureFields /\ "bIsCalculateDrop" \notin MeasureFields
  BY DEF MeasureFields, PumpFields, StartFields
<1> HIDE DEF r
<1>4. ASSUME NEW s, DOMAIN s = Fields
      PROVE  After(s, r).NIBP_Status /\ After(s, r).algo_state = "RISING"
  <2>1. After(s, r) = c @@ s
    BY <1>1 DEF Sets
  <2>2. {"NIBP_Status", "algo_state"} \subseteq Fields
    BY FieldsAre
  <2> QED
    BY <1>1, <1>3, <1>4, <2>1, <2>2 DEF @@
<1>5. ~ Writes(r, "slowRele") /\ ~ Writes(r, "bIsCalculateDrop")
  BY <1>2, <1>3 DEF Only, Writes
<1>6. Starts(r)
  BY <1>2, <1>4, <1>5 DEF Starts
<1> QED
  BY <1>6 DEF r

(* ... with something unrelated before or after it. *)
LEMMA StartsAround ==
  ASSUME NEW r, Starts(r), NEW X, NEW a, Only(a, X),
         X \cap {"NIBP_Status", "algo_state", "slowRele", "bIsCalculateDrop"} = {}
  PROVE  Starts(a \o r) /\ Starts(r \o a)
<1>1. IsSeq(a) /\ IsSeq(r) /\ Ending(a) /\ Ending(r)
  BY EndingOther DEF Starts, Ending, Ends
<1>2. \A h \in {"slowRele", "bIsCalculateDrop"} : ~ Writes(a, h) /\ ~ Writes(r, h)
  BY DEF Starts, Only, Writes
<1>3. \A h \in {"slowRele", "bIsCalculateDrop"} : ~ Writes(a \o r, h) /\ ~ Writes(r \o a, h)
  BY <1>1, <1>2, Joined DEF Writes
<1>4. Ending(a \o r) /\ Ending(r \o a)
  BY <1>1, EndingJoined
<1>5. ASSUME NEW s, DOMAIN s = Fields
      PROVE  /\ After(s, a \o r).NIBP_Status /\ After(s, a \o r).algo_state = "RISING"
             /\ After(s, r \o a).NIBP_Status /\ After(s, r \o a).algo_state = "RISING"
  <2>1. /\ After(s, a \o r) = After(After(s, a), r) /\ After(s, r \o a) = After(After(s, r), a)
        /\ DOMAIN After(s, a) = Fields /\ DOMAIN After(s, r) = Fields
    BY <1>1, <1>5, AfterJoined, AfterDomain
  <2>2. /\ After(After(s, a), r).NIBP_Status /\ After(After(s, a), r).algo_state = "RISING"
        /\ After(s, r).NIBP_Status /\ After(s, r).algo_state = "RISING"
    BY <1>5, <2>1 DEF Starts
  <2>3. /\ After(After(s, r), a).NIBP_Status = After(s, r).NIBP_Status
        /\ After(After(s, r), a).algo_state = After(s, r).algo_state
    <3>1. {"NIBP_Status", "algo_state"} \subseteq Fields
      BY FieldsAre
    <3> QED
      BY <2>1, <3>1, OnlyKept
  <2> QED
    BY <2>1, <2>2, <2>3
<1> QED
  BY <1>3, <1>4, <1>5 DEF Starts

(* The emergency stop is safe: it opens the valves and stops the pump ... *)
LEMMA SafeForceStop ==
  ASSUME NEW s, IsState(s), Counted(s)
  PROVE  Safe(s, NIBP_ForceStop)
<1>1. DOMAIN s = Fields /\ "bIsCalculateDrop" \in Fields \ StopFields
  BY StateFields, CuffState DEF StopFields, PumpFields
<1> DEFINE z == After(s, NIBP_ForceStop)
<1>2. /\ ~ z.NIBP_Status /\ z.algo_state = "IDLE" /\ z.slowPin = "LOW" /\ ~ z.pump
      /\ ~ z.bIsCalculateDrop
  BY <1>1, AfterForceStop DEF Counted
<1>3. ~ Writes(NIBP_ForceStop, "slowRele")
  <2>1. Only(NIBP_ForceStop, StopFields) /\ "slowRele" \notin StopFields
    BY OnlyBasics DEF StopFields, PumpFields
  <2> QED
    BY <2>1 DEF Only, Writes
<1> HIDE DEF z
<1>4. Resting(z) /\ Counted(z)
  BY <1>2 DEF Resting, Counted
<1> QED
  BY <1>3, <1>4, EndingBasics DEF Safe, z

(* ... and so is the regular end of a measurement. *)
LEMMA SafeFastRelease ==
  ASSUME NEW s, IsState(s), Counted(s)
  PROVE  Safe(s, NIBP_ForceFastRelease(s))
<1> DEFINE a == [NIBP_Status |-> FALSE]
           b == [bIsPumpStop |-> FALSE]
           c == [algo_state |-> "IDLE"]
           r == <<a, b, c>>
           p == NIBP_SetPWM(FALSE)
           v == NIBP_SetPressRelease("FAST")
           n == IF s.curWorkMode = "CONTINUED" THEN << [contNextOut |-> FALSE] >> ELSE << >>
           u == After(s, r)
           w == After(u, p)
           x == After(w, v)
<1>1. /\ DOMAIN a = {"NIBP_Status"} /\ DOMAIN b = {"bIsPumpStop"} /\ ~ a.NIBP_Status
      /\ DOMAIN c = {"algo_state"} /\ c.algo_state = "IDLE"
  OBVIOUS
<1>2. /\ DOMAIN s = Fields
      /\ {"NIBP_Status", "algo_state", "slowPin", "fastPin", "pump", "bIsCalculateDrop"} \subseteq Fields
  BY StateFields, CuffState
<1>3. Only(n, {"contNextOut"}) /\ IsSeq(v) /\ IsSeq(p)
  <2>1. Only(<< [contNextOut |-> FALSE] >>, {"contNextOut"}) /\ Only(<< >>, {"contNextOut"})
        /\ Only(v, ValveFields) /\ Only(p, PumpFields)
    BY OnlyLiterals, OnlyBasics
  <2> QED
    BY <2>1 DEF Only
<1>4. /\ \A y : After(y, p) = [sleeveOut |-> TRUE, pump |-> FALSE, PWM_Status |-> FALSE] @@ y
      /\ \A y : After(y, v) = [slowPin |-> "LOW", fastPin |-> "LOW"] @@ y
  <2>1. Sets(p, [sleeveOut |-> ~ FALSE, pump |-> FALSE, PWM_Status |-> FALSE])
    BY SetsPWM
  <2>2. (~ FALSE) = TRUE
    OBVIOUS
  <2>3. Sets(v, [slowPin |-> "LOW", fastPin |-> "LOW"])
    BY SetsPressRelease
  <2> HIDE DEF p, v
  <2>4. \A y : After(y, p) = [sleeveOut |-> TRUE, pump |-> FALSE, PWM_Status |-> FALSE] @@ y
    BY <2>1, <2>2 DEF Sets
  <2>5. \A y : After(y, v) = [slowPin |-> "LOW", fastPin |-> "LOW"] @@ y
    BY <2>3 DEF Sets
  <2> QED
    BY <2>4, <2>5
<1> HIDE DEF a, b, c
<1>5. /\ IsSeq(r) /\ ~ Writes(r, "slowRele") /\ ~ Writes(r, "bIsCalculateDrop")
      /\ \A i \in 1 .. Len(r) : "algo_state" \in DOMAIN r[i] => r[i].algo_state = "IDLE"
  BY <1>1, Literals DEF Writes
<1>6. u = c @@ (b @@ (a @@ s))
  BY After3
<1>7. ~ u.NIBP_Status /\ u.algo_state = "IDLE" /\ DOMAIN u = Fields
  BY <1>1, <1>2, <1>6 DEF @@
<1> HIDE DEF r, u
<1>8. ~ w.NIBP_Status /\ w.algo_state = "IDLE" /\ ~ w.pump /\ DOMAIN w = Fields
  <2>1. w = [sleeveOut |-> TRUE, pump |-> FALSE, PWM_Status |-> FALSE] @@ u
    BY <1>4
  <2> HIDE DEF w, p
  <2>2. {"sleeveOut", "pump", "PWM_Status"} \subseteq Fields
    BY FieldsAre
  <2> QED
    BY <1>2, <1>7, <2>1, <2>2, SMTT(30) DEF @@
<1> HIDE DEF w
<1>9. /\ ~ x.NIBP_Status /\ x.algo_state = "IDLE" /\ ~ x.pump /\ x.slowPin = "LOW"
      /\ DOMAIN x = Fields
  <2>1. x = [slowPin |-> "LOW", fastPin |-> "LOW"] @@ w
    BY <1>4
  <2> HIDE DEF x, v
  <2> QED
    BY <1>2, <1>8, <2>1, SMTT(30) DEF @@
<1>10. Ending((r \o p) \o v)
  BY <1>5, EndingStop
<1> DEFINE Others == {"slowRele", "bIsCalculateDrop"}
<1>11. /\ \A h \in Others : ~ Writes((r \o p) \o v, h)
       /\ x = After(s, (r \o p) \o v) /\ IsSeq((r \o p) \o v)
  <2>1. \A h \in Others : ~ Writes(p, h) /\ ~ Writes(v, h) /\ ~ Writes(r, h)
    <3>1. Only(v, ValveFields) /\ Only(p, PumpFields)
      BY OnlyLiterals, OnlyBasics
    <3> HIDE DEF v, p
    <3> QED
      BY <1>5, <3>1 DEF Only, Writes, PumpFields, ValveFields
  <2> HIDE DEF v, p, Others
  <2>2. (\A h \in Others : ~ Writes(r \o p, h)) /\ IsSeq(r \o p)
    BY <1>3, <1>5, <2>1, Joined DEF Writes
  <2>3. \A h \in Others : ~ Writes((r \o p) \o v, h)
    BY <1>3, <2>1, <2>2, Joined DEF Writes
  <2>4. After(s, (r \o p) \o v) = After(After(s, r \o p), v)
    BY <1>3, <2>2, AfterJoined
  <2>5. After(s, r \o p) = After(After(s, r), p)
    BY <1>3, <1>5, AfterJoined
  <2>6. x = After(s, (r \o p) \o v)
    BY <2>4, <2>5 DEF u, w
  <2> QED
    BY <1>3, <2>2, <2>3, <2>6, Joined
<1> HIDE DEF x, n
<1> DEFINE y == (r \o p) \o v
           z == After(s, y \o n)
<1>12. NIBP_ForceFastRelease(s) = y \o n
  BY DEF NIBP_ForceFastRelease, y, n, r, a, b, c
<1>13. Ending(y) /\ (\A h \in Others : ~ Writes(y, h)) /\ x = After(s, y) /\ IsSeq(y)
  BY <1>10, <1>11
<1> HIDE DEF y
<1>14. z = After(x, n) /\ Ending(n) /\ IsSeq(n)
  <2>1. IsSeq(n)
    BY <1>3 DEF Only
  <2>2. "algo_state" \notin {"contNextOut"}
    OBVIOUS
  <2>3. Ending(n)
    BY <1>3, <2>2, EndingOther
  <2>4. After(s, y \o n) = After(After(s, y), n)
    BY <1>13, <2>1, AfterJoined
  <2> QED
    BY <1>13, <2>1, <2>3, <2>4
<1>15. ~ z.NIBP_Status /\ z.algo_state = "IDLE" /\ ~ z.pump /\ z.slowPin = "LOW"
  <2> HIDE DEF z
  <2>1. \A f \in Fields \ {"contNextOut"} : After(x, n)[f] = x[f]
    BY <1>3, <1>9, OnlyKept
  <2>2. {"NIBP_Status", "algo_state", "slowPin", "pump"} \subseteq Fields \ {"contNextOut"}
    BY <1>2
  <2> QED
    BY <1>9, <1>14, <2>1, <2>2
<1>16. Ending(y \o n) /\ \A h \in Others : ~ Writes(y \o n, h)
  <2>1. \A h \in Others : ~ Writes(n, h)
    BY <1>3 DEF Only, Writes
  <2> HIDE DEF Others
  <2> QED
    BY <1>13, <1>14, <2>1, EndingJoined, Joined DEF Writes
<1>17. ~ z.bIsCalculateDrop
  <2> HIDE DEF y, n
  <2>1. ~ Writes(y \o n, "bIsCalculateDrop")
    BY <1>16
  <2> QED
    BY <1>2, <2>1, AfterKept DEF Counted
<1> HIDE DEF z
<1>18. Resting(z) /\ Counted(z)
  BY <1>15, <1>17 DEF Resting, Counted
<1> QED
  BY <1>12, <1>16, <1>18 DEF Safe, z

(* One look at the staircase. *)
StairFields ==
  {"holdOut", "stepData", "SlowReleTimeStauts", "slowRele", "slowReleCount", "NIBP_Status",
   "slowPin", "fastPin"}

(* A look at the staircase is safe: the last stair opens the valves, and   *)
(* its first sample cannot close them again.                               *)
LEMMA SafeStair ==
  ASSUME NEW s, IsState(s), Counted(s), s.NIBP_Status, s.algo_state = "FALLING",
         NoRestart => Deflating(s), Staircase, NEW in, ~ in.weak
  PROVE  Safe(s, NIBP_AutoPressReleHanlder(s, in))
<1> DEFINE r == NIBP_AutoPressReleHanlder(s, in)
           z == After(s, r)
<1>1. /\ DOMAIN s = Fields /\ s = [f \in DOMAIN s |-> s[f]]
      /\ s.SlowReleTimeStauts \in BOOLEAN /\ s.holdOut \in BOOLEAN
      /\ s.slowRele \in Nat /\ s.slowReleCount \in Nat
      /\ TEST_SLOW_RELE_COUNT \in Nat /\ TEST_SLOW_RELE_COUNT > 0
  BY StateFields, NibpAssumption DEF IsState, Staircase
<1>2. /\ {"NIBP_Status", "algo_state", "slowPin", "fastPin", "pump", "slowRele", "slowReleCount",
          "SlowReleTimeStauts", "bIsCalculateDrop"} \subseteq Fields
      /\ ~ s.bIsCalculateDrop
  BY CuffState DEF Counted
<1>3. SUFFICES Only(r, StairFields) /\ Resting(z) /\ (~ z.bIsCalculateDrop => Counted(z))
  <2> HIDE DEF r
  <2>1. "algo_state" \notin StairFields
    BY DEF StairFields
  <2>2. Ending(r) /\ ~ Writes(r, "algo_state")
    BY <1>3, <2>1, EndingOther DEF Only, Writes
  <2>3. ~ z.bIsCalculateDrop
    BY <1>1, <1>2, <1>3, OnlyKept DEF StairFields
  <2> QED
    BY <1>3, <2>2, <2>3 DEF Safe, r
<1>4. CASE ~ s.SlowReleTimeStauts
  <2> DEFINE k == IF s.slowRele = 0 THEN 0 ELSE s.slowRele - 1
             a == [holdOut |-> FALSE, stepData |-> "sampling"]
             b == [SlowReleTimeStauts |-> TRUE]
             c == [slowRele |-> k]
             q == <<a, b, c>>
  <2>1. r = << >> \o q
    BY <1>4 DEF NIBP_AutoPressReleHanlder, NIBP_refreshSlowReleHoldTime
  <2>2. /\ DOMAIN a = {"holdOut", "stepData"} /\ DOMAIN b = {"SlowReleTimeStauts"}
        /\ DOMAIN c = {"slowRele"} /\ b.SlowReleTimeStauts /\ c.slowRele = k
        /\ k = 0 => s.slowRele \in {0, 1}
    BY <1>1
  <2> HIDE DEF a, b, c, k
  <2>3. Only(q, StairFields) /\ Only(<< >>, StairFields)
    BY <2>2, OnlyLiterals DEF StairFields
  <2>4. After(s, q) = c @@ (b @@ (a @@ s)) /\ After(s, << >>) = s
    BY <1>1, After3, After0
  <2> HIDE DEF q, r
  <2>5. Only(r, StairFields)
    BY <2>1, <2>3, OnlyJoined
  <2>6. z = c @@ (b @@ (a @@ s))
    <3>1. After(s, << >> \o q) = After(After(s, << >>), q)
      <4> DEFINE e == << >>
      <4>1. IsSeq(q) /\ IsSeq(e)
        BY <2>3 DEF Only
      <4> HIDE DEF e
      <4>2. After(s, e \o q) = After(After(s, e), q)
        BY <4>1, AfterJoined
      <4> QED
        BY <4>2 DEF e
    <3> QED
      BY <2>1, <2>4, <3>1
  <2> HIDE DEF z
  <2>7. /\ z.NIBP_Status /\ z.SlowReleTimeStauts /\ z.slowRele = k
        /\ z.slowReleCount = s.slowReleCount
    BY <1>1, <1>2, <2>2, <2>6 DEF @@
  <2>8. k = 0 => s.slowReleCount = 0
    BY <1>4, <2>2 DEF Counted
  <2> QED
    BY <2>5, <2>7, <2>8 DEF Resting, Counted
<1>5. CASE s.SlowReleTimeStauts /\ ~ s.holdOut
  <2>1. r = << >>
    BY <1>5 DEF NIBP_AutoPressReleHanlder
  <2>2. Only(<< >>, StairFields) /\ After(s, << >>) = s
    BY <1>1, OnlyLiterals, After0
  <2> HIDE DEF r
  <2> QED
    BY <2>1, <2>2 DEF Resting
<1>6. CASE s.SlowReleTimeStauts /\ s.holdOut
  <2> DEFINE count == IF in.above THEN s.slowReleCount ELSE s.slowReleCount + 1
             d == IF s.stepData = "none" THEN "none" ELSE "complete"
             down == << [stepData |-> d] >> \o NIBP_SetPressRelease("SLOW")
             last == << [NIBP_Status |-> FALSE], [SlowReleTimeStauts |-> FALSE] >>
                       \o NIBP_SetPressRelease("FAST")
             held == (<< [slowReleCount |-> 0] >> \o NIBP_SetPressRelease("HOLD"))
                       \o << [SlowReleTimeStauts |-> FALSE] >>
             more == << [slowReleCount |-> count] >>
             p == IF s.slowRele > 0 THEN down ELSE last
             q == IF StairDone(count) THEN held ELSE more
             u == After(s, p)
  <2>1. r = p \o q
    <3>1. r = (<< >> \o p) \o q
      BY <1>2, <1>6 DEF NIBP_AutoPressReleHanlder, StairsLeft
    <3>2. << >> \o p = p
      BY DEF NIBP_SetPressRelease
    <3> HIDE DEF p, q, r
    <3> QED
      BY <3>1, <3>2
  <2>2. Only(down, StairFields) /\ Only(last, StairFields) /\ Only(held, StairFields)
        /\ Only(more, StairFields)
    <3>1. /\ \A mode : Only(NIBP_SetPressRelease(mode), StairFields)
          /\ Only(<< [stepData |-> d] >>, StairFields)
          /\ Only(<< [NIBP_Status |-> FALSE], [SlowReleTimeStauts |-> FALSE] >>, StairFields)
          /\ Only(<< [slowReleCount |-> 0] >>, StairFields)
          /\ Only(<< [SlowReleTimeStauts |-> FALSE] >>, StairFields)
          /\ Only(more, StairFields)
      <4> HIDE DEF d, count
      <4> QED
        BY OnlyLiterals, OnlyBasics, OnlyMore DEF StairFields, ValveFields
    <3> HIDE DEF d, count
    <3> QED
      BY <3>1, OnlyJoined
  <2>3. Only(p, StairFields) /\ Only(q, StairFields)
    BY <2>2
  <2>4. z = After(u, q) /\ Only(r, StairFields)
    <3> HIDE DEF p, q, r
    <3>1. IsSeq(p) /\ IsSeq(q)
      BY <2>3 DEF Only
    <3> QED
      BY <2>1, <2>3, <3>1, AfterJoined, OnlyJoined
  <2>5. /\ s.slowRele > 0 => /\ u.NIBP_Status /\ u.SlowReleTimeStauts /\ u.slowRele = s.slowRele
                             /\ u.algo_state = "FALLING" /\ DOMAIN u = Fields
        /\ ~ (s.slowRele > 0) => /\ ~ u.NIBP_Status /\ u.slowPin = "LOW" /\ u.pump = s.pump
                                 /\ u.algo_state = "FALLING" /\ DOMAIN u = Fields
    <3>1. After(s, down) = Then([stepData |-> d], [slowPin |-> "LOW", fastPin |-> "HIGH"]) @@ s
      BY SetsLiterals, SetsPressRelease, SetsJoined DEF Sets
    <3>2. After(s, last) = Then(Then([NIBP_Status |-> FALSE], [SlowReleTimeStauts |-> FALSE]),
                                [slowPin |-> "LOW", fastPin |-> "LOW"]) @@ s
      <4> DEFINE a == [NIBP_Status |-> FALSE]
                 b == [SlowReleTimeStauts |-> FALSE]
                 c == [slowPin |-> "LOW", fastPin |-> "LOW"]
                 v == NIBP_SetPressRelease("FAST")
      <4>1. Sets(v, c)
        BY SetsPressRelease
      <4> HIDE DEF a, b, c, v
      <4>2. Sets(<<a, b>>, Then(a, b))
        BY SetsLiterals
      <4>3. Sets(<<a, b>> \o v, Then(Then(a, b), c))
        BY <4>1, <4>2, SetsJoined
      <4> QED
        BY <4>3 DEF Sets, a, b, c, v
    <3>3. LET x == After(s, down) IN
            /\ x.NIBP_Status /\ x.SlowReleTimeStauts /\ x.slowRele = s.slowRele
            /\ x.algo_state = "FALLING" /\ DOMAIN x = Fields
      <4> HIDE DEF down, d
      <4> QED
        BY <1>1, <1>2, <1>6, <3>1 DEF @@, Then
    <3>4. LET x == After(s, last) IN
            /\ ~ x.NIBP_Status /\ x.slowPin = "LOW" /\ x.pump = s.pump
            /\ x.algo_state = "FALLING" /\ DOMAIN x = Fields
      <4> HIDE DEF last
      <4> QED
        BY <1>1, <1>2, <3>2 DEF @@, Then
    <3> HIDE DEF down, last
    <3> QED
      BY <3>3, <3>4
  <2>6. /\ After(u, more) = [slowReleCount |-> count] @@ u
        /\ After(u, held) = Then(Then([slowReleCount |-> 0], [slowPin |-> "HIGH", fastPin |-> "HIGH"]),
                                 [SlowReleTimeStauts |-> FALSE]) @@ u
    <3> HIDE DEF u
    <3>1. Sets(held, Then(Then([slowReleCount |-> 0], [slowPin |-> "HIGH", fastPin |-> "HIGH"]),
                          [SlowReleTimeStauts |-> FALSE]))
      BY SetsLiterals, SetsPressRelease, SetsJoined
    <3> QED
      BY <3>1, After1 DEF Sets
  <2>7. CASE s.slowRele > 0
    <3> HIDE DEF u, z
    <3>1. CASE StairDone(count)
      <4>1. z = Then(Then([slowReleCount |-> 0], [slowPin |-> "HIGH", fastPin |-> "HIGH"]),
                     [SlowReleTimeStauts |-> FALSE]) @@ u
        BY <2>4, <2>6, <3>1
      <4>2. z.NIBP_Status /\ z.slowReleCount = 0
        BY <1>2, <2>5, <2>7, <4>1 DEF @@, Then
      <4> QED
        BY <2>4, <4>2 DEF Resting, Counted
    <3>2. CASE ~ StairDone(count)
      <4>1. z = [slowReleCount |-> count] @@ u
        BY <2>4, <2>6, <3>2
      <4> HIDE DEF count
      <4>2. z.NIBP_Status /\ z.SlowReleTimeStauts /\ z.slowRele = s.slowRele
        BY <1>2, <2>5, <2>7, <4>1 DEF @@
      <4> QED
        BY <1>1, <2>4, <2>7, <4>2 DEF Resting, Counted
    <3> QED
      BY <3>1, <3>2
  <2>8. CASE ~ (s.slowRele > 0)
    <3>1. s.slowRele = 0 /\ s.slowReleCount = 0
      BY <1>1, <2>8 DEF Counted
    <3>2. ~ StairDone(count)
      BY <1>1, <3>1 DEF StairDone
    <3> HIDE DEF u, z
    <3>3. z = [slowReleCount |-> count] @@ u
      BY <2>4, <2>6, <3>2
    <3> HIDE DEF count
    <3>4. /\ ~ z.NIBP_Status /\ z.slowPin = "LOW" /\ z.pump = s.pump
          /\ z.algo_state = "FALLING"
      BY <1>2, <2>5, <2>8, <3>3 DEF @@
    <3> QED
      BY <2>4, <3>4 DEF Resting, Counted, Deflating
  <2> QED
    BY <2>7, <2>8
<1> QED
  BY <1>1, <1>4, <1>5, <1>6

(* In such a session the interrupt meets nothing unusual. *)
LEMMA UsualInput ==
  ASSUME session.events \cap {"overload", "weak", "cuff", "overMeasure"} = {}, NEW in \in Input
  PROVE  Usual(in)
<1>1. PICK yes \in SUBSET ({"reached", "above"} \cup session.events) :
             in = [q \in {"reached", "above"} \cup AllEvents |-> q \in yes]
  BY DEF Input
<1>2. {"overload", "weak", "cuff", "overMeasure"} \subseteq AllEvents
  BY DEF AllEvents
<1>3. yes \cap {"overload", "weak", "cuff", "overMeasure"} = {}
  BY <1>1
<1> QED
  BY <1>1, <1>2, <1>3 DEF Usual

(* The parts of NIBP_Handler are safe ... *)
LEMMA SafeHandlers ==
  ASSUME NEW s, IsState(s), Resting(s), Counted(s), NoRestart => Deflating(s), Staircase,
         NEW in, ~ in.weak, NEW f \in Parts \ {"uart", "algorithm"}
  PROVE  Safe(s, HandlerPart(f, s, in))
<1>1. DOMAIN s = Fields /\ s.NIBP_Status \in BOOLEAN
  BY StateFields
<1>2. Safe(s, << >>)
  <2>1. Only(<< >>, {})
    BY OnlyLiterals
  <2> QED
    BY <2>1, SafeOnly
<1>3. Safe(s, NIBP_SampleAutoTest(s))
  <2>1. Only(<< [autoOut |-> FALSE] >>, {"autoOut"})
    BY OnlyLiterals
  <2>2. CASE s.autoOut /\ s.NIBP_Status
    <3> DEFINE a == << [autoOut |-> FALSE] >>
               e == << >>
    <3>1. NIBP_SampleAutoTest(s) = e \o a
      BY <2>2 DEF NIBP_SampleAutoTest
    <3>2. Only(e, {"autoOut"})
      BY OnlyLiterals
    <3> HIDE DEF a, e
    <3>3. Only(e \o a, {"autoOut"})
      BY <2>1, <3>2, OnlyJoined DEF a
    <3> QED
      BY <3>1, <3>3, SafeOnly
  <2>3. CASE s.autoOut /\ ~ s.NIBP_Status
    <3>1. NIBP_SampleAutoTest(s) = NIBP_SampleOneTimeByDebug \o << [autoOut |-> FALSE] >>
      BY <2>3 DEF NIBP_SampleAutoTest
    <3>2. Starts(NIBP_SampleOneTimeByDebug \o << [autoOut |-> FALSE] >>)
      BY <2>1, StartsMeasure, StartsAround
    <3> QED
      BY <3>1, <3>2, StartsSafe
  <2>4. CASE ~ s.autoOut
    BY <1>2, <2>4 DEF NIBP_SampleAutoTest
  <2> QED
    BY <1>1, <2>2, <2>3, <2>4
<1>4. Safe(s, NIBP_ContinueModeHandle(s))
  <2>1. Only(<< [curWorkMode |-> s.backup_mode] >>, {"curWorkMode"})
    BY OnlyLiterals
  <2>2. Safe(s, << [curWorkMode |-> s.backup_mode] >>)
    BY <2>1, SafeOnly
  <2> QED
    BY <1>2, <2>2, StartsMeasure, StartsSafe DEF NIBP_ContinueModeHandle
<1>5. Safe(s, GasLeakHandle(s))
  <2> DEFINE a == << [bIsPumpStop |-> FALSE] >>
             b == NIBP_SetPressRelease("FAST")
             c == << [is_gas_leak_test |-> FALSE], [curWorkMode |-> s.backup_mode] >>
             r == (a \o b) \o c
             y == After(s, a \o b)
             z == After(s, r)
             Y == {"is_gas_leak_test", "curWorkMode"}
             X == {"bIsPumpStop", "slowPin", "fastPin"} \cup Y
  <2>1. Only(a, X) /\ Only(b, X) /\ Only(c, X) /\ Only(c, Y)
    BY OnlyLiterals, OnlyBasics, OnlyMore DEF ValveFields
  <2>2. After(s, a \o b) = Then([bIsPumpStop |-> FALSE], [slowPin |-> "LOW", fastPin |-> "LOW"]) @@ s
    <3> DEFINE d == [bIsPumpStop |-> FALSE]
               e == [slowPin |-> "LOW", fastPin |-> "LOW"]
    <3>1. Sets(a, d) /\ Sets(b, e)
      BY SetsLiterals, SetsPressRelease
    <3> HIDE DEF a, b, d, e
    <3>2. Sets(a \o b, Then(d, e))
      BY <3>1, SetsJoined
    <3> QED
      BY <3>2 DEF Sets, d, e
  <2>3. y.slowPin = "LOW" /\ DOMAIN y = Fields
    BY <1>1, <2>2, CuffState, AfterDomain DEF @@, Then
  <2> HIDE DEF a, b, c
  <2>4. Only(a \o b, X) /\ Only(r, X) /\ IsSeq(a \o b) /\ IsSeq(c)
    BY <2>1, OnlyJoined DEF Only
  <2>5. z = After(y, c)
    BY <2>4, AfterJoined
  <2> HIDE DEF r, y
  <2>6. z.slowPin = "LOW"
    BY <2>1, <2>3, <2>5, CuffState, OnlyKept
  <2> HIDE DEF z
  <2>7. /\ z.NIBP_Status = s.NIBP_Status /\ z.algo_state = s.algo_state /\ z.pump = s.pump
        /\ z.slowRele = s.slowRele /\ z.slowReleCount = s.slowReleCount
        /\ z.SlowReleTimeStauts = s.SlowReleTimeStauts
        /\ z.bIsCalculateDrop = s.bIsCalculateDrop
    <3>1. \A h \in Fields \ X : After(s, r)[h] = s[h]
      BY <1>1, <2>4, OnlyKept
    <3> QED
      BY <3>1, CuffState DEF z
  <2>8. Ending(r) /\ ~ Writes(r, "slowRele")
    <3>1. Ending(r)
      BY <2>4, EndingOther
    <3> QED
      BY <2>4, <3>1 DEF Only, Writes
  <2>9. Resting(z) /\ Counted(z)
    BY <2>6, <2>7 DEF Resting, Counted
  <2>10. Safe(s, r)
    BY <2>8, <2>9 DEF Safe, z
  <2>11. GasLeakHandle(s) \in {r, << >>}
    BY DEF GasLeakHandle, r, a, b, c
  <2> QED
    BY <1>2, <2>10, <2>11
<1>6. Safe(s, NIBP_ForceFastRelease(s)) /\ Safe(s, NIBP_ForceStop)
  BY SafeFastRelease, SafeForceStop
<1>7. Safe(s, OversleeveHandle(s, in))
  BY <1>2, <1>6 DEF OversleeveHandle
<1>8. CASE f = "measuring" /\ s.NIBP_Status
  <2> DEFINE r == IF s.algo_state = "FALLING" THEN NIBP_AutoPressReleHanlder(s, in) ELSE << >>
             c == << Call("protect") >>
  <2>1. Safe(s, r)
    BY <1>2, <1>8, SafeStair
  <2>2. Calls(c)
    BY Literals DEF Calls, IsCall, Parts
  <2>3. Ending(c) /\ \A h \in Fields : ~ Writes(c, h)
    BY <2>2, EndsCalls, CallWrites DEF Ending, Calls, Writes
  <2>4. HandlerPart(f, s, in) = r \o c
    BY <1>8 DEF HandlerPart
  <2>5. IsSeq(r) /\ IsSeq(c)
    BY <2>1, <2>2 DEF Safe, Ending, Ends, Calls
  <2> HIDE DEF r, c
  <2>6. After(s, r \o c) = After(s, r)
    <3>1. After(s, r \o c) = After(After(s, r), c)
      BY <2>5, AfterJoined
    <3>2. DOMAIN After(s, r) = Fields
      BY <1>1, AfterDomain
    <3>3. \A h \in Fields : After(After(s, r), c)[h] = After(s, r)[h]
      BY <2>3, <3>2, AfterKept
    <3> QED
      BY <1>1, <3>1, <3>2, <3>3 DEF After
  <2>7. Ending(r \o c)
    BY <2>1, <2>3, EndingJoined DEF Safe
  <2>8. \A h \in Fields : Writes(r \o c, h) => Writes(r, h)
    BY <2>3, <2>5, Joined DEF Writes
  <2>9. Safe(s, r \o c)
    BY <2>1, <2>6, <2>7, <2>8, CuffState DEF Safe
  <2> QED
    BY <2>4, <2>9
<1>9. CASE ~ (f = "measuring" /\ s.NIBP_Status)
  BY <1>1, <1>2, <1>3, <1>4, <1>5, <1>6, <1>7, <1>9 DEF HandlerPart, Parts
<1> QED
  BY <1>8, <1>9

(* ... and so are the commands of such a session. *)
LEMMA SafeCommands ==
  ASSUME NEW s, IsState(s), Resting(s), Counted(s), Measures, NEW cmd \in session.commands
  PROVE  Safe(s, onMessageHandler(cmd, s))
<1>1. /\ DOMAIN s = Fields /\ s.NIBP_Status \in BOOLEAN
      /\ cmd \in {"START", "STOP", "CONTINUED", "DEBUG_START", "DEBUG_PWM_ON",
                  "DEBUG_PWM_OFF", "DEBUG_ALGO_OFF"}
  BY StateFields DEF Measures, OnlyMeasures
<1>2. /\ \A m : Only(<< [curWorkMode |-> m] >>, {"curWorkMode"})
      /\ \A b : Only(<< [bIsPumpStop |-> b] >>, {"bIsPumpStop"})
      /\ Only(<< [algo_sw |-> FALSE] >>, {"algo_sw"}) /\ Only(<< >>, {})
      /\ Only(<< [backup_mode |-> s.curWorkMode], [curWorkMode |-> "CONTINUED"],
                 [contTestOut |-> FALSE] >>, {"backup_mode", "curWorkMode", "contTestOut"})
  BY OnlyLiterals
<1>3. \A on : Only(NIBP_SetPWM(on), PumpFields)
  BY OnlyBasics
<1> DEFINE X == {"curWorkMode", "bIsPumpStop"} \cup PumpFields
<1>4. X \cap {"NIBP_Status", "algo_state", "slowPin", "fastPin", "slowRele", "slowReleCount",
              "SlowReleTimeStauts", "bIsCalculateDrop"} = {}
  BY DEF PumpFields
<1>5. /\ \A m : Only(<< [curWorkMode |-> m] >>, X)
      /\ \A b : Only(<< [bIsPumpStop |-> b] >>, X)
      /\ \A on : Only(NIBP_SetPWM(on), X)
  BY <1>2, <1>3, OnlyMore
<1> HIDE DEF X
<1>6. CASE s.NIBP_Status /\ cmd \in {"START", "DEBUG_PWM_ON"}
  <2>1. Only(NIBP_SetPWM(TRUE) \o << [bIsPumpStop |-> FALSE] >>, X)
    BY <1>5, OnlyJoined
  <2>2. Only(<< [curWorkMode |-> "DEBUG"] >>
               \o (NIBP_SetPWM(TRUE) \o << [bIsPumpStop |-> FALSE] >>), X)
    BY <1>5, <2>1, OnlyJoined
  <2>3. Only(<< [curWorkMode |-> "MANUAL"] >> \o NIBP_SetPWM(TRUE), X)
    BY <1>5, OnlyJoined
  <2>4. Only((<< [curWorkMode |-> "MANUAL"] >> \o NIBP_SetPWM(TRUE))
               \o << [bIsPumpStop |-> FALSE] >>, X)
    BY <1>5, <2>3, OnlyJoined
  <2>5. Only(onMessageHandler(cmd, s), X)
    BY <1>6, <2>2, <2>4 DEF onMessageHandler, NIBP_SampleOneTime, nibp_debug_start_pwm
  <2> QED
    BY <1>4, <1>6, <2>5, SafeOnly
<1>7. CASE ~ s.NIBP_Status /\ cmd \in {"START", "DEBUG_PWM_ON"}
  <2> DEFINE m == NIBP_SampleOneTimeByDebug
  <2>1. Starts(m \o << [bIsPumpStop |-> FALSE] >>)
    BY <1>2, StartsMeasure, StartsAround
  <2>2. Starts(<< [curWorkMode |-> "DEBUG"] >> \o (m \o << [bIsPumpStop |-> FALSE] >>))
    BY <1>2, <2>1, StartsAround
  <2>3. Starts(<< [curWorkMode |-> "MANUAL"] >> \o m)
    BY <1>2, StartsMeasure, StartsAround
  <2>4. Starts((<< [curWorkMode |-> "MANUAL"] >> \o m) \o << [bIsPumpStop |-> FALSE] >>)
    BY <1>2, <2>3, StartsAround
  <2>5. Starts(onMessageHandler(cmd, s))
    BY <1>7, <2>2, <2>4 DEF onMessageHandler, NIBP_SampleOneTime, nibp_debug_start_pwm
  <2> QED
    BY <2>5, StartsSafe
<1>8. CASE cmd \in {"CONTINUED", "DEBUG_START"}
  <2>1. Starts(<< [curWorkMode |-> "DEBUG"] >> \o NIBP_SampleOneTimeByDebug)
    BY <1>2, StartsMeasure, StartsAround
  <2>2. Starts(<< [backup_mode |-> s.curWorkMode], [curWorkMode |-> "CONTINUED"],
                  [contTestOut |-> FALSE] >> \o NIBP_SampleOneTimeByDebug)
    BY <1>2, StartsMeasure, StartsAround
  <2>3. Starts(onMessageHandler(cmd, s))
    BY <1>8, <2>1, <2>2 DEF onMessageHandler, NIBP_setContinueMode
  <2> QED
    BY <2>3, StartsSafe
<1>9. CASE cmd = "DEBUG_PWM_OFF"
  <2>1. onMessageHandler(cmd, s) = nibp_debug_stop_pwm
    BY <1>9 DEF onMessageHandler
  <2>2. Only(nibp_debug_stop_pwm, X)
    BY <1>5, OnlyJoined DEF nibp_debug_stop_pwm
  <2>3. ~ After(s, nibp_debug_stop_pwm).pump
    BY <1>1, AfterStopPwm
  <2> QED
    BY <1>4, <2>1, <2>2, <2>3, SafeOnly
<1>10. CASE cmd \in {"STOP", "DEBUG_ALGO_OFF"}
  <2>1. Safe(s, << [algo_sw |-> FALSE] >>)
    BY <1>2, SafeOnly
  <2> QED
    BY <1>10, <2>1, SafeForceStop DEF onMessageHandler
<1> QED
  BY <1>1, <1>6, <1>7, <1>8, <1>9, <1>10

(* The invariant behind IdleCuffOpen and IdlePumpOff. The staircase is     *)
(* set by the main loop only while the interrupt does not set it.          *)
CuffInv ==
  /\ Measures /\ Staircase
  /\ NoOverload => /\ Ending(code) /\ Resting(Settled) /\ Counted(Settled)
                   /\ Writes(code, "slowRele") =>
                        g.algo_state # "RISING" /\ ~ Writes(code, "algo_state")

(* The start. *)
LEMMA CuffInit ==
  ASSUME Init, Measures, Staircase
  PROVE  CuffInv
<1>1. Base
  BY InitBase
<1>2. Calls(code) /\ Settled = g
  BY <1>1, Literals, CallsKeep DEF Settled, Init, Base, Calls
<1>3. Ending(code) /\ ~ Writes(code, "slowRele")
  BY <1>2, EndsCalls, Literals DEF Ending, Writes, Init
<1> QED
  BY <1>2, <1>3 DEF CuffInv, Resting, Counted, Init

(* The interrupt, between two assignments of the main loop. *)
LEMMA CuffInterrupt ==
  ASSUME Base, CuffInv, NoOverload, IVG8_ISR
  PROVE  /\ Resting(Settled)' /\ Counted(Settled)'
         /\ Writes(code', "slowRele") => g'.algo_state # "RISING" /\ ~ Writes(code', "algo_state")
<1>1. PICK in \in Input : g' = NIBP_StartSample(g, in)
  BY DEF IVG8_ISR
<1>2. Usual(in)
  BY UsualInput DEF CuffInv, Measures, PulseFound, NoOverload
<1>3. code' = code /\ session' = session /\ IsState(g)
  BY DEF IVG8_ISR, Base
<1>4. /\ Mild(g, g')
      /\ g.algo_state # "RISING" => /\ \A f \in CuffFields : g'[f] = g[f]
                                    /\ g'.pump => g.pump
      /\ g.NIBP_Status => g'.NIBP_Status
      /\ g.algo_state = "RISING" =>
           g'.algo_state = "RISING" \/ (g'.algo_state = "FALLING" /\ g'.slowRele = Steps)
  BY <1>1, <1>2, <1>3, InterruptEffect
<1>5. Writes(code, "slowRele") => g'.algo_state # "RISING" /\ ~ Writes(code, "algo_state")
  BY <1>4 DEF CuffInv, CuffFields
<1> DEFINE z == Settled
           y == Settled'
<1>6. \A f \in Fields : \/ Writes(code, f) /\ y[f] = z[f]
                        \/ ~ Writes(code, f) /\ y[f] = g'[f] /\ z[f] = g[f]
  BY SettledInterrupt
<1>7. /\ Ending(code) /\ Resting(z) /\ Counted(z)
      /\ Writes(code, "slowRele") => g.algo_state # "RISING" /\ ~ Writes(code, "algo_state")
      /\ Steps > 1 /\ Steps \in Nat
  BY NibpAssumption DEF CuffInv, Staircase
<1>8. ASSUME Writes(code, "algo_state")
      PROVE  /\ z.algo_state # "FALLING"
             /\ z.algo_state # "RISING" => Writes(code, "slowPin") /\ Writes(code, "pump")
  <2>1. IsSeq(code) /\ DOMAIN g = Fields /\ "algo_state" \in Fields
    BY <1>3, <1>7, StateFields, CuffState DEF Ending, Ends
  <2>2. \/ z["algo_state"] = g["algo_state"] /\ ~ Writes(code, "algo_state")
        \/ \E i \in 1 .. Len(code) :
             "algo_state" \in DOMAIN code[i] /\ z["algo_state"] = code[i]["algo_state"]
    BY <2>1, AfterOneOf DEF Settled
  <2>3. PICK i \in 1 .. Len(code) :
               "algo_state" \in DOMAIN code[i] /\ z["algo_state"] = code[i]["algo_state"]
    BY <1>8, <2>2
  <2> HIDE DEF z
  <2>4. CASE code[i].algo_state = "RISING"
    BY <2>3, <2>4
  <2>5. CASE code[i].algo_state # "RISING"
    BY <1>7, <2>3, <2>5 DEF Ending, Ends, Writes
  <2> QED
    BY <2>4, <2>5
<1> HIDE DEF y, z
<1>9. Resting(y)
  <2>1. SUFFICES ASSUME ~ y.NIBP_Status
                 PROVE  /\ y.algo_state # "RISING" /\ y.slowPin = "LOW"
                        /\ NoRestart => ~ y.pump
    BY DEF Resting
  <2>2. ~ z.NIBP_Status
    BY <1>4, <1>6, <2>1, CuffState
  <2>3. z.algo_state # "RISING" /\ z.slowPin = "LOW" /\ (NoRestart => ~ z.pump)
    BY <1>7, <2>2 DEF Resting
  <2>4. CASE Writes(code, "algo_state")
    <3>1. y.algo_state = z.algo_state /\ y.slowPin = z.slowPin /\ y.pump = z.pump
      BY <1>6, <1>8, <2>3, <2>4, CuffState
    <3> QED
      BY <2>3, <3>1
  <2>5. CASE ~ Writes(code, "algo_state")
    <3>1. g.algo_state # "RISING" /\ y.algo_state = g'.algo_state
      BY <1>6, <2>3, <2>5, CuffState
    <3>2. g'.algo_state = g.algo_state /\ g'.slowPin = g.slowPin /\ (g'.pump => g.pump)
      BY <1>4, <3>1 DEF CuffFields
    <3>3. y.slowPin = z.slowPin /\ (y.pump => z.pump)
      BY <1>6, <3>2, CuffState
    <3> QED
      BY <2>3, <3>1, <3>2, <3>3
  <2> QED
    BY <2>4, <2>5
<1>10. ~ y.bIsCalculateDrop
  BY <1>4, <1>6, <1>7, CuffState DEF Counted, Mild
<1>11. Counted(y)
  <2>1. SUFFICES ASSUME y.NIBP_Status, y.algo_state = "FALLING",
                        y.slowRele = 0 \/ (y.slowRele = 1 /\ ~ y.SlowReleTimeStauts)
                 PROVE  y.slowReleCount = 0
    BY <1>10 DEF Counted
  <2>2. ~ Writes(code, "algo_state")
    BY <1>6, <1>8, <2>1, CuffState
  <2>3. g'.algo_state = "FALLING" /\ z.algo_state = g.algo_state
    BY <1>6, <2>1, <2>2, CuffState
  <2>4. CASE g.algo_state # "RISING"
    <3>1. /\ g'.algo_state = g.algo_state /\ g'.NIBP_Status = g.NIBP_Status
          /\ g'.slowRele = g.slowRele /\ g'.slowReleCount = g.slowReleCount
          /\ g'.SlowReleTimeStauts = g.SlowReleTimeStauts
      BY <1>4, <2>4 DEF CuffFields, Mild, Untouched
    <3>2. /\ y.NIBP_Status = z.NIBP_Status /\ y.slowRele = z.slowRele
          /\ y.slowReleCount = z.slowReleCount /\ y.SlowReleTimeStauts = z.SlowReleTimeStauts
      BY <1>6, <3>1, CuffState
    <3> QED
      BY <1>7, <2>1, <2>3, <3>1, <3>2 DEF Counted
  <2>5. CASE g.algo_state = "RISING"
    <3>1. g'.slowRele = Steps /\ ~ Writes(code, "slowRele")
      BY <1>4, <1>7, <2>3, <2>5
    <3>2. y.slowRele = Steps
      BY <1>6, <3>1, CuffState
    <3> QED
      BY <1>7, <2>1, <3>2
  <2> QED
    BY <2>4, <2>5
<1> QED
  BY <1>3, <1>5, <1>9, <1>11 DEF y, Resting, Counted, NoRestart

(* Every step keeps it. *)
LEMMA CuffNext ==
  ASSUME Base, CuffInv, NoRestart => FallInv, [Next]_vars
  PROVE  CuffInv'
<1>1. /\ session' = session /\ IsState(g) /\ Measures' /\ Staircase'
      /\ NoOverload' = NoOverload /\ NoRestart' = NoRestart
  BY SettledSteps DEF Base, CuffInv, Measures, OnlyMeasures, PulseFound, Staircase, NoOverload,
                       NoRestart
<1>2. SUFFICES ASSUME NoOverload
               PROVE  /\ Ending(code') /\ Resting(Settled)' /\ Counted(Settled')
                      /\ Writes(code', "slowRele") =>
                           g'.algo_state # "RISING" /\ ~ Writes(code', "algo_state")
  BY <1>1 DEF CuffInv
<1>3. /\ Ending(code) /\ Resting(Settled) /\ Counted(Settled) /\ Measures /\ Staircase
      /\ Writes(code, "slowRele") => g.algo_state # "RISING" /\ ~ Writes(code, "algo_state")
  BY <1>2 DEF CuffInv
<1>4. CASE MainAssign
  <2>1. code # << >> /\ g' = code[1] @@ g /\ code' = Tail(code) /\ Settled' = Settled
    BY <1>4, SettledAssign, Rest DEF MainAssign, Base, Program
  <2>2. Ending(code')
    BY <1>3, <2>1, EndsRest DEF Ending
  <2>3. /\ IsSeq(code) /\ IsSeq(code') /\ Len(code) \in Nat /\ Len(code) >= 1
        /\ Len(code') = Len(code) - 1
        /\ \A i \in 1 .. Len(code) - 1 : code'[i] = code[i + 1]
    BY <1>3, <2>1, Rest DEF Ending, Ends
  <2>4. \A f : Writes(code', f) => Writes(code, f)
    <3>1. \A i \in 1 .. Len(code') : i + 1 \in 1 .. Len(code) /\ code'[i] = code[i + 1]
      BY <2>3
    <3> QED
      BY <3>1 DEF Writes
  <2>5. ASSUME Writes(code', "slowRele")
        PROVE  g'.algo_state # "RISING" /\ ~ Writes(code', "algo_state")
    <3>1. g.algo_state # "RISING" /\ ~ Writes(code, "algo_state")
      BY <1>3, <2>4, <2>5
    <3>2. "algo_state" \notin DOMAIN code[1]
      BY <2>3, <3>1 DEF Writes
    <3>3. g'.algo_state = g.algo_state
      BY <1>1, <2>1, <3>2, StateFields, CuffState DEF @@
    <3> QED
      BY <2>4, <3>1, <3>3
  <2> QED
    BY <1>1, <1>3, <2>1, <2>2, <2>5 DEF Resting
<1>5. CASE IVG8_ISR
  <2>1. code' = code
    BY <1>5 DEF IVG8_ISR
  <2> QED
    BY <1>1, <1>2, <1>3, <1>5, <2>1, CuffInterrupt DEF Resting, Counted
<1>6. CASE g' = g /\ code' = code /\ Settled' = Settled
  BY <1>1, <1>3, <1>6 DEF Resting
<1>7. CASE /\ Calls(code) /\ Settled = g /\ Calls(code') /\ Settled' = g'
           /\ \A f \in Fields \ Reported : g'[f] = g[f]
  <2>1. {"NIBP_Status", "algo_state", "slowPin", "fastPin", "pump", "slowRele", "slowReleCount",
         "SlowReleTimeStauts", "bIsCalculateDrop"} \subseteq Fields \ Reported
    BY CuffState DEF Reported, Timers, Reports
  <2>2. /\ g'.NIBP_Status = g.NIBP_Status /\ g'.algo_state = g.algo_state /\ g'.slowPin = g.slowPin
        /\ g'.pump = g.pump /\ g'.slowRele = g.slowRele /\ g'.slowReleCount = g.slowReleCount
        /\ g'.SlowReleTimeStauts = g.SlowReleTimeStauts
        /\ g'.bIsCalculateDrop = g.bIsCalculateDrop
    BY <1>7, <2>1
  <2>3. Ending(code') /\ ~ Writes(code', "slowRele")
    BY <1>7, EndsCalls, CallWrites, CuffState DEF Ending, Calls, Writes
  <2> QED
    BY <1>1, <1>3, <1>7, <2>2, <2>3 DEF Resting, Counted
<1>8. ASSUME NEW r, Safe(g, r), Calls(Tail(code)), g' = g,
             code' = r \o Tail(code), Settled' = After(g, r)
      PROVE  /\ Ending(code') /\ Resting(Settled)' /\ Counted(Settled')
             /\ Writes(code', "slowRele") =>
                  g'.algo_state # "RISING" /\ ~ Writes(code', "algo_state")
  <2> DEFINE c == Tail(code)
  <2>1. Ending(c) /\ IsSeq(c) /\ \A f \in Fields : ~ Writes(c, f)
    BY <1>8, EndsCalls, CallWrites DEF Ending, Calls, Writes
  <2>2. IsSeq(r) /\ Ending(r)
    BY <1>8 DEF Safe, Ending, Ends
  <2>3. code' = r \o c
    BY <1>8
  <2> HIDE DEF c
  <2>4. Ending(code')
    BY <2>1, <2>2, <2>3, EndingJoined
  <2>5. \A f \in Fields : Writes(r \o c, f) => Writes(r, f)
    BY <2>1, <2>2, Joined DEF Writes
  <2>6. \A f \in Fields : Writes(code', f) => Writes(r, f)
    BY <2>3, <2>5
  <2> QED
    BY <1>1, <1>8, <2>4, <2>6, CuffState DEF Safe, Resting
<1>9. CASE /\ Calls(code) /\ Settled = g /\ g' = g /\ Calls(Tail(code))
           /\ \E f \in Parts \ {"uart", "algorithm"}, in \in Input :
                /\ code' = HandlerPart(f, g, in) \o Tail(code)
                /\ Settled' = After(g, HandlerPart(f, g, in))
  <2>1. PICK f \in Parts \ {"uart", "algorithm"}, in \in Input :
               /\ code' = HandlerPart(f, g, in) \o Tail(code)
               /\ Settled' = After(g, HandlerPart(f, g, in))
    BY <1>9
  <2>2. ~ in.weak
    BY <1>2, <1>3, UsualInput DEF Measures, PulseFound, NoOverload, Usual
  <2>3. NoRestart => Deflating(g)
    BY <1>9 DEF FallInv
  <2>4. Safe(g, HandlerPart(f, g, in))
    BY <1>1, <1>3, <1>9, <2>2, <2>3, SafeHandlers
  <2> QED
    BY <1>8, <1>9, <2>1, <2>4
<1>10. CASE /\ Calls(code) /\ Settled = g /\ g' = g /\ Calls(Tail(code))
            /\ \E cmd \in session.commands :
                 /\ code' = onMessageHandler(cmd, g) \o Tail(code)
                 /\ Settled' = After(g, onMessageHandler(cmd, g))
  <2>1. PICK cmd \in session.commands :
               /\ code' = onMessageHandler(cmd, g) \o Tail(code)
               /\ Settled' = After(g, onMessageHandler(cmd, g))
    BY <1>10
  <2>2. Safe(g, onMessageHandler(cmd, g))
    BY <1>1, <1>3, <1>10, SafeCommands
  <2> QED
    BY <1>8, <1>10, <2>1, <2>2
<1> QED
  BY <1>4, <1>5, <1>6, <1>7, <1>9, <1>10, SettledSteps

(* At the end of a pass nothing is left to be executed: the invariant      *)
(* speaks of the globals.                                                  *)
LEMMA CuffFinal ==
  ASSUME Base, CuffInv, NoOverload, code = << >>, ~ g.NIBP_Status
  PROVE  g.slowPin = "LOW" /\ (NoRestart => ~ g.pump)
<1>1. Calls(code) /\ IsState(g)
  BY Literals DEF Calls, Base
<1>2. Settled = g
  BY <1>1, CallsKeep DEF Settled
<1> QED
  BY <1>2 DEF CuffInv, Resting

(* Without a START or DEBUG_PWM_ON the proof of NibpNoPumpInDeflation is   *)
(* needed: the last stair ends the measurement and leaves the pump alone.  *)
LEMMA SpecCuff == Spec /\ Measures /\ Staircase => []CuffInv
<1>1. Init /\ NoRestart => FallInv
  BY FallInit
<1>2. Base /\ FallInv /\ [Next]_vars => FallInv'
  BY FallNext
<1>3. Init /\ Measures /\ Staircase => CuffInv
  BY CuffInit
<1> DEFINE Both == CuffInv /\ (NoRestart => FallInv)
<1>4. Init /\ Measures /\ Staircase => Both
  BY <1>1, <1>3
<1>5. Base /\ Both /\ [Next]_vars => Both'
  <2>1. ASSUME Base, Both, [Next]_vars
        PROVE  Both'
    <3>1. CuffInv'
      BY <2>1, CuffNext
    <3>2. session' = session
      BY <2>1, SettledSteps
    <3>3. NoRestart' => NoRestart
      BY <3>2 DEF NoRestart
    <3> QED
      BY <1>2, <2>1, <3>1, <3>3
  <2> QED
    BY <2>1
<1>6. Both => CuffInv
  OBVIOUS
<1> HIDE DEF Both
<1> QED
  BY <1>4, <1>5, <1>6, SpecBase, PTL DEF Spec

(* Nobody leaves the patient with a closed cuff: when no measurement runs  *)
(* a valve is open, whatever the order of commands and interrupts, if the  *)
(* host only measures and stops, no measurement is cut short by the sensor *)
(* (NIBP_RisingCtrl would go on after the stop it has made itself) and     *)
(* there is no over-pressure.                                              *)
THEOREM NibpIdleCuffOpen == Spec /\ PulseFound /\ Staircase => []IdleCuffOpen
<1>1. Base /\ CuffInv => IdleCuffOpen
  BY CuffFinal DEF IdleCuffOpen, CuffClosed
<1>2. ~ OnlyMeasures => IdleCuffOpen
  BY DEF IdleCuffOpen
<1>3. Base /\ ~ OnlyMeasures /\ [Next]_vars => ~ OnlyMeasures'
  BY SettledSteps DEF OnlyMeasures
<1>4. Spec /\ Measures /\ Staircase => []IdleCuffOpen
  BY <1>1, SpecBase, SpecCuff, PTL
<1>5. Spec /\ ~ OnlyMeasures => []IdleCuffOpen
  BY <1>2, <1>3, SpecBase, PTL DEF Spec
<1>6. PulseFound => Measures \/ ~ OnlyMeasures
  BY DEF Measures
<1> QED
  BY <1>4, <1>5, <1>6, PTL

(* ... and the pump is off, if no START has restarted it.                  *)
THEOREM NibpIdlePumpOff == Spec /\ PulseFound /\ Staircase => []IdlePumpOff
<1>1. Base /\ CuffInv => IdlePumpOff
  BY CuffFinal DEF IdlePumpOff
<1>2. ~ OnlyMeasures => IdlePumpOff
  BY DEF IdlePumpOff
<1>3. Base /\ ~ OnlyMeasures /\ [Next]_vars => ~ OnlyMeasures'
  BY SettledSteps DEF OnlyMeasures
<1>4. Spec /\ Measures /\ Staircase => []IdlePumpOff
  BY <1>1, SpecBase, SpecCuff, PTL
<1>5. Spec /\ ~ OnlyMeasures => []IdlePumpOff
  BY <1>2, <1>3, SpecBase, PTL DEF Spec
<1>6. PulseFound => Measures \/ ~ OnlyMeasures
  BY DEF Measures
<1> QED
  BY <1>4, <1>5, <1>6, PTL
=============================================================================
