------------------------- MODULE CalibrationProofs -------------------------
(***************************************************************************)
(* Proofs about the calibration data, for any number of calibrations,      *)
(* power failures and lost page writes, and for any order of the host's    *)
(* commands: no field of the EEPROM is ever half old and half new, what    *)
(* was saved is there until it is saved again, and a flag comes after the  *)
(* points it stands for.                                                   *)
(*                                                                         *)
(* First each save of the code is cut into its page writes: none runs over *)
(* the end of its page, together they cover the bytes of the save and no   *)
(* others, and a flag is in the last one (Fits).  The invariant then says  *)
(* that the EEPROM holds what was promised except in the bytes that the    *)
(* page writes left will write (Kept), and that those will be written with *)
(* what was promised (Copied).                                             *)
(***************************************************************************)
EXTENDS Calibration, SequenceTheorems, TLAPS

(* The page writes of the code. *)
Pieces ==
  {Piece(0, 4), Piece(57, 4), Piece(8, 8), Piece(16, 16), Piece(32, 16), Piece(48, 9),
   Piece(12, 2), Piece(28, 4), Piece(16, 2), Piece(36, 4), Piece(18, 2), Piece(40, 4),
   Piece(44, 4)}

(* The bytes of a page write. *)
Extent(piece) == piece.addr .. piece.addr + piece.len - 1

(* The bytes of all of them. *)
Left(pages) == {b \in Bytes : \E k \in 1 .. Len(pages) : b \in Extent(pages[k])}

(* What is left to write is of the save, and a flag comes last. *)
Ordered(pages, bytes) ==
  \A k \in 1 .. Len(pages) :
    /\ Extent(pages[k]) \subseteq bytes
    /\ (44 \in Extent(pages[k]) \/ ProtectFlag \in Extent(pages[k])) => k = Len(pages)

(* A save of these bytes is cut into these pages. *)
Fits(pages, bytes) ==
  /\ pages \in Seq(Pieces) /\ pages # <<>>
  /\ bytes \subseteq Bytes
  /\ Ordered(pages, bytes)
  /\ bytes \subseteq Left(pages)

Fields == Constants \cup Values

(* FieldsWhole, of any memory. *)
Whole(memory) ==
  \A f \in Fields : \E s \in Stamp :
    /\ Filled(memory, f, s)
    /\ s # Blank => (s = Const <=> f \in Constants)

Planned == todo \in Seq(Pieces) /\ Ordered(todo, saving) /\ (todo = <<>> => saving = {})

Kept == \A b \in Bytes : b \in Left(todo) \/ promised[b] \in {eeprom[b], Unknown}

Copied == \A b \in saving : promised[b] \in {ram[b], Unknown}

(* The Boolean variable apart, since it needs another prover. *)
Flags == verifyStauts \in BOOLEAN

OtherTypes ==
  /\ eeprom \in [Bytes -> Stamp] /\ ram \in [Bytes -> Stamp]
  /\ saving \subseteq Bytes /\ promised \in [Bytes -> Stamp \cup {Unknown}]
  /\ session \in 1 .. MaxSessions /\ failures \in 0 .. MaxFailures

IInv ==
  /\ Flags /\ OtherTypes
  /\ Whole(eeprom) /\ Whole(ram)
  /\ Planned /\ Kept /\ Copied

-----------------------------------------------------------------------------
(* Concatenation, written out. *)
LEMMA Concat2 ==
  ASSUME NEW S, NEW a \in S, NEW b \in S
  PROVE  <<a>> \o <<b>> = <<a, b>>
<1> DEFINE s == <<a>> \o <<b>>
           t == <<a, b>>
<1>1. s \in Seq(S) /\ Len(s) = 2 /\ s[1] = a /\ s[2] = b
  OBVIOUS
<1>2. t \in Seq(S) /\ Len(t) = 2 /\ t[1] = a /\ t[2] = b
  OBVIOUS
<1> HIDE DEF s, t
<1>3. \A i \in 1 .. 2 : s[i] = t[i]
  BY <1>1, <1>2
<1>4. s = t
  BY <1>1, <1>2, <1>3, SeqEqual
<1> QED
  BY <1>4 DEF s, t

(* The same for three elements. *)
LEMMA Concat3 ==
  ASSUME NEW S, NEW a \in S, NEW b \in S, NEW c \in S
  PROVE  <<a>> \o <<b, c>> = <<a, b, c>>
<1> DEFINE s == <<a>> \o <<b, c>>
           t == <<a, b, c>>
<1>1. s \in Seq(S) /\ Len(s) = 3 /\ s[1] = a /\ s[2] = b /\ s[3] = c
  OBVIOUS
<1>2. t \in Seq(S) /\ Len(t) = 3 /\ t[1] = a /\ t[2] = b /\ t[3] = c
  OBVIOUS
<1> HIDE DEF s, t
<1>3. \A i \in 1 .. 3 : s[i] = t[i]
  BY <1>1, <1>2
<1>4. s = t
  BY <1>1, <1>2, <1>3, SeqEqual
<1> QED
  BY <1>4 DEF s, t

(* Less than a page is one page write. *)
LEMMA PagesRest ==
  ASSUME NEW addr \in Nat, NEW len \in 1 .. 15
  PROVE  Pages(addr, len) = <<Piece(addr, len)>>
<1>1. len \div 16 = 0 /\ len % 16 = len
  OBVIOUS
<1>2. HasRest(len)
  BY <1>1 DEF HasRest, PAGE_WRITE_LENGHT
<1>3. Pages(addr, len) = [k \in 1 .. 0 |-> Piece(addr + (k - 1) * 16, 16)] \o <<Piece(addr + 0 * 16, len)>>
  BY <1>1, <1>2 DEF Pages, PAGE_WRITE_LENGHT
<1>4. [k \in 1 .. 0 |-> Piece(addr + (k - 1) * 16, 16)] = << >>
  OBVIOUS
<1>5. addr + 0 * 16 = addr
  OBVIOUS
<1> QED
  BY <1>3, <1>4, <1>5

(* Two full pages. *)
LEMMA PagesTwo == Pages(16, 32) = <<Piece(16, 16), Piece(32, 16)>>
<1>1. 32 \div 16 = 2 /\ 32 % 16 = 0
  OBVIOUS
<1>2. ~ HasRest(32)
  BY <1>1 DEF HasRest, PAGE_WRITE_LENGHT
<1>3. Pages(16, 32) = [k \in 1 .. 2 |-> Piece(16 + (k - 1) * 16, 16)] \o << >>
  BY <1>1, <1>2 DEF Pages, PAGE_WRITE_LENGHT
<1>4. [k \in 1 .. 2 |-> Piece(16 + (k - 1) * 16, 16)] = <<Piece(16, 16), Piece(32, 16)>>
  BY DEF Piece
<1> QED
  BY <1>3, <1>4

(* None of the page writes wraps: each one copies its bytes. *)
LEMMA WrittenPlain ==
  ASSUME NEW piece \in Pieces, NEW memory
  PROVE  Written(memory, piece) =
           [b \in Bytes |-> IF b \in Extent(piece) THEN ram[b] ELSE memory[b]]
<1>1. /\ piece.addr \in Nat /\ piece.len \in 1 .. 16
      /\ (piece.addr % 16) + piece.len <= 16
  BY DEF Pieces, Piece
<1>2. \A j \in 0 .. piece.len - 1 : Target(piece.addr, j) = piece.addr + j
  BY <1>1 DEF Target, PAGE_WRITE_LENGHT
<1>3. ASSUME NEW b \in Bytes
      PROVE  (IF \E j \in 0 .. piece.len - 1 : Target(piece.addr, j) = b
              THEN ram[piece.addr + (CHOOSE j \in 0 .. piece.len - 1 : Target(piece.addr, j) = b)]
              ELSE memory[b])
             = IF b \in Extent(piece) THEN ram[b] ELSE memory[b]
  <2>1. (\E j \in 0 .. piece.len - 1 : Target(piece.addr, j) = b) <=> b \in Extent(piece)
    <3>1. ASSUME b \in Extent(piece)
          PROVE  \E j \in 0 .. piece.len - 1 : Target(piece.addr, j) = b
      <4>1. b - piece.addr \in 0 .. piece.len - 1
        BY <1>1, <3>1 DEF Extent, Bytes
      <4>2. Target(piece.addr, b - piece.addr) = b
        BY <1>1, <1>2, <4>1 DEF Bytes
      <4> QED BY <4>1, <4>2
    <3> QED BY <1>1, <1>2, <3>1 DEF Extent
  <2>2. ASSUME \E j \in 0 .. piece.len - 1 : Target(piece.addr, j) = b
        PROVE  piece.addr + (CHOOSE j \in 0 .. piece.len - 1 : Target(piece.addr, j) = b) = b
    <3> DEFINE c == CHOOSE j \in 0 .. piece.len - 1 : Target(piece.addr, j) = b
    <3>1. c \in 0 .. piece.len - 1 /\ Target(piece.addr, c) = b
      BY <2>2
    <3> HIDE DEF c
    <3>2. piece.addr + c = b
      BY <1>2, <3>1
    <3> QED BY <3>2 DEF c
  <2> QED BY <2>1, <2>2
<1> QED
  BY <1>3 DEF Written

(* The page writes lie inside the memory and inside a page. *)
LEMMA PieceTypes ==
  /\ Pieces \subseteq [addr : Bytes, len : 1 .. PAGE_WRITE_LENGHT]
  /\ \A p \in Pieces : Extent(p) \subseteq Bytes
  BY DEF Pieces, Piece, Bytes, PAGE_WRITE_LENGHT, Extent

(* A save of one page write. *)
LEMMA FitsOne ==
  ASSUME NEW a \in Pieces, NEW bytes, bytes = Extent(a)
  PROVE  Fits(<<a>>, bytes)
<1> DEFINE s == <<a>>
<1>1. s \in Seq(Pieces) /\ Len(s) = 1 /\ s[1] = a /\ s # <<>>
  OBVIOUS
<1>2. Extent(a) \subseteq Bytes
  BY PieceTypes
<1> HIDE DEF s
<1>3. Fits(s, bytes)
  BY <1>1, <1>2 DEF Fits, Ordered, Left
<1> QED
  BY <1>3 DEF s

(* ... of two, the first of which holds no flag. *)
LEMMA FitsTwo ==
  ASSUME NEW a \in Pieces, NEW b \in Pieces, NEW bytes, bytes = Extent(a) \cup Extent(b),
         44 \notin Extent(a), ProtectFlag \notin Extent(a)
  PROVE  Fits(<<a, b>>, bytes)
<1> DEFINE s == <<a, b>>
<1>1. s \in Seq(Pieces) /\ Len(s) = 2 /\ s[1] = a /\ s[2] = b /\ s # <<>>
  OBVIOUS
<1>2. Extent(a) \subseteq Bytes /\ Extent(b) \subseteq Bytes
  BY PieceTypes
<1> HIDE DEF s
<1>3. \A k \in 1 .. Len(s) : k = 1 \/ k = 2
  BY <1>1
<1>4. bytes \subseteq Left(s)
  <2>1. \A x \in Extent(a) : \E k \in 1 .. Len(s) : x \in Extent(s[k])
    BY <1>1
  <2>2. \A x \in Extent(b) : \E k \in 1 .. Len(s) : x \in Extent(s[k])
    BY <1>1
  <2> QED
    BY <1>2, <2>1, <2>2 DEF Left
<1>5. Ordered(s, bytes)
  BY <1>1, <1>3 DEF Ordered
<1>6. Fits(s, bytes)
  BY <1>1, <1>2, <1>4, <1>5 DEF Fits
<1> QED
  BY <1>6 DEF s

(* ... of three, where only the last holds a flag. *)
LEMMA FitsThree ==
  ASSUME NEW a \in Pieces, NEW b \in Pieces, NEW c \in Pieces, NEW bytes,
         bytes = Extent(a) \cup Extent(b) \cup Extent(c),
         44 \notin Extent(a), ProtectFlag \notin Extent(a),
         44 \notin Extent(b), ProtectFlag \notin Extent(b)
  PROVE  Fits(<<a, b, c>>, bytes)
<1> DEFINE s == <<a, b, c>>
<1>1. s \in Seq(Pieces) /\ Len(s) = 3 /\ s[1] = a /\ s[2] = b /\ s[3] = c /\ s # <<>>
  OBVIOUS
<1>2. Extent(a) \subseteq Bytes /\ Extent(b) \subseteq Bytes /\ Extent(c) \subseteq Bytes
  BY PieceTypes
<1> HIDE DEF s
<1>3. \A k \in 1 .. Len(s) : k = 1 \/ k = 2 \/ k = 3
  BY <1>1
<1>4. bytes \subseteq Left(s)
  <2>1. \A x \in Extent(a) : \E k \in 1 .. Len(s) : x \in Extent(s[k])
    BY <1>1
  <2>2. \A x \in Extent(b) : \E k \in 1 .. Len(s) : x \in Extent(s[k])
    BY <1>1
  <2>3. \A x \in Extent(c) : \E k \in 1 .. Len(s) : x \in Extent(s[k])
    BY <1>1
  <2> QED
    BY <1>2, <2>1, <2>2, <2>3 DEF Left
<1>5. Ordered(s, bytes)
  BY <1>1, <1>3 DEF Ordered
<1>6. Fits(s, bytes)
  BY <1>1, <1>2, <1>4, <1>5 DEF Fits
<1> QED
  BY <1>6 DEF s

(* The tags: two page writes. *)
LEMMA TagsFit == Fits(EEPROM_RestoreHeadTail, Tags)
<1>1. EEPROM_BufferWrite(0, 4) = <<Piece(0, 4)>>
  BY PagesRest DEF EEPROM_BufferWrite, PAGE_WRITE_LENGHT
<1>2. EEPROM_BufferWrite(57, 4) = <<Piece(57, 4)>>
  BY PagesRest DEF EEPROM_BufferWrite, PAGE_WRITE_LENGHT
<1>3. Piece(0, 4) \in Pieces /\ Piece(57, 4) \in Pieces
  BY DEF Pieces
<1>4. Extent(Piece(0, 4)) = 0 .. 3 /\ Extent(Piece(57, 4)) = 57 .. 60
  BY DEF Extent, Piece
<1>5. EEPROM_RestoreHeadTail = <<Piece(0, 4), Piece(57, 4)>>
  BY <1>1, <1>2, <1>3, Concat2 DEF EEPROM_RestoreHeadTail
<1>6. Fits(<<Piece(0, 4), Piece(57, 4)>>, Tags)
  BY <1>3, <1>4, FitsTwo DEF Tags, HeadOfEeprom, TailOfEeprom, ProtectFlag
<1> QED
  BY <1>5, <1>6

(* The six points and their flag, cut at 16 and 32. *)
LEMMA NibpFit == Fits(NibpSave, NibpData)
<1>1. {Piece(8, 8), Piece(16, 16), Piece(32, 16)} \subseteq Pieces
  BY DEF Pieces
<1>2. NibpSave = <<Piece(8, 8)>> \o Pages(16, 32)
  BY DEF NibpSave, EEPROM_BufferWrite, PAGE_WRITE_LENGHT
<1>3. NibpSave = <<Piece(8, 8), Piece(16, 16), Piece(32, 16)>>
  BY <1>1, <1>2, PagesTwo, Concat3
<1>4. /\ Extent(Piece(8, 8)) = 8 .. 15 /\ Extent(Piece(16, 16)) = 16 .. 31
      /\ Extent(Piece(32, 16)) = 32 .. 47
  BY DEF Extent, Piece
<1>5. Fits(<<Piece(8, 8), Piece(16, 16), Piece(32, 16)>>, NibpData)
  BY <1>1, <1>4, FitsThree DEF NibpData, ProtectFlag
<1> QED
  BY <1>3, <1>5

(* The protection: one page write. *)
LEMMA ProtectFit == Fits(EEPROM_BufferWrite(48, 9), ProtectData)
<1>1. EEPROM_BufferWrite(48, 9) = <<Piece(48, 9)>>
  BY PagesRest DEF EEPROM_BufferWrite, PAGE_WRITE_LENGHT
<1>2. Piece(48, 9) \in Pieces /\ Extent(Piece(48, 9)) = 48 .. 56
  BY DEF Pieces, Extent, Piece
<1> QED
  BY <1>1, <1>2, FitsOne DEF ProtectData

(* One page write for each field, the flag last. *)
LEMMA ActionFit ==
  ASSUME NEW i \in {2, 4, 5}
  PROVE  Fits(ActionPages(i), ActionBytes(i))
<1> DEFINE a == Piece(8 + 2*i, 2)
           b == Piece(20 + 4*i, 4)
           c == Piece(44, 4)
<1>1. a \in Pieces /\ b \in Pieces /\ c \in Pieces
  BY DEF Pieces
<1>2. EEPROM_BufferWrite(8 + 2*i, 2) = <<a>>
  BY PagesRest DEF EEPROM_BufferWrite, PAGE_WRITE_LENGHT
<1>3. EEPROM_BufferWrite(20 + 4*i, 4) = <<b>>
  BY PagesRest DEF EEPROM_BufferWrite, PAGE_WRITE_LENGHT
<1>4. EEPROM_BufferWrite(44, 4) = <<c>>
  BY PagesRest DEF EEPROM_BufferWrite, PAGE_WRITE_LENGHT
<1>5. Extent(a) = Verify_mmHg(i) /\ Extent(b) = Verify_Val(i) /\ Extent(c) = IsVerify
  BY DEF Extent, Piece, Verify_mmHg, Verify_Val, IsVerify
<1>6. /\ 44 \notin Extent(a) /\ ProtectFlag \notin Extent(a)
      /\ 44 \notin Extent(b) /\ ProtectFlag \notin Extent(b)
  BY <1>5 DEF Verify_mmHg, Verify_Val, ProtectFlag
<1> HIDE DEF a, b, c
<1>7. <<a>> \o <<b>> = <<a, b>> /\ <<a, b>> \in Seq(Pieces)
  BY <1>1, Concat2
<1>8. CASE i # 5
  <2>1. ActionPages(i) = <<a, b>>
    BY <1>2, <1>3, <1>7, <1>8, ConcatEmptySeq DEF ActionPages
  <2>2. ActionBytes(i) = Extent(a) \cup Extent(b)
    BY <1>5, <1>8 DEF ActionBytes, Point
  <2> QED
    BY <1>1, <1>6, <2>1, <2>2, FitsTwo
<1>9. CASE i = 5
  <2>1. <<a, b>> \o <<c>> = <<a, b, c>>
    <3> DEFINE s == <<a, b>> \o <<c>>
               t == <<a, b, c>>
    <3>1. s \in Seq(Pieces) /\ Len(s) = 3 /\ s[1] = a /\ s[2] = b /\ s[3] = c
      BY <1>1
    <3>2. t \in Seq(Pieces) /\ Len(t) = 3 /\ t[1] = a /\ t[2] = b /\ t[3] = c
      BY <1>1
    <3> HIDE DEF s, t
    <3>3. \A k \in 1 .. 3 : s[k] = t[k]
      BY <3>1, <3>2
    <3>4. s = t
      BY <3>1, <3>2, <3>3, SeqEqual
    <3> QED
      BY <3>4 DEF s, t
  <2>2. ActionPages(i) = <<a, b, c>>
    BY <1>2, <1>3, <1>4, <1>7, <1>9, <2>1 DEF ActionPages
  <2>3. ActionBytes(i) = Extent(a) \cup Extent(b) \cup Extent(c)
    BY <1>5, <1>9 DEF ActionBytes, Point
  <2> QED
    BY <1>1, <1>6, <2>2, <2>3, FitsThree
<1> QED
  BY <1>8, <1>9

-----------------------------------------------------------------------------
(* Where the fields are. *)

(* The areas that the code copies or fills at once. *)
Areas == {Extent(p) : p \in Pieces} \cup
         {Tags, NibpData, IsVerify, {ProtectFlag}, ProtectPoint(0), ProtectPoint(1)} \cup
         {Point(i) : i \in Points}

(* The areas are intervals, or two of them. *)
LEMMA AreasListed ==
  ASSUME NEW area \in Areas
  PROVE  \/ area \in {0 .. 3, 57 .. 60, 8 .. 15, 16 .. 31, 32 .. 47, 48 .. 56}
         \/ area \in {12 .. 13, 28 .. 31, 16 .. 17, 36 .. 39, 18 .. 19, 40 .. 43, 44 .. 47}
         \/ area \in {Tags, NibpData, {ProtectFlag}, ProtectPoint(0), ProtectPoint(1)}
         \/ \E i \in Points : area = Point(i)
<1>1. ASSUME NEW p \in Pieces
      PROVE  Extent(p) \in {0 .. 3, 57 .. 60, 8 .. 15, 16 .. 31, 32 .. 47, 48 .. 56}
               \cup {12 .. 13, 28 .. 31, 16 .. 17, 36 .. 39, 18 .. 19, 40 .. 43, 44 .. 47}
  <2>1. /\ Extent(Piece(0, 4)) = 0 .. 3 /\ Extent(Piece(57, 4)) = 57 .. 60
        /\ Extent(Piece(8, 8)) = 8 .. 15 /\ Extent(Piece(16, 16)) = 16 .. 31
        /\ Extent(Piece(32, 16)) = 32 .. 47 /\ Extent(Piece(48, 9)) = 48 .. 56
    BY DEF Extent, Piece
  <2>2. /\ Extent(Piece(12, 2)) = 12 .. 13 /\ Extent(Piece(28, 4)) = 28 .. 31
        /\ Extent(Piece(16, 2)) = 16 .. 17 /\ Extent(Piece(36, 4)) = 36 .. 39
        /\ Extent(Piece(18, 2)) = 18 .. 19 /\ Extent(Piece(40, 4)) = 40 .. 43
        /\ Extent(Piece(44, 4)) = 44 .. 47
    BY DEF Extent, Piece
  <2> QED
    <3>1. CASE p \in {Piece(0, 4), Piece(57, 4), Piece(8, 8), Piece(16, 16), Piece(32, 16), Piece(48, 9)}
      BY <2>1, <3>1
    <3>2. CASE p \in {Piece(12, 2), Piece(28, 4), Piece(16, 2), Piece(36, 4), Piece(18, 2), Piece(40, 4),
                      Piece(44, 4)}
      BY <2>2, <3>2
    <3> QED
      BY <3>1, <3>2 DEF Pieces
<1> QED
  BY <1>1 DEF Areas, IsVerify

(* Each area is made of whole fields. *)
LEMMA FieldsFit ==
  ASSUME NEW area \in Areas, NEW f \in Fields
  PROVE  /\ f \subseteq area \/ f \cap area = {}
         /\ f \subseteq Bytes
<1> USE DEF Bytes, HeadOfEeprom, TailOfEeprom, IsVerify, ProtectFlag, Tags, NibpData,
            Verify_mmHg, Verify_Val, protect_mmHg, protect_adc, Points, NIBP_VERIFY_NUM,
            ProtectPoint, Point
<1>1. \/ f \in {0 .. 3, 57 .. 60, 44 .. 47, {56}, 48 .. 49, 50 .. 51, 52 .. 53, 54 .. 55}
      \/ \E j \in 0 .. 5 : f = 8 + 2*j .. 9 + 2*j
      \/ \E j \in 0 .. 5 : f = 20 + 4*j .. 23 + 4*j
  BY DEF Fields, Constants, Values
<1>2. f \subseteq Bytes
  BY <1>1
<1>3. CASE area \in {0 .. 3, 57 .. 60, 8 .. 15, 16 .. 31, 32 .. 47, 48 .. 56}
  BY <1>1, <1>3
<1>4. CASE area \in {12 .. 13, 28 .. 31, 16 .. 17, 36 .. 39, 18 .. 19, 40 .. 43, 44 .. 47}
  BY <1>1, <1>4
<1>5. CASE area \in {Tags, NibpData, {ProtectFlag}, ProtectPoint(0), ProtectPoint(1)}
  BY <1>1, <1>5
<1>6. ASSUME NEW i \in Points, area = Point(i)
      PROVE  f \subseteq area \/ f \cap area = {}
  BY <1>1, <1>6
<1> QED
  BY <1>2, <1>3, <1>4, <1>5, <1>6, AreasListed

(* The flags and tags lie apart from the values. *)
LEMMA KindsApart ==
  /\ \A f \in Constants : f # {} /\ f \cap (8 .. 43) = {} /\ f \cap (48 .. 55) = {}
  /\ \A f \in Values : f # {} /\ f \subseteq (8 .. 43) \cup (48 .. 55)
  BY DEF Constants, Values, HeadOfEeprom, TailOfEeprom, IsVerify, ProtectFlag,
         Verify_mmHg, Verify_Val, protect_mmHg, protect_adc, Points, NIBP_VERIFY_NUM

(* Copying an area of one memory into another leaves the fields whole. *)
LEMMA CopyWhole ==
  ASSUME NEW area \in Areas, NEW from, NEW to, Whole(from), Whole(to)
  PROVE  Whole([b \in Bytes |-> IF b \in area THEN from[b] ELSE to[b]])
<1> DEFINE copy == [b \in Bytes |-> IF b \in area THEN from[b] ELSE to[b]]
<1>1. ASSUME NEW f \in Fields, NEW s
      PROVE  /\ f \subseteq area /\ Filled(from, f, s) => Filled(copy, f, s)
             /\ f \cap area = {} /\ Filled(to, f, s) => Filled(copy, f, s)
  BY FieldsFit DEF Filled
<1> HIDE DEF copy
<1>2. Whole(copy)
  BY <1>1, FieldsFit DEF Whole
<1> QED
  BY <1>2 DEF copy

(* Blank, the constants and the numbers of calibrations differ. *)
LEMMA StampTypes ==
  /\ MaxSessions \in Nat \ {0} /\ MaxFailures \in Nat
  /\ Blank \in Stamp /\ Const \in Stamp /\ Unknown \notin Stamp
  /\ Blank # Const
  /\ \A s \in 1 .. MaxSessions : s \in Stamp /\ s # Const /\ s # Blank
  BY CalibrationAssumption DEF Blank, Const, Unknown, Stamp

(* Filling an area leaves the fields whole, if its fields are of the kind. *)
LEMMA StoreWhole ==
  ASSUME NEW area \in Areas, NEW memory, NEW stamp \in Stamp, Whole(memory),
         \A f \in Fields : f \subseteq area => (stamp = Const <=> f \in Constants)
  PROVE  Whole(Store(memory, area, stamp))
<1> DEFINE new == Store(memory, area, stamp)
<1>1. ASSUME NEW f \in Fields, NEW s
      PROVE  /\ f \subseteq area => Filled(new, f, stamp)
             /\ f \cap area = {} /\ Filled(memory, f, s) => Filled(new, f, s)
  BY FieldsFit DEF Filled, Store
<1> HIDE DEF new
<1>2. Whole(new)
  BY <1>1, FieldsFit DEF Whole
<1> QED
  BY <1>2 DEF new

(* So does writing a constant of the code to its own field. *)
LEMMA ConstWhole ==
  ASSUME NEW memory, Whole(memory), NEW area \in {Tags, IsVerify, {ProtectFlag}}
  PROVE  Whole(Store(memory, area, Const))
<1>1. area \in Areas
  BY DEF Areas
<1>2. area \cap (8 .. 43) = {} /\ area \cap (48 .. 55) = {}
  BY DEF Tags, HeadOfEeprom, TailOfEeprom, IsVerify, ProtectFlag
<1>3. ASSUME NEW f \in Fields, f \subseteq area PROVE f \in Constants
  BY <1>2, <1>3, KindsApart DEF Fields
<1> QED
  BY <1>1, <1>3, StampTypes, StoreWhole

(* ... and the number of a calibration to a point. *)
LEMMA PointWhole ==
  ASSUME NEW memory, Whole(memory), NEW s \in 1 .. MaxSessions, NEW area,
         area \in {Point(i) : i \in Points} \cup {ProtectPoint(0), ProtectPoint(1)}
  PROVE  Whole(Store(memory, area, s))
<1>1. area \in Areas
  BY DEF Areas
<1>2. area \subseteq (8 .. 43) \cup (48 .. 55)
  BY DEF Point, ProtectPoint, Verify_mmHg, Verify_Val, protect_mmHg, protect_adc,
         Points, NIBP_VERIFY_NUM
<1>3. ASSUME NEW f \in Constants, f \subseteq area PROVE FALSE
  <2>1. PICK x \in f : TRUE
    BY KindsApart
  <2>2. x \in 8 .. 43 \/ x \in 48 .. 55
    BY <1>2, <1>3
  <2> QED
    BY <2>2, KindsApart
<1> QED
  BY <1>1, <1>3, StampTypes, StoreWhole

(* What is stored is a stamp. *)
LEMMA StoreType ==
  ASSUME NEW S, NEW memory \in [Bytes -> S], NEW bytes, NEW stamp \in S
  PROVE  Store(memory, bytes, stamp) \in [Bytes -> S]
  BY DEF Store

-----------------------------------------------------------------------------
(* Nothing is left of no page writes. *)
LEMMA NothingLeft == Left(<<>>) = {} /\ \A bytes : Ordered(<<>>, bytes)
  BY DEF Left, Ordered

(* A save begins: what it is to write is promised. *)
LEMMA SaveBegins ==
  ASSUME todo = <<>>, Kept, OtherTypes, NEW pages, NEW bytes, Fits(pages, bytes),
         ram' \in [Bytes -> Stamp], eeprom' = eeprom, Saving(bytes, pages)
  PROVE  /\ Planned' /\ Kept' /\ Copied'
         /\ saving' \subseteq Bytes /\ promised' \in [Bytes -> Stamp \cup {Unknown}]
<1>1. /\ todo' = pages /\ saving' = bytes /\ bytes \subseteq Bytes
      /\ promised' = [b \in Bytes |-> IF b \in bytes THEN ram'[b] ELSE promised[b]]
      /\ pages # <<>> /\ pages \in Seq(Pieces) /\ Ordered(pages, bytes) /\ bytes \subseteq Left(pages)
  BY DEF Saving, Fits
<1>2. Planned'
  BY <1>1 DEF Planned
<1>3. Copied'
  BY <1>1 DEF Copied
<1>4. Kept'
  <2>1. ASSUME NEW b \in Bytes, b \notin Left(pages)
        PROVE  promised'[b] \in {eeprom'[b], Unknown}
    BY <1>1, <2>1, NothingLeft DEF Kept
  <2> QED
    BY <1>1, <2>1 DEF Kept
<1>5. promised' \in [Bytes -> Stamp \cup {Unknown}]
  BY <1>1 DEF OtherTypes
<1> QED
  BY <1>1, <1>2, <1>3, <1>4, <1>5

(* A command that saves nothing. *)
LEMMA NothingSaved ==
  ASSUME todo = <<>>, Planned, Kept, UNCHANGED <<eeprom, todo, saving, promised>>
  PROVE  Planned' /\ Kept' /\ Copied'
<1>1. saving = {} /\ todo' = <<>> /\ saving' = {}
  BY DEF Planned
<1>2. Planned'
  BY <1>1 DEF Planned
<1>3. Copied'
  BY <1>1 DEF Copied
<1>4. Kept'
  BY DEF Kept
<1> QED
  BY <1>2, <1>3, <1>4

(* The first start of a new device. *)
LEMMA InitIInv == Init => IInv
<1> SUFFICES ASSUME Init PROVE IInv
  OBVIOUS
<1>1. /\ eeprom = [b \in Bytes |-> Blank]
      /\ ram = Store(eeprom, Tags, Const)
      /\ todo = EEPROM_RestoreHeadTail /\ saving = Tags
      /\ promised = Store(eeprom, Tags, Const)
      /\ verifyStauts = FALSE /\ session = 1 /\ failures = 0
  BY DEF Init
<1>2. Flags
  BY <1>1 DEF Flags
<1>3. eeprom \in [Bytes -> Stamp] /\ eeprom \in [Bytes -> Stamp \cup {Unknown}]
  BY <1>1, StampTypes
<1>4. Tags \subseteq Bytes
  BY DEF Tags, HeadOfEeprom, TailOfEeprom, Bytes
<1>5. OtherTypes
  BY <1>1, <1>3, <1>4, StampTypes, StoreType DEF OtherTypes
<1>6. Whole(eeprom)
  <2>1. ASSUME NEW f \in Fields PROVE Filled(eeprom, f, Blank)
    BY <1>1, FieldsFit DEF Filled, Areas
  <2> QED
    BY <2>1, StampTypes DEF Whole
<1>7. Whole(ram)
  BY <1>1, <1>6, ConstWhole
<1>8. Planned
  BY <1>1, TagsFit DEF Planned, Fits
<1>9. Kept
  <2>1. ASSUME NEW b \in Bytes, b \notin Tags PROVE promised[b] = eeprom[b]
    BY <1>1, <2>1 DEF Store
  <2>2. \A b \in Bytes : b \in Tags => b \in Left(todo)
    BY <1>1, TagsFit DEF Fits
  <2> QED
    BY <2>1, <2>2 DEF Kept
<1>10. Copied
  BY <1>1 DEF Copied
<1> QED
  BY <1>2, <1>5, <1>6, <1>7, <1>8, <1>9, <1>10 DEF IInv

-----------------------------------------------------------------------------
(* A page write takes the first piece: the others are left. *)
LEMMA NextPiece ==
  ASSUME Planned, todo # <<>>
  PROVE  /\ Head(todo) \in Pieces /\ Tail(todo) \in Seq(Pieces)
         /\ Ordered(Tail(todo), saving)
         /\ Left(todo) \subseteq Extent(Head(todo)) \cup Left(Tail(todo))
         /\ (44 \in Extent(Head(todo)) \/ ProtectFlag \in Extent(Head(todo))) => Tail(todo) = <<>>
<1>1. todo \in Seq(Pieces) /\ Ordered(todo, saving)
  BY DEF Planned
<1>2. /\ Head(todo) \in Pieces /\ Tail(todo) \in Seq(Pieces)
      /\ Len(Tail(todo)) = Len(todo) - 1
      /\ \A k \in 1 .. Len(Tail(todo)) : Tail(todo)[k] = todo[k + 1]
      /\ Len(todo) \in Nat /\ Len(todo) >= 1
  BY <1>1, HeadTailProperties
<1>3. Head(todo) = todo[1]
  BY <1>1
<1>4. Ordered(Tail(todo), saving)
  <2>1. ASSUME NEW k \in 1 .. Len(Tail(todo))
        PROVE  /\ k + 1 \in 1 .. Len(todo) /\ Tail(todo)[k] = todo[k + 1]
               /\ k + 1 = Len(todo) => k = Len(Tail(todo))
    <3> DEFINE n == Len(todo)
               m == Len(Tail(todo))
    <3>1. n \in Nat /\ m = n - 1 /\ k \in 1 .. m /\ Tail(todo)[k] = todo[k + 1]
      BY <1>2
    <3> HIDE DEF n, m
    <3>2. k + 1 \in 1 .. n /\ (k + 1 = n => k = m)
      BY <3>1
    <3> QED
      BY <3>1, <3>2 DEF n, m
  <2> QED
    BY <1>1, <2>1 DEF Ordered
<1>5. Left(todo) \subseteq Extent(Head(todo)) \cup Left(Tail(todo))
  <2>1. ASSUME NEW k \in 1 .. Len(todo), k # 1
        PROVE  k - 1 \in 1 .. Len(Tail(todo)) /\ Tail(todo)[k - 1] = todo[k]
    BY <1>2, <2>1
  <2> QED
    BY <1>3, <2>1 DEF Left
<1>6. (44 \in Extent(Head(todo)) \/ ProtectFlag \in Extent(Head(todo))) => Tail(todo) = <<>>
  <2>1. 1 \in 1 .. Len(todo)
    BY <1>2
  <2>2. (44 \in Extent(Head(todo)) \/ ProtectFlag \in Extent(Head(todo))) => 1 = Len(todo)
    BY <1>1, <1>3, <2>1 DEF Ordered
  <2>3. Len(Tail(todo)) = 0 => Tail(todo) = <<>>
    BY <1>2, EmptySeq
  <2> QED
    BY <1>2, <2>2, <2>3
<1> QED
  BY <1>2, <1>4, <1>5, <1>6

(* A page write copies its bytes into the EEPROM. *)
LEMMA PageWritten ==
  ASSUME OtherTypes, Planned, todo # <<>>, eeprom' = Written(eeprom, Head(todo))
  PROVE  /\ eeprom' = [b \in Bytes |-> IF b \in Extent(Head(todo)) THEN ram[b] ELSE eeprom[b]]
         /\ eeprom' \in [Bytes -> Stamp]
         /\ Extent(Head(todo)) \subseteq saving
<1>1. Head(todo) \in Pieces
  BY NextPiece
<1>2. eeprom' = [b \in Bytes |-> IF b \in Extent(Head(todo)) THEN ram[b] ELSE eeprom[b]]
  BY <1>1, WrittenPlain
<1>3. Extent(Head(todo)) \subseteq saving
  <2>1. todo \in Seq(Pieces) /\ Ordered(todo, saving) /\ Len(todo) \in Nat /\ Len(todo) >= 1
    BY HeadTailProperties DEF Planned
  <2>2. Head(todo) = todo[1] /\ 1 \in 1 .. Len(todo)
    BY <2>1
  <2> QED
    BY <2>1, <2>2 DEF Ordered
<1> QED
  BY <1>2, <1>3 DEF OtherTypes

(* Kept after a page write that arrives. *)
LEMMA PageKept ==
  ASSUME OtherTypes, Planned, Kept, Copied, todo # <<>>,
         eeprom' = Written(eeprom, Head(todo)), todo' = Tail(todo), promised' = promised
  PROVE  Kept'
<1>1. /\ eeprom' = [b \in Bytes |-> IF b \in Extent(Head(todo)) THEN ram[b] ELSE eeprom[b]]
      /\ Extent(Head(todo)) \subseteq saving
      /\ Left(todo) \subseteq Extent(Head(todo)) \cup Left(Tail(todo))
  BY PageWritten, NextPiece
<1>2. ASSUME NEW b \in Bytes, b \notin Left(Tail(todo))
      PROVE  promised'[b] \in {eeprom'[b], Unknown}
  <2>1. CASE b \in Extent(Head(todo))
    BY <1>1, <2>1 DEF Copied
  <2>2. CASE b \notin Extent(Head(todo))
    BY <1>1, <1>2, <2>2 DEF Kept
  <2> QED
    BY <2>1, <2>2
<1> QED
  BY <1>2 DEF Kept

(* The page writes of a save. *)
LEMMA PageWriteIInv == ASSUME IInv, EEPROM_PageWrite PROVE IInv'
<1>1. /\ Flags /\ OtherTypes /\ Whole(eeprom) /\ Whole(ram) /\ Planned /\ Kept /\ Copied
      /\ todo # <<>> /\ todo' = Tail(todo) /\ saving' = Rest(saving)
      /\ ram' = ram /\ verifyStauts' = verifyStauts /\ session' = session
  BY DEF IInv, EEPROM_PageWrite
<1>2. Flags'
  BY <1>1 DEF Flags
<1>3. Whole(ram)'
  BY <1>1 DEF Whole, Filled
<1>4. /\ saving' \subseteq saving /\ (todo' = <<>> => saving' = {})
      /\ (todo' # <<>> => saving' = saving)
  BY <1>1 DEF Rest
<1>5. Planned'
  <2>1. Tail(todo) \in Seq(Pieces) /\ Ordered(Tail(todo), saving)
    BY <1>1, NextPiece
  <2>2. CASE todo' = <<>>
    BY <1>1, <1>4, <2>1, <2>2, NothingLeft DEF Planned
  <2>3. CASE todo' # <<>>
    BY <1>1, <1>4, <2>1, <2>3 DEF Planned
  <2> QED
    BY <2>2, <2>3
<1>6. CASE eeprom' = Written(eeprom, Head(todo)) /\ UNCHANGED <<promised, failures>>
  <2>1. /\ eeprom' = [b \in Bytes |-> IF b \in Extent(Head(todo)) THEN ram[b] ELSE eeprom[b]]
        /\ eeprom' \in [Bytes -> Stamp]
    BY <1>1, <1>6, PageWritten
  <2>2. OtherTypes'
    BY <1>1, <1>4, <1>6, <2>1 DEF OtherTypes
  <2>3. Whole(eeprom)'
    <3>1. Extent(Head(todo)) \in Areas
      BY <1>1, NextPiece DEF Areas
    <3>2. Whole(eeprom')
      BY <1>1, <2>1, <3>1, CopyWhole
    <3> QED
      BY <3>2 DEF Whole
  <2>4. Kept'
    BY <1>1, <1>6, PageKept
  <2>5. Copied'
    BY <1>1, <1>4, <1>6 DEF Copied
  <2> QED
    BY <1>2, <1>3, <1>5, <2>2, <2>3, <2>4, <2>5 DEF IInv
<1>7. CASE /\ failures < MaxFailures /\ failures' = failures + 1
           /\ promised' = Forget(saving) /\ eeprom' = eeprom
  <2>1. OtherTypes'
    <3>1. promised' \in [Bytes -> Stamp \cup {Unknown}]
      BY <1>1, <1>7 DEF OtherTypes, Forget
    <3>2. failures' \in 0 .. MaxFailures
      BY <1>1, <1>7, StampTypes DEF OtherTypes
    <3> QED
      BY <1>1, <1>4, <1>7, <3>1, <3>2 DEF OtherTypes
  <2>2. Whole(eeprom)'
    BY <1>1, <1>7 DEF Whole, Filled
  <2>3. \A b \in Bytes : promised'[b] = IF b \in saving THEN Unknown ELSE promised[b]
    BY <1>7 DEF Forget
  <2>4. Kept'
    <3>1. \A k \in 1 .. Len(todo) : Extent(todo[k]) \subseteq saving
      BY <1>1 DEF Planned, Ordered
    <3>2. Left(todo) \subseteq saving
      BY <3>1 DEF Left
    <3> QED
      BY <1>1, <1>7, <2>3, <3>2 DEF Kept
  <2>5. Copied'
    BY <1>1, <1>4, <2>3 DEF Copied, OtherTypes
  <2> QED
    BY <1>2, <1>3, <1>5, <2>1, <2>2, <2>4, <2>5 DEF IInv
<1> QED
  BY <1>6, <1>7 DEF EEPROM_PageWrite

-----------------------------------------------------------------------------
(* A start: the save that was running is forgotten, the tags put back.     *)
LEMMA BootIInv ==
  ASSUME IInv, Boot, eeprom' = eeprom, session' = session, failures' \in 0 .. MaxFailures
  PROVE  IInv'
<1>1. Flags /\ OtherTypes /\ Whole(eeprom) /\ Planned /\ Kept
  BY DEF IInv
<1> DEFINE known == Forget(saving)
           tagged == EEPROM_ExamineHeadTail(eeprom)
<1>2. /\ ram' = Store(eeprom, Tags, Const)
      /\ todo' = IF tagged THEN <<>> ELSE EEPROM_RestoreHeadTail
      /\ saving' = IF tagged THEN {} ELSE Tags
      /\ promised' = IF tagged THEN known ELSE Store(known, Tags, Const)
      /\ verifyStauts' = FALSE
  BY DEF Boot
<1>3. Flags'
  BY <1>2 DEF Flags
<1>4. Whole(eeprom)'
  BY <1>1 DEF Whole, Filled
<1>5. Whole(ram)'
  <2>1. Whole(ram')
    BY <1>1, <1>2, ConstWhole
  <2> QED
    BY <2>1 DEF Whole
<1>6. \A b \in Bytes : known[b] \in {eeprom[b], Unknown}
  <2>1. \A b \in Bytes : known[b] = IF b \in saving THEN Unknown ELSE promised[b]
    BY DEF Forget
  <2>2. \A k \in 1 .. Len(todo) : Extent(todo[k]) \subseteq saving
    BY <1>1 DEF Planned, Ordered
  <2>3. Left(todo) \subseteq saving
    BY <2>2 DEF Left
  <2> QED
    BY <1>1, <2>1, <2>3 DEF Kept
<1>7. known \in [Bytes -> Stamp \cup {Unknown}]
  BY <1>1 DEF OtherTypes, Forget
<1>8. Tags \subseteq Bytes
  BY DEF Tags, HeadOfEeprom, TailOfEeprom, Bytes
<1> HIDE DEF known, tagged
<1>9. OtherTypes'
  <2>1. ram' \in [Bytes -> Stamp]
    BY <1>1, <1>2, StampTypes, StoreType DEF OtherTypes
  <2>2. promised' \in [Bytes -> Stamp \cup {Unknown}]
    BY <1>2, <1>7, StampTypes, StoreType
  <2> QED
    BY <1>1, <1>2, <1>8, <2>1, <2>2 DEF OtherTypes
<1>10. Planned' /\ Kept' /\ Copied'
  <2>1. CASE tagged
    <3>1. todo' = <<>> /\ saving' = {} /\ promised' = known
      BY <1>2, <2>1
    <3>2. Planned'
      BY <3>1, NothingLeft DEF Planned
    <3>3. Kept'
      BY <1>6, <3>1 DEF Kept
    <3> QED
      BY <3>1, <3>2, <3>3 DEF Copied
  <2>2. CASE ~ tagged
    <3>1. todo' = EEPROM_RestoreHeadTail /\ saving' = Tags /\ promised' = Store(known, Tags, Const)
      BY <1>2, <2>2
    <3>2. Planned'
      BY <3>1, TagsFit DEF Planned, Fits
    <3>3. Copied'
      BY <1>2, <1>8, <3>1 DEF Copied, Store
    <3>4. Kept'
      <4>1. \A b \in Bytes : b \in Tags => b \in Left(todo')
        BY <3>1, TagsFit DEF Fits
      <4>2. \A b \in Bytes : b \notin Tags => promised'[b] = known[b]
        BY <3>1 DEF Store
      <4> QED
        BY <1>6, <4>1, <4>2 DEF Kept
    <3> QED
      BY <3>2, <3>3, <3>4
  <2> QED
    BY <2>1, <2>2
<1> QED
  BY <1>3, <1>4, <1>5, <1>9, <1>10 DEF IInv

(* The supply fails, or the external watchdog resets the DSP. *)
LEMMA RestartsIInv == ASSUME IInv, PowerFailure \/ NIBP_VerifyActionHangs PROVE IInv'
<1>1. failures \in 0 .. MaxFailures
  BY DEF IInv, OtherTypes
<1>2. CASE PowerFailure
  <2>1. Boot /\ eeprom' = eeprom /\ session' = session /\ failures' \in 0 .. MaxFailures
    BY <1>1, <1>2, StampTypes DEF PowerFailure
  <2> QED
    BY <2>1, BootIInv
<1>3. CASE NIBP_VerifyActionHangs
  <2>1. Boot /\ eeprom' = eeprom /\ session' = session /\ failures' \in 0 .. MaxFailures
    BY <1>1, <1>3 DEF NIBP_VerifyActionHangs
  <2> QED
    BY <2>1, BootIInv
<1> QED
  BY <1>2, <1>3

-----------------------------------------------------------------------------
(* Entering the calibration, perhaps a new one. *)
LEMMA EnterIInv == ASSUME IInv, NIBP_VerifyEnter PROVE IInv'
<1>1. /\ Flags /\ OtherTypes /\ Whole(eeprom) /\ Whole(ram) /\ Planned /\ Kept
      /\ todo = <<>> /\ verifyStauts' = TRUE
      /\ session' = session \/ (session < MaxSessions /\ session' = session + 1)
      /\ UNCHANGED <<eeprom, ram, todo, saving, promised, failures>>
  BY DEF IInv, NIBP_VerifyEnter, Command
<1>2. Flags'
  BY <1>1 DEF Flags
<1>3. session' \in 1 .. MaxSessions
  BY <1>1, StampTypes DEF OtherTypes
<1>4. OtherTypes'
  BY <1>1, <1>3 DEF OtherTypes
<1>5. Whole(eeprom)' /\ Whole(ram)'
  BY <1>1 DEF Whole, Filled
<1>6. Planned' /\ Kept' /\ Copied'
  BY <1>1, NothingSaved
<1> QED
  BY <1>2, <1>4, <1>5, <1>6 DEF IInv

(* Leaving it takes the cuff's calibration back from the EEPROM. *)
LEMMA ExitIInv == ASSUME IInv, NIBP_VerifyExit PROVE IInv'
<1>1. /\ Flags /\ OtherTypes /\ Whole(eeprom) /\ Whole(ram) /\ Planned /\ Kept
      /\ todo = <<>> /\ verifyStauts' = FALSE
      /\ ram' = [b \in Bytes |-> IF b \in NibpData THEN eeprom[b] ELSE ram[b]]
      /\ UNCHANGED <<eeprom, todo, saving, promised, session, failures>>
  BY DEF IInv, NIBP_VerifyExit, Command
<1>2. Flags'
  BY <1>1 DEF Flags
<1>3. OtherTypes'
  BY <1>1 DEF OtherTypes
<1>4. Whole(eeprom)'
  BY <1>1 DEF Whole, Filled
<1>5. Whole(ram)'
  <2>1. NibpData \in Areas
    BY DEF Areas
  <2>2. Whole(ram')
    BY <1>1, <2>1, CopyWhole
  <2> QED
    BY <2>2 DEF Whole
<1>6. Planned' /\ Kept' /\ Copied'
  BY <1>1, NothingSaved
<1> QED
  BY <1>2, <1>3, <1>4, <1>5, <1>6 DEF IInv

(* A point of the cuff pressure or of the protection is sampled. *)
LEMMA SampleIInv ==
  ASSUME IInv, NEW area,
         area \in {Point(i) : i \in Points} \cup {ProtectPoint(0), ProtectPoint(1)},
         Command, ram' = Store(ram, area, session),
         UNCHANGED <<eeprom, todo, saving, promised, verifyStauts, session, failures>>
  PROVE  IInv'
<1>1. /\ Flags /\ OtherTypes /\ Whole(eeprom) /\ Whole(ram) /\ Planned /\ Kept
      /\ todo = <<>> /\ session \in 1 .. MaxSessions
  BY DEF IInv, Command, OtherTypes
<1>2. Flags'
  BY <1>1 DEF Flags
<1>3. OtherTypes'
  <2>1. ram' \in [Bytes -> Stamp]
    BY <1>1, StampTypes, StoreType DEF OtherTypes
  <2> QED
    BY <1>1, <2>1 DEF OtherTypes
<1>4. Whole(eeprom)'
  BY <1>1 DEF Whole, Filled
<1>5. Whole(ram)'
  <2>1. Whole(ram')
    BY <1>1, PointWhole
  <2> QED
    BY <2>1 DEF Whole
<1>6. Planned' /\ Kept' /\ Copied'
  BY <1>1, NothingSaved
<1> QED
  BY <1>2, <1>3, <1>4, <1>5, <1>6 DEF IInv

(* A handler starts a save. *)
LEMMA SavingIInv ==
  ASSUME IInv, Command, NEW pages, NEW bytes, Fits(pages, bytes), Saving(bytes, pages),
         ram' \in [Bytes -> Stamp], Whole(ram'), UNCHANGED <<eeprom, verifyStauts, session, failures>>
  PROVE  IInv'
<1>1. Flags /\ OtherTypes /\ Whole(eeprom) /\ Kept /\ todo = <<>>
  BY DEF IInv, Command
<1>2. Flags'
  BY <1>1 DEF Flags
<1>3. /\ Planned' /\ Kept' /\ Copied'
      /\ saving' \subseteq Bytes /\ promised' \in [Bytes -> Stamp \cup {Unknown}]
  BY <1>1, SaveBegins
<1>4. OtherTypes'
  BY <1>1, <1>3 DEF OtherTypes
<1>5. Whole(eeprom)' /\ Whole(ram)'
  BY <1>1 DEF Whole, Filled
<1> QED
  BY <1>2, <1>3, <1>4, <1>5 DEF IInv

(* The save of the cuff's calibration. *)
LEMMA SaveIInv == ASSUME IInv, NIBP_VerifySave2Eepom PROVE IInv'
<1>1. /\ Command /\ Saving(NibpData, NibpSave) /\ ram' = Store(ram, IsVerify, Const)
      /\ UNCHANGED <<eeprom, verifyStauts, session, failures>>
  BY DEF NIBP_VerifySave2Eepom
<1>2. Whole(ram') /\ ram' \in [Bytes -> Stamp]
  BY <1>1, ConstWhole, StampTypes, StoreType DEF IInv, OtherTypes
<1> QED
  BY <1>1, <1>2, NibpFit, SavingIInv

(* ... of the protection. *)
LEMMA SaveProtectIInv == ASSUME IInv, EEPROM_saveSTM32NIBPVerify PROVE IInv'
<1>1. /\ Command /\ Saving(ProtectData, EEPROM_BufferWrite(48, 9))
      /\ ram' = Store(ram, {ProtectFlag}, Const)
      /\ UNCHANGED <<eeprom, verifyStauts, session, failures>>
  BY DEF EEPROM_saveSTM32NIBPVerify
<1>2. Whole(ram') /\ ram' \in [Bytes -> Stamp]
  BY <1>1, ConstWhole, StampTypes, StoreType DEF IInv, OtherTypes
<1> QED
  BY <1>1, <1>2, ProtectFit, SavingIInv

(* ... of one point, sampled just before. *)
LEMMA ActionIInv ==
  ASSUME IInv, NEW i \in {2, 4, 5}, NIBP_VerifyAction(i) PROVE IInv'
<1> DEFINE flagged == IF i \in {2, 5} THEN Store(ram, IsVerify, Const) ELSE ram
<1>1. /\ Command /\ Saving(ActionBytes(i), ActionPages(i))
      /\ ram' = Store(flagged, Point(i), session)
      /\ UNCHANGED <<eeprom, verifyStauts, session, failures>>
  BY DEF NIBP_VerifyAction
<1>2. Whole(flagged) /\ flagged \in [Bytes -> Stamp]
  BY ConstWhole, StampTypes, StoreType DEF IInv, OtherTypes
<1>3. session \in 1 .. MaxSessions /\ session \in Stamp
  BY StampTypes DEF IInv, OtherTypes
<1>4. Point(i) \in {Point(j) : j \in Points}
  BY DEF Points, NIBP_VERIFY_NUM
<1> HIDE DEF flagged
<1>5. Whole(ram') /\ ram' \in [Bytes -> Stamp]
  BY <1>1, <1>2, <1>3, <1>4, PointWhole, StoreType
<1> QED
  BY <1>1, <1>5, ActionFit, SavingIInv

(* A stuttering step. *)
LEMMA StutterIInv == ASSUME IInv, UNCHANGED vars PROVE IInv'
<1>1. /\ Flags /\ OtherTypes /\ Whole(eeprom) /\ Whole(ram) /\ Planned /\ Kept /\ Copied
      /\ UNCHANGED <<eeprom, ram, todo, saving, promised, verifyStauts, session, failures>>
  BY DEF IInv, vars
<1>2. Flags'
  BY <1>1 DEF Flags
<1>3. OtherTypes' /\ Whole(eeprom)' /\ Whole(ram)'
  BY <1>1 DEF OtherTypes, Whole, Filled
<1>4. Planned' /\ Kept' /\ Copied'
  BY <1>1 DEF Planned, Kept, Copied
<1> QED
  BY <1>2, <1>3, <1>4 DEF IInv

(* Every step preserves the invariant. *)
LEMMA NextIInv == IInv /\ [Next]_vars => IInv'
<1> SUFFICES ASSUME IInv, [Next]_vars PROVE IInv'
  OBVIOUS
<1>1. CASE EEPROM_PageWrite
  BY <1>1, PageWriteIInv
<1>2. CASE PowerFailure \/ NIBP_VerifyActionHangs
  BY <1>2, RestartsIInv
<1>3. CASE NIBP_VerifyEnter \/ NIBP_VerifyExit
  BY <1>3, EnterIInv, ExitIInv
<1>4. CASE NIBP_VerifySave2Eepom \/ EEPROM_saveSTM32NIBPVerify
  BY <1>4, SaveIInv, SaveProtectIInv
<1>5. CASE \E i \in HostPoints : NIBP_VerifyDebug(i)
  <2>1. PICK i \in HostPoints : NIBP_VerifyDebug(i)
    BY <1>5
  <2>2. Point(i) \in {Point(j) : j \in Points}
    BY CalibrationAssumption DEF Points, NIBP_VERIFY_NUM
  <2> QED
    BY <2>1, <2>2, SampleIInv DEF NIBP_VerifyDebug
<1>6. CASE \E i \in HostPoints \cap {2, 4, 5} : NIBP_VerifyAction(i)
  BY <1>6, ActionIInv
<1>7. CASE \E i \in HostProtect : EEPROM_saveRAMSTM32NIBPVerify(i)
  <2>1. PICK i \in HostProtect : EEPROM_saveRAMSTM32NIBPVerify(i)
    BY <1>7
  <2>2. ProtectPoint(i) \in {ProtectPoint(0), ProtectPoint(1)}
    BY CalibrationAssumption
  <2> QED
    BY <2>1, <2>2, SampleIInv DEF EEPROM_saveRAMSTM32NIBPVerify
<1>8. CASE UNCHANGED vars
  BY <1>8, StutterIInv
<1> QED
  BY <1>1, <1>2, <1>3, <1>4, <1>5, <1>6, <1>7, <1>8 DEF Next

-----------------------------------------------------------------------------
(* The inductive invariant of the calibration data holds in every state,   *)
(* for any number of calibrations, power failures and lost page writes.    *)
THEOREM CalibrationInvariant == Spec => []IInv
  BY InitIInv, NextIInv, PTL DEF Spec

(* TypeOK holds in every state. *)
THEOREM CalibrationTypes == Spec => []TypeOK
<1>1. IInv => TypeOK
  <2> SUFFICES ASSUME IInv PROVE TypeOK
    OBVIOUS
  <2>1. Flags /\ OtherTypes /\ todo \in Seq(Pieces)
    BY DEF IInv, Planned
  <2>2. todo \in Seq([addr : Bytes, len : 1 .. PAGE_WRITE_LENGHT])
    BY <2>1, PieceTypes, SeqMonotonic
  <2>3. verifyStauts \in BOOLEAN
    BY <2>1 DEF Flags
  <2> QED
    BY <2>1, <2>2, <2>3 DEF TypeOK, OtherTypes
<1> QED
  BY <1>1, CalibrationInvariant, PTL

(* FieldsWhole: EEPROM_BufferWrite cuts the saves so that a page write     *)
(* never runs over its page, and no interruption leaves a field in pieces. *)
THEOREM FieldsNeverTorn == Spec => []FieldsWhole
<1>1. IInv => FieldsWhole
  BY DEF IInv, FieldsWhole, Whole, Fields
<1> QED
  BY <1>1, CalibrationInvariant, PTL

(* SavedSurvives: what a save of EEPROM_BufferWrite has left in the EEPROM *)
(* stays until it is saved again, whatever other saves are cut short.      *)
THEOREM SavedIsThere == Spec => []SavedSurvives
<1>1. IInv => SavedSurvives
  <2> SUFFICES ASSUME IInv, NEW b \in Bytes \ saving
               PROVE  promised[b] \in {eeprom[b], Unknown}
    BY DEF SavedSurvives
  <2>1. \A k \in 1 .. Len(todo) : Extent(todo[k]) \subseteq saving
    BY DEF IInv, Planned, Ordered
  <2>2. b \notin Left(todo)
    BY <2>1 DEF Left
  <2> QED
    BY <2>2 DEF IInv, Kept
<1> QED
  BY <1>1, CalibrationInvariant, PTL

(* FlagComesLast: nibp_IsVerify and chIsProtectVerify reach the EEPROM     *)
(* with the last page write of their save.                                 *)
THEOREM FlagIsLast == Spec => FlagComesLast
<1> DEFINE Arrives ==
      \A flag \in {44, ProtectFlag} :
        eeprom[flag] = Blank /\ eeprom'[flag] # Blank =>
          \A b \in saving : promised[b] \in {eeprom'[b], Unknown}
<1>1. IInv /\ [Next]_vars => Arrives
  <2> SUFFICES ASSUME IInv, [Next]_vars, NEW flag \in {44, ProtectFlag}, NEW b \in saving,
                      eeprom[flag] = Blank, eeprom'[flag] # Blank
               PROVE  promised[b] \in {eeprom'[b], Unknown}
    OBVIOUS
  <2>1. OtherTypes /\ Planned /\ Kept /\ Copied
    BY DEF IInv
  <2>2. eeprom' # eeprom
    OBVIOUS
  <2>3. EEPROM_PageWrite
    BY <2>2 DEF Next, vars, PowerFailure, NIBP_VerifyEnter, NIBP_VerifyExit,
                NIBP_VerifySave2Eepom, NIBP_VerifyDebug, NIBP_VerifyAction, NIBP_VerifyActionHangs,
                EEPROM_saveRAMSTM32NIBPVerify, EEPROM_saveSTM32NIBPVerify
  <2>4. /\ todo # <<>> /\ todo' = Tail(todo) /\ promised' = promised
        /\ eeprom' = Written(eeprom, Head(todo))
    BY <2>2, <2>3 DEF EEPROM_PageWrite
  <2>5. eeprom' = [c \in Bytes |-> IF c \in Extent(Head(todo)) THEN ram[c] ELSE eeprom[c]]
    BY <2>1, <2>4, PageWritten
  <2>6. flag \in Extent(Head(todo))
    BY <2>5 DEF Bytes, ProtectFlag
  <2>7. todo' = <<>>
    BY <2>1, <2>4, <2>6, NextPiece
  <2>8. Kept'
    BY <2>1, <2>4, PageKept
  <2>9. b \in Bytes
    BY <2>1 DEF OtherTypes
  <2> QED
    BY <2>4, <2>7, <2>8, <2>9, NothingLeft DEF Kept
<1>2. Arrives => [Arrives]_vars
  OBVIOUS
<1> QED
  BY <1>1, <1>2, CalibrationInvariant, PTL DEF Spec, FlagComesLast
=============================================================================
