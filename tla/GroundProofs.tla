----------------------------- MODULE GroundProofs -----------------------------
(***************************************************************************)
(* What ground control and the engineer see, proved: a frame is read as it *)
(* was written, for any data that the code may send; text messages of any*)
(* tasks and loggers; the reports of any table.                          *)
(***************************************************************************)
EXTENDS MCGround, SequenceTheorems, TLAPS

(* The lengths, and the bytes of a frame as a sequence.                  *)
LEMMA CodecNumbers ==
    /\ MaxPayload \in Nat /\ MaxPayload >= 32 /\ MaxReadLength \in Nat /\ MaxReadLength >= 1
    /\ \A n \in 0..MaxReadLength : n \in HalfWords
<1>1. MaxPayload \in Nat /\ MaxPayload >= 32 /\ MaxReadLength \in Nat /\ MaxReadLength >= 1
  BY CodecAssumption
<1>2. ASSUME NEW n \in 0..MaxReadLength PROVE n \in HalfWords
  <2>1. n \in Nat /\ n < 65536
    BY CodecAssumption, SMT
  <2>2. n \div 256 \in Nat /\ n \div 256 < 256
    BY <2>1, SMT
  <2>3. n \div 256 \in Byte
    BY <2>2, SMT DEF Byte
  <2> QED
    BY <2>1, <2>3 DEF HalfWords
<1> QED
  BY <1>1, <1>2

LEMMA SequenceOf ==
    ASSUME NEW S, NEW n \in Nat, NEW f \in [1 .. n -> S]
    PROVE  f \in Seq(S) /\ Len(f) = n
BY LenProperties

LEMMA BytesAre == \A n \in Nat : \A w \in Bytes(n) : w \in Seq(Byte) /\ Len(w) = n
BY SequenceOf DEF Bytes

LEMMA ByteIs == \A x : x \in Byte <=> x \in Nat /\ x < 256
BY DEF Byte

LEMMA SeqIsItself ==
    ASSUME NEW S, NEW s \in Seq(S), NEW t, t = [k \in 1..Len(s) |-> s[k]]
    PROVE  t = s
OBVIOUS

(* A sequence lies in the bytes of a frame behind the first so many.     *)
PartAt(e, at, s) == \A k \in 1..Len(s) : e[at + k] = s[k]

LEMMA FieldOf ==
    ASSUME NEW e, NEW at \in Nat, NEW s \in Seq(Byte), PartAt(e, at, s)
    PROVE  Field(e, at + 1, Len(s)) = s
<1>1. \A k \in 1..Len(s) : (at + 1) + k - 1 = at + k
  OBVIOUS
<1>2. \A k \in 1..Len(s) : e[(at + 1) + k - 1] = s[k]
  BY <1>1 DEF PartAt
<1>3. Field(e, at + 1, Len(s)) = [k \in 1..Len(s) |-> s[k]]
  BY <1>2, Zenon DEF Field
<1> QED
  BY <1>3, SeqIsItself

LEMMA FieldIsBytes ==
    ASSUME NEW b \in Seq(Byte), NEW i \in Nat, NEW n \in Nat, i >= 1, i + n - 1 <= Len(b)
    PROVE  Field(b, i, n) \in Bytes(n)
<1>1. \A k \in 1..n : i + k - 1 \in 1..Len(b)
  OBVIOUS
<1>2. \A k \in 1..n : b[i + k - 1] \in Byte
  BY <1>1, ElementOfSeq
<1> QED
  BY <1>2, Zenon DEF Field, Bytes

Joined2(e, a, b) ==
    /\ e \in Seq(Byte) /\ Len(e) = Len(a) + Len(b)
    /\ PartAt(e, 0, a) /\ PartAt(e, Len(a), b)

LEMMA TwoJoined ==
    ASSUME NEW a \in Seq(Byte), NEW b \in Seq(Byte)
    PROVE  Joined2(a \o b, a, b)
<1> DEFINE e == a \o b
<1>1. Len(a) \in Nat /\ Len(b) \in Nat
  OBVIOUS
<1>2. e \in Seq(Byte) /\ Len(e) = Len(a) + Len(b)
  BY ConcatProperties
<1>3. \A k \in 1..Len(a) + Len(b) : e[k] = IF k <= Len(a) THEN a[k] ELSE b[k - Len(a)]
  BY ConcatProperties
<1> HIDE DEF e
<1>4. PartAt(e, 0, a)
  <2> SUFFICES ASSUME NEW k \in 1..Len(a) PROVE e[0 + k] = a[k]
    BY DEF PartAt
  <2>1. 0 + k = k /\ k \in 1..Len(a) + Len(b) /\ k <= Len(a)
    BY <1>1
  <2> QED
    BY <1>3, <2>1
<1>5. PartAt(e, Len(a), b)
  <2> SUFFICES ASSUME NEW k \in 1..Len(b) PROVE e[Len(a) + k] = b[k]
    BY DEF PartAt
  <2>1. Len(a) + k \in 1..Len(a) + Len(b) /\ ~(Len(a) + k <= Len(a)) /\ (Len(a) + k) - Len(a) = k
    BY <1>1
  <2> QED
    BY <1>3, <2>1
<1> QED
  BY <1>2, <1>4, <1>5 DEF Joined2, e

LEMMA PartKept ==
    ASSUME NEW a \in Seq(Byte), NEW b \in Seq(Byte), NEW at \in Nat, NEW s \in Seq(Byte),
           PartAt(a, at, s), at + Len(s) <= Len(a)
    PROVE  PartAt(a \o b, at, s)
<1> SUFFICES ASSUME NEW k \in 1..Len(s) PROVE (a \o b)[at + k] = s[k]
  BY DEF PartAt
<1>1. at + k \in 1..Len(a) /\ 0 + (at + k) = at + k
  OBVIOUS
<1>2. (a \o b)[0 + (at + k)] = a[at + k]
  BY <1>1, TwoJoined DEF Joined2, PartAt
<1>3. a[at + k] = s[k]
  BY DEF PartAt
<1> QED
  BY <1>1, <1>2, <1>3

Joined3(e, a, b, c) ==
    /\ e \in Seq(Byte) /\ Len(e) = Len(a) + Len(b) + Len(c)
    /\ PartAt(e, 0, a) /\ PartAt(e, Len(a), b) /\ PartAt(e, Len(a) + Len(b), c)

LEMMA ThreeJoined ==
    ASSUME NEW a \in Seq(Byte), NEW b \in Seq(Byte), NEW c \in Seq(Byte)
    PROVE  Joined3(a \o b \o c, a, b, c)
<1> DEFINE d == a \o b
<1>0. Len(a) \in Nat /\ Len(b) \in Nat /\ Len(c) \in Nat /\ 0 \in Nat
  OBVIOUS
<1>1. d \in Seq(Byte) /\ Len(d) = Len(a) + Len(b) /\ PartAt(d, 0, a) /\ PartAt(d, Len(a), b)
  BY TwoJoined DEF Joined2
<1> HIDE DEF d
<1>2. d \o c \in Seq(Byte) /\ Len(d \o c) = Len(d) + Len(c) /\ PartAt(d \o c, Len(d), c)
  BY <1>1, TwoJoined DEF Joined2
<1>3. 0 + Len(a) <= Len(d) /\ Len(a) + Len(b) <= Len(d)
  BY <1>0, <1>1
<1>4. PartAt(d \o c, 0, a)
  BY <1>0, <1>1, <1>3, PartKept
<1>5. PartAt(d \o c, Len(a), b)
  BY <1>0, <1>1, <1>3, PartKept
<1> QED
  BY <1>1, <1>2, <1>4, <1>5 DEF Joined3, d

Joined4(e, a, b, c, d) ==
    /\ e \in Seq(Byte) /\ Len(e) = Len(a) + Len(b) + Len(c) + Len(d)
    /\ PartAt(e, 0, a) /\ PartAt(e, Len(a), b) /\ PartAt(e, Len(a) + Len(b), c)
    /\ PartAt(e, Len(a) + Len(b) + Len(c), d)

LEMMA FourJoined ==
    ASSUME NEW a \in Seq(Byte), NEW b \in Seq(Byte), NEW c \in Seq(Byte), NEW d \in Seq(Byte)
    PROVE  Joined4(a \o b \o c \o d, a, b, c, d)
<1> DEFINE f == a \o b \o c
<1>0. Len(a) \in Nat /\ Len(b) \in Nat /\ Len(c) \in Nat /\ Len(d) \in Nat /\ 0 \in Nat /\ Len(a) + Len(b) \in Nat
  OBVIOUS
<1>1. /\ f \in Seq(Byte) /\ Len(f) = Len(a) + Len(b) + Len(c)
      /\ PartAt(f, 0, a) /\ PartAt(f, Len(a), b) /\ PartAt(f, Len(a) + Len(b), c)
  BY ThreeJoined DEF Joined3
<1> HIDE DEF f
<1>2. f \o d \in Seq(Byte) /\ Len(f \o d) = Len(f) + Len(d) /\ PartAt(f \o d, Len(f), d)
  BY <1>1, TwoJoined DEF Joined2
<1>3. 0 + Len(a) <= Len(f) /\ Len(a) + Len(b) <= Len(f) /\ Len(a) + Len(b) + Len(c) <= Len(f)
  BY <1>0, <1>1
<1>4. PartAt(f \o d, 0, a)
  BY <1>0, <1>1, <1>3, PartKept
<1>5. PartAt(f \o d, Len(a), b)
  BY <1>0, <1>1, <1>3, PartKept
<1>6. PartAt(f \o d, Len(a) + Len(b), c)
  BY <1>0, <1>1, <1>3, PartKept
<1> QED
  BY <1>1, <1>2, <1>4, <1>5, <1>6 DEF Joined4, f

LEMMA HalfWordIs ==
    ASSUME NEW n \in HalfWords
    PROVE  /\ U16(n) \in Seq(Byte) /\ Len(U16(n)) = 2
           /\ \A e, at : PartAt(e, at, U16(n)) => e[at + 1] + 256 * e[at + 2] = n
<1> DEFINE low == n % 256
           high == n \div 256
<1>1. n \in Nat /\ high \in Nat /\ high < 256 /\ low \in Nat /\ low < 256 /\ n = low + 256 * high
  BY DEF HalfWords, Byte
<1>2. (n \div 256) % 256 = high
  BY <1>1
<1>3. U16(n) = <<low, high>>
  BY <1>2 DEF U16
<1> HIDE DEF low, high
<1>4. low \in Byte /\ high \in Byte
  BY <1>1 DEF Byte
<1>5. <<low, high>> \in Seq(Byte) /\ Len(<<low, high>>) = 2
  BY <1>4
<1>6. ASSUME NEW e, NEW at, PartAt(e, at, <<low, high>>) PROVE e[at + 1] + 256 * e[at + 2] = n
  <2>1. e[at + 1] = low /\ e[at + 2] = high
    BY <1>6 DEF PartAt
  <2> QED
    BY <1>1, <2>1
<1> QED
  BY <1>3, <1>5, <1>6

LEMMA TextIsBytes == Seq(1..255) \subseteq Seq(Byte)
<1> SUFFICES ASSUME NEW s \in Seq(1..255) PROVE s \in Seq(Byte)
  OBVIOUS
<1>1. \A k \in 1..Len(s) : s[k] \in Byte
  <2> TAKE k \in 1..Len(s)
  <2>1. s[k] \in 1..255
    BY ElementOfSeq
  <2> QED
    BY <2>1 DEF Byte
<1>2. Len(s) \in Nat /\ DOMAIN s = 1..Len(s) /\ s = [k \in 1..Len(s) |-> s[k]]
  OBVIOUS
<1> QED
  BY <1>1, <1>2, SequenceOf

LEMMA ThreeBytes ==
    \A x, y, z \in Byte : /\ <<x, y, z>> \in Seq(Byte) /\ Len(<<x, y, z>>) = 3
                         /\ <<x, y, z>>[1] = x /\ <<x, y, z>>[2] = y /\ <<x, y, z>>[3] = z
OBVIOUS

LEMMA FourBytes ==
    \A w, x, y, z \in Byte :
        /\ <<w, x, y, z>> \in Seq(Byte) /\ Len(<<w, x, y, z>>) = 4
        /\ <<w, x, y, z>>[1] = w /\ <<w, x, y, z>>[2] = x /\ <<w, x, y, z>>[3] = y /\ <<w, x, y, z>>[4] = z
OBVIOUS

LEMMA HeadOf ==
    ASSUME NEW e, NEW a \in Seq(Byte), PartAt(e, 0, a)
    PROVE  \A k \in 1..Len(a) : e[k] = a[k]
<1> TAKE k \in 1..Len(a)
<1>1. 0 + k = k
  OBVIOUS
<1> QED
  BY <1>1 DEF PartAt

LEMMA WordOf ==
    ASSUME NEW e, NEW at \in Nat, NEW w \in Bytes(4), PartAt(e, at, w)
    PROVE  Word(e, at + 1) = w
<1>1. w \in Seq(Byte) /\ Len(w) = 4 /\ 4 \in Nat
  BY BytesAre
<1>2. Field(e, at + 1, Len(w)) = w
  BY <1>1, FieldOf, Zenon
<1> QED
  BY <1>1, <1>2, Zenon DEF Word

LEMMA RestOf ==
    ASSUME NEW e, NEW at \in Nat, NEW s \in Seq(Byte), PartAt(e, at, s), Len(e) = at + Len(s)
    PROVE  Rest(e, at + 1) = s
<1>1. Len(e) - (at + 1) + 1 = Len(s)
  OBVIOUS
<1>2. Field(e, at + 1, Len(s)) = s
  BY FieldOf, Zenon
<1> QED
  BY <1>1, <1>2, Zenon DEF Rest

(* What is shown of every kind of frame: its bytes, and what the receiver*)
(* makes of them.                                                        *)
FrameRight(kind, d, e) ==
    /\ e \in Seq(Byte)
    /\ IF RefusedWhole(kind, d) THEN ~Valid(kind, e) ELSE Valid(kind, e) /\ Agrees(kind, d, Decoded(kind, e))
    /\ kind \notin VariableLength => \A b \in Seq(Byte) : Valid(kind, b) <=> Len(b) >= Len(e)

ReadInRange(kind) == \A b \in Seq(Byte) : Valid(kind, b) => InRange(kind, Decoded(kind, b))

LEMMA FixedFrame ==
    ASSUME NEW kind, NEW d, NEW e \in Seq(Byte), ~RefusedWhole(kind, d),
           \A b \in Seq(Byte) : Valid(kind, b) <=> Len(b) >= Len(e), Agrees(kind, d, Decoded(kind, e))
    PROVE  FrameRight(kind, d, e)
<1>1. Len(e) \in Nat /\ Len(e) >= Len(e)
  OBVIOUS
<1> QED
  BY <1>1 DEF FrameRight

LEMMA FrameOf ==
    ASSUME NEW kind \in VariableLength, NEW d, NEW e \in Seq(Byte),
           Valid(kind, e) <=> ~RefusedWhole(kind, d),
           ~RefusedWhole(kind, d) => Agrees(kind, d, Decoded(kind, e))
    PROVE  FrameRight(kind, d, e)
BY DEF FrameRight

LEMMA AckRight == \A d \in AckData : FrameRight("ACK", d, EncodeAck(d))
<1> TAKE d \in AckData
<1> DEFINE nak == d.result >= NakInvalid
           code == IF nak THEN NakInvalid ELSE d.result
           a == <<d.frame_type, d.seq_no, code>>
           w == IF nak THEN Zero ELSE IF d.result = 0 THEN d.value ELSE d.error
           e == EncodeAck(d)
<1>0. /\ d.frame_type \in Byte /\ d.seq_no \in Byte /\ d.result \in Byte
      /\ d.error \in Bytes(4) /\ d.value \in Bytes(4)
  BY DEF AckData
<1>1. Zero \in Bytes(4)
  BY DEF Zero, Bytes, Byte
<1>2. w \in Bytes(4)
  BY <1>0, <1>1
<1>3. w \in Seq(Byte) /\ Len(w) = 4
  BY <1>2, BytesAre
<1>4. code \in Byte
  BY <1>0 DEF NakInvalid, Byte
<1>5. e = a \o w
  BY DEF EncodeAck
<1>6. d.result \in Nat /\ NakInvalid = 4
  BY <1>0, ByteIs DEF NakInvalid
<1>7. (nak => code = NakInvalid /\ code >= NakInvalid) /\ (~nak => code = d.result /\ ~(code >= NakInvalid))
  BY <1>6
<1> HIDE DEF code
<1>8. a \in Seq(Byte) /\ Len(a) = 3 /\ a[1] = d.frame_type /\ a[2] = d.seq_no /\ a[3] = code
  BY <1>0, <1>4, ThreeBytes
<1> HIDE DEF a, e, w
<1>9. e \in Seq(Byte) /\ Len(e) = 7 /\ PartAt(e, 0, a) /\ PartAt(e, 3, w)
  <2>1. Joined2(a \o w, a, w)
    BY <1>3, <1>8, TwoJoined
  <2>2. Joined2(e, a, w) /\ Len(a) = 3 /\ Len(w) = 4
    BY <1>3, <1>5, <1>8, <2>1
  <2> QED
    BY <2>2 DEF Joined2
<1>10. e[1] = d.frame_type /\ e[2] = d.seq_no /\ e[3] = code
  <2>1. \A k \in 1..Len(a) : e[k] = a[k]
    BY <1>8, <1>9, HeadOf, Zenon
  <2> QED
    BY <1>8, <2>1
<1>11. Word(e, 4) = w
  <2>1. 3 \in Nat /\ 3 + 1 = 4
    OBVIOUS
  <2>2. Word(e, 3 + 1) = w
    BY <1>2, <1>9, <2>1, WordOf, Zenon
  <2> QED
    BY <2>1, <2>2, Zenon
<1>12. \A b : Decoded("ACK", b) = DecodeAck(b) /\ (Valid("ACK", b) <=> Len(b) >= 7)
  BY DEF Decoded, Valid, ValidAck
<1>13. ~RefusedWhole("ACK", d)
  BY DEF RefusedWhole
<1>14. \A r : Agrees("ACK", d, r) <=>
          /\ r.frame_type = d.frame_type /\ r.seq_no = d.seq_no
          /\ d.result < NakInvalid => r.result = d.result
          /\ d.result >= NakInvalid => r.result = NakInvalid
          /\ d.result = 0 => r.value = d.value
          /\ d.result \in 1..3 => r.error = d.error
  BY DEF Agrees
<1>15. Agrees("ACK", d, DecodeAck(e))
  <2>1. CASE nak
    <3>1. DecodeAck(e) = [frame_type |-> d.frame_type, seq_no |-> d.seq_no, result |-> NakInvalid]
      BY <1>7, <1>10, <2>1 DEF DecodeAck
    <3> QED
      BY <1>6, <1>14, <2>1, <3>1
  <2>2. CASE ~nak
    <3>1. DecodeAck(e) = [frame_type |-> d.frame_type, seq_no |-> d.seq_no, result |-> d.result,
                          error |-> IF d.result = 0 THEN Zero ELSE w, value |-> IF d.result = 0 THEN w ELSE Zero]
      BY <1>7, <1>10, <1>11, <2>2 DEF DecodeAck
    <3> QED
      BY <1>6, <1>14, <2>2, <3>1 DEF w
  <2> QED
    BY <2>1, <2>2
<1> QED
  BY <1>9, <1>12, <1>13, <1>15, FixedFrame DEF e

LEMMA CalibrationRight ==
    /\ \A d \in CalibrationData : FrameRight("CALIBRATION", d, EncodeCalibration(d))
    /\ ReadInRange("CALIBRATION")
<1>0. \A b : Decoded("CALIBRATION", b) = DecodeCalibration(b) /\ (Valid("CALIBRATION", b) <=> Len(b) >= 1)
  BY DEF Decoded, Valid, ValidCalibration
<1>1. ASSUME NEW d \in CalibrationData PROVE FrameRight("CALIBRATION", d, EncodeCalibration(d))
  <2> DEFINE e == EncodeCalibration(d)
  <2>1. d.procedure \in Nat /\ d.procedure \in Byte
    BY ByteIs DEF CalibrationData
  <2>2. e \in Seq(Byte) /\ Len(e) = 1 /\ e[1] = d.procedure
    BY <2>1 DEF EncodeCalibration
  <2> HIDE DEF e
  <2>3. Agrees("CALIBRATION", d, DecodeCalibration(e))
    <3>1. DecodeCalibration(e).procedure = d.procedure
          \/ (d.procedure >= NumProcedures /\ DecodeCalibration(e).procedure = 0)
      BY <2>1, <2>2 DEF DecodeCalibration, Known, NumProcedures
    <3> QED
      BY <3>1 DEF Agrees
  <2>4. ~RefusedWhole("CALIBRATION", d)
    BY DEF RefusedWhole
  <2> QED
    BY <1>0, <2>2, <2>3, <2>4, FixedFrame DEF e
<1>2. ASSUME NEW b \in Seq(Byte), Len(b) >= 1 PROVE InRange("CALIBRATION", DecodeCalibration(b))
  <2>1. b[1] \in Nat
    BY <1>2, ElementOfSeq, ByteIs
  <2>2. DecodeCalibration(b).procedure < NumProcedures
    BY <2>1 DEF DecodeCalibration, Known, NumProcedures
  <2> QED
    BY <2>2 DEF InRange
<1> QED
  BY <1>0, <1>1, <1>2 DEF ReadInRange

LEMMA DebugRight ==
    /\ \A d \in DebugData : FrameRight("DEBUG", d, EncodeDebug(d))
    /\ ReadInRange("DEBUG")
<1>0. \A b : Decoded("DEBUG", b) = DecodeDebug(b) /\ (Valid("DEBUG", b) <=> Len(b) >= 1)
  BY DEF Decoded, Valid, ValidDebug
<1>1. ASSUME NEW d \in DebugData PROVE FrameRight("DEBUG", d, EncodeDebug(d))
  <2> DEFINE e == EncodeDebug(d)
  <2>1. d.command \in Nat /\ d.command \in Byte
    BY ByteIs DEF DebugData
  <2>2. e \in Seq(Byte) /\ Len(e) = 1 /\ e[1] = d.command
    BY <2>1 DEF EncodeDebug
  <2> HIDE DEF e
  <2>3. Agrees("DEBUG", d, DecodeDebug(e))
    <3>1. DecodeDebug(e).command = d.command
          \/ (d.command >= NumDebugCommands /\ DecodeDebug(e).command = 0)
      BY <2>1, <2>2 DEF DecodeDebug, Known, NumDebugCommands
    <3> QED
      BY <3>1 DEF Agrees
  <2>4. ~RefusedWhole("DEBUG", d)
    BY DEF RefusedWhole
  <2> QED
    BY <1>0, <2>2, <2>3, <2>4, FixedFrame DEF e
<1>2. ASSUME NEW b \in Seq(Byte), Len(b) >= 1 PROVE InRange("DEBUG", DecodeDebug(b))
  <2>1. b[1] \in Nat
    BY <1>2, ElementOfSeq, ByteIs
  <2>2. DecodeDebug(b).command < NumDebugCommands
    BY <2>1 DEF DecodeDebug, Known, NumDebugCommands
  <2> QED
    BY <2>2 DEF InRange
<1> QED
  BY <1>0, <1>1, <1>2 DEF ReadInRange

LEMMA BitsKept ==
    ASSUME NEW n \in Byte
    PROVE  /\ n % 64 \in Byte /\ (n % 64) % 64 = n % 64 /\ n % 64 <= 63
           /\ Flags(n % 64, 6) = Flags(n, 6)
<1>1. n \in Nat /\ n % 64 \in Nat /\ n % 64 <= 63 /\ (n % 64) % 64 = n % 64
  BY ByteIs
<1>2. \A p \in {1, 2, 4, 8, 16, 32} : ((n % 64) \div p) % 2 = (n \div p) % 2
  BY <1>1
<1>3. \A i \in 1..6 : PowerOf2[i] \in {1, 2, 4, 8, 16, 32}
  BY DEF PowerOf2
<1>4. \A i \in 1..6 : ((n % 64) \div PowerOf2[i]) % 2 = (n \div PowerOf2[i]) % 2
  BY <1>2, <1>3
<1>5. Flags(n % 64, 6) = Flags(n, 6)
  BY <1>4, Zenon DEF Flags
<1> QED
  BY <1>1, <1>5, ByteIs

LEMMA LclResetRight ==
    /\ \A d \in LclResetData : FrameRight("LCL_RESET", d, EncodeLclReset(d))
    /\ ReadInRange("LCL_RESET")
<1>0. /\ \A b : Decoded("LCL_RESET", b) = DecodeLclReset(b) /\ (Valid("LCL_RESET", b) <=> Len(b) >= 1)
      /\ \A b : DecodeLclReset(b).lcls = b[1] % 64
      /\ \A d : EncodeLclReset(d) = <<d.lcls % 64>>
  BY DEF Decoded, Valid, ValidLclReset, DecodeLclReset, EncodeLclReset, LclResetAll
<1>1. ASSUME NEW d \in LclResetData PROVE FrameRight("LCL_RESET", d, EncodeLclReset(d))
  <2> DEFINE n == d.lcls % 64
             e == <<n>>
  <2>1. d.lcls \in Byte
    BY DEF LclResetData
  <2>2. n \in Byte /\ n % 64 = n /\ Flags(n, 6) = Flags(d.lcls, 6)
    BY <2>1, BitsKept
  <2> HIDE DEF n
  <2>3. e \in Seq(Byte) /\ Len(e) = 1 /\ e[1] = n
    BY <2>2
  <2>4. EncodeLclReset(d) = e
    BY <1>0 DEF n
  <2> HIDE DEF e
  <2>5. Agrees("LCL_RESET", d, DecodeLclReset(e))
    <3>1. Flags(DecodeLclReset(e).lcls, 6) = Flags(d.lcls, 6)
      BY <1>0, <2>2, <2>3
    <3> QED
      BY <3>1 DEF Agrees
  <2>6. ~RefusedWhole("LCL_RESET", d)
    BY DEF RefusedWhole
  <2> QED
    BY <1>0, <2>3, <2>4, <2>5, <2>6, FixedFrame
<1>2. ASSUME NEW b \in Seq(Byte), Len(b) >= 1 PROVE InRange("LCL_RESET", DecodeLclReset(b))
  <2>1. b[1] \in Byte
    BY <1>2, ElementOfSeq
  <2>2. DecodeLclReset(b).lcls <= LclResetAll
    BY <1>0, <2>1, BitsKept DEF LclResetAll
  <2> QED
    BY <2>2 DEF InRange
<1> QED
  BY <1>0, <1>1, <1>2 DEF ReadInRange

LEMMA OneByte == \A x \in Byte : <<x>> \in Seq(Byte) /\ Len(<<x>>) = 1 /\ <<x>>[1] = x
OBVIOUS

LEMMA Headed ==
    ASSUME NEW a \in Seq(Byte), NEW s \in Seq(Byte)
    PROVE  /\ a \o s \in Seq(Byte) /\ Len(a \o s) = Len(a) + Len(s)
           /\ \A k \in 1..Len(a) : (a \o s)[k] = a[k]
           /\ Rest(a \o s, Len(a) + 1) = s
<1>1. Joined2(a \o s, a, s) /\ Len(a) \in Nat
  BY TwoJoined
<1> DEFINE e == a \o s
<1> HIDE DEF e
<1>2. e \in Seq(Byte) /\ Len(e) = Len(a) + Len(s) /\ PartAt(e, 0, a) /\ PartAt(e, Len(a), s)
  BY <1>1 DEF Joined2, e
<1>3. \A k \in 1..Len(a) : e[k] = a[k]
  BY <1>2, HeadOf, Zenon
<1>4. Rest(e, Len(a) + 1) = s
  BY <1>1, <1>2, RestOf, Zenon
<1> QED
  BY <1>2, <1>3, <1>4, Zenon DEF e

LEMMA EchoRight == \A d \in EchoData : FrameRight("ECHO", d, EncodeEcho(d))
<1> TAKE d \in EchoData
<1> DEFINE e == <<d.isReply>> \o d.data
<1>1. d.isReply \in Byte /\ d.data \in Seq(Byte) /\ d = [isReply |-> d.isReply, data |-> d.data]
  BY DEF EchoData, BytesUpTo, Byte
<1>2. <<d.isReply>> \in Seq(Byte) /\ Len(<<d.isReply>>) = 1 /\ <<d.isReply>>[1] = d.isReply
  BY <1>1, OneByte
<1>3. /\ e \in Seq(Byte) /\ Len(e) = Len(<<d.isReply>>) + Len(d.data)
      /\ \A k \in 1..Len(<<d.isReply>>) : e[k] = <<d.isReply>>[k]
      /\ Rest(e, Len(<<d.isReply>>) + 1) = d.data
  BY <1>1, <1>2, Headed, Zenon
<1> HIDE DEF e
<1>4. Len(e) >= 1 /\ e[1] = d.isReply /\ Rest(e, 2) = d.data
  BY <1>1, <1>2, <1>3
<1>5. DecodeEcho(e) = d
  BY <1>1, <1>4, Zenon DEF DecodeEcho
<1>6. Decoded("ECHO", e) = DecodeEcho(e) /\ (Valid("ECHO", e) <=> Len(e) >= 1)
  BY DEF Decoded, Valid, ValidEcho
<1>7. ~RefusedWhole("ECHO", d) /\ "ECHO" \in VariableLength
  BY DEF RefusedWhole, VariableLength
<1>8. Agrees("ECHO", d, d)
  BY DEF Agrees
<1>9. EncodeEcho(d) = e
  BY DEF EncodeEcho, e
<1> QED
  BY <1>3, <1>4, <1>5, <1>6, <1>7, <1>8, <1>9, FrameOf, Zenon

LEMMA TextRight == \A d \in TextData : FrameRight("TEXT_MESSAGE", d, EncodeText(d))
<1> TAKE d \in TextData
<1> DEFINE x == (d.level % 8) + 8 * d.module
           e == <<x>> \o d.message
<1>0. d.message \in Seq(Byte)
  BY TextIsBytes DEF TextData, TextUpTo
<1>1. /\ d.level \in 0..7 /\ d.module \in 0..31
      /\ d = [level |-> d.level, module |-> d.module, message |-> d.message]
  BY DEF TextData
<1>2. x \in Byte /\ x % 8 = d.level /\ x \div 8 = d.module
  BY <1>1 DEF Byte
<1> HIDE DEF x
<1>3. <<x>> \in Seq(Byte) /\ Len(<<x>>) = 1 /\ <<x>>[1] = x
  BY <1>2, OneByte
<1>4. /\ e \in Seq(Byte) /\ Len(e) = Len(<<x>>) + Len(d.message)
      /\ \A k \in 1..Len(<<x>>) : e[k] = <<x>>[k]
      /\ Rest(e, Len(<<x>>) + 1) = d.message
  BY <1>0, <1>3, Headed, Zenon
<1> HIDE DEF e
<1>5. Len(e) >= 1 /\ e[1] = x /\ Rest(e, 2) = d.message
  BY <1>0, <1>3, <1>4
<1>6. DecodeText(e) = d
  BY <1>1, <1>2, <1>5, Zenon DEF DecodeText
<1>7. Decoded("TEXT_MESSAGE", e) = DecodeText(e) /\ (Valid("TEXT_MESSAGE", e) <=> Len(e) >= 1)
  BY DEF Decoded, Valid, ValidText
<1>8. ~RefusedWhole("TEXT_MESSAGE", d) /\ "TEXT_MESSAGE" \in VariableLength
  BY DEF RefusedWhole, VariableLength
<1>9. Agrees("TEXT_MESSAGE", d, d)
  BY DEF Agrees
<1>10. EncodeText(d) = e
  BY DEF EncodeText, e, x
<1> QED
  BY <1>4, <1>5, <1>6, <1>7, <1>8, <1>9, <1>10, FrameOf, Zenon

LEMMA ClockSyncRight == \A d \in ClockSyncData : FrameRight("CLOCK_SYNC", d, EncodeClockSync(d))
<1> TAKE d \in ClockSyncData
<1> DEFINE e == d.timestamp
<1>1. e \in Bytes(8) /\ d = [timestamp |-> e]
  BY DEF ClockSyncData
<1>2. e \in Seq(Byte) /\ Len(e) = 8
  BY <1>1, BytesAre
<1> HIDE DEF e
<1>3. Field(e, 1, 8) = e
  <2>1. \A k \in 1..8 : e[1 + k - 1] = e[k]
    BY <1>2
  <2>2. Field(e, 1, 8) = [k \in 1..8 |-> e[k]]
    BY <2>1, Zenon DEF Field
  <2> QED
    BY <1>1, <2>2 DEF Bytes
<1>4. DecodeClockSync(e) = d
  BY <1>1, <1>3, Zenon DEF DecodeClockSync
<1>5. \A b : Decoded("CLOCK_SYNC", b) = DecodeClockSync(b) /\ (Valid("CLOCK_SYNC", b) <=> Len(b) >= 8)
  BY DEF Decoded, Valid, ValidClockSync
<1>6. ~RefusedWhole("CLOCK_SYNC", d)
  BY DEF RefusedWhole
<1>7. Agrees("CLOCK_SYNC", d, d)
  BY DEF Agrees
<1>8. EncodeClockSync(d) = e
  BY DEF EncodeClockSync, e
<1> QED
  BY <1>2, <1>4, <1>5, <1>6, <1>7, <1>8, FixedFrame, Zenon

LEMMA GmmRight == \A d \in GmmData : FrameRight("GMM", d, EncodeGmm(d))
<1> TAKE d \in GmmData
<1> DEFINE t == d.timestamp
           h == d.hitCounts
           e == t \o h
<1>1. t \in Bytes(4) /\ h \in Bytes(10) /\ d = [timestamp |-> t, hitCounts |-> h]
  BY DEF GmmData
<1>2. t \in Seq(Byte) /\ Len(t) = 4 /\ h \in Seq(Byte) /\ Len(h) = 10
  BY <1>1, BytesAre
<1>3. EncodeGmm(d) = e
  BY DEF EncodeGmm
<1> HIDE DEF t, h
<1>4. Joined2(e, t, h)
  BY <1>2, TwoJoined
<1> HIDE DEF e
<1>5. e \in Seq(Byte) /\ Len(e) = Len(t) + Len(h) /\ PartAt(e, 0, t) /\ PartAt(e, Len(t), h)
  BY <1>4, Zenon DEF Joined2
<1>6. Word(e, 1) = t
  <2>1. 0 \in Nat /\ 0 + 1 = 1
    OBVIOUS
  <2>2. Word(e, 0 + 1) = t
    BY <1>1, <1>5, <2>1, WordOf, Zenon
  <2> QED
    BY <2>1, <2>2, Zenon
<1>7. Field(e, 5, 10) = h
  <2>1. 4 \in Nat /\ 4 + 1 = 5
    OBVIOUS
  <2>2. Field(e, 4 + 1, Len(h)) = h
    BY <1>2, <1>5, <2>1, FieldOf, Zenon
  <2> QED
    BY <1>2, <2>1, <2>2, Zenon
<1>8. DecodeGmm(e) = d
  BY <1>1, <1>6, <1>7, Zenon DEF DecodeGmm
<1>9. \A b : Decoded("GMM", b) = DecodeGmm(b) /\ (Valid("GMM", b) <=> Len(b) >= 14)
  BY DEF Decoded, Valid, ValidGmm
<1>10. ~RefusedWhole("GMM", d)
  BY DEF RefusedWhole
<1>11. Agrees("GMM", d, d)
  BY DEF Agrees
<1>12. Len(e) = 14
  BY <1>2, <1>5
<1> QED
  BY <1>3, <1>5, <1>8, <1>9, <1>10, <1>11, <1>12, FixedFrame, Zenon

LEMMA BinaryDataRight == \A d \in BinaryDataData : FrameRight("BINARY_DATA", d, EncodeBinaryData(d))
<1> TAKE d \in BinaryDataData
<1> DEFINE a == <<d.frame_type, d.seq_no, d.max, d.index>>
           s == d.data
           e == a \o s
<1>1. /\ d.frame_type \in Byte /\ d.seq_no \in Byte /\ d.max \in Byte /\ d.index \in Byte
      /\ s \in Seq(Byte) /\ Len(s) <= MaxPayload - 4
      /\ d = [frame_type |-> d.frame_type, seq_no |-> d.seq_no, max |-> d.max, index |-> d.index, data |-> s]
  BY DEF BinaryDataData, BytesUpTo
<1>2. /\ a \in Seq(Byte) /\ Len(a) = 4
      /\ a[1] = d.frame_type /\ a[2] = d.seq_no /\ a[3] = d.max /\ a[4] = d.index
  BY <1>1, FourBytes, Zenon
<1>3. EncodeBinaryData(d) = e
  BY DEF EncodeBinaryData
<1> HIDE DEF a, s
<1>4. /\ e \in Seq(Byte) /\ Len(e) = Len(a) + Len(s)
      /\ \A k \in 1..Len(a) : e[k] = a[k]
      /\ Rest(e, Len(a) + 1) = s
  BY <1>1, <1>2, Headed, Zenon
<1> HIDE DEF e
<1>5. /\ Len(e) = 4 + Len(s) /\ Rest(e, 5) = s
      /\ e[1] = a[1] /\ e[2] = a[2] /\ e[3] = a[3] /\ e[4] = a[4]
  BY <1>2, <1>4
<1>6. DecodeBinaryData(e) = d
  BY <1>1, <1>2, <1>5, Zenon DEF DecodeBinaryData
<1>7. /\ Decoded("BINARY_DATA", e) = DecodeBinaryData(e)
      /\ Valid("BINARY_DATA", e) <=> Len(e) >= MaxPayload /\ e[3] >= e[4]
  BY DEF Decoded, Valid, ValidBinaryData
<1>8. RefusedWhole("BINARY_DATA", d) <=> Len(s) < MaxPayload - 4 \/ d.index > d.max
  BY DEF RefusedWhole, s
<1>9. Len(s) \in Nat /\ MaxPayload \in Nat /\ d.max \in Nat /\ d.index \in Nat
  BY <1>1, ByteIs, CodecNumbers
<1>10. Valid("BINARY_DATA", e) <=> ~RefusedWhole("BINARY_DATA", d)
  BY <1>2, <1>5, <1>7, <1>8, <1>9
<1>11. Agrees("BINARY_DATA", d, d) /\ "BINARY_DATA" \in VariableLength
  BY DEF Agrees, VariableLength
<1> QED
  BY <1>3, <1>4, <1>6, <1>7, <1>10, <1>11, FrameOf, Zenon

LEMMA DirectoryEntryRight == \A d \in DirectoryEntryData : FrameRight("DIRECTORY_ENTRY", d, EncodeDirectoryEntry(d))
<1> TAKE d \in DirectoryEntryData
<1> DEFINE a == <<d.frame_type, d.seq_no, d.max, d.index>>
           s == d.name
           e == a \o s
<1>0. s \in Seq(Byte)
  BY TextIsBytes DEF DirectoryEntryData, TextUpTo
<1>1. /\ d.frame_type \in Byte /\ d.seq_no \in Byte /\ d.max \in Byte /\ d.index \in Byte
      /\ d = [frame_type |-> d.frame_type, seq_no |-> d.seq_no, max |-> d.max, index |-> d.index, name |-> s]
  BY DEF DirectoryEntryData
<1>2. /\ a \in Seq(Byte) /\ Len(a) = 4
      /\ a[1] = d.frame_type /\ a[2] = d.seq_no /\ a[3] = d.max /\ a[4] = d.index
  BY <1>1, FourBytes, Zenon
<1>3. EncodeDirectoryEntry(d) = e
  BY DEF EncodeDirectoryEntry
<1> HIDE DEF a, s
<1>4. /\ e \in Seq(Byte) /\ Len(e) = Len(a) + Len(s)
      /\ \A k \in 1..Len(a) : e[k] = a[k]
      /\ Rest(e, Len(a) + 1) = s
  BY <1>0, <1>2, Headed, Zenon
<1> HIDE DEF e
<1>5. /\ Len(e) >= 4 /\ Rest(e, 5) = s
      /\ e[1] = a[1] /\ e[2] = a[2] /\ e[3] = a[3] /\ e[4] = a[4]
  BY <1>0, <1>2, <1>4
<1>6. DecodeDirectoryEntry(e) = d
  BY <1>1, <1>2, <1>5, Zenon DEF DecodeDirectoryEntry
<1>7. /\ Decoded("DIRECTORY_ENTRY", e) = DecodeDirectoryEntry(e)
      /\ Valid("DIRECTORY_ENTRY", e) <=> Len(e) >= 4 /\ e[3] >= e[4]
  BY DEF Decoded, Valid, ValidDirectoryEntry
<1>8. RefusedWhole("DIRECTORY_ENTRY", d) <=> d.index > d.max
  BY DEF RefusedWhole
<1>9. d.max \in Nat /\ d.index \in Nat
  BY <1>1, ByteIs
<1>10. Valid("DIRECTORY_ENTRY", e) <=> ~RefusedWhole("DIRECTORY_ENTRY", d)
  BY <1>2, <1>5, <1>7, <1>8, <1>9
<1>11. Agrees("DIRECTORY_ENTRY", d, d) /\ "DIRECTORY_ENTRY" \in VariableLength
  BY DEF Agrees, VariableLength
<1> QED
  BY <1>3, <1>4, <1>6, <1>7, <1>10, <1>11, FrameOf, Zenon

LEMMA ScmRight == \A d \in ScmData : FrameRight("SCM", d, EncodeScm(d))
<1> TAKE d \in ScmData
<1> DEFINE t == d.timestamp
           a == <<d.max, d.index, d.scintillator>>
           s == d.data
           e == t \o a \o s
<1>1. /\ t \in Bytes(4) /\ d.max \in Byte /\ d.index \in Byte /\ d.scintillator \in Byte
      /\ s \in Seq(Byte)
      /\ d = [timestamp |-> t, max |-> d.max, index |-> d.index, scintillator |-> d.scintillator, data |-> s]
  BY DEF ScmData, BytesUpTo
<1>2. t \in Seq(Byte) /\ Len(t) = 4
  BY <1>1, BytesAre
<1>3. a \in Seq(Byte) /\ Len(a) = 3 /\ a[1] = d.max /\ a[2] = d.index /\ a[3] = d.scintillator
  BY <1>1, ThreeBytes, Zenon
<1>4. EncodeScm(d) = e
  BY DEF EncodeScm
<1> HIDE DEF t, a, s
<1>5. Joined3(e, t, a, s)
  BY <1>1, <1>2, <1>3, ThreeJoined, Zenon
<1> HIDE DEF e
<1>6. /\ e \in Seq(Byte) /\ Len(e) = Len(t) + Len(a) + Len(s)
      /\ PartAt(e, 0, t) /\ PartAt(e, Len(t), a) /\ PartAt(e, Len(t) + Len(a), s)
  BY <1>5, Zenon DEF Joined3
<1>7. Len(t) = 4 /\ Len(t) + Len(a) = 7 /\ Len(e) = 7 + Len(s) /\ Len(e) >= 7
  BY <1>1, <1>2, <1>3, <1>6
<1>8. Word(e, 1) = t
  <2>1. 0 \in Nat /\ 0 + 1 = 1
    OBVIOUS
  <2>2. Word(e, 0 + 1) = t
    BY <1>1, <1>6, <2>1, WordOf, Zenon
  <2> QED
    BY <2>1, <2>2, Zenon
<1>9. e[5] = d.max /\ e[6] = d.index /\ e[7] = d.scintillator
  <2>1. PartAt(e, 4, a)
    BY <1>6, <1>7, Zenon
  <2>2. \A k \in 1..3 : e[4 + k] = a[k]
    BY <1>3, <2>1, Zenon DEF PartAt
  <2> QED
    BY <1>3, <2>2
<1>10. Rest(e, 8) = s
  <2>1. 7 \in Nat /\ 7 + 1 = 8
    OBVIOUS
  <2>2. Rest(e, 7 + 1) = s
    BY <1>1, <1>6, <1>7, <2>1, RestOf, Zenon
  <2> QED
    BY <2>1, <2>2, Zenon
<1>11. DecodeScm(e) = d
  BY <1>1, <1>8, <1>9, <1>10, Zenon DEF DecodeScm
<1>12. Decoded("SCM", e) = DecodeScm(e) /\ (Valid("SCM", e) <=> Len(e) >= 7)
  BY DEF Decoded, Valid, ValidScm
<1>13. ~RefusedWhole("SCM", d) /\ "SCM" \in VariableLength
  BY DEF RefusedWhole, VariableLength
<1>14. Agrees("SCM", d, d)
  BY DEF Agrees
<1> QED
  BY <1>4, <1>6, <1>7, <1>11, <1>12, <1>13, <1>14, FrameOf, Zenon

(* Pieces of four bytes: what Flat() joins is found word by word.        *)
LEMMA VectorIs ==
    ASSUME NEW v \in Vectors
    PROVE  /\ Flat(v, 3, 4) \in Seq(Byte) /\ Len(Flat(v, 3, 4)) = 12
           /\ \A i \in 1..3 : \A k \in 1..4 : Flat(v, 3, 4)[4 * i + k - 4] = v[i][k]
<1> DEFINE f == Flat(v, 3, 4)
<1>1. f = [j \in 1..12 |-> v[(j - 1) \div 4 + 1][((j - 1) % 4) + 1]]
  BY DEF Flat
<1>2. ASSUME NEW i \in 1..3, NEW k \in 1..4 PROVE v[i][k] \in Byte
  BY DEF Vectors, Bytes
<1>3. \A j \in 1..12 : (j - 1) \div 4 + 1 \in 1..3 /\ ((j - 1) % 4) + 1 \in 1..4
  OBVIOUS
<1> HIDE DEF f
<1>4. \A j \in 1..12 : f[j] \in Byte
  BY <1>1, <1>2, <1>3
<1>5. f \in [1..12 -> Byte]
  BY <1>1, <1>4, ZenonT(40)
<1>6. f \in Seq(Byte) /\ Len(f) = 12
  BY <1>5, SequenceOf, ZenonT(40)
<1>7. ASSUME NEW i \in 1..3, NEW k \in 1..4 PROVE f[4 * i + k - 4] = v[i][k]
  <2> DEFINE j == 4 * i + k - 4
  <2>1. j \in 1..12 /\ (j - 1) \div 4 + 1 = i /\ ((j - 1) % 4) + 1 = k
    OBVIOUS
  <2> HIDE DEF j
  <2>2. f[j] = v[i][k]
    BY <1>1, <2>1
  <2> QED
    BY <2>2 DEF j
<1> QED
  BY <1>6, <1>7 DEF f

LEMMA VectorAt ==
    ASSUME NEW v \in Vectors, NEW e, NEW at \in Nat, PartAt(e, at, Flat(v, 3, 4))
    PROVE  Vector(e, at + 1) = v
<1> DEFINE f == Flat(v, 3, 4)
<1>1. f \in Seq(Byte) /\ Len(f) = 12 /\ \A i \in 1..3 : \A k \in 1..4 : f[4 * i + k - 4] = v[i][k]
  BY VectorIs
<1> HIDE DEF f
<1>2. \A k \in 1..12 : e[at + k] = f[k]
  BY <1>1 DEF PartAt, f
<1>3. ASSUME NEW i \in 1..3 PROVE Word(e, (at + 1) + 4 * i - 4) = v[i]
  <2> DEFINE from == at + 4 * i - 4
             w == v[i]
  <2>1. w \in Bytes(4)
    BY DEF Vectors
  <2>2. w \in Seq(Byte) /\ Len(w) = 4
    BY <2>1, BytesAre
  <2>3. ASSUME NEW k \in 1..4 PROVE e[from + k] = w[k]
    <3>1. 4 * i + k - 4 \in 1..12 /\ at + (4 * i + k - 4) = from + k
      OBVIOUS
    <3>2. e[at + (4 * i + k - 4)] = f[4 * i + k - 4]
      BY <1>2, <3>1, Zenon
    <3> QED
      BY <1>1, <3>1, <3>2, Zenon
  <2>4. from \in Nat /\ from + 1 = (at + 1) + 4 * i - 4
    OBVIOUS
  <2> HIDE DEF from, w
  <2>5. PartAt(e, from, w)
    BY <2>2, <2>3 DEF PartAt
  <2>6. Word(e, from + 1) = w
    BY <2>1, <2>4, <2>5, WordOf, Zenon
  <2> QED
    BY <2>4, <2>6, Zenon DEF w
<1>4. Vector(e, at + 1) = [i \in 1..3 |-> v[i]]
  BY <1>3, Zenon DEF Vector
<1> QED
  BY <1>4 DEF Vectors

LEMMA ImuRight == \A d \in ImuData : FrameRight("IMU", d, EncodeImu(d))
<1> TAKE d \in ImuData
<1> DEFINE t == d.timestamp
           v == d.acceleration
           w == d.angularVelocity
           f == Flat(v, 3, 4)
           g == Flat(w, 3, 4)
           e == t \o f \o g
<1>1. /\ t \in Bytes(4) /\ v \in Vectors /\ w \in Vectors
      /\ d = [timestamp |-> t, acceleration |-> v, angularVelocity |-> w]
  BY DEF ImuData
<1>2. t \in Seq(Byte) /\ Len(t) = 4
  BY <1>1, BytesAre
<1>3. f \in Seq(Byte) /\ Len(f) = 12 /\ g \in Seq(Byte) /\ Len(g) = 12
  BY <1>1, VectorIs
<1>4. EncodeImu(d) = e /\ f = Flat(v, 3, 4) /\ g = Flat(w, 3, 4)
  BY DEF EncodeImu
<1> HIDE DEF t, v, w, f, g
<1>5. Joined3(e, t, f, g)
  BY <1>2, <1>3, ThreeJoined, Zenon
<1> HIDE DEF e
<1>6. /\ e \in Seq(Byte) /\ Len(e) = Len(t) + Len(f) + Len(g)
      /\ PartAt(e, 0, t) /\ PartAt(e, Len(t), f) /\ PartAt(e, Len(t) + Len(f), g)
  BY <1>5, Zenon DEF Joined3
<1>7. Len(t) + Len(f) = 16 /\ Len(e) = 28
  BY <1>2, <1>3, <1>6
<1>8. Word(e, 1) = t
  <2>1. 0 \in Nat /\ 0 + 1 = 1
    OBVIOUS
  <2>2. Word(e, 0 + 1) = t
    BY <1>1, <1>6, <2>1, WordOf, Zenon
  <2> QED
    BY <2>1, <2>2, Zenon
<1>9. Vector(e, 5) = v
  <2>1. 4 \in Nat /\ 4 + 1 = 5
    OBVIOUS
  <2>2. PartAt(e, 4, Flat(v, 3, 4))
    BY <1>2, <1>4, <1>6, Zenon
  <2>3. Vector(e, 4 + 1) = v
    BY <1>1, <2>1, <2>2, VectorAt, Zenon
  <2> QED
    BY <2>1, <2>3, Zenon
<1>10. Vector(e, 17) = w
  <2>1. 16 \in Nat /\ 16 + 1 = 17
    OBVIOUS
  <2>2. PartAt(e, 16, Flat(w, 3, 4))
    BY <1>4, <1>6, <1>7, Zenon
  <2>3. Vector(e, 16 + 1) = w
    BY <1>1, <2>1, <2>2, VectorAt, Zenon
  <2> QED
    BY <2>1, <2>3, Zenon
<1>11. DecodeImu(e) = d
  BY <1>1, <1>8, <1>9, <1>10, Zenon DEF DecodeImu
<1>12. \A b : Decoded("IMU", b) = DecodeImu(b) /\ (Valid("IMU", b) <=> Len(b) >= 28)
  BY DEF Decoded, Valid, ValidImu
<1>13. ~RefusedWhole("IMU", d)
  BY DEF RefusedWhole
<1>14. Agrees("IMU", d, d)
  BY DEF Agrees
<1> QED
  BY <1>4, <1>6, <1>7, <1>11, <1>12, <1>13, <1>14, FixedFrame, Zenon

LEMMA KnownIs ==
    ASSUME NEW v \in Nat, NEW count \in Nat, count > 0
    PROVE  /\ Known(v, count) < count
           /\ v < count => Known(v, count) = v
           /\ v >= count => Known(v, count) = 0
BY DEF Known

LEMMA HalfWordAt ==
    ASSUME NEW n \in HalfWords, NEW e, NEW at \in Nat, PartAt(e, at, U16(n))
    PROVE  HalfWord(e, at + 1) = n
<1>0. \A x, y : PartAt(x, y, U16(n)) => x[y + 1] + 256 * x[y + 2] = n
  BY HalfWordIs
<1>1. e[at + 1] + 256 * e[at + 2] = n
  BY <1>0
<1>2. (at + 1) + 1 = at + 2
  OBVIOUS
<1> QED
  BY <1>1, <1>2, Zenon DEF HalfWord

LEMMA NibbleIs ==
    ASSUME NEW n \in 0..15
    PROVE  n % 16 = n /\ n \in Byte /\ n \in Nat
BY DEF Byte

LEMMA ListingRight ==
    /\ \A d \in ListingData : FrameRight("DIRECTORY_LISTING", d, EncodeListing(d))
    /\ ReadInRange("DIRECTORY_LISTING")
<1>0. \A b : /\ Decoded("DIRECTORY_LISTING", b) = DecodeListing(b)
             /\ Valid("DIRECTORY_LISTING", b) <=> Len(b) >= 5 /\ HalfWord(b, 4) <= 256
  BY DEF Decoded, Valid, ValidListing
<1>1. ASSUME NEW d \in ListingData PROVE FrameRight("DIRECTORY_LISTING", d, EncodeListing(d))
  <2> DEFINE a == <<d.area>>
             f == U16(d.first)
             c == U16(d.count)
             s == d.name
             e == a \o f \o c \o s
  <2>0. s \in Seq(Byte)
    BY TextIsBytes DEF ListingData, TextUpTo
  <2>1. /\ d.area \in 0..15 /\ d.first \in HalfWords /\ d.count \in HalfWords
        /\ d = [area |-> d.area, first |-> d.first, count |-> d.count, name |-> s]
    BY DEF ListingData
  <2>2. d.area % 16 = d.area /\ d.area \in Byte /\ d.area \in Nat
    BY <2>1, NibbleIs
  <2>3. a \in Seq(Byte) /\ Len(a) = 1 /\ a[1] = d.area
    BY <2>2, OneByte, Zenon
  <2>4. f \in Seq(Byte) /\ Len(f) = 2 /\ c \in Seq(Byte) /\ Len(c) = 2
    BY <2>1, HalfWordIs, Zenon
  <2>5. EncodeListing(d) = e
    BY <2>2, Zenon DEF EncodeListing
  <2>6. f = U16(d.first) /\ c = U16(d.count)
    OBVIOUS
  <2> HIDE DEF a, f, c, s
  <2>7. Joined4(e, a, f, c, s)
    BY <2>0, <2>3, <2>4, FourJoined, Zenon
  <2> HIDE DEF e
  <2>8. /\ e \in Seq(Byte) /\ Len(e) = Len(a) + Len(f) + Len(c) + Len(s)
        /\ PartAt(e, 0, a) /\ PartAt(e, Len(a), f) /\ PartAt(e, Len(a) + Len(f), c)
        /\ PartAt(e, Len(a) + Len(f) + Len(c), s)
    BY <2>7, Zenon DEF Joined4
  <2>9. /\ Len(a) + Len(f) = 3 /\ Len(a) + Len(f) + Len(c) = 5 /\ Len(e) = 5 + Len(s) /\ Len(e) >= 5
        /\ 1 \in Nat /\ 3 \in Nat /\ 5 \in Nat /\ 1 + 1 = 2 /\ 3 + 1 = 4 /\ 5 + 1 = 6
    BY <2>0, <2>3, <2>4, <2>8
  <2>10. e[1] = d.area
    <3>1. \A k \in 1..Len(a) : e[k] = a[k]
      BY <2>3, <2>8, HeadOf, Zenon
    <3> QED
      BY <2>3, <3>1
  <2>11. HalfWord(e, 2) = d.first
    <3>1. PartAt(e, 1, U16(d.first))
      BY <2>3, <2>6, <2>8, Zenon
    <3>2. HalfWord(e, 1 + 1) = d.first
      BY <2>1, <2>9, <3>1, HalfWordAt, Zenon
    <3> QED
      BY <2>9, <3>2, Zenon
  <2>12. HalfWord(e, 4) = d.count
    <3>1. PartAt(e, 3, U16(d.count))
      BY <2>6, <2>8, <2>9, Zenon
    <3>2. HalfWord(e, 3 + 1) = d.count
      BY <2>1, <2>9, <3>1, HalfWordAt, Zenon
    <3> QED
      BY <2>9, <3>2, Zenon
  <2>13. Rest(e, 6) = s
    <3>1. PartAt(e, 5, s)
      BY <2>8, <2>9, Zenon
    <3>2. Rest(e, 5 + 1) = s
      BY <2>0, <2>9, <3>1, RestOf, Zenon
    <3> QED
      BY <2>9, <3>2, Zenon
  <2>14. DecodeListing(e) = [area |-> Known(d.area, NumAreas), first |-> d.first, count |-> d.count, name |-> s]
    BY <2>2, <2>10, <2>11, <2>12, <2>13, Zenon DEF DecodeListing
  <2>15. DecodeListing(e) = d \/ (d.area >= NumAreas /\ DecodeListing(e) = [d EXCEPT !.area = 0])
    <3>1. NumAreas \in Nat /\ NumAreas > 0
      BY DEF NumAreas
    <3>2. (d.area < NumAreas /\ Known(d.area, NumAreas) = d.area) \/ (d.area >= NumAreas /\ Known(d.area, NumAreas) = 0)
      BY <2>2, <3>1, KnownIs
    <3>3. CASE Known(d.area, NumAreas) = d.area
      BY <2>1, <2>14, <3>3, Zenon
    <3>4. CASE d.area >= NumAreas /\ Known(d.area, NumAreas) = 0
      <4>1. DecodeListing(e) = [area |-> 0, first |-> d.first, count |-> d.count, name |-> s]
        BY <2>14, <3>4, Zenon
      <4>2. [d EXCEPT !.area = 0] = [area |-> 0, first |-> d.first, count |-> d.count, name |-> s]
        BY <2>1
      <4> QED
        BY <3>4, <4>1, <4>2, Zenon
    <3> QED
      BY <3>2, <3>3, <3>4, Zenon
  <2>16. Agrees("DIRECTORY_LISTING", d, DecodeListing(e))
    BY <2>15 DEF Agrees
  <2>17. RefusedWhole("DIRECTORY_LISTING", d) <=> d.count > 256
    BY DEF RefusedWhole
  <2>18. Valid("DIRECTORY_LISTING", e) <=> ~RefusedWhole("DIRECTORY_LISTING", d)
    <3>1. d.count \in Nat
      BY <2>1 DEF HalfWords
    <3> QED
      BY <1>0, <2>9, <2>12, <2>17, <3>1
  <2>19. "DIRECTORY_LISTING" \in VariableLength
    BY DEF VariableLength
  <2> QED
    BY <1>0, <2>5, <2>8, <2>16, <2>18, <2>19, FrameOf, Zenon
<1>2. ASSUME NEW b \in Seq(Byte), Len(b) >= 5, HalfWord(b, 4) <= 256
      PROVE  InRange("DIRECTORY_LISTING", DecodeListing(b))
  <2>1. b[1] \in Nat
    BY <1>2, ElementOfSeq, ByteIs
  <2>2. b[1] % 16 \in Nat /\ NumAreas \in Nat /\ NumAreas > 0
    BY <2>1 DEF NumAreas
  <2>3. Known(b[1] % 16, NumAreas) < NumAreas
    BY <2>2, KnownIs
  <2>4. DecodeListing(b).area < NumAreas /\ DecodeListing(b).count <= 256
    BY <1>2, <2>3 DEF DecodeListing
  <2> QED
    BY <2>4 DEF InRange
<1> QED
  BY <1>0, <1>1, <1>2 DEF ReadInRange

LEMMA HalfWordOfBytes ==
    ASSUME NEW b \in Seq(Byte), NEW i \in Nat, i >= 1, i + 1 <= Len(b)
    PROVE  HalfWord(b, i) \in Nat
<1>1. i \in 1..Len(b) /\ i + 1 \in 1..Len(b)
  OBVIOUS
<1>2. b[i] \in Nat /\ b[i + 1] \in Nat
  BY <1>1, ElementOfSeq, ByteIs
<1> QED
  BY <1>2 DEF HalfWord

LEMMA SmallRemainder == \A x, n \in Nat : x < n => x % n = x
OBVIOUS

LEMMA OwnRemainder == \A n \in Nat : n > 0 => n % n = 0
OBVIOUS

(* A length of a download as it is sent.                                 *)
LEMMA LengthMasked ==
    ASSUME NEW length \in 1..MaxReadLength, NEW n, n = length % MaxReadLength
    PROVE  /\ n \in HalfWords /\ n \in Nat /\ n < MaxReadLength /\ n % MaxReadLength = n
           /\ length = IF n = 0 THEN MaxReadLength ELSE n
<1>0. MaxReadLength \in Nat /\ MaxReadLength >= 1 /\ length \in Nat /\ length >= 1 /\ length <= MaxReadLength
  BY CodecNumbers
<1>1. CASE length < MaxReadLength
  <2>1. n = length
    BY <1>0, <1>1, SmallRemainder
  <2>2. n \in Nat /\ n < MaxReadLength /\ n # 0
    BY <1>0, <1>1, <2>1
  <2> QED
    BY <1>0, <2>1, <2>2, SmallRemainder, CodecNumbers
<1>2. CASE length = MaxReadLength
  <2>1. n = 0
    BY <1>0, <1>2, OwnRemainder
  <2>2. 0 % MaxReadLength = 0 /\ 0 \in HalfWords
    BY <1>0, SmallRemainder, CodecNumbers
  <2> QED
    BY <1>0, <1>2, <2>1, <2>2
<1> QED
  BY <1>0, <1>1, <1>2

LEMMA DownloadRight ==
    /\ \A d \in DownloadData : FrameRight("FILE_DOWNLOAD", d, EncodeDownload(d))
    /\ ReadInRange("FILE_DOWNLOAD")
<1>0. \A b : /\ Decoded("FILE_DOWNLOAD", b) = DecodeDownload(b)
             /\ Valid("FILE_DOWNLOAD", b) <=> Len(b) >= 7 /\ HalfWord(b, 6) < MaxReadLength
  BY DEF Decoded, Valid, ValidDownload
<1>1. ASSUME NEW d \in DownloadData PROVE FrameRight("FILE_DOWNLOAD", d, EncodeDownload(d))
  <2> DEFINE a == <<d.area>>
             w == d.start
             n == d.length % MaxReadLength
             c == U16(n)
             s == d.path
             e == a \o w \o c \o s
  <2>0. s \in Seq(Byte)
    BY TextIsBytes DEF DownloadData, TextUpTo
  <2>1. /\ d.area \in 0..15 /\ w \in Bytes(4) /\ d.length \in 1..MaxReadLength
        /\ d = [area |-> d.area, start |-> w, length |-> d.length, path |-> s]
    BY DEF DownloadData
  <2>2. d.area % 16 = d.area /\ d.area \in Byte /\ d.area \in Nat
    BY <2>1, NibbleIs
  <2>3. a \in Seq(Byte) /\ Len(a) = 1 /\ a[1] = d.area
    BY <2>2, OneByte, Zenon
  <2>4. w \in Seq(Byte) /\ Len(w) = 4
    BY <2>1, BytesAre
  <2>5. /\ n \in HalfWords /\ n \in Nat /\ n < MaxReadLength /\ n % MaxReadLength = n
        /\ d.length = IF n = 0 THEN MaxReadLength ELSE n
    BY <2>1, LengthMasked
  <2>6. EncodeDownload(d) = e
    BY <2>2, Zenon DEF EncodeDownload
  <2> HIDE DEF n
  <2>7. c \in Seq(Byte) /\ Len(c) = 2
    BY <2>5, HalfWordIs, Zenon
  <2>8. c = U16(n)
    OBVIOUS
  <2> HIDE DEF a, w, c, s
  <2>9. Joined4(e, a, w, c, s)
    BY <2>0, <2>3, <2>4, <2>7, FourJoined, Zenon
  <2> HIDE DEF e
  <2>10. /\ e \in Seq(Byte) /\ Len(e) = Len(a) + Len(w) + Len(c) + Len(s)
         /\ PartAt(e, 0, a) /\ PartAt(e, Len(a), w) /\ PartAt(e, Len(a) + Len(w), c)
         /\ PartAt(e, Len(a) + Len(w) + Len(c), s)
    BY <2>9, Zenon DEF Joined4
  <2>11. /\ Len(a) + Len(w) = 5 /\ Len(a) + Len(w) + Len(c) = 7 /\ Len(e) = 7 + Len(s) /\ Len(e) >= 7
         /\ 1 \in Nat /\ 5 \in Nat /\ 7 \in Nat /\ 1 + 1 = 2 /\ 5 + 1 = 6 /\ 7 + 1 = 8
    BY <2>0, <2>3, <2>4, <2>7, <2>10
  <2>12. e[1] = d.area
    <3>1. \A k \in 1..Len(a) : e[k] = a[k]
      BY <2>3, <2>10, HeadOf, Zenon
    <3> QED
      BY <2>3, <3>1
  <2>13. Word(e, 2) = w
    <3>1. PartAt(e, 1, w)
      BY <2>3, <2>10, Zenon
    <3>2. Word(e, 1 + 1) = w
      BY <2>1, <2>11, <3>1, WordOf, Zenon
    <3> QED
      BY <2>11, <3>2, Zenon
  <2>14. HalfWord(e, 6) = n
    <3>1. PartAt(e, 5, U16(n))
      BY <2>8, <2>10, <2>11, Zenon
    <3>2. HalfWord(e, 5 + 1) = n
      BY <2>5, <2>11, <3>1, HalfWordAt, Zenon
    <3> QED
      BY <2>11, <3>2, Zenon
  <2>15. Rest(e, 8) = s
    <3>1. PartAt(e, 7, s)
      BY <2>10, <2>11, Zenon
    <3>2. Rest(e, 7 + 1) = s
      BY <2>0, <2>10, <2>11, <3>1, RestOf, Zenon
    <3> QED
      BY <2>11, <3>2, Zenon
  <2>16. DecodeDownload(e) = [area |-> Known(d.area, NumAreas), start |-> w, length |-> d.length, path |-> s]
    BY <2>2, <2>5, <2>12, <2>13, <2>14, <2>15, Zenon DEF DecodeDownload
  <2>17. DecodeDownload(e) = d \/ (d.area >= NumAreas /\ DecodeDownload(e) = [d EXCEPT !.area = 0])
    <3>1. NumAreas \in Nat /\ NumAreas > 0
      BY DEF NumAreas
    <3>2. (d.area < NumAreas /\ Known(d.area, NumAreas) = d.area) \/ (d.area >= NumAreas /\ Known(d.area, NumAreas) = 0)
      BY <2>2, <3>1, KnownIs
    <3>3. CASE Known(d.area, NumAreas) = d.area
      BY <2>1, <2>16, <3>3, Zenon
    <3>4. CASE d.area >= NumAreas /\ Known(d.area, NumAreas) = 0
      <4>1. DecodeDownload(e) = [area |-> 0, start |-> w, length |-> d.length, path |-> s]
        BY <2>16, <3>4, Zenon
      <4>2. [d EXCEPT !.area = 0] = [area |-> 0, start |-> w, length |-> d.length, path |-> s]
        BY <2>1
      <4> QED
        BY <3>4, <4>1, <4>2, Zenon
    <3> QED
      BY <3>2, <3>3, <3>4, Zenon
  <2>18. Agrees("FILE_DOWNLOAD", d, DecodeDownload(e))
    BY <2>17 DEF Agrees
  <2>19. ~RefusedWhole("FILE_DOWNLOAD", d) /\ "FILE_DOWNLOAD" \in VariableLength
    BY DEF RefusedWhole, VariableLength
  <2>20. Valid("FILE_DOWNLOAD", e)
    BY <1>0, <2>5, <2>11, <2>14, Zenon
  <2> QED
    BY <1>0, <2>6, <2>10, <2>18, <2>19, <2>20, FrameOf, Zenon
<1>2. ASSUME NEW b \in Seq(Byte), Len(b) >= 7, HalfWord(b, 6) < MaxReadLength
      PROVE  InRange("FILE_DOWNLOAD", DecodeDownload(b))
  <2> DEFINE h == HalfWord(b, 6)
  <2>1. b[1] \in Nat
    BY <1>2, ElementOfSeq, ByteIs
  <2>2. b[1] % 16 \in Nat /\ NumAreas \in Nat /\ NumAreas > 0
    BY <2>1 DEF NumAreas
  <2>3. Known(b[1] % 16, NumAreas) < NumAreas
    BY <2>2, KnownIs
  <2>4. h \in Nat
    BY <1>2, HalfWordOfBytes
  <2>5. MaxReadLength \in Nat /\ MaxReadLength >= 1 /\ h < MaxReadLength
    BY <1>2, CodecNumbers
  <2> HIDE DEF h
  <2>6. h % MaxReadLength = h
    BY <2>4, <2>5, SmallRemainder
  <2> DEFINE length == IF h = 0 THEN MaxReadLength ELSE h
  <2>7. 1 <= length /\ length <= MaxReadLength
    BY <2>4, <2>5
  <2>8. DecodeDownload(b).area = Known(b[1] % 16, NumAreas) /\ DecodeDownload(b).length = length
    BY <2>6 DEF DecodeDownload, h
  <2> HIDE DEF length
  <2>9. DecodeDownload(b).area < NumAreas /\ Between(1, DecodeDownload(b).length, MaxReadLength)
    BY <2>3, <2>7, <2>8 DEF Between
  <2> QED
    BY <2>9 DEF InRange
<1> QED
  BY <1>0, <1>1, <1>2 DEF ReadInRange

LEMMA StorageRight ==
    /\ \A d \in StorageData : FrameRight("STORAGE", d, EncodeStorage(d))
    /\ ReadInRange("STORAGE")
<1>0. \A b : Decoded("STORAGE", b) = DecodeStorage(b) /\ (Valid("STORAGE", b) <=> Len(b) >= 7)
  BY DEF Decoded, Valid, ValidStorage
<1>1. ASSUME NEW d \in StorageData PROVE FrameRight("STORAGE", d, EncodeStorage(d))
  <2> DEFINE x == (d.command % 16) + 16 * d.area
             a == <<x>>
             w == d.offset
             n == IF d.length = MaxReadLength THEN 0 ELSE d.length
             c == U16(n)
             e == a \o w \o c
  <2>1. /\ d.area \in 0..15 /\ d.command \in 0..15 /\ w \in Bytes(4) /\ d.length \in 1..MaxReadLength
    BY DEF StorageData
  <2>2. /\ d.area \in Nat /\ d.command \in Nat /\ x \in Byte /\ x \div 16 = d.area /\ x % 16 = d.command
    <3> DEFINE p == d.command
               q == d.area
    <3>1. p \in 0..15 /\ q \in 0..15 /\ p % 16 = p
      BY <2>1, NibbleIs
    <3>2. x = p + 16 * q
      BY <3>1
    <3> HIDE DEF x, p, q
    <3>3. p \in Nat /\ q \in Nat /\ x \in Nat /\ x < 256
      BY <3>1, <3>2
    <3>4. x \div 16 = q /\ x % 16 = p
      BY <3>1, <3>2
    <3> QED
      BY <3>3, <3>4, ByteIs, Zenon DEF p, q
  <2>3. n \in HalfWords /\ d.length = IF n = 0 THEN MaxReadLength ELSE n
    <3>1. MaxReadLength \in Nat /\ MaxReadLength >= 1 /\ n \in 0..MaxReadLength
      BY <2>1, CodecNumbers
    <3>2. d.length = IF n = 0 THEN MaxReadLength ELSE n
      BY <2>1, <3>1
    <3> HIDE DEF n
    <3> QED
      BY <3>1, <3>2, CodecNumbers
  <2>4. EncodeStorage(d) = e
    BY Zenon DEF EncodeStorage
  <2> HIDE DEF n, x
  <2>5. a \in Seq(Byte) /\ Len(a) = 1 /\ a[1] = x
    BY <2>2, OneByte, Zenon
  <2>6. w \in Seq(Byte) /\ Len(w) = 4
    BY <2>1, BytesAre
  <2>7. c \in Seq(Byte) /\ Len(c) = 2
    BY <2>3, HalfWordIs, Zenon
  <2>8. c = U16(n)
    OBVIOUS
  <2> HIDE DEF a, w, c
  <2>9. Joined3(e, a, w, c)
    BY <2>5, <2>6, <2>7, ThreeJoined, Zenon
  <2> HIDE DEF e
  <2>10. /\ e \in Seq(Byte) /\ Len(e) = Len(a) + Len(w) + Len(c)
         /\ PartAt(e, 0, a) /\ PartAt(e, Len(a), w) /\ PartAt(e, Len(a) + Len(w), c)
    BY <2>9, Zenon DEF Joined3
  <2>11. /\ Len(a) + Len(w) = 5 /\ Len(e) = 7
         /\ 1 \in Nat /\ 5 \in Nat /\ 1 + 1 = 2 /\ 5 + 1 = 6
    BY <2>5, <2>6, <2>7, <2>10
  <2>12. e[1] = x
    <3>1. \A k \in 1..Len(a) : e[k] = a[k]
      BY <2>5, <2>10, HeadOf, Zenon
    <3> QED
      BY <2>5, <3>1
  <2>13. Word(e, 2) = w
    <3>1. PartAt(e, 1, w)
      BY <2>5, <2>10, Zenon
    <3>2. Word(e, 1 + 1) = w
      BY <2>1, <2>11, <3>1, WordOf, Zenon
    <3> QED
      BY <2>11, <3>2, Zenon
  <2>14. HalfWord(e, 6) = n
    <3>1. PartAt(e, 5, U16(n))
      BY <2>8, <2>10, <2>11, Zenon
    <3>2. HalfWord(e, 5 + 1) = n
      BY <2>3, <2>11, <3>1, HalfWordAt, Zenon
    <3> QED
      BY <2>11, <3>2, Zenon
  <2>15. DecodeStorage(e) = [area |-> Known(d.area, NumAreas), command |-> Known(d.command, NumStorageCommands),
                             offset |-> w, length |-> d.length]
    BY <2>2, <2>3, <2>12, <2>13, <2>14, Zenon DEF DecodeStorage
  <2>16. /\ Known(d.area, NumAreas) = d.area \/ (d.area >= NumAreas /\ Known(d.area, NumAreas) = 0)
         /\ Known(d.command, NumStorageCommands) = d.command
            \/ (d.command >= NumStorageCommands /\ Known(d.command, NumStorageCommands) = 0)
    BY <2>2 DEF Known, NumAreas, NumStorageCommands
  <2>17. Agrees("STORAGE", d, DecodeStorage(e))
    <3> DEFINE r == DecodeStorage(e)
    <3>1. /\ r.offset = d.offset /\ r.length = d.length
          /\ r.area = Known(d.area, NumAreas) /\ r.command = Known(d.command, NumStorageCommands)
      BY <2>15 DEF w
    <3> HIDE DEF r
    <3>2. /\ r.offset = d.offset /\ r.length = d.length
          /\ r.area = d.area \/ (d.area >= NumAreas /\ r.area = 0)
          /\ r.command = d.command \/ (d.command >= NumStorageCommands /\ r.command = 0)
      BY <2>16, <3>1, Zenon
    <3>3. Agrees("STORAGE", d, r)
      BY <3>2 DEF Agrees
    <3> QED
      BY <3>3 DEF r
  <2>18. ~RefusedWhole("STORAGE", d)
    BY DEF RefusedWhole
  <2> QED
    BY <1>0, <2>4, <2>10, <2>11, <2>17, <2>18, FixedFrame, Zenon
<1>2. ASSUME NEW b \in Seq(Byte), Len(b) >= 7
      PROVE  InRange("STORAGE", DecodeStorage(b))
  <2> DEFINE h == HalfWord(b, 6)
             length == IF h = 0 THEN MaxReadLength ELSE h
  <2>1. b[1] \in Nat
    BY <1>2, ElementOfSeq, ByteIs
  <2>2. /\ b[1] % 16 \in Nat /\ b[1] \div 16 \in Nat /\ NumAreas \in Nat /\ NumAreas > 0
        /\ NumStorageCommands \in Nat /\ NumStorageCommands > 0
    BY <2>1 DEF NumAreas, NumStorageCommands
  <2>3. Known(b[1] \div 16, NumAreas) < NumAreas /\ Known(b[1] % 16, NumStorageCommands) < NumStorageCommands
    BY <2>2, KnownIs
  <2>4. h \in Nat
    BY <1>2, HalfWordOfBytes
  <2>5. MaxReadLength \in Nat /\ MaxReadLength >= 1
    BY CodecNumbers
  <2> HIDE DEF h
  <2>6. length > 0
    BY <2>4, <2>5
  <2>7. /\ DecodeStorage(b).area = Known(b[1] \div 16, NumAreas)
        /\ DecodeStorage(b).command = Known(b[1] % 16, NumStorageCommands) /\ DecodeStorage(b).length = length
    BY DEF DecodeStorage, h
  <2> HIDE DEF length
  <2>8. /\ DecodeStorage(b).area < NumAreas /\ DecodeStorage(b).command < NumStorageCommands
        /\ DecodeStorage(b).length > 0
    BY <2>3, <2>6, <2>7
  <2> QED
    BY <2>8 DEF InRange
<1> QED
  BY <1>0, <1>1, <1>2 DEF ReadInRange

LEMMA U16Is ==
    ASSUME NEW n \in HalfWords
    PROVE  U16(n)[1] \in Byte /\ U16(n)[2] \in Byte /\ U16(n)[1] + 256 * U16(n)[2] = n
<1> DEFINE w == U16(n)
<1>1. w \in Seq(Byte) /\ Len(w) = 2 /\ \A e, at : PartAt(e, at, w) => e[at + 1] + 256 * e[at + 2] = n
  BY HalfWordIs
<1> HIDE DEF w
<1>2. \A k \in 1..Len(w) : w[0 + k] = w[k]
  BY <1>1
<1>3. PartAt(w, 0, w)
  BY <1>2, Zenon DEF PartAt
<1>4. w[0 + 1] + 256 * w[0 + 2] = n
  BY <1>1, <1>3
<1>5. w[1] \in Byte /\ w[2] \in Byte
  <2>1. 1 \in 1..Len(w) /\ 2 \in 1..Len(w)
    BY <1>1
  <2> QED
    BY <1>1, <2>1, ElementOfSeq, ZenonT(40)
<1> QED
  BY <1>4, <1>5 DEF w

LEMMA HalfWordsJoined ==
    ASSUME NEW h \in [1..13 -> HalfWords], NEW p, p = [i \in 1..13 |-> U16(h[i])]
    PROVE  /\ Flat(p, 13, 2) \in Seq(Byte) /\ Len(Flat(p, 13, 2)) = 26
           /\ \A i \in 1..13 : Flat(p, 13, 2)[2 * i - 1] + 256 * Flat(p, 13, 2)[2 * i] = h[i]
<1> DEFINE f == Flat(p, 13, 2)
<1>1. f = [j \in 1..26 |-> p[(j - 1) \div 2 + 1][((j - 1) % 2) + 1]]
  BY DEF Flat
<1>2. ASSUME NEW i \in 1..13
      PROVE  p[i][1] \in Byte /\ p[i][2] \in Byte /\ p[i][1] + 256 * p[i][2] = h[i]
  <2>1. h[i] \in HalfWords /\ p[i] = U16(h[i])
    OBVIOUS
  <2> QED
    BY <2>1, U16Is
<1> HIDE DEF f
<1>3. ASSUME NEW j \in 1..26 PROVE f[j] \in Byte
  <2> DEFINE i == (j - 1) \div 2 + 1
             k == ((j - 1) % 2) + 1
  <2>1. i \in 1..13 /\ (k = 1 \/ k = 2)
    OBVIOUS
  <2>2. f[j] = p[i][k]
    BY <1>1, Zenon
  <2> HIDE DEF i, k
  <2>3. p[i][1] \in Byte /\ p[i][2] \in Byte
    BY <1>2, <2>1
  <2>4. f[j] = p[i][1] \/ f[j] = p[i][2]
    BY <2>1, <2>2
  <2> QED
    BY <2>3, <2>4
<1>4. f \in [1..26 -> Byte]
  BY <1>1, <1>3, Zenon
<1>5. f \in Seq(Byte) /\ Len(f) = 26
  <2>1. f \in Bytes(26)
    BY <1>4 DEF Bytes
  <2> QED
    BY <2>1, BytesAre
<1>6. ASSUME NEW i \in 1..13 PROVE f[2 * i - 1] + 256 * f[2 * i] = h[i]
  <2> DEFINE j == 2 * i - 1
             k == 2 * i
  <2>1. /\ j \in 1..26 /\ (j - 1) \div 2 + 1 = i /\ ((j - 1) % 2) + 1 = 1
        /\ k \in 1..26 /\ (k - 1) \div 2 + 1 = i /\ ((k - 1) % 2) + 1 = 2
    OBVIOUS
  <2> HIDE DEF j, k
  <2>2. f[j] = p[i][1] /\ f[k] = p[i][2]
    BY <1>1, <2>1
  <2>3. f[j] + 256 * f[k] = h[i]
    BY <1>2, <2>2, ZenonT(60)
  <2> QED
    BY <2>3, Zenon DEF j, k
<1> QED
  BY <1>5, <1>6 DEF f

LEMMA AdcRight == \A d \in AdcData : FrameRight("ADC", d, EncodeAdc(d))
<1> TAKE d \in AdcData
<1> DEFINE t == d.timestamp
           m == d.measurements
           h == [i \in 1..13 |-> m[i] \div Unit(i)]
           p == [i \in 1..13 |-> U16(m[i] \div Unit(i))]
           f == Flat(p, 13, 2)
           e == t \o f
<1>1. t \in Bytes(4) /\ m \in [1..13 -> Nat] /\ \A i \in 1..13 : m[i] \div Unit(i) \in HalfWords
  BY DEF AdcData
<1>2. t \in Seq(Byte) /\ Len(t) = 4
  BY <1>1, BytesAre
<1>3. h \in [1..13 -> HalfWords] /\ p = [i \in 1..13 |-> U16(h[i])]
  BY <1>1
<1>4. EncodeAdc(d) = e
  BY Zenon DEF EncodeAdc
<1>5. \A i \in 1..13 : h[i] = m[i] \div Unit(i)
  OBVIOUS
<1> HIDE DEF t, m, h, p
<1>6. f \in Seq(Byte) /\ Len(f) = 26 /\ \A i \in 1..13 : f[2 * i - 1] + 256 * f[2 * i] = h[i]
  BY <1>3, HalfWordsJoined
<1> HIDE DEF f
<1>7. Joined2(e, t, f)
  BY <1>2, <1>6, TwoJoined, Zenon
<1> HIDE DEF e
<1>8. e \in Seq(Byte) /\ Len(e) = Len(t) + Len(f) /\ PartAt(e, 0, t) /\ PartAt(e, Len(t), f)
  BY <1>7, Zenon DEF Joined2
<1>9. Len(e) = 30
  BY <1>2, <1>6, <1>8
<1>10. Word(e, 1) = t
  <2>1. 0 \in Nat /\ 0 + 1 = 1
    OBVIOUS
  <2>2. Word(e, 0 + 1) = t
    BY <1>1, <1>8, <2>1, WordOf, Zenon
  <2> QED
    BY <2>1, <2>2, Zenon
<1>11. ASSUME NEW i \in 1..13 PROVE HalfWord(e, 3 + 2 * i) = h[i]
  <2>1. PartAt(e, 4, f) /\ Len(f) = 26
    BY <1>2, <1>6, <1>8, Zenon
  <2>2. \A k \in 1..26 : e[4 + k] = f[k]
    BY <2>1, Zenon DEF PartAt
  <2>3. /\ 2 * i - 1 \in 1..26 /\ 2 * i \in 1..26
        /\ 4 + (2 * i - 1) = 3 + 2 * i /\ 4 + 2 * i = (3 + 2 * i) + 1
    OBVIOUS
  <2>4. e[3 + 2 * i] = f[2 * i - 1] /\ e[(3 + 2 * i) + 1] = f[2 * i]
    BY <2>2, <2>3, ZenonT(60)
  <2> QED
    BY <1>6, <2>4, Zenon DEF HalfWord
<1> DEFINE r == DecodeAdc(e)
<1>12. r.timestamp = t /\ \A i \in 1..13 : r.measurements[i] = Unit(i) * HalfWord(e, 3 + 2 * i)
  BY <1>10 DEF DecodeAdc
<1> HIDE DEF r
<1>13. ASSUME NEW i \in 1..13 PROVE Between(0, m[i] - r.measurements[i], Unit(i) - 1)
  <2> DEFINE u == Unit(i)
             x == m[i]
             q == h[i]
  <2>1. u = 10 \/ u = 1000
    BY DEF Unit
  <2>2. x \in Nat
    BY <1>1
  <2>3. q = x \div u /\ r.measurements[i] = u * q
    BY <1>5, <1>11, <1>12, Zenon
  <2> HIDE DEF u, x, q
  <2>4. 0 <= x - u * q /\ x - u * q <= u - 1
    BY <2>1, <2>2, <2>3
  <2> QED
    BY <2>3, <2>4, Zenon DEF Between, u, x
<1>14. Agrees("ADC", d, r)
  <2>1. /\ r.timestamp = d.timestamp
        /\ \A i \in 1..13 : Between(0, d.measurements[i] - r.measurements[i], Unit(i) - 1)
    BY <1>12, <1>13, Zenon DEF t, m
  <2> QED
    BY <2>1 DEF Agrees
<1>15. \A b : Decoded("ADC", b) = DecodeAdc(b) /\ (Valid("ADC", b) <=> Len(b) >= 30)
  BY DEF Decoded, Valid, ValidAdc
<1>16. ~RefusedWhole("ADC", d)
  BY DEF RefusedWhole
<1> QED
  BY <1>4, <1>8, <1>9, <1>14, <1>15, <1>16, FixedFrame, Zenon DEF r

LEMMA TopBit ==
    ASSUME NEW w \in Times31, NEW flag \in BOOLEAN
    PROVE  /\ WithTopBit(w, flag) \in Bytes(4) /\ (WithTopBit(w, flag)[4] >= 128 <=> flag)
           /\ WithTopBit(WithTopBit(w, flag), FALSE) = w
<1> DEFINE x == WithTopBit(w, flag)
           top == w[4]
           y == (top % 128) + (IF flag THEN 128 ELSE 0)
<1>1. w \in [1..4 -> Byte] /\ top \in Nat /\ top < 128
  BY ByteIs DEF Times31, Bytes
<1>2. x = [w EXCEPT ![4] = y]
  BY DEF WithTopBit
<1>3. y \in Nat /\ y < 256 /\ (y >= 128 <=> flag) /\ (y % 128) + 0 = top
  <2> HIDE DEF top
  <2>1. top % 128 = top
    BY <1>1
  <2>2. CASE flag
    BY <1>1, <2>1, <2>2
  <2>3. CASE ~flag
    BY <1>1, <2>1, <2>3
  <2> QED
    BY <2>2, <2>3
<1>4. y \in Byte
  BY <1>3, ByteIs
<1> HIDE DEF y, x
<1>5. x \in [1..4 -> Byte] /\ x[4] = y
  BY <1>1, <1>2, <1>4
<1>6. WithTopBit(x, FALSE) = [x EXCEPT ![4] = top]
  BY <1>3, <1>5 DEF WithTopBit
<1>7. [x EXCEPT ![4] = top] = w
  BY <1>1, <1>2
<1> QED
  BY <1>3, <1>5, <1>6, <1>7 DEF Bytes, x

LEMMA ClockStatusRight == \A d \in ClockStatusData : FrameRight("CLOCK_STATUS", d, EncodeClockStatus(d))
<1> TAKE d \in ClockStatusData
<1> DEFINE t == d.timestamp
           m == WithTopBit(d.missionClock, d.running)
           c == d.rtc
           l == WithTopBit(d.liftoff, d.liftoffHappened)
           e == t \o m \o c \o l
<1>1. /\ t \in Bytes(4) /\ d.missionClock \in Times31 /\ c \in Bytes(8) /\ d.liftoff \in Times31
      /\ d.running \in BOOLEAN /\ d.liftoffHappened \in BOOLEAN
      /\ d = [timestamp |-> t, missionClock |-> d.missionClock, rtc |-> c, liftoff |-> d.liftoff,
              running |-> d.running, liftoffHappened |-> d.liftoffHappened]
  BY DEF ClockStatusData
<1>2. /\ m \in Bytes(4) /\ (m[4] >= 128 <=> d.running) /\ WithTopBit(m, FALSE) = d.missionClock
      /\ l \in Bytes(4) /\ (l[4] >= 128 <=> d.liftoffHappened) /\ WithTopBit(l, FALSE) = d.liftoff
  BY <1>1, TopBit, ZenonT(40)
<1>3. EncodeClockStatus(d) = e
  BY Zenon DEF EncodeClockStatus
<1> HIDE DEF t, m, c, l
<1>4. /\ t \in Seq(Byte) /\ Len(t) = 4 /\ m \in Seq(Byte) /\ Len(m) = 4
      /\ c \in Seq(Byte) /\ Len(c) = 8 /\ l \in Seq(Byte) /\ Len(l) = 4
  BY <1>1, <1>2, BytesAre
<1>5. Joined4(e, t, m, c, l)
  BY <1>4, FourJoined, Zenon
<1> HIDE DEF e
<1>6. /\ e \in Seq(Byte) /\ Len(e) = Len(t) + Len(m) + Len(c) + Len(l)
      /\ PartAt(e, 0, t) /\ PartAt(e, Len(t), m) /\ PartAt(e, Len(t) + Len(m), c)
      /\ PartAt(e, Len(t) + Len(m) + Len(c), l)
  BY <1>5, Zenon DEF Joined4
<1>7. /\ Len(t) + Len(m) = 8 /\ Len(t) + Len(m) + Len(c) = 16 /\ Len(e) = 20
      /\ 0 \in Nat /\ 4 \in Nat /\ 8 \in Nat /\ 16 \in Nat /\ 0 + 1 = 1 /\ 4 + 1 = 5 /\ 8 + 1 = 9 /\ 16 + 1 = 17
  BY <1>4, <1>6
<1>8. PartAt(e, 4, m) /\ PartAt(e, 8, c) /\ PartAt(e, 16, l)
  BY <1>4, <1>6, <1>7, Zenon
<1>9. Word(e, 1) = t /\ Word(e, 5) = m /\ Field(e, 9, 8) = c /\ Word(e, 17) = l
  <2>1. Word(e, 0 + 1) = t
    BY <1>1, <1>6, <1>7, WordOf, Zenon
  <2>2. Word(e, 4 + 1) = m /\ Word(e, 16 + 1) = l
    BY <1>2, <1>7, <1>8, WordOf, Zenon
  <2>3. Field(e, 8 + 1, Len(c)) = c
    BY <1>4, <1>7, <1>8, FieldOf, Zenon
  <2> QED
    BY <1>4, <1>7, <2>1, <2>2, <2>3, Zenon
<1>10. e[8] = m[4] /\ e[20] = l[4]
  <2>1. (\A k \in 1..4 : e[4 + k] = m[k]) /\ (\A k \in 1..4 : e[16 + k] = l[k])
    BY <1>4, <1>8, Zenon DEF PartAt
  <2> QED
    BY <2>1
<1>11. (e[8] >= 128) = d.running /\ (e[20] >= 128) = d.liftoffHappened
  BY <1>1, <1>2, <1>10
<1>12. DecodeClockStatus(e) = d
  BY <1>1, <1>2, <1>9, <1>11, Zenon DEF DecodeClockStatus
<1>13. \A b : Decoded("CLOCK_STATUS", b) = DecodeClockStatus(b) /\ (Valid("CLOCK_STATUS", b) <=> Len(b) >= 20)
  BY DEF Decoded, Valid, ValidClockStatus
<1>14. ~RefusedWhole("CLOCK_STATUS", d)
  BY DEF RefusedWhole
<1>15. Agrees("CLOCK_STATUS", d, d)
  BY DEF Agrees
<1> QED
  BY <1>3, <1>6, <1>7, <1>12, <1>13, <1>14, <1>15, FixedFrame, Zenon

(* A number with a sign as the half word it is sent as.                  *)
LEMMA SignedHalfWord ==
    ASSUME NEW k \in Int, -32768 <= k, k <= 32767
    PROVE  \E n \in HalfWords : U16(k) = U16(n) /\ Signed(n, 65536) = k
<1> DEFINE n == IF k >= 0 THEN k ELSE k + 65536
<1>1. n \in Nat /\ n < 65536
  OBVIOUS
<1>2. n % 256 = k % 256 /\ (n \div 256) % 256 = (k \div 256) % 256
  <2>1. CASE k >= 0
    BY <2>1
  <2>2. CASE k < 0
    <3>1. n = k + 65536
      BY <2>2
    <3> HIDE DEF n
    <3> QED
      BY <3>1
  <2> QED
    BY <2>1, <2>2
<1>3. (IF n >= 32768 THEN n - 65536 ELSE n) = k
  OBVIOUS
<1> HIDE DEF n
<1>4. n \div 256 \in Nat /\ n \div 256 < 256
  BY <1>1
<1>5. n \in HalfWords
  BY <1>1, <1>4, ByteIs DEF HalfWords
<1>6. 65536 \div 2 = 32768
  OBVIOUS
<1>7. Signed(n, 65536) = k
  BY <1>3, <1>6, SMT DEF Signed
<1>8. U16(k) = U16(n)
  BY <1>2, SMT DEF U16
<1> QED
  BY <1>5, <1>7, <1>8

LEMMA ClampedIs ==
    ASSUME NEW n \in Int, NEW low \in Int, NEW high \in Int, low <= high
    PROVE  Clamped(n, low, high) \in Int /\ low <= Clamped(n, low, high) /\ Clamped(n, low, high) <= high
BY DEF Clamped

LEMMA MagRight == \A d \in MagData : FrameRight("MAG", d, EncodeMag(d))
<1> TAKE d \in MagData
<1> DEFINE t == d.timestamp
           v == d.field
           f == Flat(v, 3, 4)
           c == MagRange(d.temperature)
           k == Truncated(c, 10)
           u == U16(k)
           e == t \o f \o u
<1>1. t \in Bytes(4) /\ v \in Vectors /\ d.temperature \in Int
  BY DEF MagData
<1>2. c \in Int /\ -200000 <= c /\ c <= 300000
  BY <1>1, SMT DEF Clamped, MagRange
<1>3. EncodeMag(d) = e /\ f = Flat(v, 3, 4)
  BY DEF EncodeMag
<1> HIDE DEF t, v, f, c
<1>4. k \in Int /\ -32768 <= k /\ k <= 32767 /\ -9 <= 10 * k - c /\ 10 * k - c <= 9
  BY <1>2 DEF Truncated
<1> HIDE DEF k
<1>5. PICK n \in HalfWords : u = U16(n) /\ Signed(n, 65536) = k
  BY <1>4, SignedHalfWord
<1> HIDE DEF u
<1>6. t \in Seq(Byte) /\ Len(t) = 4
  BY <1>1, BytesAre
<1>7. f \in Seq(Byte) /\ Len(f) = 12
  BY <1>1, <1>3, VectorIs
<1>8. u \in Seq(Byte) /\ Len(u) = 2
  BY <1>5, HalfWordIs
<1>9. Joined3(e, t, f, u)
  BY <1>6, <1>7, <1>8, ThreeJoined, Zenon
<1> HIDE DEF e
<1>10. /\ e \in Seq(Byte) /\ Len(e) = Len(t) + Len(f) + Len(u)
       /\ PartAt(e, 0, t) /\ PartAt(e, Len(t), f) /\ PartAt(e, Len(t) + Len(f), u)
  BY <1>9, Zenon DEF Joined3
<1>11. /\ Len(t) + Len(f) = 16 /\ Len(e) = 18
       /\ 0 \in Nat /\ 4 \in Nat /\ 16 \in Nat /\ 0 + 1 = 1 /\ 4 + 1 = 5 /\ 16 + 1 = 17
  BY <1>6, <1>7, <1>8, <1>10
<1>12. PartAt(e, 4, Flat(v, 3, 4)) /\ PartAt(e, 16, U16(n))
  <2>1. u = U16(n)
    BY <1>5
  <2>2. Len(t) = 4 /\ Len(t) + Len(f) = 16 /\ f = Flat(v, 3, 4)
    BY <1>3, <1>6, <1>11
  <2> QED
    BY <1>10, <2>1, <2>2, Zenon
<1>13. Word(e, 1) = t
  <2>1. Word(e, 0 + 1) = t
    BY <1>1, <1>10, <1>11, WordOf, Zenon
  <2> QED
    BY <1>11, <2>1, Zenon
<1>14. Vector(e, 5) = v
  <2>1. Vector(e, 4 + 1) = v
    BY <1>1, <1>11, <1>12, VectorAt, Zenon
  <2> QED
    BY <1>11, <2>1, Zenon
<1>15. HalfWord(e, 17) = n
  <2>1. HalfWord(e, 16 + 1) = n
    BY <1>11, <1>12, HalfWordAt, Zenon
  <2> QED
    BY <1>11, <2>1, Zenon
<1> DEFINE r == DecodeMag(e)
<1>16. r.timestamp = t /\ r.field = v /\ r.temperature = 10 * k
  BY <1>5, <1>13, <1>14, <1>15 DEF DecodeMag
<1> HIDE DEF r
<1>17. Between(-9, r.temperature - c, 9)
  BY <1>4, <1>16 DEF Between
<1>18. Agrees("MAG", d, r)
  <2>1. /\ r.timestamp = d.timestamp /\ r.field = d.field
        /\ Between(-9, r.temperature - MagRange(d.temperature), 9)
    BY <1>16, <1>17 DEF t, v, c
  <2> QED
    BY <2>1 DEF Agrees
<1>19. \A b : Decoded("MAG", b) = DecodeMag(b) /\ (Valid("MAG", b) <=> Len(b) >= 18)
  BY DEF Decoded, Valid, ValidMag
<1>20. ~RefusedWhole("MAG", d)
  BY DEF RefusedWhole
<1> QED
  BY <1>3, <1>10, <1>11, <1>18, <1>19, <1>20, FixedFrame, Zenon DEF r

LEMMA BitIs == \A flag \in BOOLEAN : Bit(flag) \in 0..1 /\ (Bit(flag) = 1 <=> flag)
BY DEF Bit

LEMMA FlagsAre ==
    ASSUME NEW n, NEW count, NEW f \in [1..count -> BOOLEAN],
           \A i \in 1..count : ((n \div PowerOf2[i]) % 2 = 1) <=> f[i]
    PROVE  Flags(n, count) = f
<1>1. \A i \in 1..count : ((n \div PowerOf2[i]) % 2 = 1) = f[i]
  OBVIOUS
<1>2. Flags(n, count) = [i \in 1..count |-> f[i]]
  BY <1>1, Zenon DEF Flags
<1> QED
  BY <1>2

LEMMA Bits3Read ==
    ASSUME NEW f \in [1..3 -> BOOLEAN]
    PROVE  \A m : m = 0 \/ m = 128 => Bits3(f) + m \in Byte /\ Flags(Bits3(f) + m, 3) = f
<1>0. SUFFICES ASSUME NEW m, m = 0 \/ m = 128
               PROVE  Bits3(f) + m \in Byte /\ Flags(Bits3(f) + m, 3) = f
  OBVIOUS
<1> DEFINE x == Bit(f[1])
           y == Bit(f[2])
           z == Bit(f[3])
           n == x + 2 * y + 4 * z + m
<1>1. /\ x \in 0..1 /\ y \in 0..1 /\ z \in 0..1
      /\ (x = 1 <=> f[1]) /\ (y = 1 <=> f[2]) /\ (z = 1 <=> f[3])
  BY BitIs
<1>2. Bits3(f) + m = n
  BY DEF Bits3
<1> HIDE DEF x, y, z
<1>3. /\ n \in Nat /\ n < 256
      /\ (n \div 1) % 2 = x /\ (n \div 2) % 2 = y /\ (n \div 4) % 2 = z
  BY <1>0, <1>1
<1> HIDE DEF n
<1>4. \A i \in 1..3 : ((n \div PowerOf2[i]) % 2 = 1) <=> f[i]
  <2> TAKE i \in 1..3
  <2>1. PowerOf2[1] = 1 /\ PowerOf2[2] = 2 /\ PowerOf2[3] = 4
    BY DEF PowerOf2
  <2>2. i = 1 \/ i = 2 \/ i = 3
    OBVIOUS
  <2>3. CASE i = 1
    BY <1>1, <1>3, <2>1, <2>3
  <2>4. CASE i = 2
    BY <1>1, <1>3, <2>1, <2>4
  <2>5. CASE i = 3
    BY <1>1, <1>3, <2>1, <2>5
  <2> QED
    BY <2>2, <2>3, <2>4, <2>5
<1>5. Flags(n, 3) = f
  <2>1. ASSUME NEW count, count = 3 PROVE Flags(n, count) = f
    <3>1. f \in [1..count -> BOOLEAN]
      BY <2>1
    <3>2. \A i \in 1..count : ((n \div PowerOf2[i]) % 2 = 1) <=> f[i]
      BY <2>1, <1>4
    <3> QED
      BY <3>1, <3>2, FlagsAre
  <2> QED
    BY <2>1
<1>6. n \in Byte
  BY <1>3, ByteIs
<1> QED
  BY <1>2, <1>5, <1>6

LEMMA Bits6Read ==
    ASSUME NEW f \in [1..6 -> BOOLEAN]
    PROVE  Bits6(f) \in Byte /\ Flags(Bits6(f), 6) = f
<1> DEFINE u == Bit(f[1])
           v == Bit(f[2])
           w == Bit(f[3])
           x == Bit(f[4])
           y == Bit(f[5])
           z == Bit(f[6])
           n == u + 2 * v + 4 * w + 8 * x + 16 * y + 32 * z
<1>1. /\ u \in 0..1 /\ v \in 0..1 /\ w \in 0..1 /\ x \in 0..1 /\ y \in 0..1 /\ z \in 0..1
      /\ (u = 1 <=> f[1]) /\ (v = 1 <=> f[2]) /\ (w = 1 <=> f[3])
      /\ (x = 1 <=> f[4]) /\ (y = 1 <=> f[5]) /\ (z = 1 <=> f[6])
  BY BitIs
<1>2. Bits6(f) = n
  BY DEF Bits6, Bits3
<1> HIDE DEF u, v, w, x, y, z
<1>3. /\ n \in Nat /\ n < 256
      /\ (n \div 1) % 2 = u /\ (n \div 2) % 2 = v /\ (n \div 4) % 2 = w
  BY <1>1
<1>4. (n \div 8) % 2 = x /\ (n \div 16) % 2 = y /\ (n \div 32) % 2 = z
  BY <1>1
<1> HIDE DEF n
<1>5. \A i \in 1..6 : ((n \div PowerOf2[i]) % 2 = 1) <=> f[i]
  <2> TAKE i \in 1..6
  <2>1. /\ PowerOf2[1] = 1 /\ PowerOf2[2] = 2 /\ PowerOf2[3] = 4
        /\ PowerOf2[4] = 8 /\ PowerOf2[5] = 16 /\ PowerOf2[6] = 32
    BY DEF PowerOf2
  <2>2. i = 1 \/ i = 2 \/ i = 3 \/ i = 4 \/ i = 5 \/ i = 6
    OBVIOUS
  <2>3. CASE i = 1
    BY <1>1, <1>3, <2>1, <2>3
  <2>4. CASE i = 2
    BY <1>1, <1>3, <2>1, <2>4
  <2>5. CASE i = 3
    BY <1>1, <1>3, <2>1, <2>5
  <2>6. CASE i = 4
    BY <1>1, <1>4, <2>1, <2>6
  <2>7. CASE i = 5
    BY <1>1, <1>4, <2>1, <2>7
  <2>8. CASE i = 6
    BY <1>1, <1>4, <2>1, <2>8
  <2> QED
    BY <2>2, <2>3, <2>4, <2>5, <2>6, <2>7, <2>8
<1>6. Flags(n, 6) = f
  <2>1. ASSUME NEW count, count = 6 PROVE Flags(n, count) = f
    <3>1. f \in [1..count -> BOOLEAN]
      BY <2>1
    <3>2. \A i \in 1..count : ((n \div PowerOf2[i]) % 2 = 1) <=> f[i]
      BY <2>1, <1>5
    <3> QED
      BY <3>1, <3>2, FlagsAre
  <2> QED
    BY <2>1
<1>7. n \in Byte
  BY <1>3, ByteIs
<1> QED
  BY <1>2, <1>6, <1>7

LEMMA QuartersRead ==
    ASSUME NEW s \in [1..6 -> 0..3]
    PROVE  Quarters(s) \in HalfWords /\ QuartersOf(Quarters(s)) = s
<1> DEFINE n == s[1] + 4 * s[2] + 16 * s[3] + 64 * s[4] + 256 * s[5] + 1024 * s[6]
<1>1. \A i \in 1..6 : s[i] \in Nat /\ s[i] < 4
  OBVIOUS
<1>2. Quarters(s) = n
  BY DEF Quarters
<1> DEFINE u == s[1]
           v == s[2]
           w == s[3]
           x == s[4]
           y == s[5]
           z == s[6]
<1>3. /\ u \in Nat /\ u < 4 /\ v \in Nat /\ v < 4 /\ w \in Nat /\ w < 4
      /\ x \in Nat /\ x < 4 /\ y \in Nat /\ y < 4 /\ z \in Nat /\ z < 4
      /\ n = u + 4 * v + 16 * w + 64 * x + 256 * y + 1024 * z
  BY <1>1
<1> HIDE DEF n, u, v, w, x, y, z
<1>4. /\ n \in Nat /\ n < 4096
      /\ (n \div 1) % 4 = u /\ (n \div 4) % 4 = v /\ (n \div 16) % 4 = w
  BY <1>3
<1>5. (n \div 64) % 4 = x /\ (n \div 256) % 4 = y /\ (n \div 1024) % 4 = z
  BY <1>3
<1>6. \A i \in 1..6 : (n \div PowerOf4[i]) % 4 = s[i]
  <2> TAKE i \in 1..6
  <2>1. /\ PowerOf4[1] = 1 /\ PowerOf4[2] = 4 /\ PowerOf4[3] = 16
        /\ PowerOf4[4] = 64 /\ PowerOf4[5] = 256 /\ PowerOf4[6] = 1024
    BY DEF PowerOf4
  <2>2. i = 1 \/ i = 2 \/ i = 3 \/ i = 4 \/ i = 5 \/ i = 6
    OBVIOUS
  <2>3. CASE i = 1
    BY <1>4, <2>1, <2>3 DEF u
  <2>4. CASE i = 2
    BY <1>4, <2>1, <2>4 DEF v
  <2>5. CASE i = 3
    BY <1>4, <2>1, <2>5 DEF w
  <2>6. CASE i = 4
    BY <1>5, <2>1, <2>6 DEF x
  <2>7. CASE i = 5
    BY <1>5, <2>1, <2>7 DEF y
  <2>8. CASE i = 6
    BY <1>5, <2>1, <2>8 DEF z
  <2> QED
    BY <2>2, <2>3, <2>4, <2>5, <2>6, <2>7, <2>8
<1>7. QuartersOf(n) = s
  <2>1. QuartersOf(n) = [i \in 1..6 |-> s[i]]
    BY <1>6, Zenon DEF QuartersOf
  <2> QED
    BY <2>1
<1>8. n \in HalfWords
  <2>1. n \div 256 \in Nat /\ n \div 256 < 256
    BY <1>4
  <2> QED
    BY <1>4, <2>1, ByteIs DEF HalfWords
<1> QED
  BY <1>2, <1>7, <1>8

LEMMA VoltageSent ==
    ASSUME NEW v \in Int
    PROVE  VoltageByte(v) \in Byte /\ Between(-5, 10 * VoltageByte(v) - Clamped(v, 0, 2550), 5)
<1> DEFINE c == Clamped(v, 0, 2550)
           y == Rounded(c, 10)
           x == Clamped(y, 0, 255)
<1>1. c \in Int /\ 0 <= c /\ c <= 2550
  BY SMT DEF Clamped
<1> HIDE DEF c
<1>2. y = (c + 5) \div 10
  BY <1>1, SMT DEF Rounded
<1> HIDE DEF y
<1>3. y \in Int /\ 0 <= y /\ y <= 255 /\ -5 <= 10 * y - c /\ 10 * y - c <= 5
  BY <1>1, <1>2, SMT
<1>4. x = y
  BY <1>3, SMT DEF Clamped
<1> HIDE DEF x
<1>5. x \in Byte
  BY <1>3, <1>4, SMT DEF Byte
<1>6. Between(-5, 10 * x - c, 5)
  BY <1>1, <1>3, <1>4, SMT DEF Between
<1> QED
  BY <1>5, <1>6 DEF c, x, y, VoltageByte

LEMMA TemperatureSent ==
    ASSUME NEW v \in Int
    PROVE  /\ TemperatureByte(v) \in Byte
           /\ Between(-50, 100 * Signed(TemperatureByte(v), 256) - Clamped(v, -12800, 12700), 50)
<1> DEFINE c == Clamped(v, -12800, 12700)
           y == Rounded(c, 100)
           z == Clamped(y, -128, 127)
           x == z % 256
<1>1. c \in Int /\ -12800 <= c /\ c <= 12700
  BY SMT DEF Clamped
<1> HIDE DEF c
<1>2. y = IF c < 0 THEN -((-c + 50) \div 100) ELSE (c + 50) \div 100
  BY <1>1, SMT DEF Rounded
<1> HIDE DEF y
<1>3. y \in Int /\ -128 <= y /\ y <= 127 /\ -50 <= 100 * y - c /\ 100 * y - c <= 50
  BY <1>1, <1>2, SMT
<1>4. z = y
  BY <1>3, SMT DEF Clamped
<1> HIDE DEF z
<1>5. x = (IF y < 0 THEN y + 256 ELSE y)
  BY <1>3, <1>4, SMT
<1> HIDE DEF x
<1>6. x \in Nat /\ x < 256 /\ Signed(x, 256) = y
  BY <1>3, <1>5, SMT DEF Signed
<1>7. x \in Byte
  BY <1>6, ByteIs
<1>8. Between(-50, 100 * Signed(x, 256) - c, 50)
  BY <1>1, <1>3, <1>6, SMT DEF Between
<1> QED
  BY <1>7, <1>8 DEF c, x, y, z, TemperatureByte

LEMMA HeartbeatRight == \A d \in HeartbeatData : FrameRight("HEARTBEAT", d, EncodeHeartbeat(d))
<1> TAKE d \in HeartbeatData
<1>1. /\ d.timestamp \in Bytes(4) /\ d.errorCode \in Byte /\ d.voltage \in Int /\ d.temperature \in Int
      /\ d.rxsm \in [1..3 -> BOOLEAN] /\ d.subsystems \in [1..6 -> 0..3] /\ d.lcls \in [1..6 -> BOOLEAN]
  BY DEF HeartbeatData
<1>2. Quarters(d.subsystems) \in HalfWords /\ QuartersOf(Quarters(d.subsystems)) = d.subsystems
  BY <1>1, QuartersRead
<1> DEFINE t == d.timestamp
           x == VoltageByte(d.voltage)
           y == TemperatureByte(d.temperature)
           top == IF d.mode = "mission" THEN 0 ELSE 128
           z == Bits3(d.rxsm) + top
           h == <<d.errorCode, x, y, z>>
           q == U16(Quarters(d.subsystems))
           m == Bits6(d.lcls)
           l == <<m>>
           e == t \o h \o q \o l
<1>3. EncodeHeartbeat(d) = e
  BY Zenon DEF EncodeHeartbeat
<1>4. x \in Byte /\ Between(-5, 10 * x - Clamped(d.voltage, 0, 2550), 5)
  BY <1>1, VoltageSent
<1>5. y \in Byte /\ Between(-50, 100 * Signed(y, 256) - Clamped(d.temperature, -12800, 12700), 50)
  BY <1>1, TemperatureSent
<1>6. top = 0 \/ top = 128
  OBVIOUS
<1> HIDE DEF t, x, y, top
<1>7. z \in Byte /\ Flags(z, 3) = d.rxsm
  BY <1>1, <1>6, Bits3Read
<1>8. m \in Byte /\ Flags(m, 6) = d.lcls
  BY <1>1, Bits6Read
<1>9. q = U16(Quarters(d.subsystems))
  OBVIOUS
<1>10. q \in Seq(Byte) /\ Len(q) = 2
  BY <1>2, HalfWordIs, Zenon
<1> HIDE DEF z, m, q
<1>11. h \in Seq(Byte) /\ Len(h) = 4 /\ h[1] = d.errorCode /\ h[2] = x /\ h[3] = y /\ h[4] = z
  <2>1. d.errorCode \in Byte /\ x \in Byte /\ y \in Byte /\ z \in Byte
    BY <1>1, <1>4, <1>5, <1>7
  <2> QED
    BY <2>1, FourBytes, Zenon
<1>12. l \in Seq(Byte) /\ Len(l) = 1 /\ l[1] = m
  BY <1>8, OneByte, Zenon
<1>13. t \in Seq(Byte) /\ Len(t) = 4
  BY <1>1, BytesAre DEF t
<1> HIDE DEF h, l
<1>14. Joined4(e, t, h, q, l)
  BY <1>10, <1>11, <1>12, <1>13, FourJoined, Zenon
<1> HIDE DEF e
<1>15. /\ e \in Seq(Byte) /\ Len(e) = Len(t) + Len(h) + Len(q) + Len(l)
       /\ PartAt(e, 0, t) /\ PartAt(e, Len(t), h) /\ PartAt(e, Len(t) + Len(h), q)
       /\ PartAt(e, Len(t) + Len(h) + Len(q), l)
  BY <1>14, Zenon DEF Joined4
<1>16. /\ Len(t) + Len(h) = 8 /\ Len(t) + Len(h) + Len(q) = 10 /\ Len(e) = 11
       /\ 0 \in Nat /\ 8 \in Nat /\ 0 + 1 = 1 /\ 8 + 1 = 9
  BY <1>10, <1>11, <1>12, <1>13, <1>15
<1>17. PartAt(e, 4, h) /\ PartAt(e, 8, q) /\ PartAt(e, 10, l)
  BY <1>13, <1>15, <1>16, Zenon
<1>18. Word(e, 1) = t
  <2>0. t \in Bytes(4)
    BY <1>1 DEF t
  <2>1. Word(e, 0 + 1) = t
    BY <2>0, <1>15, <1>16, WordOf, Zenon
  <2> QED
    BY <1>16, <2>1, Zenon
<1>19. e[5] = d.errorCode /\ e[6] = x /\ e[7] = y /\ e[8] = z
  <2>1. \A k \in 1..4 : e[4 + k] = h[k]
    BY <1>11, <1>17, Zenon DEF PartAt
  <2> QED
    BY <1>11, <2>1
<1>20. e[11] = m
  <2>1. \A k \in 1..1 : e[10 + k] = l[k]
    BY <1>12, <1>17, Zenon DEF PartAt
  <2> QED
    BY <1>12, <2>1
<1>21. HalfWord(e, 9) = Quarters(d.subsystems)
  <2>1. PartAt(e, 8, U16(Quarters(d.subsystems)))
    BY <1>9, <1>17, Zenon
  <2>2. HalfWord(e, 8 + 1) = Quarters(d.subsystems)
    BY <1>2, <1>16, <2>1, HalfWordAt, Zenon
  <2> QED
    BY <1>16, <2>2, Zenon
<1> DEFINE r == DecodeHeartbeat(e)
<1>22. /\ r.timestamp = Word(e, 1) /\ r.errorCode = e[5] /\ r.voltage = 10 * e[6]
       /\ r.temperature = 100 * Signed(e[7], 256) /\ r.rxsm = Flags(e[8], 3)
       /\ r.subsystems = QuartersOf(HalfWord(e, 9)) /\ r.lcls = Flags(e[11], 6)
  BY DEF DecodeHeartbeat
<1> HIDE DEF r
<1>23. /\ r.timestamp = d.timestamp /\ r.errorCode = d.errorCode
       /\ r.rxsm = d.rxsm /\ r.subsystems = d.subsystems /\ r.lcls = d.lcls
  BY <1>7, <1>8, <1>2, <1>18, <1>19, <1>20, <1>21, <1>22, ZenonT(40) DEF t
<1>24. /\ Between(-5, r.voltage - Clamped(d.voltage, 0, 2550), 5)
       /\ Between(-50, r.temperature - Clamped(d.temperature, -12800, 12700), 50)
  <2>1. r.voltage = 10 * x /\ r.temperature = 100 * Signed(y, 256)
    BY <1>19, <1>22
  <2> QED
    BY <1>4, <1>5, <2>1
<1>25. Agrees("HEARTBEAT", d, r)
  BY <1>23, <1>24 DEF Agrees
<1>26. \A b : Decoded("HEARTBEAT", b) = DecodeHeartbeat(b) /\ (Valid("HEARTBEAT", b) <=> Len(b) >= 11)
  BY DEF Decoded, Valid, ValidHeartbeat
<1>27. ~RefusedWhole("HEARTBEAT", d)
  BY DEF RefusedWhole
<1> QED
  BY <1>3, <1>15, <1>16, <1>25, <1>26, <1>27, FixedFrame, Zenon DEF r

(* Every kind of frame is right, and what is read of any bytes is in range. *)
LEMMA EveryFrameRight == \A kind \in Kinds : \A d \in DataOf(kind) : FrameRight(kind, d, Encoded(kind, d))
<1> SUFFICES ASSUME NEW kind \in Kinds, NEW d \in DataOf(kind) PROVE FrameRight(kind, d, Encoded(kind, d))
  OBVIOUS
<1>1. CASE kind = "ACK"
  <2>1. DataOf("ACK") = AckData /\ Encoded("ACK", d) = EncodeAck(d)
    BY DEF DataOf, Encoded
  <2> QED
    BY <1>1, <2>1, AckRight, Zenon
<1>2. CASE kind = "BINARY_DATA"
  <2>1. DataOf("BINARY_DATA") = BinaryDataData /\ Encoded("BINARY_DATA", d) = EncodeBinaryData(d)
    BY DEF DataOf, Encoded
  <2> QED
    BY <1>2, <2>1, BinaryDataRight, Zenon
<1>3. CASE kind = "DIRECTORY_ENTRY"
  <2>1. DataOf("DIRECTORY_ENTRY") = DirectoryEntryData /\ Encoded("DIRECTORY_ENTRY", d) = EncodeDirectoryEntry(d)
    BY DEF DataOf, Encoded
  <2> QED
    BY <1>3, <2>1, DirectoryEntryRight, Zenon
<1>4. CASE kind = "ECHO"
  <2>1. DataOf("ECHO") = EchoData /\ Encoded("ECHO", d) = EncodeEcho(d)
    BY DEF DataOf, Encoded
  <2> QED
    BY <1>4, <2>1, EchoRight, Zenon
<1>5. CASE kind = "CALIBRATION"
  <2>1. DataOf("CALIBRATION") = CalibrationData /\ Encoded("CALIBRATION", d) = EncodeCalibration(d)
    BY DEF DataOf, Encoded
  <2> QED
    BY <1>5, <2>1, CalibrationRight, Zenon
<1>6. CASE kind = "DEBUG"
  <2>1. DataOf("DEBUG") = DebugData /\ Encoded("DEBUG", d) = EncodeDebug(d)
    BY DEF DataOf, Encoded
  <2> QED
    BY <1>6, <2>1, DebugRight, Zenon
<1>7. CASE kind = "CLOCK_SYNC"
  <2>1. DataOf("CLOCK_SYNC") = ClockSyncData /\ Encoded("CLOCK_SYNC", d) = EncodeClockSync(d)
    BY DEF DataOf, Encoded
  <2> QED
    BY <1>7, <2>1, ClockSyncRight, Zenon
<1>8. CASE kind = "LCL_RESET"
  <2>1. DataOf("LCL_RESET") = LclResetData /\ Encoded("LCL_RESET", d) = EncodeLclReset(d)
    BY DEF DataOf, Encoded
  <2> QED
    BY <1>8, <2>1, LclResetRight, Zenon
<1>9. CASE kind = "DIRECTORY_LISTING"
  <2>1. DataOf("DIRECTORY_LISTING") = ListingData /\ Encoded("DIRECTORY_LISTING", d) = EncodeListing(d)
    BY DEF DataOf, Encoded
  <2> QED
    BY <1>9, <2>1, ListingRight, Zenon
<1>10. CASE kind = "FILE_DOWNLOAD"
  <2>1. DataOf("FILE_DOWNLOAD") = DownloadData /\ Encoded("FILE_DOWNLOAD", d) = EncodeDownload(d)
    BY DEF DataOf, Encoded
  <2> QED
    BY <1>10, <2>1, DownloadRight, Zenon
<1>11. CASE kind = "STORAGE"
  <2>1. DataOf("STORAGE") = StorageData /\ Encoded("STORAGE", d) = EncodeStorage(d)
    BY DEF DataOf, Encoded
  <2> QED
    BY <1>11, <2>1, StorageRight, Zenon
<1>12. CASE kind = "ADC"
  <2>1. DataOf("ADC") = AdcData /\ Encoded("ADC", d) = EncodeAdc(d)
    BY DEF DataOf, Encoded
  <2> QED
    BY <1>12, <2>1, AdcRight, Zenon
<1>13. CASE kind = "CLOCK_STATUS"
  <2>1. DataOf("CLOCK_STATUS") = ClockStatusData /\ Encoded("CLOCK_STATUS", d) = EncodeClockStatus(d)
    BY DEF DataOf, Encoded
  <2> QED
    BY <1>13, <2>1, ClockStatusRight, Zenon
<1>14. CASE kind = "GMM"
  <2>1. DataOf("GMM") = GmmData /\ Encoded("GMM", d) = EncodeGmm(d)
    BY DEF DataOf, Encoded
  <2> QED
    BY <1>14, <2>1, GmmRight, Zenon
<1>15. CASE kind = "IMU"
  <2>1. DataOf("IMU") = ImuData /\ Encoded("IMU", d) = EncodeImu(d)
    BY DEF DataOf, Encoded
  <2> QED
    BY <1>15, <2>1, ImuRight, Zenon
<1>16. CASE kind = "MAG"
  <2>1. DataOf("MAG") = MagData /\ Encoded("MAG", d) = EncodeMag(d)
    BY DEF DataOf, Encoded
  <2> QED
    BY <1>16, <2>1, MagRight, Zenon
<1>17. CASE kind = "SCM"
  <2>1. DataOf("SCM") = ScmData /\ Encoded("SCM", d) = EncodeScm(d)
    BY DEF DataOf, Encoded
  <2> QED
    BY <1>17, <2>1, ScmRight, Zenon
<1>18. CASE kind = "TEXT_MESSAGE"
  <2>1. DataOf("TEXT_MESSAGE") = TextData /\ Encoded("TEXT_MESSAGE", d) = EncodeText(d)
    BY DEF DataOf, Encoded
  <2> QED
    BY <1>18, <2>1, TextRight, Zenon
<1>19. CASE kind = "HEARTBEAT"
  <2>1. DataOf("HEARTBEAT") = HeartbeatData /\ Encoded("HEARTBEAT", d) = EncodeHeartbeat(d)
    BY DEF DataOf, Encoded
  <2> QED
    BY <1>19, <2>1, HeartbeatRight, Zenon
<1> QED
  BY <1>1, <1>2, <1>3, <1>4, <1>5, <1>6, <1>7, <1>8, <1>9, <1>10, <1>11, <1>12, <1>13, <1>14, <1>15, <1>16, <1>17, <1>18, <1>19 DEF Kinds

LEMMA EveryReadInRange == \A kind \in Kinds : ReadInRange(kind)
<1> SUFFICES ASSUME NEW kind \in Kinds PROVE ReadInRange(kind)
  OBVIOUS
<1>1. CASE kind \in {"STORAGE", "DIRECTORY_LISTING", "FILE_DOWNLOAD", "LCL_RESET", "CALIBRATION", "DEBUG"}
  BY <1>1, StorageRight, ListingRight, DownloadRight, LclResetRight, CalibrationRight, DebugRight, Zenon
<1>2. CASE kind \notin {"STORAGE", "DIRECTORY_LISTING", "FILE_DOWNLOAD", "LCL_RESET", "CALIBRATION", "DEBUG"}
  <2>1. \A r : InRange(kind, r)
    BY <1>2 DEF InRange
  <2> QED
    BY <2>1, Zenon DEF ReadInRange
<1> QED
  BY <1>1, <1>2

LEMMA NothingIsInvalid == \A kind \in Kinds : ~Valid(kind, <<>>)
<1> SUFFICES ASSUME NEW kind \in Kinds PROVE ~Valid(kind, <<>>)
  OBVIOUS
<1>0. Len(<<>>) = 0 /\ MaxPayload \in Nat /\ MaxPayload >= 32
  BY CodecNumbers
<1>1. CASE kind = "ACK"
  <2>1. Valid("ACK", <<>>) <=> ValidAck(<<>>)
    BY DEF Valid
  <2> QED
    BY <1>0, <1>1, <2>1 DEF ValidAck
<1>2. CASE kind = "BINARY_DATA"
  <2>1. Valid("BINARY_DATA", <<>>) <=> ValidBinaryData(<<>>)
    BY DEF Valid
  <2> QED
    BY <1>0, <1>2, <2>1 DEF ValidBinaryData
<1>3. CASE kind = "DIRECTORY_ENTRY"
  <2>1. Valid("DIRECTORY_ENTRY", <<>>) <=> ValidDirectoryEntry(<<>>)
    BY DEF Valid
  <2> QED
    BY <1>0, <1>3, <2>1 DEF ValidDirectoryEntry
<1>4. CASE kind = "ECHO"
  <2>1. Valid("ECHO", <<>>) <=> ValidEcho(<<>>)
    BY DEF Valid
  <2> QED
    BY <1>0, <1>4, <2>1 DEF ValidEcho
<1>5. CASE kind = "CALIBRATION"
  <2>1. Valid("CALIBRATION", <<>>) <=> ValidCalibration(<<>>)
    BY DEF Valid
  <2> QED
    BY <1>0, <1>5, <2>1 DEF ValidCalibration
<1>6. CASE kind = "DEBUG"
  <2>1. Valid("DEBUG", <<>>) <=> ValidDebug(<<>>)
    BY DEF Valid
  <2> QED
    BY <1>0, <1>6, <2>1 DEF ValidDebug
<1>7. CASE kind = "CLOCK_SYNC"
  <2>1. Valid("CLOCK_SYNC", <<>>) <=> ValidClockSync(<<>>)
    BY DEF Valid
  <2> QED
    BY <1>0, <1>7, <2>1 DEF ValidClockSync
<1>8. CASE kind = "LCL_RESET"
  <2>1. Valid("LCL_RESET", <<>>) <=> ValidLclReset(<<>>)
    BY DEF Valid
  <2> QED
    BY <1>0, <1>8, <2>1 DEF ValidLclReset
<1>9. CASE kind = "DIRECTORY_LISTING"
  <2>1. Valid("DIRECTORY_LISTING", <<>>) <=> ValidListing(<<>>)
    BY DEF Valid
  <2> QED
    BY <1>0, <1>9, <2>1 DEF ValidListing
<1>10. CASE kind = "FILE_DOWNLOAD"
  <2>1. Valid("FILE_DOWNLOAD", <<>>) <=> ValidDownload(<<>>)
    BY DEF Valid
  <2> QED
    BY <1>0, <1>10, <2>1 DEF ValidDownload
<1>11. CASE kind = "STORAGE"
  <2>1. Valid("STORAGE", <<>>) <=> ValidStorage(<<>>)
    BY DEF Valid
  <2> QED
    BY <1>0, <1>11, <2>1 DEF ValidStorage
<1>12. CASE kind = "ADC"
  <2>1. Valid("ADC", <<>>) <=> ValidAdc(<<>>)
    BY DEF Valid
  <2> QED
    BY <1>0, <1>12, <2>1 DEF ValidAdc
<1>13. CASE kind = "CLOCK_STATUS"
  <2>1. Valid("CLOCK_STATUS", <<>>) <=> ValidClockStatus(<<>>)
    BY DEF Valid
  <2> QED
    BY <1>0, <1>13, <2>1 DEF ValidClockStatus
<1>14. CASE kind = "GMM"
  <2>1. Valid("GMM", <<>>) <=> ValidGmm(<<>>)
    BY DEF Valid
  <2> QED
    BY <1>0, <1>14, <2>1 DEF ValidGmm
<1>15. CASE kind = "IMU"
  <2>1. Valid("IMU", <<>>) <=> ValidImu(<<>>)
    BY DEF Valid
  <2> QED
    BY <1>0, <1>15, <2>1 DEF ValidImu
<1>16. CASE kind = "MAG"
  <2>1. Valid("MAG", <<>>) <=> ValidMag(<<>>)
    BY DEF Valid
  <2> QED
    BY <1>0, <1>16, <2>1 DEF ValidMag
<1>17. CASE kind = "SCM"
  <2>1. Valid("SCM", <<>>) <=> ValidScm(<<>>)
    BY DEF Valid
  <2> QED
    BY <1>0, <1>17, <2>1 DEF ValidScm
<1>18. CASE kind = "TEXT_MESSAGE"
  <2>1. Valid("TEXT_MESSAGE", <<>>) <=> ValidText(<<>>)
    BY DEF Valid
  <2> QED
    BY <1>0, <1>18, <2>1 DEF ValidText
<1>19. CASE kind = "HEARTBEAT"
  <2>1. Valid("HEARTBEAT", <<>>) <=> ValidHeartbeat(<<>>)
    BY DEF Valid
  <2> QED
    BY <1>0, <1>19, <2>1 DEF ValidHeartbeat
<1> QED
  BY <1>1, <1>2, <1>3, <1>4, <1>5, <1>6, <1>7, <1>8, <1>9, <1>10, <1>11, <1>12, <1>13, <1>14, <1>15, <1>16, <1>17, <1>18, <1>19 DEF Kinds

(* What is read of the first bytes of the buffer.                        *)
LEMMA BufferedIs ==
    ASSUME NEW e \in Seq(Byte), NEW n \in Int, n <= MaxPayload
    PROVE  /\ Field(Buffered(e), 1, n) \in Seq(Byte)
           /\ n >= 0 => Len(Field(Buffered(e), 1, n)) = n
           /\ n = Len(e) => Field(Buffered(e), 1, n) = e
<1> DEFINE b == Buffered(e)
           f == Field(b, 1, n)
<1>0. MaxPayload \in Nat
  BY CodecNumbers
<1>1. \A k \in 1..MaxPayload : b[k] \in Byte /\ (k <= Len(e) => b[k] = e[k])
  <2> TAKE k \in 1..MaxPayload
  <2>1. b[k] = IF k <= Len(e) THEN e[k] ELSE Stale
    BY Zenon DEF Buffered
  <2>2. Stale \in Byte
    BY DEF Stale, Byte
  <2>3. CASE k <= Len(e)
    <3>1. k \in 1..Len(e)
      BY <1>0, <2>3
    <3> QED
      BY <2>1, <2>3, <3>1, ElementOfSeq
  <2>4. CASE ~(k <= Len(e))
    BY <2>1, <2>2, <2>4, Zenon
  <2> QED
    BY <2>3, <2>4
<1> HIDE DEF b
<1>2. f = [k \in 1..n |-> b[1 + k - 1]]
  BY DEF Field
<1>3. \A k \in 1..n : 1 + k - 1 = k /\ k \in 1..MaxPayload
  BY <1>0
<1>4. f = [k \in 1..n |-> b[k]]
  BY <1>2, <1>3
<1> HIDE DEF f
<1>5. CASE n >= 0
  <2>1. n \in Nat
    BY <1>5
  <2>2. \A k \in 1..n : b[k] \in Byte
    BY <1>1, <1>3, Zenon
  <2>3. f \in [1..n -> Byte]
    BY <1>4, <2>2, Zenon
  <2>4. f \in Seq(Byte) /\ Len(f) = n
    BY <2>1, <2>3, SequenceOf, Zenon
  <2>5. ASSUME n = Len(e) PROVE f = e
    <3>1. \A k \in 1..Len(e) : b[k] = e[k]
      BY <1>0, <1>1, <1>3, <2>5
    <3>2. f = [k \in 1..Len(e) |-> e[k]]
      BY <1>4, <2>5, <3>1, Zenon
    <3> QED
      BY <3>2, SeqIsItself
  <2> QED
    BY <2>4, <2>5 DEF f, b
<1>6. CASE n < 0
  <2>1. 1..n = {} /\ 1..0 = {}
    BY <1>6
  <2>2. f = [k \in 1..0 |-> b[k]]
    BY <1>4, <2>1, Zenon
  <2>3. f \in [1..0 -> Byte]
    BY <2>1, <2>2
  <2>4. f \in Seq(Byte)
    BY <2>3
  <2>5. Len(e) \in Nat
    OBVIOUS
  <2> QED
    BY <1>6, <2>4, <2>5 DEF f, b
<1> QED
  BY <1>5, <1>6

(* The invariant: the buffer holds the frame that was sent, and what was *)
(* read is the reading of the bytes that have arrived.                   *)
Sent(kind, d) ==
    /\ frame = [kind |-> kind, data |-> d, bytes |-> Len(Encoded(kind, d))]
    /\ buffer = Buffered(Encoded(kind, d))
    /\ received \in Int /\ received <= MaxPayload
    /\ read = Unread \/ read = Reading(kind, Field(buffer, 1, received))

CodecInv ==
    \/ frame = Nothing /\ read = Unread
    \/ \E kind \in Kinds : \E d \in DataOf(kind) : Sent(kind, d)

LEMMA CodecInvInit == CodecInit => CodecInv
BY DEF CodecInit, CodecInv

LEMMA CodecInvNext == CodecInv /\ [CodecNext]_codecVars => CodecInv'
<1> SUFFICES ASSUME CodecInv, [CodecNext]_codecVars PROVE CodecInv'
  OBVIOUS
<1>1. CASE SendFrame
  <2>1. read = Unread
    <3>1. ASSUME NEW kind \in Kinds, NEW d, Sent(kind, d) PROVE FALSE
      <4>1. frame.kind = kind /\ Nothing.kind = "none"
        BY <3>1 DEF Sent, Nothing
      <4>2. kind # "none"
        BY DEF Kinds
      <4> QED
        BY <1>1, <4>1, <4>2, Zenon DEF SendFrame
    <3> QED
      BY <3>1, Zenon DEF CodecInv
  <2>0. PICK kind \in Kinds : \E d \in FrameData[kind] :
          \E n \in {0, Len(Encoded(kind, d)) - 1, Len(Encoded(kind, d)), Len(Encoded(kind, d)) + 1} :
               /\ n <= MaxPayload
               /\ frame' = [kind |-> kind, data |-> d, bytes |-> Len(Encoded(kind, d))]
               /\ received' = n
               /\ buffer' = Buffered(Encoded(kind, d))
    BY <1>1, Zenon DEF SendFrame
  <2>2. PICK d \in FrameData[kind] :
          \E n \in {0, Len(Encoded(kind, d)) - 1, Len(Encoded(kind, d)), Len(Encoded(kind, d)) + 1} :
               /\ n <= MaxPayload
               /\ frame' = [kind |-> kind, data |-> d, bytes |-> Len(Encoded(kind, d))]
               /\ received' = n
               /\ buffer' = Buffered(Encoded(kind, d))
    BY <2>0, Zenon
  <2>3. d \in DataOf(kind)
    BY FrameDataAssumption, Zenon
  <2>4. Encoded(kind, d) \in Seq(Byte)
    BY <2>3, EveryFrameRight, Zenon DEF FrameRight
  <2>5. Len(Encoded(kind, d)) \in Nat
    BY <2>4
  <2>6. received' \in Int /\ received' <= MaxPayload
    BY <2>2, <2>5
  <2>7. read' = Unread
    BY <1>1, <2>1, Zenon DEF SendFrame
  <2>8. Sent(kind, d)'
    BY <2>2, <2>6, <2>7, Zenon DEF Sent
  <2> QED
    BY <2>3, <2>8, Zenon DEF CodecInv
<1>2. CASE ReadFrame
  <2>0. PICK kind \in Kinds : \E d \in DataOf(kind) : Sent(kind, d)
    BY <1>2, Zenon DEF CodecInv, ReadFrame
  <2>1. PICK d \in DataOf(kind) : Sent(kind, d)
    BY <2>0, Zenon
  <2>2. frame.kind = kind
    BY <2>1 DEF Sent
  <2>3. read' = Reading(kind, Field(buffer, 1, received))
    BY <1>2, <2>2, Zenon DEF ReadFrame
  <2>4. Sent(kind, d)'
    BY <1>2, <2>1, <2>3, Zenon DEF Sent, ReadFrame
  <2> QED
    BY <2>4, Zenon DEF CodecInv
<1>3. CASE UNCHANGED codecVars
  <2>1. frame' = frame /\ buffer' = buffer /\ received' = received /\ read' = read
    BY <1>3 DEF codecVars
  <2> QED
    BY <2>1, Zenon DEF CodecInv, Sent
<1> QED
  BY <1>1, <1>2, <1>3 DEF CodecNext

LEMMA ReadingIs ==
    ASSUME NEW kind, NEW b
    PROVE  /\ Reading(kind, b) = Refused <=> ~Valid(kind, b)
           /\ Valid(kind, b) => Reading(kind, b).data = Decoded(kind, b)
<1>1. Refused.verdict = "refused" /\ Accepted(Decoded(kind, b)).verdict = "accepted"
      /\ Accepted(Decoded(kind, b)).data = Decoded(kind, b)
  BY DEF Refused, Accepted
<1>2. Accepted(Decoded(kind, b)) # Refused
  BY <1>1
<1> QED
  BY <1>1, <1>2, Zenon DEF Reading

LEMMA CodecInvAgrees == CodecInv => FramesAgree
<1> SUFFICES ASSUME CodecInv, frame # Nothing, read # Unread
             PROVE  /\ received = frame.bytes =>
                         IF RefusedWhole(frame.kind, frame.data) THEN read = Refused
                         ELSE read # Refused /\ Agrees(frame.kind, frame.data, read.data)
                    /\ frame.kind \notin VariableLength => (read = Refused <=> received < frame.bytes)
                    /\ read # Refused => InRange(frame.kind, read.data)
  BY Zenon DEF FramesAgree
<1>0. PICK kind \in Kinds : \E d \in DataOf(kind) : Sent(kind, d)
  BY Zenon DEF CodecInv
<1>1. PICK d \in DataOf(kind) : Sent(kind, d)
  BY <1>0, Zenon
<1> DEFINE e == Encoded(kind, d)
           b == Field(Buffered(e), 1, received)
<1>2. frame.kind = kind /\ frame.data = d /\ frame.bytes = Len(e) /\ received \in Int /\ received <= MaxPayload
  BY <1>1 DEF Sent
<1>3. read = Reading(kind, b)
  BY <1>1, Zenon DEF Sent
<1>4. FrameRight(kind, d, e)
  BY EveryFrameRight, Zenon
<1>5. e \in Seq(Byte)
  BY <1>4, Zenon DEF FrameRight
<1> HIDE DEF e
<1>6. b \in Seq(Byte) /\ (received >= 0 => Len(b) = received) /\ (received = Len(e) => b = e)
  BY <1>2, <1>5, BufferedIs, Zenon
<1> HIDE DEF b
<1>7. (read = Refused <=> ~Valid(kind, b)) /\ (Valid(kind, b) => read.data = Decoded(kind, b))
  BY <1>3, ReadingIs, Zenon
<1>8. received = Len(e) =>
         IF RefusedWhole(kind, d) THEN read = Refused ELSE read # Refused /\ Agrees(kind, d, read.data)
  BY <1>4, <1>6, <1>7, Zenon DEF FrameRight
<1>9. kind \notin VariableLength => (read = Refused <=> received < Len(e))
  <2> SUFFICES ASSUME kind \notin VariableLength PROVE read = Refused <=> received < Len(e)
    OBVIOUS
  <2>1. \A c \in Seq(Byte) : Valid(kind, c) <=> Len(c) >= Len(e)
    BY <1>4, Zenon DEF FrameRight
  <2>2. <<>> \in Seq(Byte) /\ Len(<<>>) = 0 /\ Len(e) \in Nat /\ Len(b) \in Nat
    BY <1>5, <1>6
  <2>3. Len(e) > 0
    <3>1. ~(Len(<<>>) >= Len(e))
      BY <2>1, <2>2, NothingIsInvalid, Zenon
    <3> QED
      BY <2>2, <3>1
  <2>4. CASE received >= 0
    BY <1>2, <1>6, <1>7, <2>1, <2>2, <2>4
  <2>5. CASE received < 0
    <3>1. b = <<>>
      <4>1. 1..received = 1..0
        BY <1>2, <2>5
      <4>2. b = [k \in 1..received |-> Buffered(e)[1 + k - 1]]
        BY DEF b, Field
      <4> QED
        BY <2>5, <1>2, <4>1, <4>2
    <3>2. ~Valid(kind, b)
      BY <3>1, NothingIsInvalid, Zenon
    <3> QED
      BY <1>2, <1>7, <2>2, <2>5, <3>2
  <2> QED
    BY <1>2, <2>4, <2>5
<1>10. read # Refused => InRange(kind, read.data)
  BY <1>6, <1>7, EveryReadInRange, Zenon DEF ReadInRange
<1> QED
  BY <1>2, <1>8, <1>9, <1>10, Zenon

---------------------------------------------------------------------------
(* Text messages.  A task between its lock and its unlock has the mutex and *)
(* its text in the buffer of the logger.  If it is alone, whoever else is*)
(* in a call waits for the same mutex, so the shared payload is its own. *)
Holding == {"header", "text", "send", "record", "unlock"}
CallPlaces == Holding \cup {"idle", "lock", "returned"}

HoldersApart ==
    \A t \in LogTasks : logCall[t].at \in Holding =>
        loggerMutex[logCall[t].logger] = t /\ loggerBuf[logCall[t].logger] = t

AloneTogether ==
    \A t, u \in LogTasks :
        Calling(t) /\ Calling(u) /\ logCall[t].alone => logCall[u].logger = logCall[t].logger

PayloadOf(t) ==
    logCall[t].alone =>
        /\ logCall[t].at \in {"text", "send"} => sharedPayload.header = logCall[t].logger
        /\ logCall[t].at = "send" => sharedPayload.text = t
        /\ logCall[t].at \in {"record", "unlock", "returned"} => Intact(t)

MessagesInv ==
    /\ logCall \in [LogTasks -> [at : CallPlaces, logger : Loggers \cup {NoText}, alone : BOOLEAN]]
    /\ \A t \in LogTasks : Calling(t) => logCall[t].logger \in Loggers
    /\ loggerMutex \in [Loggers -> LogTasks \cup {NoLogTask}]
    /\ loggerBuf \in [Loggers -> LogTasks \cup {NoLogTask}]
    /\ sharedPayload \in [header : Loggers \cup {NoText}, text : LogTasks \cup {NoLogTask}]
    /\ arrived \in [LogTasks -> [sent : [header : Loggers \cup {NoText}, text : LogTasks \cup {NoLogTask}],
                                 record : LogTasks \cup {NoLogTask}]]
    /\ HoldersApart
    /\ AloneTogether
    /\ \A t \in LogTasks : PayloadOf(t)
    /\ \A t \in LogTasks : arrived[t].record \in {t, NoLogTask}

LEMMA MessagesInvInit == MessagesInit => MessagesInv
BY LogMessagesAssumption
   DEF MessagesInit, MessagesInv, NotCalling, CallPlaces, Holding, Calling, HoldersApart,
       AloneTogether, PayloadOf

LEMMA MessagesInvNext == MessagesInv /\ [MessagesNext]_messageVars => MessagesInv'
<1> SUFFICES ASSUME MessagesInv, [MessagesNext]_messageVars PROVE MessagesInv'
  OBVIOUS
<1> USE LogMessagesAssumption DEF Holding, CallPlaces, Calling
<1>1. ASSUME NEW t \in LogTasks, NEW l \in Loggers, CallLogger(t, l) PROVE MessagesInv'
  <2> DEFINE called == [at |-> "lock", logger |-> l, alone |-> \A u \in LogTasks : Calling(u) => logCall[u].logger = l]
             Seen(u) == IF Calling(u) /\ logCall[u].logger # l THEN [logCall[u] EXCEPT !.alone = FALSE]
                        ELSE logCall[u]
  <2>1. logCall' = [u \in LogTasks |-> IF u = t THEN called ELSE Seen(u)]
    BY <1>1 DEF CallLogger
  <2>2. /\ UNCHANGED <<loggerMutex, loggerBuf, sharedPayload, arrived>> /\ ~Calling(t)
    BY <1>1 DEF CallLogger
  <2>3. logCall'[t] = called /\ \A u \in LogTasks \ {t} : logCall'[u] = Seen(u)
    BY <2>1
  <2>4. ASSUME NEW u \in LogTasks \ {t}
        PROVE  /\ logCall'[u].at = logCall[u].at /\ logCall'[u].logger = logCall[u].logger
               /\ logCall'[u].alone => logCall[u].alone /\ (Calling(u) => logCall[u].logger = l)
               /\ logCall'[u] \in [at : CallPlaces, logger : Loggers \cup {NoText}, alone : BOOLEAN]
    <3>1. logCall[u] \in [at : CallPlaces, logger : Loggers \cup {NoText}, alone : BOOLEAN]
      BY DEF MessagesInv
    <3>2. logCall'[u] = Seen(u)
      BY <2>3
    <3>3. CASE Calling(u) /\ logCall[u].logger # l
      <4>1. logCall'[u] = [logCall[u] EXCEPT !.alone = FALSE]
        BY <3>2, <3>3
      <4> QED
        BY <3>1, <4>1
    <3>4. CASE ~(Calling(u) /\ logCall[u].logger # l)
      <4>1. logCall'[u] = logCall[u]
        BY <3>2, <3>4
      <4> QED
        BY <3>1, <3>4, <4>1
    <3> QED
      BY <3>3, <3>4
  <2>5. called.alone \in BOOLEAN /\ called \in [at : CallPlaces, logger : Loggers \cup {NoText}, alone : BOOLEAN]
    OBVIOUS
  <2> HIDE DEF Seen
  <2>6. logCall' \in [LogTasks -> [at : CallPlaces, logger : Loggers \cup {NoText}, alone : BOOLEAN]]
    BY <2>1, <2>3, <2>4, <2>5
  <2>7. \A u \in LogTasks : Calling(u)' => logCall'[u].logger \in Loggers
    <3>1. ASSUME NEW u \in LogTasks, Calling(u)' PROVE logCall'[u].logger \in Loggers
      <4>1. CASE u = t
        BY <2>3, <4>1
      <4>2. CASE u # t
        BY <2>4, <3>1, <4>2 DEF MessagesInv
      <4> QED
        BY <4>1, <4>2
    <3> QED
      BY <3>1
  <2>8. HoldersApart'
    BY <2>2, <2>3, <2>4 DEF MessagesInv, HoldersApart
  <2>9. AloneTogether'
    BY <2>2, <2>3, <2>4 DEF MessagesInv, AloneTogether
  <2>10. \A u \in LogTasks : PayloadOf(u)'
    BY <2>2, <2>3, <2>4 DEF MessagesInv, PayloadOf, Intact
  <2> QED
    BY <2>2, <2>6, <2>7, <2>8, <2>9, <2>10 DEF MessagesInv
<1>2. ASSUME NEW t \in LogTasks, Format(t) PROVE MessagesInv'
  BY <1>2, SMTT(30) DEF MessagesInv, Format, Goes, HoldersApart, AloneTogether, PayloadOf, Intact
<1>3. ASSUME NEW t \in LogTasks, EncodeHeader(t) PROVE MessagesInv'
  BY <1>3, SMTT(30) DEF MessagesInv, EncodeHeader, Goes, HoldersApart, AloneTogether, PayloadOf, Intact
<1>4. ASSUME NEW t \in LogTasks, CopyText(t) PROVE MessagesInv'
  BY <1>4, SMTT(30) DEF MessagesInv, CopyText, Goes, HoldersApart, AloneTogether, PayloadOf, Intact
<1>5. ASSUME NEW t \in LogTasks, SendText(t) PROVE MessagesInv'
  BY <1>5, SMTT(30) DEF MessagesInv, SendText, Goes, HoldersApart, AloneTogether, PayloadOf, Intact
<1>6. ASSUME NEW t \in LogTasks, RecordText(t) PROVE MessagesInv'
  <2>1. loggerBuf[logCall[t].logger] = t
    BY <1>6 DEF RecordText, MessagesInv, HoldersApart
  <2>2. /\ arrived' \in [LogTasks -> [sent : [header : Loggers \cup {NoText}, text : LogTasks \cup {NoLogTask}],
                                       record : LogTasks \cup {NoLogTask}]]
        /\ \A u \in LogTasks : arrived'[u].sent = arrived[u].sent /\ arrived'[u].record \in {u, NoLogTask}
    <3>1. CASE arrived' = [arrived EXCEPT ![t].record = t]
      BY <3>1 DEF MessagesInv
    <3>2. CASE UNCHANGED arrived
      BY <3>2 DEF MessagesInv
    <3> QED
      BY <1>6, <2>1, <3>1, <3>2 DEF RecordText
  <2>3. /\ logCall' = [logCall EXCEPT ![t].at = "unlock"] /\ logCall[t].at = "record"
        /\ UNCHANGED <<loggerMutex, loggerBuf, sharedPayload>>
    BY <1>6 DEF RecordText, Goes
  <2> QED
    BY <2>2, <2>3, SMTT(30) DEF MessagesInv, HoldersApart, AloneTogether, PayloadOf, Intact
<1>7. ASSUME NEW t \in LogTasks, UnlockLogger(t) PROVE MessagesInv'
  BY <1>7, SMTT(30) DEF MessagesInv, UnlockLogger, Goes, HoldersApart, AloneTogether, PayloadOf, Intact
<1>8. ASSUME NEW t \in LogTasks, LeaveLogger(t) PROVE MessagesInv'
  BY <1>8, SMTT(30) DEF MessagesInv, LeaveLogger, NotCalling, HoldersApart, AloneTogether, PayloadOf, Intact
<1>9. CASE UNCHANGED messageVars
  BY <1>9 DEF MessagesInv, messageVars, HoldersApart, AloneTogether, PayloadOf, Intact
<1> QED
  BY <1>1, <1>2, <1>3, <1>4, <1>5, <1>6, <1>7, <1>8, <1>9 DEF MessagesNext, LogStep

LEMMA TextsIntactHolds == MessagesInv => TextsIntact
BY DEF MessagesInv, PayloadOf, TextsIntact

(* For any tasks and loggers: no record has the text of another task, and*)
(* a message of a task that no other logger disturbs is sent as logged.  *)
THEOREM MessagesIntact == MessagesSpec => []TextsIntact
BY TextsIntactHolds, MessagesInvInit, MessagesInvNext, PTL DEF MessagesSpec

---------------------------------------------------------------------------
(* All that is received as telemetry: the sessions of MCGround keep both *)
(* invariants, because a session leaves the variables of the others alone. *)
MessagesKept == CodecInv /\ MessagesInv

LEMMA MessagesKeptInit == GroundInit => MessagesKept
BY CodecInvInit, MessagesInvInit, Zenon DEF GroundInit, MessagesKept

LEMMA MessagesKeptNext == MessagesKept /\ [GroundNext]_groundVars => MessagesKept'
<1> SUFFICES ASSUME MessagesKept, [GroundNext]_groundVars PROVE MessagesKept'
  OBVIOUS
<1>1. [CodecNext]_codecVars
  <2>1. CASE UNCHANGED groundVars
    <3>1. UNCHANGED codecVars
      BY <2>1 DEF groundVars
    <3> QED
      BY <3>1
  <2>2. CASE \E s \in {"reports", "texts", "debug"} : Only(s)
    <3>1. UNCHANGED codecVars
      BY <2>2, Zenon DEF Only
    <3> QED
      BY <3>1
  <2> QED
    BY <2>1, <2>2, Zenon DEF GroundNext
<1>2. [MessagesNext]_messageVars
  <2>1. CASE UNCHANGED groundVars
    <3>1. UNCHANGED messageVars
      BY <2>1 DEF groundVars
    <3> QED
      BY <3>1
  <2>2. CASE \E s \in {"reports", "frames", "debug"} : Only(s)
    <3>1. UNCHANGED messageVars
      BY <2>2, Zenon DEF Only
    <3> QED
      BY <3>1
  <2> QED
    BY <2>1, <2>2, Zenon DEF GroundNext
<1> QED
  BY <1>1, <1>2, CodecInvNext, MessagesInvNext, Zenon DEF MessagesKept

(* For any data the code may send, any payload of 32 to 255 bytes and any*)
(* largest length of a download: a whole frame of each of the 19 kinds is*)
(* read as it was written, as exactly as its unit allows, one of fixed   *)
(* length that is cut off is refused, and no request that is accepted is *)
(* out of range; and, for any tasks and loggers, TextsIntact.            *)
THEOREM MessagesCorrect == GroundSpec => []MessagesRight
<1>1. MessagesKept => MessagesRight
  BY CodecInvAgrees, TextsIntactHolds, Zenon DEF MessagesKept, MessagesRight
<1> QED
  BY <1>1, MessagesKeptInit, MessagesKeptNext, PTL DEF GroundSpec

(* The frames alone.                                                     *)
THEOREM FramesCorrect == CodecSpec => []FramesAgree
BY CodecInvInit, CodecInvNext, CodecInvAgrees, PTL DEF CodecSpec

---------------------------------------------------------------------------
(* Periodic reports.  The passes since a report was due are behind its counter, *)
(* by one at most while the task has not come to its line in this pass.  *)
PassPlaces == {"sleep", "load", "store", "check", "collect", "record"}

Ahead(j) == pass.at # "sleep" /\ (j > pass.i \/ (j = pass.i /\ pass.at \in {"load", "store"}))

InStep(j) ==
    LET k == Kind(j) IN
    /\ passes[k] <= Period[k]
    /\ Ahead(j) => passes[k] <= counter[k] + 1
    /\ ~Ahead(j) => passes[k] <= counter[k]
    /\ ~Ahead(j) /\ ~(pass.at = "check" /\ j = pass.i) => passes[k] < Period[k]
    /\ pass.at = "store" /\ j = pass.i => passes[k] <= pass.loaded + 1 /\ pass.loaded <= Period[k]
    /\ ~(pass.at = "check" /\ j = pass.i) => counter[k] <= Period[k]
    /\ counter[k] <= Period[k] + 1

(* A request that is not lost is in the counter, or in what was loaded   *)
(* from it, until the report is collected.                               *)
SoonInCounter ==
    wanted = "soon" =>
        /\ counter["clock"] >= Period["clock"] \/ (pass.at = "collect" /\ Entry = "clock")
        /\ pass.at = "store" /\ Entry = "clock" => pass.loaded >= Period["clock"]

ReportsInv ==
    /\ pass \in [at : PassPlaces, i : Nat, loaded : Nat, lcl : BOOLEAN]
    /\ pass.at # "sleep" => pass.i \in 1 .. Len(Reports)
    /\ pass.at = "sleep" => pass.i = 0
    /\ counter \in [ReportKinds -> Nat] /\ passes \in [ReportKinds -> Nat]
    /\ wanted \in {"no", "soon", "lost"} /\ lclTriggered \in BOOLEAN
    /\ \A j \in 1 .. Len(Reports) : InStep(j)
    /\ SoonInCounter
    /\ LclsRecorded

LEMMA Table ==
    /\ Len(Reports) \in Nat \ {0}
    /\ ReportKinds = {Kind(i) : i \in 1 .. Len(Reports)}
    /\ \A i, j \in 1 .. Len(Reports) : Kind(i) = Kind(j) => i = j
    /\ \A i \in 1 .. Len(Reports) : Kind(i) \in ReportKinds
    /\ \A k \in ReportKinds : Period[k] \in Nat \ {0}
    /\ {"heartbeat", "clock"} \subseteq ReportKinds
<1>1. Len(Reports) \in Nat /\ DOMAIN Reports = 1 .. Len(Reports)
  BY ReportsAssumption DEF ReportsAssumption
<1>2. ReportKinds = {Kind(i) : i \in 1 .. Len(Reports)}
  BY <1>1 DEF ReportKinds
<1> QED
  BY <1>1, <1>2, ReportsAssumption, SMTT(30) DEF ReportsAssumption

LEMMA LineFacts ==
    ASSUME ReportsInv, NEW j \in 1 .. Len(Reports)
    PROVE  /\ j \in Nat /\ Kind(j) \in ReportKinds
           /\ passes[Kind(j)] \in Nat /\ counter[Kind(j)] \in Nat /\ Period[Kind(j)] \in Nat \ {0}
           /\ pass.i \in Nat /\ pass.loaded \in Nat /\ InStep(j)
BY Table DEF ReportsInv

LEMMA EntryFacts ==
    ASSUME ReportsInv, pass.at # "sleep"
    PROVE  /\ Entry \in ReportKinds /\ Entry = Kind(pass.i) /\ pass.i \in 1 .. Len(Reports)
           /\ passes[Entry] \in Nat /\ counter[Entry] \in Nat /\ Period[Entry] \in Nat \ {0}
           /\ InStep(pass.i)
BY Table DEF ReportsInv, Entry

LEMMA ReportsInvInit == ReportsInit => ReportsInv
<1> SUFFICES ASSUME ReportsInit PROVE ReportsInv
  OBVIOUS
<1>1. ASSUME NEW j \in 1 .. Len(Reports) PROVE InStep(j)
  <2>1. ~Ahead(j) /\ pass.at = "sleep"
    BY DEF ReportsInit, Asleep, Ahead
  <2>2. counter[Kind(j)] = 0 /\ passes[Kind(j)] = 0 /\ Period[Kind(j)] \in Nat \ {0}
    BY Table DEF ReportsInit
  <2> QED
    BY <2>1, <2>2 DEF InStep
<1>2. SoonInCounter /\ LclsRecorded
  BY DEF ReportsInit, SoonInCounter, LclsRecorded
<1> QED
  BY <1>1, <1>2 DEF ReportsInit, ReportsInv, Asleep, PassPlaces

(* Going on to the next line changes no counter.                         *)
LEMMA NextEntryKeeps ==
    ASSUME ReportsInv, NextEntry, UNCHANGED <<counter, passes>>,
           pass.at \in {"check", "collect", "record"},
           pass.at = "check" => counter[Entry] < Period[Entry]
    PROVE  /\ pass' \in [at : PassPlaces, i : Nat, loaded : Nat, lcl : BOOLEAN]
           /\ pass'.at # "sleep" => pass'.i \in 1 .. Len(Reports)
           /\ pass'.at = "sleep" => pass'.i = 0
           /\ pass'.at \in {"sleep", "load"}
           /\ \A j \in 1 .. Len(Reports) : InStep(j)'
<1>1. pass.i \in 1 .. Len(Reports) /\ Len(Reports) \in Nat
  BY Table DEF ReportsInv
<1>2. CASE pass.i = Len(Reports)
  <2>1. pass' = Asleep
    BY <1>2 DEF NextEntry
  <2>2. ASSUME NEW j \in 1 .. Len(Reports) PROVE InStep(j)'
    <3>1. ~Ahead(j)'
      BY <2>1 DEF Ahead, Asleep
    <3>2. pass'.at = "sleep"
      BY <2>1 DEF Asleep
    <3>3. pass.at # "sleep" /\ pass.at # "store" /\ ~Ahead(j)
      BY <1>1, <1>2, LineFacts DEF Ahead
    <3>4. j = pass.i /\ pass.at = "check" => counter[Kind(j)] < Period[Kind(j)]
      BY EntryFacts, <3>3
    <3> QED
      BY <3>1, <3>2, <3>3, <3>4, LineFacts DEF InStep
  <2> QED
    BY <2>1, <2>2 DEF Asleep, PassPlaces
<1>3. CASE pass.i # Len(Reports)
  <2>1. pass' = [at |-> "load", i |-> pass.i + 1, loaded |-> 0, lcl |-> FALSE]
    BY <1>3 DEF NextEntry, Asleep
  <2>2. ASSUME NEW j \in 1 .. Len(Reports) PROVE InStep(j)'
    <3>1. Ahead(j)' <=> j > pass.i
      BY <1>1, <2>1 DEF Ahead
    <3>2. pass'.at = "load"
      BY <2>1
    <3>3. pass.at # "sleep" /\ pass.at # "store" /\ (Ahead(j) <=> j > pass.i)
      BY DEF Ahead
    <3>4. j = pass.i /\ pass.at = "check" => counter[Kind(j)] < Period[Kind(j)]
      BY EntryFacts, <3>3
    <3> QED
      BY <3>1, <3>2, <3>3, <3>4, LineFacts DEF InStep
  <2> QED
    BY <1>1, <1>3, <2>1, <2>2 DEF PassPlaces
<1> QED
  BY <1>2, <1>3

LEMMA ReportsInvNext == ReportsInv /\ [ReportsNext]_reportVars => ReportsInv'
<1> SUFFICES ASSUME ReportsInv, [ReportsNext]_reportVars PROVE ReportsInv'
  OBVIOUS
<1>0. /\ pass.at # "sleep" => Entry \in ReportKinds
      /\ SoonInCounter /\ counter["clock"] \in Nat /\ Period["clock"] \in Nat
  BY EntryFacts, Table DEF ReportsInv
<1>1. CASE StartPass
  <2>1. pass' = [at |-> "load", i |-> 1, loaded |-> 0, lcl |-> FALSE]
    BY <1>1 DEF StartPass, Asleep
  <2>2. ASSUME NEW j \in 1 .. Len(Reports) PROVE InStep(j)'
    <3>1. pass.at = "sleep" /\ passes'[Kind(j)] = passes[Kind(j)] + 1 /\ counter' = counter
      BY <1>1, LineFacts DEF StartPass
    <3>2. Ahead(j)' /\ ~Ahead(j) /\ pass'.at = "load"
      BY <2>1, <3>1, LineFacts DEF Ahead
    <3> QED
      BY <3>1, <3>2, LineFacts DEF InStep
  <2>3. SoonInCounter'
    BY <1>0, <1>1, <2>1 DEF StartPass, SoonInCounter
  <2>4. passes' \in [ReportKinds -> Nat]
    BY <1>1 DEF StartPass, ReportsInv
  <2>5. pass' \in [at : PassPlaces, i : Nat, loaded : Nat, lcl : BOOLEAN] /\ 1 \in 1 .. Len(Reports)
    BY <2>1, Table DEF PassPlaces
  <2> QED
    BY <1>1, <2>1, <2>2, <2>3, <2>4, <2>5 DEF StartPass, ReportsInv, LclsRecorded
<1>2. CASE LoadCounter
  <2>1. pass' = [at |-> "store", i |-> pass.i, loaded |-> counter[Entry], lcl |-> pass.lcl]
    BY <1>2 DEF LoadCounter, ReportsInv
  <2>2. ASSUME NEW j \in 1 .. Len(Reports) PROVE InStep(j)'
    <3>1. pass.at = "load" /\ UNCHANGED <<passes, counter>>
      BY <1>2 DEF LoadCounter
    <3>2. (Ahead(j)' <=> Ahead(j)) /\ pass'.at = "store" /\ pass'.i = pass.i /\ pass'.loaded = counter[Entry]
      BY <2>1, <3>1 DEF Ahead
    <3>3. j = pass.i => Ahead(j) /\ Entry = Kind(j)
      BY <3>1, EntryFacts DEF Ahead
    <3> QED
      BY <3>1, <3>2, <3>3, LineFacts DEF InStep
  <2>3. SoonInCounter'
    BY <1>2, <2>1 DEF LoadCounter, ReportsInv, SoonInCounter, Entry
  <2>4. counter[Entry] \in Nat
    BY <1>0, <1>2 DEF LoadCounter, ReportsInv
  <2> QED
    BY <1>2, <2>1, <2>2, <2>3, <2>4 DEF LoadCounter, ReportsInv, PassPlaces, LclsRecorded
<1>3. CASE StoreCounter
  <2>1. pass' = [at |-> "check", i |-> pass.i, loaded |-> 0, lcl |-> pass.lcl]
    BY <1>3 DEF StoreCounter, ReportsInv
  <2>2. /\ counter' \in [ReportKinds -> Nat] /\ counter'[Entry] = pass.loaded + 1
        /\ \A k \in ReportKinds : k # Entry => counter'[k] = counter[k]
    BY <1>0, <1>3 DEF StoreCounter, ReportsInv
  <2>3. ASSUME NEW j \in 1 .. Len(Reports) PROVE InStep(j)'
    <3>1. pass.at = "store" /\ UNCHANGED passes
      BY <1>3 DEF StoreCounter
    <3>2. pass'.at = "check" /\ pass'.i = pass.i
      BY <2>1
    <3>3. CASE j = pass.i
      <4>1. Kind(j) = Entry /\ Ahead(j) /\ ~Ahead(j)'
        BY <3>1, <3>2, <3>3, EntryFacts DEF Ahead
      <4> QED
        BY <2>2, <3>1, <3>2, <3>3, <4>1, LineFacts DEF InStep
    <3>4. CASE j # pass.i
      <4>1. Kind(j) # Entry
        BY <3>1, <3>4, EntryFacts, Table
      <4>2. Ahead(j)' <=> Ahead(j)
        BY <3>1, <3>2, <3>4, LineFacts DEF Ahead
      <4> QED
        BY <2>2, <3>1, <3>2, <3>4, <4>1, <4>2, LineFacts DEF InStep
    <3> QED
      BY <3>3, <3>4
  <2>4. SoonInCounter'
    <3>1. CASE Entry = "clock"
      <4>1. pass.at = "store" /\ pass'.at = "check" /\ wanted' = wanted
        BY <1>3, <2>1 DEF StoreCounter
      <4>2. counter'["clock"] = pass.loaded + 1 /\ pass.loaded \in Nat
        BY <2>2, <3>1 DEF ReportsInv
      <4> QED
        BY <1>0, <3>1, <4>1, <4>2 DEF SoonInCounter
    <3>2. CASE Entry # "clock"
      <4>1. counter'["clock"] = counter["clock"]
        BY <2>2, <3>2, Table
      <4> QED
        BY <1>0, <1>3, <2>1, <3>2, <4>1 DEF StoreCounter, SoonInCounter
    <3> QED
      BY <3>1, <3>2
  <2> QED
    BY <1>3, <2>1, <2>2, <2>3, <2>4 DEF StoreCounter, ReportsInv, PassPlaces, LclsRecorded
<1>4. CASE CheckCounter /\ counter[Entry] >= Period[Entry]
  <2>1. pass' = [at |-> "collect", i |-> pass.i, loaded |-> pass.loaded, lcl |-> pass.lcl]
    BY <1>4 DEF CheckCounter, ReportsInv
  <2>2. /\ counter' = [counter EXCEPT ![Entry] = 0] /\ passes' = [passes EXCEPT ![Entry] = 0]
        /\ pass.at = "check" /\ UNCHANGED <<wanted, dropped, recorded, previous, lclTriggered>>
    BY <1>4 DEF CheckCounter
  <2>3. ASSUME NEW j \in 1 .. Len(Reports) PROVE InStep(j)'
    <3>2. pass'.at = "collect" /\ pass'.i = pass.i
      BY <2>1
    <3>3. CASE j = pass.i
      <4>1. Kind(j) = Entry /\ ~Ahead(j)'
        BY <2>2, <3>2, <3>3, EntryFacts DEF Ahead
      <4>2. counter'[Kind(j)] = 0 /\ passes'[Kind(j)] = 0
        BY <2>2, <4>1, LineFacts DEF ReportsInv
      <4> QED
        BY <3>2, <3>3, <4>1, <4>2, LineFacts DEF InStep
    <3>4. CASE j # pass.i
      <4>1. Kind(j) # Entry
        BY <2>2, <3>4, EntryFacts, Table
      <4>2. (Ahead(j)' <=> Ahead(j)) /\ counter'[Kind(j)] = counter[Kind(j)] /\ passes'[Kind(j)] = passes[Kind(j)]
        BY <2>2, <3>2, <3>4, <4>1, LineFacts DEF Ahead, ReportsInv
      <4> QED
        BY <2>2, <3>2, <3>4, <4>2, LineFacts DEF InStep
    <3> QED
      BY <3>3, <3>4
  <2>4. SoonInCounter'
    <3>1. Entry' = Entry /\ pass'.at = "collect" /\ pass.at = "check"
      BY <2>1, <2>2 DEF Entry
    <3>2. Entry # "clock" => counter'["clock"] = counter["clock"]
      BY <2>2
    <3> QED
      BY <1>0, <2>2, <3>1, <3>2 DEF SoonInCounter
  <2>5. counter' \in [ReportKinds -> Nat] /\ passes' \in [ReportKinds -> Nat]
    BY <2>2 DEF ReportsInv
  <2> QED
    BY <2>1, <2>2, <2>3, <2>4, <2>5 DEF ReportsInv, PassPlaces, LclsRecorded
<1>5. CASE CheckCounter /\ ~(counter[Entry] >= Period[Entry])
  <2>1. /\ NextEntry /\ pass.at = "check"
        /\ UNCHANGED <<counter, passes, wanted, dropped, recorded, previous, lclTriggered>>
    BY <1>5 DEF CheckCounter
  <2>2. counter[Entry] < Period[Entry]
    BY <1>5, <2>1, EntryFacts
  <2>3. SoonInCounter'
    <3>1. pass'.at # "store"
      BY <2>1, <2>2, NextEntryKeeps
    <3> QED
      BY <1>0, <2>1, <3>1 DEF SoonInCounter
  <2> QED
    BY <2>1, <2>2, <2>3, NextEntryKeeps DEF ReportsInv, LclsRecorded
<1>6. CASE Collect
  <2>1. /\ pass.at = "collect" /\ UNCHANGED <<counter, passes, lclTriggered, dropped, recorded, previous>>
        /\ wanted' = IF Entry = "clock" THEN "no" ELSE wanted
    BY <1>6 DEF Collect
  <2>2. SoonInCounter' /\ LclsRecorded'
    <3>1. wanted' = "soon" => wanted = "soon" /\ Entry # "clock"
      BY <2>1
    <3>2. pass'.at # "store"
      BY <1>6, NextEntryKeeps, <2>1 DEF Collect, ReportsInv
    <3> QED
      BY <2>1, <3>1, <3>2 DEF ReportsInv, SoonInCounter, LclsRecorded
  <2>3. CASE Entry = "heartbeat"
    <3>1. pass' = [at |-> "record", i |-> pass.i, loaded |-> pass.loaded, lcl |-> lclTriggered]
      BY <1>6, <2>3 DEF Collect, ReportsInv
    <3>2. ASSUME NEW j \in 1 .. Len(Reports) PROVE InStep(j)'
      <4>1. Ahead(j)' <=> Ahead(j)
        BY <2>1, <3>1 DEF Ahead
      <4> QED
        BY <2>1, <3>1, <4>1, LineFacts DEF InStep
    <3> QED
      BY <2>1, <2>2, <3>1, <3>2 DEF ReportsInv, PassPlaces
  <2>4. CASE Entry # "heartbeat"
    <3>1. NextEntry
      BY <1>6, <2>4 DEF Collect
    <3> QED
      BY <2>1, <2>2, <3>1, NextEntryKeeps DEF ReportsInv
  <2> QED
    BY <2>3, <2>4
<1>7. CASE RecordLcls
  <2>1. /\ NextEntry /\ pass.at = "record" /\ UNCHANGED <<counter, passes, wanted, lclTriggered>>
    BY <1>7 DEF RecordLcls
  <2>2. LclsRecorded'
    BY <1>7 DEF RecordLcls, ReportsInv, LclsRecorded
  <2>3. SoonInCounter'
    <3>1. pass'.at # "store"
      BY <2>1, NextEntryKeeps
    <3> QED
      BY <1>0, <2>1, <3>1 DEF SoonInCounter
  <2> QED
    BY <2>1, <2>2, <2>3, NextEntryKeeps DEF ReportsInv
<1>8. CASE SendClockStatusSoon
  <2>1. /\ counter' = [counter EXCEPT !["clock"] = Period["clock"]]
        /\ wanted' = IF pass.at = "store" /\ Entry = "clock" /\ wanted # "soon" THEN "lost" ELSE "soon"
        /\ UNCHANGED <<pass, passes, dropped, recorded, previous, lclTriggered>>
    BY <1>8 DEF SendClockStatusSoon
  <2>2. ASSUME NEW j \in 1 .. Len(Reports) PROVE InStep(j)'
    <3>1. Ahead(j)' <=> Ahead(j)
      BY <2>1 DEF Ahead
    <3>2. counter'[Kind(j)] = counter[Kind(j)] \/ counter'[Kind(j)] = Period[Kind(j)]
      BY <2>1, LineFacts DEF ReportsInv
    <3> QED
      BY <2>1, <3>1, <3>2, LineFacts DEF InStep
  <2>3. SoonInCounter'
    <3>1. counter'["clock"] = Period["clock"]
      BY <2>1, Table DEF ReportsInv
    <3>2. Entry' = Entry
      BY <2>1 DEF Entry
    <3> QED
      BY <1>0, <2>1, <3>1, <3>2 DEF SoonInCounter
  <2>4. counter' \in [ReportKinds -> Nat] /\ wanted' \in {"no", "soon", "lost"}
    BY <1>0, <2>1 DEF ReportsInv
  <2> QED
    BY <2>1, <2>2, <2>3, <2>4 DEF ReportsInv, LclsRecorded
<1>9. CASE LclChanges \/ UNCHANGED reportVars
  BY <1>9 DEF LclChanges, reportVars, ReportsInv, InStep, Ahead, SoonInCounter, Entry, LclsRecorded
<1> QED
  BY <1>1, <1>2, <1>3, <1>4, <1>5, <1>6, <1>7, <1>8, <1>9 DEF ReportsNext, RunPass

(* For any table, periods and stores of other tasks: no report is late,  *)
(* the records of the LCLs follow the heartbeat, and a request for the   *)
(* status of the clocks that is not lost is answered in the next pass.   *)
THEOREM ReportsSafe == ReportsSpec => ReportsInTime
<1>1. ReportsInv => ReportsTypeOK /\ OnTime /\ LclsRecorded
  <2> SUFFICES ASSUME ReportsInv PROVE ReportsTypeOK /\ OnTime
    BY DEF ReportsInv
  <2>1. ASSUME NEW k \in ReportKinds
        PROVE  counter[k] \in 0..(Period[k] + 1) /\ passes[k] \in Nat /\ passes[k] <= Period[k]
    <3>1. PICK j \in 1 .. Len(Reports) : Kind(j) = k
      BY Table
    <3> QED
      BY <3>1, LineFacts DEF InStep
  <2>2. pass.i \in 0 .. Len(Reports)
    BY Table DEF ReportsInv
  <2> QED
    BY <2>1, <2>2 DEF ReportsTypeOK, OnTime, ReportsInv
<1>2. ReportsInv /\ [ReportsNext]_reportVars =>
        [pass.at = "check" /\ Entry = "clock" /\ wanted = "soon" => pass'.at # "sleep" /\ pass'.i = pass.i]_pass
  BY Table DEF ReportsInv, SoonInCounter, ReportsNext, RunPass, StartPass, LoadCounter, StoreCounter,
     CheckCounter, Collect, RecordLcls, SendClockStatusSoon, LclChanges, reportVars
<1> QED
  BY <1>1, <1>2, ReportsInvInit, ReportsInvNext, PTL DEF ReportsSpec, ReportsInTime, SoonIsSent

---------------------------------------------------------------------------
(* The debug port.  Which task has the lock, and whether telemetry is on,  *)
(* can be told from the places of the tasks.                               *)
LockHeld == \A w \in Waiters : waiterAt[w] = "accept" <=> connectionLock = w
ChannelOfDebugTask == channelOn <=> waiterAt["debug"] \in {"watch", "notifyGone", "stop"}

(* The mode is mode m, or updateMode() is about to set it or to look.      *)
Will(m) ==
    \/ modeChangeReasons # {} \/ modeStep = "look"
    \/ modeStep = (IF m = "testing" THEN "setTesting" ELSE "setMission")
    \/ modeStep = "wait" /\ currentMode = m

(* As long as no client came or went unnoticed: what the debug task knows  *)
(* of the connection, and the mode that follows from it.                   *)
ModeOfDebugTask ==
    ~missed =>
      /\ waiterAt["debug"] \in {"notify", "request"} => Connected
      /\ waiterAt["debug"] \in {"notifyGone", "stop"} => ~Connected
      /\ waiterAt["debug"] \in {"request", "watch"} /\ Connected => Will("testing")
      /\ waiterAt["debug"] \in {"wait", "accept", "stop"} /\ ~Connected => Will("mission")

DebugInv == DebugPortTypeOK /\ LockHeld /\ ChannelOfDebugTask /\ ModeOfDebugTask

LEMMA DebugInvInit == DebugPortInit => DebugInv
BY DEF DebugPortInit, DebugInv, DebugPortTypeOK, LockHeld, ChannelOfDebugTask, ModeOfDebugTask, Will,
   Waiters, NoWaiter, Connected

LEMMA DebugInvNext == DebugInv /\ [DebugPortNext]_debugVars => DebugInv'
<1> SUFFICES ASSUME DebugInv, [DebugPortNext]_debugVars PROVE DebugInv'
  OBVIOUS
<1> USE DEF DebugInv, DebugPortTypeOK, LockHeld, ChannelOfDebugTask, ModeOfDebugTask, Will,
        Waiters, NoWaiter, Connected, MoveTo, modeVars, connectionVars
<1>1. CASE ClientKnocks
  BY <1>1 DEF ClientKnocks
<1>2. CASE ClientLeaves
  BY <1>2 DEF ClientLeaves
<1>0. ASSUME NEW w \in Waiters, NEW place, MoveTo(w, place)
      PROVE  waiterAt'[w] = place /\ \A v \in Waiters : v # w => waiterAt'[v] = waiterAt[v]
  BY <1>0
<1>3. ASSUME NEW w \in Waiters, Lock(w) PROVE DebugInv'
  BY <1>3, SMTT(30) DEF Lock
<1>4. ASSUME NEW w \in Waiters, Accept(w) PROVE DebugInv'
  <2>1. /\ ~Connected /\ Connected' /\ w # "rxTel" /\ debugClientSocket' = "there"
        /\ missed' = (missed \/ waiterAt["debug"] \notin {"wait", "accept"})
        /\ knocking' = FALSE
        /\ UNCHANGED <<connectionLock, waiterAt, channelOn, outbound, modeVars>>
    BY <1>4 DEF Accept, IsConnected
  <2>2. LockHeld' /\ ChannelOfDebugTask'
    BY <2>1
  <2>3. DebugPortTypeOK'
    BY <2>1
  <2>4. ModeOfDebugTask'
    <3>1. ASSUME ~missed' PROVE Connected' /\ waiterAt'["debug"] \in {"wait", "accept"}
      BY <2>1, <3>1, Zenon
    <3> QED
      BY <3>1
  <2> QED
    BY <2>2, <2>3, <2>4
<1>5. ASSUME NEW w \in Waiters, Unlock(w) PROVE DebugInv'
  <2>1. /\ connectionLock = w /\ connectionLock' = NoWaiter /\ IsConnected(w)
        /\ MoveTo(w, IF w = "debug" THEN "notify" ELSE "read")
        /\ UNCHANGED <<knocking, debugClientSocket, channelOn, outbound, modeVars, missed>>
    BY <1>5 DEF Unlock
  <2>2. LockHeld' /\ waiterAt'["debug"] = (IF w = "debug" THEN "notify" ELSE waiterAt["debug"])
    BY <2>1, <1>0
  <2>3. DebugPortTypeOK'
    BY <2>1
  <2>4. ChannelOfDebugTask'
    BY <2>1, <2>2, <1>5 DEF Unlock
  <2>5. ModeOfDebugTask'
    BY <2>1, <2>2, <1>5 DEF Unlock, IsConnected
  <2> QED
    BY <2>2, <2>3, <2>4, <2>5
<1>6. CASE StopReading
  BY <1>6, SMTT(30) DEF StopReading
<1>7. CASE Notify
  <2>1. CASE waiterAt["debug"] = "notify"
    <3>1. LockHeld' /\ waiterAt'["debug"] = "request"
      BY <1>7, <2>1, <1>0 DEF Notify
    <3> QED
      BY <1>7, <2>1, <3>1, SMTT(30) DEF Notify
  <2>2. CASE waiterAt["debug"] = "notifyGone"
    <3>1. LockHeld' /\ waiterAt'["debug"] = "stop"
      BY <1>7, <2>2, <1>0 DEF Notify
    <3> QED
      BY <1>7, <2>2, <3>1, SMTT(30) DEF Notify
  <2> QED
    BY <1>7, <2>1, <2>2 DEF Notify
<1>8. CASE RequestTelemetry
  <2>1. /\ waiterAt["debug"] = "request" /\ channelOn' = TRUE /\ MoveTo("debug", "watch")
        /\ UNCHANGED <<knocking, debugClientSocket, connectionLock, outbound, modeVars, missed>>
    BY <1>8 DEF RequestTelemetry
  <2>2. LockHeld' /\ waiterAt'["debug"] = "watch"
    BY <2>1, <1>0
  <2>3. DebugPortTypeOK'
    BY <2>1
  <2>4. ChannelOfDebugTask'
    BY <2>1, <2>2
  <2>5. ModeOfDebugTask'
    BY <2>1, <2>2
  <2> QED
    BY <2>2, <2>3, <2>4, <2>5
<1>9. CASE NoticeGone
  <2>1. /\ waiterAt["debug"] = "watch" /\ ~Connected /\ MoveTo("debug", "notifyGone")
        /\ UNCHANGED <<knocking, debugClientSocket, connectionLock, channelOn, outbound, modeVars, missed>>
    BY <1>9 DEF NoticeGone
  <2>2. LockHeld' /\ waiterAt'["debug"] = "notifyGone"
    BY <2>1, <1>0
  <2>3. DebugPortTypeOK'
    BY <2>1
  <2>4. ChannelOfDebugTask'
    BY <2>1, <2>2
  <2>5. ModeOfDebugTask'
    BY <2>1, <2>2
  <2> QED
    BY <2>2, <2>3, <2>4, <2>5
<1>10. CASE StopTelemetry
  <2>1. /\ waiterAt["debug"] = "stop" /\ channelOn' = FALSE /\ MoveTo("debug", "wait")
        /\ UNCHANGED <<knocking, debugClientSocket, connectionLock, outbound, modeVars, missed>>
    BY <1>10 DEF StopTelemetry
  <2>2. LockHeld' /\ waiterAt'["debug"] = "wait"
    BY <2>1, <1>0
  <2>3. DebugPortTypeOK'
    BY <2>1
  <2>4. ChannelOfDebugTask'
    BY <2>1, <2>2
  <2>5. ModeOfDebugTask'
    BY <2>1, <2>2
  <2> QED
    BY <2>2, <2>3, <2>4, <2>5
<1>11. CASE QueueReport \/ WriteReport
  <2>1. UNCHANGED <<connectionVars, channelOn, modeVars>> /\ outbound' \in BOOLEAN
    BY <1>11 DEF QueueReport, WriteReport
  <2>2. DebugPortTypeOK'
    BY <2>1
  <2>3. LockHeld' /\ ChannelOfDebugTask'
    BY <2>1
  <2>4. ModeOfDebugTask'
    BY <2>1
  <2> QED
    BY <2>2, <2>3, <2>4
<1>12. CASE WriteToGone
  <2>1. /\ ~Connected' /\ debugClientSocket' = "null" /\ outbound' = FALSE
        /\ missed' = (missed \/ waiterAt["debug"] # "watch")
        /\ UNCHANGED <<knocking, connectionLock, waiterAt, channelOn, modeVars>>
    BY <1>12 DEF WriteToGone
  <2>2. LockHeld' /\ ChannelOfDebugTask'
    BY <2>1
  <2>3. DebugPortTypeOK'
    BY <2>1
  <2>4. ModeOfDebugTask'
    <3>1. ASSUME ~missed' PROVE ~Connected' /\ waiterAt'["debug"] = "watch"
      BY <2>1, <3>1, Zenon
    <3> QED
      BY <3>1
  <2> QED
    BY <2>2, <2>3, <2>4
<1>13. CASE TakeReasons
  BY <1>13, SMTT(30) DEF TakeReasons
<1>14. CASE ChooseMode
  BY <1>14, SMTT(30) DEF ChooseMode
<1>15. CASE SetMode
  BY <1>15, SMTT(30) DEF SetMode
<1>16. CASE UNCHANGED debugVars
  BY <1>16 DEF debugVars
<1> QED
  BY <1>1, <1>2, <1>3, <1>4, <1>5, <1>6, <1>7, <1>8, <1>9, <1>10, <1>11, <1>12, <1>13,
     <1>14, <1>15, <1>16, Zenon DEF DebugPortNext, DebugTask, UpdateMode

LEMMA DebugInvAgrees == DebugInv => PortAgrees
<1> SUFFICES ASSUME DebugInv PROVE PortAgrees
  OBVIOUS
<1>1. \A v, w \in Waiters : waiterAt[v] = "accept" /\ waiterAt[w] = "accept" => v = w
  BY DEF DebugInv, LockHeld
<1>2. DebugIdle => (channelOn <=> Connected)
  BY DEF DebugInv, ChannelOfDebugTask, DebugIdle, Connected
<1>3. DebugIdle /\ ModeIdle /\ ~missed => currentMode = (IF Connected THEN "testing" ELSE "mission")
  BY DEF DebugInv, ModeOfDebugTask, DebugPortTypeOK, Will, DebugIdle, ModeIdle, Connected
<1> QED
  BY <1>1, <1>2, <1>3 DEF PortAgrees

(* The debug port of the simulator, whoever comes and goes and however the *)
(* tasks interleave.                                                       *)
THEOREM DebugPortCorrect == GroundSpec => []PortAgrees
<1>1. GroundInit => DebugInv
  BY DebugInvInit, Zenon DEF GroundInit
<1>2. DebugInv /\ [GroundNext]_groundVars => DebugInv'
  <2> SUFFICES ASSUME DebugInv, [GroundNext]_groundVars PROVE DebugInv'
    OBVIOUS
  <2>1. [DebugPortNext]_debugVars
    <3>1. CASE UNCHANGED groundVars
      <4>1. UNCHANGED debugVars
        BY <3>1 DEF groundVars
      <4> QED
        BY <4>1
    <3>2. CASE \E s \in {"reports", "texts", "frames"} : Only(s)
      <4>1. UNCHANGED debugVars
        BY <3>2, Zenon DEF Only
      <4> QED
        BY <4>1
    <3> QED
      BY <3>1, <3>2, Zenon DEF GroundNext
  <2> QED
    BY <2>1, DebugInvNext
<1> QED
  BY <1>1, <1>2, DebugInvAgrees, PTL DEF GroundSpec
=============================================================================
