------------------------------ MODULE Varuint -------------------------------
(***************************************************************************)
(* Integers of variable size, and histograms packed with them.  The first  *)
(* byte of an integer tells its size in a prefix code and holds the rest   *)
(* of its bits; the other bytes hold seven bits each.  A byte is a record  *)
(* of what it says: the size, 0 for a continuation, and the bits.  An      *)
(* integer may be written in more bytes than it needs: how many more is    *)
(* its "overlong", which says what the integer means.  Values stay below   *)
(* 2^30, whatever the size.                                                *)
(***************************************************************************)
EXTENDS Naturals, SequencesExt

VaruintValues == 0 .. 2 ^ 30 - 1

MaxLength == 5
Thresholds == [i \in 1 .. MaxLength |-> 2 ^ (6 * i)]

(* varuint_size_overlong() *)
SizeOf(value, overlong) ==
    overlong + (IF \E i \in 1 .. MaxLength : value < Thresholds[i]
                THEN CHOOSE i \in 1 .. MaxLength :
                         value < Thresholds[i] /\ \A j \in 1 .. i - 1 : value >= Thresholds[j]
                ELSE MaxLength + 1)

(* MARKERS: how many values the first byte of an integer of this size has. *)
FirstValues(size) == IF size > 7 THEN 1 ELSE 2 ^ (7 - size)

Shifted(value, groups) == IF groups > 4 THEN 0 ELSE value \div (128 ^ groups)

(* varuint_encode_overlong() *)
Encoded(value, overlong) ==
    LET size == SizeOf(value, overlong)
    IN  [i \in 1 .. size |->
            IF i = 1 THEN [size |-> size, bits |-> Shifted(value, size - 1) % FirstValues(size)]
            ELSE [size |-> 0, bits |-> Shifted(value, size - i) % 128]]

(* varuint_decode_overlong(): what the buffer holds at a place, and where  *)
(* the next integer is; the same place if there is no integer.             *)
ValuesAt(buf, at, size) ==
    LET value[n \in 0 .. size] == IF n = 0 THEN 0 ELSE 128 * value[n - 1] + buf[at + n - 1].bits
    IN  value
ValueAt(buf, at, size) == ValuesAt(buf, at, size)[size]

DecodedAt(buf, at) ==
    LET size == buf[at].size
        whole == size > 0 /\ at + size - 1 <= Len(buf) /\ \A i \in at + 1 .. at + size - 1 : buf[i].size = 0
    IN  IF whole THEN [value |-> ValueAt(buf, at, size), overlong |-> size - SizeOf(ValueAt(buf, at, size), 0),
                       next |-> at + size]
        ELSE [value |-> 0, overlong |-> 0, next |-> at]

---------------------------------------------------------------------------
(* The decoder of a stream. *)
DecoderReset == [bytes_left |-> 0, bytes_read |-> 0, value |-> 0]

DecoderFed(d, b) ==
    IF b.size > 0 THEN [bytes_left |-> b.size - 1, bytes_read |-> 1, value |-> b.bits]
    ELSE IF d.bytes_left > 0
         THEN [bytes_left |-> d.bytes_left - 1, bytes_read |-> d.bytes_read + 1, value |-> 128 * d.value + b.bits]
         ELSE d

(* varuint_decoder_feed() returns whether the byte ended an integer. *)
DecoderEnds(d, b) == (b.size > 0 \/ d.bytes_left > 0) /\ DecoderFed(d, b).bytes_left = 0

DecoderOverlong(d) == d.bytes_read - SizeOf(d.value, 0)

---------------------------------------------------------------------------
(* histogram_pack(): zeros that follow on one another are written as their *)
(* number, with one byte more than it needs; anything else as it is.       *)
AfterCode(h, i) ==
    IF h[i] # 0 THEN i + 1
    ELSE CHOOSE n \in i + 1 .. Len(h) + 1 : (\A m \in i .. n - 1 : h[m] = 0) /\ (n <= Len(h) => h[n] # 0)

RunCode(h, i) == IF AfterCode(h, i) > i + 1 THEN <<AfterCode(h, i) - i, 1>> ELSE <<h[i], 0>>

PackedFrom(h) ==
    LET from[i \in 1 .. Len(h) + 1] ==
            IF i > Len(h) THEN <<>> ELSE Encoded(RunCode(h, i)[1], RunCode(h, i)[2]) \o from[AfterCode(h, i)]
    IN  from
Packed(h) == PackedFrom(h)[1]

(* Mutant: the extra byte of a long run is not counted. *)
PackedSizeShort(h) ==
    LET from[i \in 1 .. Len(h) + 1] ==
            IF i > Len(h) THEN 0 ELSE SizeOf(RunCode(h, i)[1], 0) + from[AfterCode(h, i)]
    IN  from[1]

(* histogram_get_packed_size(), which looks at the cells once more. *)
SizeFrom(h) ==
    LET from[i \in 1 .. Len(h) + 1] ==
            IF i > Len(h) THEN 0 ELSE SizeOf(RunCode(h, i)[1], RunCode(h, i)[2]) + from[AfterCode(h, i)]
    IN  from
PackedSize(h) == SizeFrom(h)[1]

(* histogram_unpack(), which stops at the first error. *)
CodeCells(code) ==
    IF code.overlong > 0 THEN [i \in 1 .. code.value |-> 0]
    ELSE <<IF code.value < 2 ^ 16 THEN code.value ELSE 0>>

UnpackedFrom(buf) ==
    LET from[at \in 1 .. Len(buf) + 1] ==
            IF at > Len(buf) \/ DecodedAt(buf, at).next = at THEN <<>>
            ELSE CodeCells(DecodedAt(buf, at)) \o from[DecodedAt(buf, at).next]
    IN  from
Unpacked(buf) == UnpackedFrom(buf)[1]
=============================================================================
