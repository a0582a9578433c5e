---------------------------- MODULE Scintillators ---------------------------
(***************************************************************************)
(* The task of the SCM: it decodes the integers that the SCM sends, one    *)
(* byte at a time, collects the histogram of one scintillator after the    *)
(* other, and logs and sends each, packed and in fragments, when that of   *)
(* the next scintillator starts.  The SCM itself sends packets, and a byte *)
(* may get lost or garbled.                                                *)
(***************************************************************************)
EXTENDS Varuint, Naturals

CONSTANTS
    NumScintillators,   \* NUM_SCINTILLATORS
    HistogramSize,      \* HISTOGRAM_SIZE
    FragmentSize,       \* FRAGMENT_SIZE
    Measurements,       \* bound: what one packet may measure, a histogram for each scintillator
    MaxPackets          \* bound: packets that the SCM sends

ASSUME ScmAssumption ==
    /\ {NumScintillators, HistogramSize, FragmentSize, MaxPackets} \subseteq Nat \ {0}
    /\ {NumScintillators, HistogramSize} \subseteq VaruintValues
    /\ Measurements \subseteq [1 .. NumScintillators -> [1 .. HistogramSize -> VaruintValues]]

VARIABLES
    measured,      \* the packets that the SCM has sent
    stream,        \* bytes on their way
    lossIn,        \* the packet in which a byte was harmed, or 0
    decoder,
    scm,           \* scintillatorIndex, histogram, histogramIndex, lastMessageStartedAt (a packet)
    scmReported       \* the last histogram that was packed: its labels, and its fragments

scmVars == <<measured, stream, lossIn, decoder, scm, scmReported>>

Empty == [i \in 1 .. HistogramSize |-> 0]
NothingReported == [index |-> 0, stamp |-> 0, histogram |-> Empty, fragments |-> <<>>]

StartHistogram(index, stamp) == [index |-> index, histogram |-> Empty, next |-> 1, stamp |-> stamp]

ScmInit ==
    /\ measured = <<>> /\ stream = <<>> /\ lossIn = 0
    /\ decoder = DecoderReset
    /\ scm = StartHistogram(1, 0)
    /\ scmReported = NothingReported

---------------------------------------------------------------------------
(* The SCM: a packet starts with a zero that is one byte too long, and the *)
(* histogram of a scintillator with its index, two bytes too long.         *)
PacketFrom(hs) ==
    LET from[i \in 1 .. NumScintillators + 1] ==
            IF i > NumScintillators THEN <<>> ELSE Encoded(i - 1, 2) \o Packed(hs[i]) \o from[i + 1]
    IN  from
PacketBytes(hs) == Encoded(0, 1) \o PacketFrom(hs)[1]

ScmSends(hs) ==
    /\ stream = <<>>
    /\ Len(measured) < MaxPackets
    /\ measured' = Append(measured, hs)
    /\ stream' = PacketBytes(hs)
    /\ UNCHANGED <<lossIn, decoder, scm, scmReported>>

(* One byte is lost, or a bit of it flips. *)
Flipped(b) == [b EXCEPT !.bits = IF @ % 2 = 0 /\ b.size < 7 THEN @ + 1 ELSE (IF @ > 0 THEN @ - 1 ELSE 0)]
ByteHarmed ==
    /\ stream # <<>>
    /\ lossIn = 0
    /\ lossIn' = Len(measured)
    /\ stream' \in {Tail(stream), <<Flipped(Head(stream))>> \o Tail(stream)}
    /\ UNCHANGED <<measured, decoder, scm, scmReported>>

---------------------------------------------------------------------------
Saturated(value) == IF value >= 65535 THEN 65535 ELSE value

AddNonzero(s, value) ==
    IF s.next > HistogramSize THEN s
    ELSE [s EXCEPT !.histogram[s.next] = Saturated(value), !.next = @ + 1]

AddZeros(s, count) ==
    LET end == IF s.next + count - 1 > HistogramSize THEN HistogramSize ELSE s.next + count - 1
    IN  [s EXCEPT !.histogram = [i \in 1 .. HistogramSize |-> IF i \in s.next .. end THEN 0 ELSE @[i]],
                  !.next = end + 1]

(* packHistogram() and sendSCMMeasurement(): nothing is scmReported if the    *)
(* packed histogram has more than two bytes for a cell.                    *)
Cut(bytes) ==
    [n \in 1 .. (Len(bytes) + FragmentSize - 1) \div FragmentSize |->
        SubSeq(bytes, (n - 1) * FragmentSize + 1,
               IF n * FragmentSize < Len(bytes) THEN n * FragmentSize ELSE Len(bytes))]

Report(s) ==
    IF PackedSize(s.histogram) > 2 * HistogramSize THEN scmReported
    ELSE [index |-> s.index, stamp |-> s.stamp, histogram |-> s.histogram, fragments |-> Cut(Packed(s.histogram))]

(* update() with a byte that does not end an integer, ends that of a new   *)
(* scintillator, of a new packet, of a run of zeros, or of a cell.         *)
ScmByteKept ==
    ~DecoderEnds(decoder, Head(stream)) /\ UNCHANGED <<scm, scmReported>>

ScmMarker(value, overlong) ==
    /\ overlong = 2 /\ value < NumScintillators
    /\ scmReported' = IF scm.stamp > 0 THEN Report(scm) ELSE scmReported
    /\ scm' = StartHistogram(value + 1, scm.stamp)

ScmPacketStarts(value, overlong) ==
    /\ overlong = 1 /\ value = 0
    /\ scm' = [scm EXCEPT !.stamp = Len(measured)]
    /\ UNCHANGED scmReported

ScmZeros(value, overlong) ==
    /\ overlong = 1 /\ value > 0
    /\ scm' = AddZeros(scm, value)
    /\ UNCHANGED scmReported

ScmCell(value, overlong) ==
    /\ overlong = 0
    /\ scm' = AddNonzero(scm, value)
    /\ UNCHANGED scmReported

ScmIgnores(value, overlong) ==
    /\ overlong > 2 \/ (overlong = 2 /\ value >= NumScintillators)
    /\ UNCHANGED <<scm, scmReported>>

ScmIntegerEnds ==
    /\ DecoderEnds(decoder, Head(stream))
    /\ LET value == decoder'.value  overlong == DecoderOverlong(decoder')
       IN  \/ ScmMarker(value, overlong) \/ ScmPacketStarts(value, overlong) \/ ScmZeros(value, overlong)
           \/ ScmCell(value, overlong) \/ ScmIgnores(value, overlong)

ScmByte ==
    /\ stream # <<>>
    /\ stream' = Tail(stream)
    /\ decoder' = DecoderFed(decoder, Head(stream))
    /\ ScmByteKept \/ ScmIntegerEnds
    /\ UNCHANGED <<measured, lossIn>>

(* Three seconds without a packet: the task sets up anew. *)
ScmSilent ==
    /\ stream = <<>> /\ scm.stamp > 0
    /\ scm' = [scm EXCEPT !.stamp = 0]
    /\ UNCHANGED <<measured, stream, lossIn, decoder, scmReported>>

ScmNext == ByteHarmed \/ ScmByte \/ ScmSilent \/ \E hs \in Measurements : ScmSends(hs)

ScmSpec == ScmInit /\ [][ScmNext]_scmVars

---------------------------------------------------------------------------
ScmTypeOK ==
    /\ measured \in Seq(Measurements) /\ lossIn \in 0 .. MaxPackets
    /\ scm.index \in 1 .. NumScintillators /\ scm.next \in 1 .. HistogramSize + 1
    /\ scm.stamp \in 0 .. MaxPackets

(* The fragments that are sent add up to the packed histogram, which has   *)
(* the size that the check of the buffer was told, and unpacks to what was *)
(* measured.                                                               *)
FragmentsUnpack ==
    LET bytes == FlattenSeq(scmReported.fragments)
    IN  scmReported.stamp > 0 => /\ Unpacked(bytes) = scmReported.histogram
                              /\ Len(bytes) = PackedSize(scmReported.histogram)
                              /\ \A n \in DOMAIN scmReported.fragments :
                                   Len(scmReported.fragments[n]) = FragmentSize \/ n = Len(scmReported.fragments)

(* A histogram that is reported was measured by its scintillator in the    *)
(* packet of its time stamp or the one before, whose last histogram is     *)
(* complete only when the next packet starts; a byte that is harmed spoils *)
(* no more than its packet and the next.                                   *)
Cells(p, index) == [i \in 1 .. HistogramSize |-> Saturated(measured[p][index][i])]
MeasuredAs(r) == {Empty} \cup {Cells(p, r.index) : p \in {r.stamp - 1, r.stamp} \cap DOMAIN measured}

ReportsAreMeasured ==
    [][scmReported' # scmReported => lossIn \in {Len(measured), Len(measured) - 1} \ {0}
                               \/ scmReported'.histogram \in MeasuredAs(scmReported')]_scmVars

=============================================================================
