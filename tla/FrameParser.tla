----------------------------- MODULE FrameParser ----------------------------
(***************************************************************************)
(* The frames of the telemetry protocol: how they are serialized, and how  *)
(* the parser finds them again in a stream of bytes that begins anywhere   *)
(* and may hold anything.  Bytes are small numbers; the header has one byte*)
(* besides the length, and the checksum is a sum, which has in common with *)
(* the CRC that it is zero over a message together with its checksum.      *)
(***************************************************************************)
EXTENDS Naturals, SequencesExt

CONSTANTS
    NumBytes,     \* how many values a byte has
    MaxPayload    \* MAX_PAYLOAD_LENGTH

ASSUME FrameAssumption == NumBytes \in Nat /\ MaxPayload \in 1 .. NumBytes - 2

Bytes == 0 .. NumBytes - 1
SyncWord == <<NumBytes - 2, NumBytes - 1>>
HeaderLength == 4
MaxMessageLength == HeaderLength + MaxPayload + 1

Crc(bytes) ==
    LET sum[n \in 0 .. Len(bytes)] == IF n = 0 THEN 0 ELSE (sum[n - 1] + bytes[n]) % NumBytes
    IN  sum[Len(bytes)]

(* serialize() *)
Serialize(type, payload) ==
    LET body == SyncWord \o <<type, Len(payload)>> \o payload
    IN  Append(body, (NumBytes - Crc(body)) % NumBytes)

Frames == {Serialize(type, payload) : type \in Bytes, payload \in BoundedSeq(Bytes, MaxPayload)}

VARIABLES
    parser,     \* the state of the parser, its copy of the message and where that ends
    returned,   \* what feed() returned last
    received    \* the bytes that were fed last, as many as a message has at most

parserVars == <<parser, returned, received>>

---------------------------------------------------------------------------
(* Parser::_feed().  Only a first sync byte that is looked for resets the  *)
(* copy of the message; one in the place of the second is passed over.     *)
Hunting == [state |-> "WAITING_SYNC_BYTE_1", message |-> <<>>, end |-> 0]

HuntSync(p, ch) ==
    IF ch = SyncWord[1] THEN [state |-> "WAITING_SYNC_BYTE_2", message |-> <<ch>>, end |-> 0]
    ELSE [p EXCEPT !.state = "WAITING_SYNC_BYTE_1"]

SecondSync(p, ch) ==
    IF ch = SyncWord[2] THEN [state |-> "READING_HEADER", message |-> Append(p.message, ch), end |-> HeaderLength]
    ELSE [p EXCEPT !.state = "WAITING_SYNC_BYTE_1"]

EndOfHeader(p, ch) ==
    CASE ch = 0 -> [p EXCEPT !.state = "READING_CHECKSUM", !.end = @ + 1]
      [] ch > MaxPayload -> Hunting
      [] OTHER -> [p EXCEPT !.state = "READING_PAYLOAD", !.end = @ + ch]

(* Mutant: the checksum is not looked at. *)
EndOfMessageUnchecked(p) == [p EXCEPT !.state = "DONE"]

EndOfMessage(p) == IF Crc(p.message) = 0 THEN [p EXCEPT !.state = "DONE"] ELSE Hunting

Read(p, ch) ==
    LET q == [p EXCEPT !.message = Append(@, ch)] IN
    IF Len(q.message) < q.end THEN q
    ELSE CASE q.state = "READING_HEADER" -> EndOfHeader(q, ch)
           [] q.state = "READING_PAYLOAD" -> [q EXCEPT !.state = "READING_CHECKSUM", !.end = @ + 1]
           [] OTHER -> EndOfMessage(q)

Fed(p, ch) == CASE p.state = "WAITING_SYNC_BYTE_1" -> HuntSync(p, ch)
                [] p.state = "WAITING_SYNC_BYTE_2" -> SecondSync(p, ch)
                [] OTHER -> Read(p, ch)

(* feed(): the payload length plus one when a message is complete; the     *)
(* message itself stays in the buffer, only the pointers into it are reset.*)
LengthPlusOne(p) == IF p.state = "DONE" THEN p.end - HeaderLength ELSE 0
Settled(p) == IF p.state = "DONE" THEN [Hunting EXCEPT !.message = p.message] ELSE p

FeedByte(ch) ==
    LET p == Fed(parser, ch) IN
    /\ returned' = LengthPlusOne(p)
    /\ parser' = Settled(p)
    /\ received' = IF Len(received) = MaxMessageLength THEN Append(Tail(received), ch) ELSE Append(received, ch)

ParserInit == parser = Hunting /\ returned = 0 /\ received = <<>>
ParserNext == \E ch \in Bytes : FeedByte(ch)
ParserSpec == ParserInit /\ [][ParserNext]_parserVars

---------------------------------------------------------------------------
ParserTypeOK ==
    /\ parser.state \in {"WAITING_SYNC_BYTE_1", "WAITING_SYNC_BYTE_2", "READING_HEADER",
                         "READING_PAYLOAD", "READING_CHECKSUM"}
    /\ parser.message \in BoundedSeq(Bytes, MaxMessageLength)
    /\ parser.end \in 0 .. MaxMessageLength
    /\ returned \in 0 .. MaxPayload + 1
    /\ received \in BoundedSeq(Bytes, MaxMessageLength)

(* A message that is reported is one that was sent: the bytes fed last are *)
(* a serialized frame with a payload of the length that is returned, and   *)
(* getEnvelope() and getPayload() read exactly these bytes.                *)
ReportedWasSent ==
    returned > 0 =>
        /\ parser.message \in Frames
        /\ IsSuffix(parser.message, received)
        /\ Len(parser.message) = HeaderLength + returned

(* What feed() returns for one byte after the other, from here on. *)
Reports(bytes) ==
    LET run[n \in 0 .. Len(bytes)] == IF n = 0 THEN parser ELSE Settled(Fed(run[n - 1], bytes[n]))
    IN  [n \in 1 .. Len(bytes) |-> LengthPlusOne(Fed(run[n - 1], bytes[n]))]

(* A parser that hunts for a frame finds the next one: it reports it with  *)
(* its last byte and nothing before, whatever bytes came earlier.          *)
HuntingFindsNext ==
    parser.state = "WAITING_SYNC_BYTE_1" =>
        \A frame \in Frames :
            Reports(frame) = [n \in 1 .. Len(frame) |-> IF n = Len(frame) THEN n - HeaderLength ELSE 0]
=============================================================================
