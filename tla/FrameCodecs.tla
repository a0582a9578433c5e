---------------------------- MODULE FrameCodecs ----------------------------
(***************************************************************************)
(* The payloads of the telemetry protocol (core/telem): the packed, little*)
(* endian layout that the sender of a frame writes into its buffer, the  *)
(* check of the receiver, and what the receiver reads.                   *)
(*                                                                       *)
(* A word of 32 or 64 bits, and a float, is the sequence of its bytes.   *)
(* Measurements are integers in a unit finer than that of the frame.     *)
(***************************************************************************)
EXTENDS Integers, Sequences

CONSTANTS MaxPayload,      \* MAX_PAYLOAD_LENGTH
          MaxReadLength,   \* MAX_READ_LENGTH, a power of two below 2^16
          FrameData        \* for every kind of frame the data that are sent

ASSUME CodecAssumption ==
    /\ MaxPayload \in Nat /\ 32 <= MaxPayload /\ MaxPayload <= 255
    /\ MaxReadLength \in Nat /\ 1 <= MaxReadLength /\ MaxReadLength < 65536

VARIABLES frame,       \* the kind and the data of the frame, and what was done to it
          buffer,     \* the buffer of the receiver
          received,   \* the number of bytes of the frame in it
          read        \* what the receiver has made of it

codecVars == <<frame, buffer, received, read>>
---------------------------------------------------------------------------
(* Numbers in a frame: the least significant byte or bit comes first.    *)
Byte == 0..255
Bytes(n) == [1..n -> Byte]
BytesUpTo(n) == {s \in Seq(Byte) : Len(s) <= n}
TextUpTo(n) == {s \in Seq(1..255) : Len(s) <= n}
HalfWords == {n \in Nat : n \div 256 \in Byte}

U16(n) == <<n % 256, (n \div 256) % 256>>
HalfWord(b, i) == b[i] + 256 * b[i + 1]
Field(b, i, n) == [k \in 1..n |-> b[i + k - 1]]
Word(b, i) == Field(b, i, 4)
Vector(b, i) == [k \in 1..3 |-> Word(b, i + 4 * k - 4)]
Rest(b, i) == Field(b, i, Len(b) - i + 1)
Zero == <<0, 0, 0, 0>>

(* Pieces of the same size, one behind the other.                        *)
Flat(pieces, n, size) == [i \in 1..n * size |-> pieces[(i - 1) \div size + 1][((i - 1) % size) + 1]]

PowerOf2 == <<1, 2, 4, 8, 16, 32>>
PowerOf4 == <<1, 4, 16, 64, 256, 1024>>
Bit(flag) == IF flag THEN 1 ELSE 0
Bits3(flags) == Bit(flags[1]) + 2 * Bit(flags[2]) + 4 * Bit(flags[3])
Bits6(flags) == Bits3(flags) + 8 * Bit(flags[4]) + 16 * Bit(flags[5]) + 32 * Bit(flags[6])
Flags(byte, count) == [i \in 1..count |-> (byte \div PowerOf2[i]) % 2 = 1]
Quarters(s) == s[1] + 4 * s[2] + 16 * s[3] + 64 * s[4] + 256 * s[5] + 1024 * s[6]
QuartersOf(n) == [i \in 1..6 |-> (n \div PowerOf4[i]) % 4]

Signed(n, range) == IF n >= range \div 2 THEN n - range ELSE n
Clamped(n, low, high) == IF n < low THEN low ELSE IF n > high THEN high ELSE n
Truncated(n, unit) == IF n < 0 THEN -((-n) \div unit) ELSE n \div unit
Rounded(n, unit) == IF n < 0 THEN -((-n + unit \div 2) \div unit) ELSE (n + unit \div 2) \div unit

(* What the enumerations end with: areas, commands, codes, procedures.   *)
NumAreas == 3
NumStorageCommands == 7
NumProcedures == 3
NumDebugCommands == 13
NakInvalid == 4
LclResetAll == 63

(* A value outside an enumeration is read as its first one.              *)
Known(v, count) == IF v < count THEN v ELSE 0
---------------------------------------------------------------------------
(* The replies to requests.                                              *)
EncodeAck(d) ==
    <<d.frame_type, d.seq_no, IF d.result >= NakInvalid THEN NakInvalid ELSE d.result>>
    \o (IF d.result >= NakInvalid THEN Zero ELSE IF d.result = 0 THEN d.value ELSE d.error)
DecodeAck(b) ==
    IF b[3] >= NakInvalid THEN [frame_type |-> b[1], seq_no |-> b[2], result |-> NakInvalid]
    ELSE [frame_type |-> b[1], seq_no |-> b[2], result |-> b[3],
          error |-> IF b[3] = 0 THEN Zero ELSE Word(b, 4),
          value |-> IF b[3] = 0 THEN Word(b, 4) ELSE Zero]
ValidAck(b) == Len(b) >= 7

EncodeBinaryData(d) == <<d.frame_type, d.seq_no, d.max, d.index>> \o d.data
DecodeBinaryData(b) ==
    [frame_type |-> b[1], seq_no |-> b[2], max |-> b[3], index |-> b[4], data |-> Rest(b, 5)]
ValidBinaryData(b) == Len(b) >= MaxPayload /\ b[3] >= b[4]

(* strlen() and memcpy() drop the zero that ends the name; the receiver  *)
(* puts one behind the bytes it got.                                     *)
EncodeDirectoryEntry(d) == <<d.frame_type, d.seq_no, d.max, d.index>> \o d.name
DecodeDirectoryEntry(b) ==
    [frame_type |-> b[1], seq_no |-> b[2], max |-> b[3], index |-> b[4], name |-> Rest(b, 5)]
ValidDirectoryEntry(b) == Len(b) >= 4 /\ b[3] >= b[4]

EncodeEcho(d) == <<d.isReply>> \o d.data
DecodeEcho(b) == [isReply |-> b[1], data |-> Rest(b, 2)]
ValidEcho(b) == Len(b) >= 1
---------------------------------------------------------------------------
(* The requests of ground control.                                       *)
EncodeCalibration(d) == <<d.procedure>>
DecodeCalibration(b) == [procedure |-> Known(b[1], NumProcedures)]
ValidCalibration(b) == Len(b) >= 1

EncodeDebug(d) == <<d.command>>
DecodeDebug(b) == [command |-> Known(b[1], NumDebugCommands)]
ValidDebug(b) == Len(b) >= 1

EncodeClockSync(d) == d.timestamp
DecodeClockSync(b) == [timestamp |-> Field(b, 1, 8)]
ValidClockSync(b) == Len(b) >= 8

EncodeLclReset(d) == <<d.lcls % (LclResetAll + 1)>>
DecodeLclReset(b) == [lcls |-> b[1] % (LclResetAll + 1)]
ValidLclReset(b) == Len(b) >= 1

EncodeListing(d) == <<d.area % 16>> \o U16(d.first) \o U16(d.count) \o d.name
DecodeListing(b) ==
    [area |-> Known(b[1] % 16, NumAreas), first |-> HalfWord(b, 2),
     count |-> HalfWord(b, 4), name |-> Rest(b, 6)]
(* The reply has one byte for the index of an entry.                     *)
ValidListing(b) == Len(b) >= 5 /\ HalfWord(b, 4) <= 256

(* The largest length does not fit under the mask and is sent as 0.      *)
EncodeDownload(d) == <<d.area % 16>> \o d.start \o U16(d.length % MaxReadLength) \o d.path
DecodeDownload(b) ==
    LET n == HalfWord(b, 6) % MaxReadLength
    IN  [area |-> Known(b[1] % 16, NumAreas), start |-> Word(b, 2),
         length |-> IF n = 0 THEN MaxReadLength ELSE n, path |-> Rest(b, 8)]
ValidDownload(b) == Len(b) >= 7 /\ HalfWord(b, 6) < MaxReadLength

(* Mutant: the command keeps the bits of the area's nibble. *)
NibblesNotSplit(b) ==
    [area |-> Known(b[1] \div 16, NumAreas), command |-> Known(b[1], NumStorageCommands),
     offset |-> Word(b, 2),
     length |-> IF HalfWord(b, 6) = 0 THEN MaxReadLength ELSE HalfWord(b, 6)]

EncodeStorage(d) ==
    <<(d.command % 16) + 16 * d.area>> \o d.offset
    \o U16(IF d.length = MaxReadLength THEN 0 ELSE d.length)
DecodeStorage(b) ==
    LET n == HalfWord(b, 6)
    IN  [area |-> Known(b[1] \div 16, NumAreas), command |-> Known(b[1] % 16, NumStorageCommands),
         offset |-> Word(b, 2), length |-> IF n = 0 THEN MaxReadLength ELSE n]
ValidStorage(b) == Len(b) >= 7
---------------------------------------------------------------------------
(* The reports.  Currents are sent in 0.1 mA, voltages in 10 mV; both are*)
(* given here in 0.01 mA and 0.01 mV.                                    *)
Unit(i) == IF i <= 6 THEN 10 ELSE 1000

EncodeAdc(d) == d.timestamp \o Flat([i \in 1..13 |-> U16(d.measurements[i] \div Unit(i))], 13, 2)
DecodeAdc(b) ==
    [timestamp |-> Word(b, 1),
     measurements |-> [i \in 1..13 |-> Unit(i) * HalfWord(b, 3 + 2 * i)]]
ValidAdc(b) == Len(b) >= 30

(* Bit 31 of both times is a flag: the times have 31 bits.               *)
WithTopBit(w, flag) == [w EXCEPT ![4] = (@ % 128) + (IF flag THEN 128 ELSE 0)]
EncodeClockStatus(d) ==
    d.timestamp \o WithTopBit(d.missionClock, d.running) \o d.rtc \o WithTopBit(d.liftoff, d.liftoffHappened)
DecodeClockStatus(b) ==
    [timestamp |-> Word(b, 1), rtc |-> Field(b, 9, 8),
     running |-> b[8] >= 128, missionClock |-> WithTopBit(Word(b, 5), FALSE),
     liftoffHappened |-> b[20] >= 128, liftoff |-> WithTopBit(Word(b, 17), FALSE)]
ValidClockStatus(b) == Len(b) >= 20

EncodeGmm(d) == d.timestamp \o d.hitCounts
DecodeGmm(b) == [timestamp |-> Word(b, 1), hitCounts |-> Field(b, 5, 10)]
ValidGmm(b) == Len(b) >= 14

EncodeImu(d) == d.timestamp \o Flat(d.acceleration, 3, 4) \o Flat(d.angularVelocity, 3, 4)
DecodeImu(b) ==
    [timestamp |-> Word(b, 1), acceleration |-> Vector(b, 5), angularVelocity |-> Vector(b, 17)]
ValidImu(b) == Len(b) >= 28

(* Temperatures in 0.001 C, sent in 0.01 C as a signed half word.        *)
MagRange(v) == Clamped(v, -200000, 300000)
EncodeMag(d) ==
    d.timestamp \o Flat(d.field, 3, 4)
    \o U16(Truncated(MagRange(d.temperature), 10))
DecodeMag(b) ==
    [timestamp |-> Word(b, 1), field |-> Vector(b, 5),
     temperature |-> 10 * Signed(HalfWord(b, 17), 65536)]
ValidMag(b) == Len(b) >= 18

EncodeScm(d) == d.timestamp \o <<d.max, d.index, d.scintillator>> \o d.data
DecodeScm(b) ==
    [timestamp |-> Word(b, 1), max |-> b[5], index |-> b[6], scintillator |-> b[7], data |-> Rest(b, 8)]
ValidScm(b) == Len(b) >= 7

EncodeText(d) == <<(d.level % 8) + 8 * d.module>> \o d.message
DecodeText(b) == [level |-> b[1] % 8, module |-> b[1] \div 8, message |-> Rest(b, 2)]
ValidText(b) == Len(b) >= 1

(* Voltages in 0.01 V, sent in 0.1 V; temperatures in 0.01 C, sent in 1 C.*)
(* Two bits for each of six subsystems, one for each of six LCLs; the    *)
(* signals are in the order SODS, SOE, LO.  The mode is sent and not read.*)
VoltageByte(v) == Clamped(Rounded(Clamped(v, 0, 2550), 10), 0, 255)
TemperatureByte(v) == Clamped(Rounded(Clamped(v, -12800, 12700), 100), -128, 127) % 256
EncodeHeartbeat(d) ==
    d.timestamp \o
    <<d.errorCode, VoltageByte(d.voltage), TemperatureByte(d.temperature),
      Bits3(d.rxsm) + (IF d.mode = "mission" THEN 0 ELSE 128)>>
    \o U16(Quarters(d.subsystems)) \o <<Bits6(d.lcls)>>
DecodeHeartbeat(b) ==
    [timestamp |-> Word(b, 1), errorCode |-> b[5], voltage |-> 10 * b[6],
     temperature |-> 100 * Signed(b[7], 256), rxsm |-> Flags(b[8], 3),
     subsystems |-> QuartersOf(HalfWord(b, 9)), lcls |-> Flags(b[11], 6)]
ValidHeartbeat(b) == Len(b) >= 11
---------------------------------------------------------------------------
(* The data that the code may send.  A text has no zero in it, a time of *)
(* the mission has 31 bits, an area and a command have a nibble each.    *)
AckData == [frame_type : Byte, seq_no : Byte, result : Byte, error : Bytes(4), value : Bytes(4)]
BinaryDataData == [frame_type : Byte, seq_no : Byte, max : Byte, index : Byte, data : BytesUpTo(MaxPayload - 4)]
DirectoryEntryData == [frame_type : Byte, seq_no : Byte, max : Byte, index : Byte, name : TextUpTo(MaxPayload - 5)]
EchoData == [isReply : {0, 1}, data : BytesUpTo(MaxPayload - 1)]
CalibrationData == [procedure : Byte]
DebugData == [command : Byte]
ClockSyncData == [timestamp : Bytes(8)]
LclResetData == [lcls : Byte]
ListingData == [area : 0..15, first : HalfWords, count : HalfWords, name : TextUpTo(MaxPayload - 5)]
DownloadData == [area : 0..15, start : Bytes(4), length : 1..MaxReadLength, path : TextUpTo(MaxPayload - 7)]
StorageData == [area : 0..15, command : 0..15, offset : Bytes(4), length : 1..MaxReadLength]
AdcData == [timestamp : Bytes(4),
            measurements : {m \in [1..13 -> Nat] : \A i \in 1..13 : m[i] \div Unit(i) \in HalfWords}]
Times31 == {w \in Bytes(4) : w[4] < 128}
ClockStatusData == [timestamp : Bytes(4), missionClock : Times31, rtc : Bytes(8), liftoff : Times31,
                    running : BOOLEAN, liftoffHappened : BOOLEAN]
GmmData == [timestamp : Bytes(4), hitCounts : Bytes(10)]
Vectors == [1..3 -> Bytes(4)]
ImuData == [timestamp : Bytes(4), acceleration : Vectors, angularVelocity : Vectors]
MagData == [timestamp : Bytes(4), field : Vectors, temperature : Int]
ScmData == [timestamp : Bytes(4), max : Byte, index : Byte, scintillator : Byte, data : BytesUpTo(MaxPayload - 7)]
TextData == [level : 0..7, module : 0..31, message : TextUpTo(MaxPayload - 1)]
HeartbeatData ==
    [timestamp : Bytes(4), errorCode : Byte, mode : {"mission", "testing"}, voltage : Int, temperature : Int,
     rxsm : [1..3 -> BOOLEAN], subsystems : [1..6 -> 0..3], lcls : [1..6 -> BOOLEAN]]
---------------------------------------------------------------------------
(* Who writes a frame and who reads it know its kind from the header.    *)
Kinds ==
    {"ACK", "BINARY_DATA", "DIRECTORY_ENTRY", "ECHO", "CALIBRATION", "DEBUG",
     "CLOCK_SYNC", "LCL_RESET", "DIRECTORY_LISTING", "FILE_DOWNLOAD", "STORAGE",
     "ADC", "CLOCK_STATUS",
     "GMM", "IMU", "MAG", "SCM", "TEXT_MESSAGE", "HEARTBEAT"}

DataOf(kind) ==
    CASE kind = "ACK" -> AckData
      [] kind = "BINARY_DATA" -> BinaryDataData
      [] kind = "DIRECTORY_ENTRY" -> DirectoryEntryData
      [] kind = "ECHO" -> EchoData
      [] kind = "CALIBRATION" -> CalibrationData
      [] kind = "DEBUG" -> DebugData
      [] kind = "CLOCK_SYNC" -> ClockSyncData
      [] kind = "LCL_RESET" -> LclResetData
      [] kind = "DIRECTORY_LISTING" -> ListingData
      [] kind = "FILE_DOWNLOAD" -> DownloadData
      [] kind = "STORAGE" -> StorageData
      [] kind = "ADC" -> AdcData
      [] kind = "CLOCK_STATUS" -> ClockStatusData
      [] kind = "GMM" -> GmmData
      [] kind = "IMU" -> ImuData
      [] kind = "MAG" -> MagData
      [] kind = "SCM" -> ScmData
      [] kind = "TEXT_MESSAGE" -> TextData
      [] kind = "HEARTBEAT" -> HeartbeatData

ASSUME FrameDataAssumption == \A kind \in Kinds : FrameData[kind] \subseteq DataOf(kind)

Encoded(kind, d) ==
    CASE kind = "ACK" -> EncodeAck(d)
      [] kind = "BINARY_DATA" -> EncodeBinaryData(d)
      [] kind = "DIRECTORY_ENTRY" -> EncodeDirectoryEntry(d)
      [] kind = "ECHO" -> EncodeEcho(d)
      [] kind = "CALIBRATION" -> EncodeCalibration(d)
      [] kind = "DEBUG" -> EncodeDebug(d)
      [] kind = "CLOCK_SYNC" -> EncodeClockSync(d)
      [] kind = "LCL_RESET" -> EncodeLclReset(d)
      [] kind = "DIRECTORY_LISTING" -> EncodeListing(d)
      [] kind = "FILE_DOWNLOAD" -> EncodeDownload(d)
      [] kind = "STORAGE" -> EncodeStorage(d)
      [] kind = "ADC" -> EncodeAdc(d)
      [] kind = "CLOCK_STATUS" -> EncodeClockStatus(d)
      [] kind = "GMM" -> EncodeGmm(d)
      [] kind = "IMU" -> EncodeImu(d)
      [] kind = "MAG" -> EncodeMag(d)
      [] kind = "SCM" -> EncodeScm(d)
      [] kind = "TEXT_MESSAGE" -> EncodeText(d)
      [] kind = "HEARTBEAT" -> EncodeHeartbeat(d)

Valid(kind, b) ==
    CASE kind = "ACK" -> ValidAck(b)
      [] kind = "BINARY_DATA" -> ValidBinaryData(b)
      [] kind = "DIRECTORY_ENTRY" -> ValidDirectoryEntry(b)
      [] kind = "ECHO" -> ValidEcho(b)
      [] kind = "CALIBRATION" -> ValidCalibration(b)
      [] kind = "DEBUG" -> ValidDebug(b)
      [] kind = "CLOCK_SYNC" -> ValidClockSync(b)
      [] kind = "LCL_RESET" -> ValidLclReset(b)
      [] kind = "DIRECTORY_LISTING" -> ValidListing(b)
      [] kind = "FILE_DOWNLOAD" -> ValidDownload(b)
      [] kind = "STORAGE" -> ValidStorage(b)
      [] kind = "ADC" -> ValidAdc(b)
      [] kind = "CLOCK_STATUS" -> ValidClockStatus(b)
      [] kind = "GMM" -> ValidGmm(b)
      [] kind = "IMU" -> ValidImu(b)
      [] kind = "MAG" -> ValidMag(b)
      [] kind = "SCM" -> ValidScm(b)
      [] kind = "TEXT_MESSAGE" -> ValidText(b)
      [] kind = "HEARTBEAT" -> ValidHeartbeat(b)

Decoded(kind, b) ==
    CASE kind = "ACK" -> DecodeAck(b)
      [] kind = "BINARY_DATA" -> DecodeBinaryData(b)
      [] kind = "DIRECTORY_ENTRY" -> DecodeDirectoryEntry(b)
      [] kind = "ECHO" -> DecodeEcho(b)
      [] kind = "CALIBRATION" -> DecodeCalibration(b)
      [] kind = "DEBUG" -> DecodeDebug(b)
      [] kind = "CLOCK_SYNC" -> DecodeClockSync(b)
      [] kind = "LCL_RESET" -> DecodeLclReset(b)
      [] kind = "DIRECTORY_LISTING" -> DecodeListing(b)
      [] kind = "FILE_DOWNLOAD" -> DecodeDownload(b)
      [] kind = "STORAGE" -> DecodeStorage(b)
      [] kind = "ADC" -> DecodeAdc(b)
      [] kind = "CLOCK_STATUS" -> DecodeClockStatus(b)
      [] kind = "GMM" -> DecodeGmm(b)
      [] kind = "IMU" -> DecodeImu(b)
      [] kind = "MAG" -> DecodeMag(b)
      [] kind = "SCM" -> DecodeScm(b)
      [] kind = "TEXT_MESSAGE" -> DecodeText(b)
      [] kind = "HEARTBEAT" -> DecodeHeartbeat(b)
---------------------------------------------------------------------------
Nothing == [kind |-> "none"]
Unread == [verdict |-> "none"]
Refused == [verdict |-> "refused"]
Accepted(r) == [verdict |-> "accepted", data |-> r]

CodecInit == frame = Nothing /\ buffer = <<>> /\ received = 0 /\ read = Unread

(* A byte that an earlier message left in the buffer.                    *)
Stale == 170

(* The frame arrives with the length in its header, which is that of the *)
(* payload if ground control is right; behind it the buffer holds what an*)
(* earlier message left.                                                 *)
Buffered(bytes) == [i \in 1..MaxPayload |-> IF i <= Len(bytes) THEN bytes[i] ELSE Stale]
SendFrame ==
    /\ frame = Nothing
    /\ \E kind \in Kinds : \E d \in FrameData[kind] :
         LET bytes == Encoded(kind, d)
         IN  \E n \in {0, Len(bytes) - 1, Len(bytes), Len(bytes) + 1} :
               /\ n <= MaxPayload
               /\ frame' = [kind |-> kind, data |-> d, bytes |-> Len(bytes)]
               /\ received' = n
               /\ buffer' = Buffered(bytes)
    /\ UNCHANGED read

(* The handlers of cmd.cpp: decode only what validate() accepts.         *)
Reading(kind, b) == IF Valid(kind, b) THEN Accepted(Decoded(kind, b)) ELSE Refused
ReadFrame ==
    /\ frame # Nothing /\ read = Unread
    /\ read' = Reading(frame.kind, Field(buffer, 1, received))
    /\ UNCHANGED <<frame, buffer, received>>

CodecNext == SendFrame \/ ReadFrame
CodecSpec == CodecInit /\ [][CodecNext]_codecVars
---------------------------------------------------------------------------
Between(a, b, c) == a <= b /\ b <= c

(* What the receiver may rely on: r tells what d told, as exactly as the *)
(* unit of the frame allows and within the range of its field.           *)
Agrees(kind, d, r) ==
    CASE kind = "ACK" ->
           /\ r.frame_type = d.frame_type /\ r.seq_no = d.seq_no
           /\ d.result < NakInvalid => r.result = d.result
           /\ d.result >= NakInvalid => r.result = NakInvalid
           /\ d.result = 0 => r.value = d.value
           /\ d.result \in 1..3 => r.error = d.error
      [] kind = "CALIBRATION" -> r.procedure = d.procedure \/ (d.procedure >= NumProcedures /\ r.procedure = 0)
      [] kind = "DEBUG" -> r.command = d.command \/ (d.command >= NumDebugCommands /\ r.command = 0)
      [] kind = "LCL_RESET" -> Flags(r.lcls, 6) = Flags(d.lcls, 6)
      [] kind \in {"DIRECTORY_LISTING", "FILE_DOWNLOAD"} ->
           r = d \/ (d.area >= NumAreas /\ r = [d EXCEPT !.area = 0])
      [] kind = "STORAGE" ->
           /\ r.offset = d.offset /\ r.length = d.length
           /\ r.area = d.area \/ (d.area >= NumAreas /\ r.area = 0)
           /\ r.command = d.command \/ (d.command >= NumStorageCommands /\ r.command = 0)
      [] kind = "ADC" ->
           /\ r.timestamp = d.timestamp
           /\ \A i \in 1..13 : Between(0, d.measurements[i] - r.measurements[i], Unit(i) - 1)
      [] kind = "MAG" ->
           /\ r.timestamp = d.timestamp /\ r.field = d.field
           /\ Between(-9, r.temperature - MagRange(d.temperature), 9)
      [] kind = "HEARTBEAT" ->
           /\ r.timestamp = d.timestamp /\ r.errorCode = d.errorCode
           /\ r.rxsm = d.rxsm /\ r.subsystems = d.subsystems /\ r.lcls = d.lcls
           /\ Between(-5, r.voltage - Clamped(d.voltage, 0, 2550), 5)
           /\ Between(-50, r.temperature - Clamped(d.temperature, -12800, 12700), 50)
      [] OTHER -> r = d

(* A request is executed with an area, a command, a procedure, a length  *)
(* and a set of LCLs that exist.                                         *)
InRange(kind, r) ==
    CASE kind = "STORAGE" -> r.area < NumAreas /\ r.command < NumStorageCommands /\ r.length > 0
      [] kind = "DIRECTORY_LISTING" -> r.area < NumAreas /\ r.count <= 256
      [] kind = "FILE_DOWNLOAD" -> r.area < NumAreas /\ Between(1, r.length, MaxReadLength)
      [] kind = "LCL_RESET" -> r.lcls <= LclResetAll
      [] kind = "CALIBRATION" -> r.procedure < NumProcedures
      [] kind = "DEBUG" -> r.command < NumDebugCommands
      [] OTHER -> TRUE

(* The validators that look at more than the length: a fragment of binary*)
(* data has to fill the frame, although its encoder sends as many bytes as*)
(* there are, and a listing has to fit the index of its reply.           *)
RefusedWhole(kind, d) ==
    CASE kind = "BINARY_DATA" -> Len(d.data) < MaxPayload - 4 \/ d.index > d.max
      [] kind = "DIRECTORY_ENTRY" -> d.index > d.max
      [] kind = "DIRECTORY_LISTING" -> d.count > 256
      [] OTHER -> FALSE

VariableLength ==
    {"BINARY_DATA", "DIRECTORY_ENTRY", "ECHO", "DIRECTORY_LISTING", "FILE_DOWNLOAD", "SCM", "TEXT_MESSAGE"}

(* A frame that arrives whole is read as it was meant; one of fixed length*)
(* that is cut off is refused, and no stale byte of the buffer counts.   *)
FramesAgree ==
    frame # Nothing /\ read # Unread =>
      /\ received = frame.bytes =>
           IF RefusedWhole(frame.kind, frame.data) THEN read = Refused
           ELSE read # Refused /\ Agrees(frame.kind, frame.data, read.data)
      /\ frame.kind \notin VariableLength => (read = Refused <=> received < frame.bytes)
      /\ read # Refused => InRange(frame.kind, read.data)
=============================================================================
