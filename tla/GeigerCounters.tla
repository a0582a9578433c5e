---------------------------- MODULE GeigerCounters --------------------------
(***************************************************************************)
(* The task of the GMM: it reads its UART one byte at a time, parses NMEA  *)
(* sentences, and reports the counts of a sentence with the time at which  *)
(* its first character came.  A character of a sentence knows which one it *)
(* belongs to and its place there, which is what minmea_check() of the     *)
(* complete message and its checksum establishes.                          *)
(***************************************************************************)
EXTENDS Naturals, Sequences

CONSTANTS
    SentenceLength,      \* bound: characters of a sentence, with its two ends
    MaxSentenceLength,    \* MAX_MESSAGE_LENGTH
    MaxSentences         \* bound: sentences that the GMM starts

ASSUME GmmAssumption ==
    /\ MaxSentences \in Nat \ {0}
    /\ SentenceLength \in Nat \ (0 .. 3)
    /\ MaxSentenceLength \in Nat /\ MaxSentenceLength + 1 >= SentenceLength - 1

VARIABLES
    wire,        \* the sentence that the GMM is sending and how much of it is sent
    nmea,        \* the parser: its state and the message
    gmm,         \* lastMessageStartedAt (a sentence), the measurement, its time stamp, the status
    unbroken     \* whether all that was sent of the sentence has been fed in its order

gmmVars == <<wire, nmea, gmm, unbroken>>

(* A sentence: $, text, *, the checksum as one character, and a newline. *)
CharAt(i) ==
    CASE i = 1 -> "$"
      [] i = SentenceLength - 2 -> "*"
      [] i = SentenceLength -> "newline"
      [] OTHER -> "text"
Character(s, i) == [s |-> s, i |-> i, ch |-> CharAt(i)]
Garbage == [s |-> 0, i |-> 0, ch |-> "unprintable"]

GmmInit ==
    /\ wire = [s |-> 1, i |-> 0]
    /\ nmea = [state |-> "WAITING_SYNC_BYTE_START", message |-> <<>>]
    /\ gmm = [startedAt |-> 0, received |-> FALSE, counts |-> 0, stamp |-> 0, status |-> "ERROR"]
    /\ unbroken = TRUE

---------------------------------------------------------------------------
(* _store(): a message that is too long is given up. *)
Stores(m) == Len(m) <= MaxSentenceLength

(* _feed(): the state and the message after a character; DONE is seen by   *)
(* feed() only, which then resets the state.                               *)
NmeaStored(state, message, ch) ==
    IF Stores(message) THEN [state |-> state, message |-> Append(message, ch)]
    ELSE [state |-> "WAITING_SYNC_BYTE_START", message |-> message]

NmeaFed(p, ch) ==
    IF ch.ch = "unprintable" THEN [state |-> "ERROR", message |-> p.message]
    ELSE IF ch.ch = "$" THEN NmeaStored("WAITING_SYNC_BYTE_END", <<>>, ch)
    ELSE CASE p.state = "WAITING_SYNC_BYTE_END" ->
                NmeaStored(IF ch.ch = "*" THEN "WAITING_NEWLINE" ELSE p.state, p.message, ch)
           [] p.state = "WAITING_NEWLINE" ->
                IF ch.ch = "newline" THEN [p EXCEPT !.state = "DONE"]
                ELSE NmeaStored(p.state, p.message, ch)
           [] OTHER -> [p EXCEPT !.state = "WAITING_SYNC_BYTE_START"]

NmeaReset(p) == IF p.state \in {"ERROR", "DONE"} THEN [p EXCEPT !.state = "WAITING_SYNC_BYTE_START"] ELSE p

(* minmea_check(), strictly: the characters are those of one sentence. *)
NmeaChecks(m) == \E s \in 1 .. MaxSentences : m = [i \in 1 .. SentenceLength - 1 |-> Character(s, i)]

(* update() and updateStatus() *)
GmmFed(ch) ==
    LET p == NmeaFed(nmea, ch)
        whole == p.state = "DONE" /\ NmeaChecks(p.message)
        startedAt == IF ch.ch = "$" THEN ch.s ELSE gmm.startedAt
    IN  /\ nmea' = NmeaReset(p)
        /\ gmm' = IF whole THEN [startedAt |-> startedAt, received |-> TRUE, counts |-> Head(p.message).s,
                                 stamp |-> startedAt, status |-> "OK"]
                  ELSE [gmm EXCEPT !.startedAt = startedAt]

---------------------------------------------------------------------------
(* The GMM sends the next character; it arrives, or is lost, or is         *)
(* replaced by something that cannot be printed.                           *)
NextOnWire == IF wire.i = SentenceLength THEN [s |-> wire.s + 1, i |-> 1] ELSE [wire EXCEPT !.i = @ + 1]

CharacterArrives ==
    /\ NextOnWire.s <= MaxSentences
    /\ wire' = NextOnWire
    /\ unbroken' = (wire'.i = 1 \/ unbroken)
    /\ GmmFed(Character(wire'.s, wire'.i))

CharacterLost ==
    /\ NextOnWire.s <= MaxSentences
    /\ wire' = NextOnWire
    /\ unbroken' = FALSE
    /\ UNCHANGED <<nmea, gmm>>

CharacterGarbled ==
    /\ NextOnWire.s <= MaxSentences
    /\ wire' = NextOnWire
    /\ unbroken' = FALSE
    /\ GmmFed(Garbage)

(* Time passes without a sentence: the status gets worse; in the end the   *)
(* task sets up anew, and forgets when it received a message.              *)
GmmWaits ==
    /\ gmm.status # "ERROR" \/ gmm.received
    /\ gmm' = CASE gmm.status = "OK" -> [gmm EXCEPT !.status = "WARNING"]
                [] gmm.status = "WARNING" -> [gmm EXCEPT !.status = "ERROR"]
                [] OTHER -> [gmm EXCEPT !.received = FALSE]
    /\ UNCHANGED <<wire, nmea, unbroken>>

GmmNext == CharacterArrives \/ CharacterLost \/ CharacterGarbled \/ GmmWaits

GmmSpec == GmmInit /\ [][GmmNext]_gmmVars

---------------------------------------------------------------------------
GmmTypeOK ==
    /\ nmea.state \in {"WAITING_SYNC_BYTE_START", "WAITING_SYNC_BYTE_END", "WAITING_NEWLINE"}
    /\ Len(nmea.message) <= MaxSentenceLength + 1
    /\ {gmm.startedAt, gmm.counts, gmm.stamp} \subseteq 0 .. MaxSentences
    /\ gmm.status \in {"OK", "WARNING", "ERROR"}

(* Counts are reported with the time at which their own sentence started. *)
CountsHaveTheirTime == gmm.counts = gmm.stamp

(* After any garbage, a sentence that arrives in one piece is reported. *)
WholeSentencesReported == wire.i = SentenceLength /\ unbroken => gmm.counts = wire.s
=============================================================================
