---------------------------- MODULE CommandIntake ---------------------------
(***************************************************************************)
(* Commands from the UARTs to their execution: the receiver tasks, one for *)
(* each UART, all of which read into the same static buffer; the inbound   *)
(* queue, whose messages own a copy of their payload on the heap; and the  *)
(* command task, which executes a message and answers it.  A chunk of bytes*)
(* is the sequence of the frames that the parser finds in it.              *)
(***************************************************************************)
EXTENDS Naturals, Sequences, FiniteSetsExt

CONSTANTS
    Uarts,          \* the UARTs that are connected
    CommandKinds,   \* bound: the frames that arrive, without the UART
    ChunkFrames,    \* bound: frames in one chunk
    MaxFrames,      \* bound: frames that arrive in all
    QueueSize,      \* QUEUE_SIZE
    HeapSize        \* bound: payloads that fit on the heap

ASSUME IntakeAssumption == {ChunkFrames, MaxFrames, QueueSize, HeapSize} \subseteq Nat \ {0}

VARIABLES
    arrived,      \* how many frames have arrived
    rx_buf,       \* the buffer of the receiver tasks
    uartRx,       \* for each receiver task, where it is in which number of frames
    parsed,       \* the numbers of the frames that were parsed so far
    in_queue,
    heap,         \* payload copies that are allocated
    refused,      \* messages that found the queue full
    cmdTask,      \* where the command task is, with its message and response
    executed      \* what the last message did

receiving == <<arrived, rx_buf, uartRx, parsed>>
intakeVars == <<receiving, in_queue, heap, refused, cmdTask, executed>>

NoMessage == [index |-> "none", frame |-> [number |-> 0]]
NotReading == [at |-> "read", i |-> 1, n |-> 0]
CmdIdle == [at |-> "receive", message |-> NoMessage, response |-> "none"]

IntakeInit ==
    /\ arrived = 0 /\ rx_buf = <<>> /\ parsed = {}
    /\ uartRx = [u \in Uarts |-> NotReading]
    /\ in_queue = <<>> /\ heap = 0 /\ refused = 0
    /\ cmdTask = CmdIdle /\ executed = "nothing"

---------------------------------------------------------------------------
(* uart_rx::read(): uart::read() writes to the shared buffer. *)
ReadChunk(u, kinds) ==
    /\ uartRx[u].at = "read"
    /\ arrived + Len(kinds) <= MaxFrames
    /\ arrived' = arrived + Len(kinds)
    /\ LET chunk == [i \in 1 .. Len(kinds) |-> [number |-> arrived + i, uart |-> u, kind |-> kinds[i]]]
       IN  rx_buf' = chunk \o SubSeq(rx_buf, Len(kinds) + 1, Len(rx_buf))
    /\ uartRx' = [uartRx EXCEPT ![u] = [at |-> "feed", i |-> 1, n |-> Len(kinds)]]
    /\ UNCHANGED <<parsed, in_queue, heap, refused, cmdTask, executed>>

(* One turn of its loop: the next bytes of the buffer go to the parser of  *)
(* this UART; a message is copied, and dropped if the queue is full, but   *)
(* not the copy.                                                           *)
NextFrame(u) == rx_buf[uartRx[u].i]
AfterFrame(u) == IF uartRx[u].i = uartRx[u].n THEN NotReading ELSE [uartRx[u] EXCEPT !.i = @ + 1]

FeedFrame(u) ==
    /\ uartRx[u].at = "feed"
    /\ parsed' = parsed \cup {NextFrame(u).number}
    /\ uartRx' = [uartRx EXCEPT ![u] = AfterFrame(u)]
    /\ IF heap = HeapSize THEN UNCHANGED <<in_queue, heap, refused>>
       ELSE /\ heap' = heap + 1
            /\ IF Len(in_queue) < QueueSize
               THEN /\ in_queue' = Append(in_queue, [index |-> u, frame |-> NextFrame(u)])
                    /\ UNCHANGED refused
               ELSE /\ refused' = refused + 1
                    /\ UNCHANGED in_queue
    /\ UNCHANGED <<arrived, rx_buf, cmdTask, executed>>

---------------------------------------------------------------------------
(* processPacket(): the cases of its switch in their order.  A case that   *)
(* obeys returns; one that does not leaves the switch at its break, if it  *)
(* has one, and runs into the next case otherwise.                         *)
Cases == <<"CLOCK_SYNC", "RESET", "STORAGE", "DIRECTORY_LISTING", "FILE_DOWNLOAD", "LCL_RESET",
           "CALIBRATION", "ECHO", "DEBUG", "default">>
WithoutBreak == {"LCL_RESET", "CALIBRATION", "DEBUG"}

FromGround(k) == k.source = "GROUND_STATION"
Obeys(k, c) == c \notin {"ECHO", "default"} /\ FromGround(k)
Leaves(k, c) == Obeys(k, c) \/ c \notin WithoutBreak

FirstCase(k) == Min({i \in 1 .. Len(Cases) : Cases[i] \in {k.type, "default"}})
ReachedCases(k) ==
    {Cases[i] : i \in {j \in FirstCase(k) .. Len(Cases) :
                          \A m \in FirstCase(k) .. j - 1 : ~Leaves(k, Cases[m])}}

(* How the handlers answer a payload of the right size; the endless loop of*)
(* DEBUG_CMD_TRIGGER_WATCHDOG is in Watchdog.tla.                          *)
ClockSyncAnswers == {"ACCEPTED", "FAILED"}
CalibrationAnswers == {"ACCEPTED", "UNSUPPORTED", "INVALID"}
DebugAnswers == {"ACCEPTED", "INVALID"}
StorageAnswers == {"ACCEPTED", "FAILED", "INVALID"}
ListingAnswers == {"ACCEPTED", "FAILED"}
DownloadAnswers == {"ACCEPTED", "FAILED"}

Answers(c) == CASE c = "CLOCK_SYNC" -> ClockSyncAnswers
                [] c = "CALIBRATION" -> CalibrationAnswers
                [] c = "DEBUG" -> DebugAnswers
                [] c = "STORAGE" -> StorageAnswers
                [] c = "DIRECTORY_LISTING" -> ListingAnswers
                [] c = "FILE_DOWNLOAD" -> DownloadAnswers
                [] OTHER -> {"ACCEPTED"}

(* What a message does, and how it is answered: a command that is too      *)
(* short is refused, the handlers answer the others.  processNext ignores  *)
(* what is for somebody else.                                              *)
Outcome(does, responses) == [does : does, response : responses]

Outcomes(k) ==
    LET obeyed == {c \in ReachedCases(k) : Obeys(k, c)}
    IN  IF k.target # "ONBOARD_COMPUTER" THEN Outcome({"nothing"}, {"none"})
        ELSE IF obeyed = {}
        THEN Outcome({"nothing"},
                     IF "ECHO" \in ReachedCases(k) /\ k.payload = "echo" THEN {"echo"} ELSE {"none"})
        ELSE IF k.payload = "short" THEN Outcome({"nothing"}, {"INVALID"})
        ELSE Outcome(obeyed, UNION {Answers(c) : c \in obeyed})

ReceiveCommand ==
    /\ cmdTask.at = "receive"
    /\ in_queue # <<>>
    /\ cmdTask' = [at |-> "process", message |-> Head(in_queue), response |-> "none"]
    /\ in_queue' = Tail(in_queue)
    /\ executed' = "nothing"
    /\ UNCHANGED <<receiving, heap, refused>>

(* The command RESET restarts the program. *)
Resets(k) == k.target = "ONBOARD_COMPUTER" /\ k.type = "RESET" /\ FromGround(k)

ProcessPacket(outcome) ==
    /\ cmdTask.at = "process"
    /\ ~Resets(cmdTask.message.frame.kind)
    /\ outcome \in Outcomes(cmdTask.message.frame.kind)
    /\ executed' = outcome.does
    /\ cmdTask' = [at |-> "free", message |-> cmdTask.message, response |-> outcome.response]
    /\ UNCHANGED <<receiving, in_queue, heap, refused>>

ProcessReset ==
    /\ cmdTask.at = "process"
    /\ Resets(cmdTask.message.frame.kind)
    /\ executed' = "RESET"
    /\ rx_buf' = <<>> /\ uartRx' = [u \in Uarts |-> NotReading]
    /\ in_queue' = <<>> /\ heap' = 0 /\ refused' = 0
    /\ cmdTask' = CmdIdle
    /\ UNCHANGED <<arrived, parsed>>

(* Mutant: the payload is freed only when there is an answer. *)
FreePayloadAnswered ==
    /\ cmdTask.at = "free"
    /\ heap' = heap - (IF cmdTask.response = "none" THEN 0 ELSE 1)
    /\ cmdTask' = IF cmdTask.response = "none" THEN CmdIdle ELSE [cmdTask EXCEPT !.at = "respond"]
    /\ UNCHANGED <<receiving, in_queue, refused, executed>>

FreePayload ==
    /\ cmdTask.at = "free"
    /\ heap' = heap - 1
    /\ cmdTask' = IF cmdTask.response = "none" THEN CmdIdle ELSE [cmdTask EXCEPT !.at = "respond"]
    /\ UNCHANGED <<receiving, in_queue, refused, executed>>

(* sendResponse(), on the UART of the message; nobody cares if it fails. *)
SendResponse ==
    /\ cmdTask.at = "respond"
    /\ cmdTask' = CmdIdle
    /\ UNCHANGED <<receiving, in_queue, heap, refused, executed>>

---------------------------------------------------------------------------
CmdTaskStep == ReceiveCommand \/ ProcessReset \/ FreePayload \/ SendResponse
               \/ \E k \in CommandKinds : \E outcome \in Outcomes(k) : ProcessPacket(outcome)

IntakeNext ==
    \/ \E u \in Uarts, n \in 1 .. ChunkFrames : \E kinds \in [1 .. n -> CommandKinds] : ReadChunk(u, kinds)
    \/ \E u \in Uarts : FeedFrame(u)
    \/ CmdTaskStep

IntakeSpec == IntakeInit /\ [][IntakeNext]_intakeVars
              /\ WF_intakeVars(CmdTaskStep) /\ \A u \in Uarts : WF_intakeVars(FeedFrame(u))

---------------------------------------------------------------------------
Messages == [index : Uarts, frame : [number : 1 .. MaxFrames, uart : Uarts, kind : CommandKinds]]

IntakeTypeOK ==
    /\ arrived \in 0 .. MaxFrames /\ parsed \subseteq 1 .. MaxFrames
    /\ uartRx \in [Uarts -> [at : {"read", "feed"}, i : 1 .. ChunkFrames, n : 0 .. ChunkFrames]]
    /\ in_queue \in Seq(Messages) /\ Len(in_queue) <= QueueSize
    /\ heap \in 0 .. HeapSize /\ refused \in 0 .. HeapSize
    /\ cmdTask.at \in {"receive", "process", "free", "respond"}
    /\ cmdTask.message \in Messages \cup {NoMessage}

(* Every payload on the heap belongs to a message that is queued or being  *)
(* processed, apart from those of the messages that found the queue full:  *)
(* nobody knows these any more.                                            *)
PayloadsAccounted ==
    heap = Len(in_queue) + (IF cmdTask.at \in {"process", "free"} THEN 1 ELSE 0) + refused

ForUsFromGround(k) == FromGround(k) /\ k.target = "ONBOARD_COMPUTER"

(* Only ground control makes the experiment do something, and only with a  *)
(* message to the onboard computer, although the cases of the switch for   *)
(* some commands run into the next ones.                                   *)
OnlyGroundIsObeyed ==
    [][executed' # "nothing" /\ executed' # executed =>
         ForUsFromGround(cmdTask.message.frame.kind)]_intakeVars

FedRight == \A u \in Uarts : FeedFrame(u) => NextFrame(u).uart = u /\ NextFrame(u).number \notin parsed

(* With one UART, every frame is parsed as often as it arrived, and on the *)
(* UART on which it did, so that it is answered there.                     *)
ParsedAsReceived == [][FedRight]_intakeVars

(* The command task never stops: what is queued is taken out of the queue. *)
CommandsTaken == in_queue # <<>> ~> in_queue = <<>>
=============================================================================
