---------------------------- MODULE StorageReader ----------------------------
(***************************************************************************)
(* Downloads and listings of a storage area: the cmd task starts an        *)
(* operation, the storage task runs it and sends its frames.  They share   *)
(* the manager's _operation and nothing guards it, so every load and store *)
(* of it is a step of its own.                                             *)
(*                                                                         *)
(* Lengths count units, FragmentLength of them in a frame.  An operation   *)
(* is cancelled before it is deleted, and is taken to stay so while the    *)
(* storage task leaves its iterate(); the cmd task, which may ask a        *)
(* deleted one much later, can get any answer.                             *)
(***************************************************************************)
EXTENDS Telemetry

CONSTANTS
    Storage, Cmd,    \* the two tasks, both in Tasks
    Requests,        \* 1 .. n: requests in the order they arrive
    Inputs,          \* what may be requested: the kind ("raw", "file", "dir"), the
                     \* length or count, and what a file has from the offset on
    FragmentLength,  \* MAX_BINARY_DATA_FRAGMENT_LENGTH
    Entries,         \* entries of the directory
    IndexWord        \* 2^w for the width w of a fragment index

VARIABLES
    heap,        \* the operation object made for each request
    _operation,  \* the request whose object is installed, or 0
    reader,      \* where the storage task is, and in whose iterate()
    cmd,         \* where the cmd task is, and with which request
    ground       \* history: the last frame of an operation that was written

readVars == <<heap, _operation, reader, cmd, ground>>
vars == <<telemVars, readVars>>

ASSUME ReaderAssumption ==
    /\ {Storage, Cmd} \subseteq Tasks /\ Storage # Cmd
    /\ Requests \subseteq Nat \ {0}
    /\ FragmentLength \in Nat \ {0} /\ IndexWord \in Nat \ {0} /\ Entries \in Nat
    /\ \A i \in Inputs :
          /\ i.kind \in {"raw", "file", "dir"} /\ i.length \in Nat
          /\ i.kind = "file" => i.rest \in Nat
          /\ i.length =< IndexWord * (IF i.kind = "dir" THEN 1 ELSE FragmentLength)

NoFrame == [kind |-> "none", request |-> 0, index |-> 0, max |-> 0, from |-> 0, to |-> 0, last |-> TRUE]

(* An operation: what is left (_bytesLeft or _count), the address or the   *)
(* position of the handle, the indices of its next and last frame.         *)
Nothing == [kind |-> "none", left |-> 0, pos |-> 0, index |-> 0, max |-> 0,
            ended |-> FALSE, live |-> FALSE]

Running(op) == op.left > 0 /\ ~op.ended

LesserOf(a, b) == IF a < b THEN a ELSE b

(* Mutant: one too many when the length is a multiple of a fragment. *)
MaxIndexPlain(length) == (length \div FragmentLength) % IndexWord

(* The largest index of the frames for a length; it is kept in a byte. *)
MaxIndex(length) ==
    ((length \div FragmentLength)
        - (IF length > 0 /\ length % FragmentLength = 0 THEN 1 ELSE 0)) % IndexWord

(* The object start() fills in; positions are relative to its start.  A    *)
(* file is not read beyond its end, and the start of a listing is ignored: *)
(* SmartDirHandle::seek() never moves.                                     *)
NewOperation(input) ==
    LET left == IF input.kind = "file" THEN LesserOf(input.length, input.rest)
                ELSE input.length IN
    [kind |-> input.kind, left |-> left, pos |-> 0, index |-> 0,
     max |-> IF input.kind = "dir" THEN (input.length - 1) % IndexWord ELSE MaxIndex(left),
     ended |-> FALSE, live |-> TRUE]

(* cancel() *)
Cancelled(op) == [op EXCEPT !.left = 0]

Init ==
    /\ TelemInit
    /\ heap = [r \in Requests |-> Nothing]
    /\ _operation = 0
    /\ reader = [at |-> "look", request |-> 0, pos |-> 0, error |-> FALSE]
    /\ cmd = [at |-> "idle", request |-> 1, seen |-> 0, answer |-> "none"]
    /\ ground = NoFrame

---------------------------------------------------------------------------
(* The cmd task: startRawStorageDownload(), startFileDownload() and        *)
(* startDirectoryListing() of a request, then its answer.                  *)

CmdAt(place) == cmd.at = place /\ UNCHANGED <<reader, ground>>

(* running() loads the pointer, ... *)
LoadOperation ==
    /\ CmdAt("idle")
    /\ cmd.request \in Requests
    /\ cmd' = [cmd EXCEPT !.at = IF _operation = 0 THEN "build" ELSE "running",
                          !.seen = _operation]
    /\ UNCHANGED <<telemVars, heap, _operation>>

(* ... and asks the object, which may have been deleted since. *)
AskRunning ==
    /\ CmdAt("running")
    /\ \E running \in IF heap[cmd.seen].live THEN {Running(heap[cmd.seen])} ELSE BOOLEAN :
          cmd' = [cmd EXCEPT !.at = IF running THEN "answer" ELSE "build", !.seen = 0,
                             !.answer = IF running THEN "failed" ELSE "none"]
    /\ UNCHANGED <<telemVars, heap, _operation>>

(* start() of the new operation, for any arguments: EINVAL for nothing to  *)
(* read, an error when the area, the file or the directory cannot be used. *)
StartFails ==
    /\ CmdAt("build")
    /\ cmd' = [cmd EXCEPT !.at = "answer", !.answer = "failed"]
    /\ \E input \in Inputs :
          \/ input.length = 0 /\ UNCHANGED mishaps
          \/ input.kind # "raw" /\ Mishap
    /\ UNCHANGED <<out_queue, seq_no_mutex, sending, writing,
                   buffers, order, heap, _operation>>

Start(input) ==
    /\ CmdAt("build")
    /\ input.length > 0
    /\ heap' = [heap EXCEPT ![cmd.request] = NewOperation(input)]
    /\ cmd' = [cmd EXCEPT !.at = "install"]
    /\ UNCHANGED <<telemVars, _operation>>

(* _setOperation() cancels what is installed, ... *)
CancelInstalled ==
    /\ CmdAt("install")
    /\ heap' = IF _operation = 0 THEN heap
               ELSE [heap EXCEPT ![_operation] = Cancelled(@)]
    /\ cmd' = [cmd EXCEPT !.at = "reset"]
    /\ UNCHANGED <<telemVars, _operation>>

(* ... and puts the new operation in its place, which deletes the old one. *)
Install ==
    /\ CmdAt("reset")
    /\ heap' = IF _operation = 0 THEN heap
               ELSE [heap EXCEPT ![_operation] = Nothing]
    /\ _operation' = cmd.request
    /\ cmd' = [cmd EXCEPT !.at = "answer", !.answer = "accepted"]
    /\ UNCHANGED telemVars

Answer ==
    /\ CmdAt("answer")
    /\ SendTo(Cmd, cmd.answer, TRUE)
    /\ cmd' = [cmd EXCEPT !.at = "answered", !.answer = "none"]
    /\ UNCHANGED <<heap, _operation>>

(* Whether the answer was sent is ignored. *)
NextCommand ==
    /\ CmdAt("answered")
    /\ Return(Cmd)
    /\ cmd' = [at |-> "idle", request |-> cmd.request + 1, seen |-> 0, answer |-> "none"]
    /\ UNCHANGED <<out_queue, seq_no_mutex, writing, buffers,
                   order, mishaps, heap, _operation>>

---------------------------------------------------------------------------
(* The storage task: StorageOperationManager::iterate() for ever. *)

ReaderAt(place) == reader.at = place /\ UNCHANGED <<cmd, ground>>

(* The object whose iterate() runs. *)
current == heap[reader.request]
Current(op) == heap' = [heap EXCEPT ![reader.request] = op]

ReaderGoes(place) == reader' = [reader EXCEPT !.at = place]

(* iterate() returns an error. *)
ReaderFails == reader' = [reader EXCEPT !.at = "cancel", !.error = TRUE]

(* The installed object's iterate() is called; a download remembers where  *)
(* the handle of its file stands.                                          *)
Enter ==
    /\ ReaderAt("look")
    /\ _operation # 0
    /\ reader' = [reader EXCEPT !.at = "test", !.request = _operation,
                   !.pos = IF heap[_operation].kind = "file" THEN heap[_operation].pos ELSE 0]
    /\ UNCHANGED <<telemVars, heap, _operation>>

(* A raw read of an area that does not exist, or tell() fails. *)
EnterFails ==
    /\ ReaderAt("look")
    /\ _operation # 0
    /\ heap[_operation].kind \in {"raw", "file"}
    /\ Mishap
    /\ reader' = [reader EXCEPT !.at = "cancel", !.request = _operation, !.error = TRUE]
    /\ heap' = IF heap[_operation].kind = "file"
               THEN [heap EXCEPT ![_operation] = Cancelled(@)] ELSE heap
    /\ UNCHANGED <<out_queue, seq_no_mutex, sending, writing,
                   buffers, order, _operation>>

LeaveLoop ==
    /\ ReaderAt("test")
    /\ ~Running(current)
    /\ ReaderGoes("after")
    /\ UNCHANGED <<telemVars, heap, _operation>>

(* A frame with the next n units, or the next entry of a listing. *)
Frame(op, n, max) ==
    [kind |-> op.kind, request |-> reader.request, index |-> op.index % IndexWord,
     max |-> max, from |-> op.pos, to |-> op.pos + n, last |-> op.left = n]

Piece == LesserOf(current.left, FragmentLength)

ReadPiece ==
    /\ ReaderAt("test")
    /\ Running(current)
    /\ current.kind \in {"raw", "file"}
    /\ SendTo(Storage, Frame(current, Piece, current.max), TRUE)
    /\ Current(IF current.kind = "file" THEN [current EXCEPT !.pos = @ + Piece] ELSE current)
    /\ ReaderGoes("sent")
    /\ UNCHANGED _operation

(* A raw read that fails ends iterate(), and is tried again by the next    *)
(* one; a download ends.                                                   *)
ReadPieceFails ==
    /\ ReaderAt("test")
    /\ Running(current)
    /\ current.kind \in {"raw", "file"}
    /\ Mishap
    /\ Current(IF current.kind = "file" THEN Cancelled(current) ELSE current)
    /\ ReaderGoes("after")
    /\ UNCHANGED <<out_queue, seq_no_mutex, sending, writing,
                   buffers, order, _operation>>

ReadEntry ==
    /\ ReaderAt("test")
    /\ Running(current)
    /\ current.kind = "dir"
    /\ current.pos < Entries
    /\ SendTo(Storage, Frame(current, 1, current.max), TRUE)
    /\ Current([current EXCEPT !.pos = @ + 1])
    /\ ReaderGoes("sent")
    /\ UNCHANGED _operation

(* After the last entry: an empty name, and the last index corrected. *)
ReadEnd ==
    /\ ReaderAt("test")
    /\ Running(current)
    /\ current.kind = "dir"
    /\ current.pos = Entries
    /\ SendTo(Storage, [Frame(current, 0, current.index % IndexWord) EXCEPT !.last = TRUE], TRUE)
    /\ Current([current EXCEPT !.ended = TRUE, !.max = current.index % IndexWord])
    /\ ReaderGoes("sent")
    /\ UNCHANGED _operation

ReadEntryFails ==
    /\ ReaderAt("test")
    /\ Running(current)
    /\ current.kind = "dir"
    /\ Mishap
    /\ ReaderFails
    /\ UNCHANGED <<out_queue, seq_no_mutex, sending, writing,
                   buffers, order, heap, _operation>>

(* sendTelemetry() returned. *)
Returned(sent) ==
    /\ ReaderAt("sent")
    /\ sending[Storage].sent = sent
    /\ Return(Storage)
    /\ UNCHANGED <<out_queue, seq_no_mutex, writing, buffers,
                   order, _operation>>

PieceSent ==
    /\ Returned(TRUE)
    /\ current.kind \in {"raw", "file"}
    /\ Current([current EXCEPT !.left = @ - Piece, !.index = @ + 1,
                               !.pos = IF current.kind = "raw" THEN @ + Piece ELSE @])
    /\ reader' = [reader EXCEPT !.at = "test",
                                !.pos = IF current.kind = "file" THEN @ + Piece ELSE @]
    /\ UNCHANGED mishaps

EntrySent ==
    /\ Returned(TRUE)
    /\ current.kind = "dir"
    /\ Current(IF current.ended THEN Cancelled(current)
               ELSE [current EXCEPT !.left = @ - 1, !.index = @ + 1])
    /\ ReaderGoes("test")
    /\ UNCHANGED mishaps

(* running() is no longer true of a listing that has seen the last entry,  *)
(* but still sends the end: a new operation may have deleted it.  What     *)
(* iterate() does to it then is undefined: reading through its null _dir   *)
(* is fatal on POSIX; where address 0 can be read, iterate() returns.      *)
SentFromDeleted ==
    /\ ReaderAt("sent")
    /\ ~current.live
    /\ Return(Storage)
    /\ ReaderGoes("after") \/ ReaderGoes("crashed")
    /\ UNCHANGED <<out_queue, seq_no_mutex, writing, buffers, order, mishaps,
                   heap, _operation>>

(* The frame was refused: iterate() returns and the next one tries again.  *)
(* A download goes back to where it stood, or ends if it cannot; a listing *)
(* does not go back.                                                       *)
Refused ==
    /\ Returned(FALSE)
    /\ current.live
    /\ \/ /\ Current(IF current.kind = "file" THEN [current EXCEPT !.pos = reader.pos]
                      ELSE current)
          /\ UNCHANGED mishaps
       \/ /\ current.kind = "file" /\ Mishap
          /\ Current(Cancelled(current))
    /\ ReaderGoes("after")

(* Mutant: the manager keeps an operation that has finished. *)
AfterKept ==
    /\ ReaderAt("after")
    /\ ReaderGoes("look")
    /\ UNCHANGED <<telemVars, heap, _operation>>

(* Back in the manager, which asks the object that is installed now. *)
After ==
    /\ ReaderAt("after")
    /\ ReaderGoes(IF Running(heap[_operation]) THEN "look" ELSE "cancel")
    /\ UNCHANGED <<telemVars, heap, _operation>>

(* _setOperation(nullptr): cancels what is installed, ... *)
Cancel ==
    /\ ReaderAt("cancel")
    /\ heap' = IF _operation = 0 THEN heap
               ELSE [heap EXCEPT ![_operation] = Cancelled(@)]
    /\ ReaderGoes("delete")
    /\ UNCHANGED <<telemVars, _operation>>

(* ... and deletes it.  After an error runStorageReader() does so again. *)
Delete ==
    /\ ReaderAt("delete")
    /\ heap' = IF _operation = 0 THEN heap
               ELSE [heap EXCEPT ![_operation] = Nothing]
    /\ _operation' = 0
    /\ reader' = IF reader.error THEN [reader EXCEPT !.at = "cancel", !.error = FALSE]
                 ELSE [at |-> "look", request |-> 0, pos |-> 0, error |-> FALSE]
    /\ UNCHANGED telemVars

---------------------------------------------------------------------------
(* The other tasks: frames that minimal telemetry leaves out. *)

Other ==
    /\ UNCHANGED readVars
    /\ \E t \in Tasks \ {Storage, Cmd} :
          \/ SendTo(t, "status", FALSE)
          \/ /\ Return(t)
             /\ UNCHANGED <<out_queue, seq_no_mutex, writing,
                            buffers, order, mishaps>>

(* The uartTx task. *)
WriteToUart ==
    /\ Write
    /\ ground' = IF Head(writing).from = Storage THEN Head(writing).body ELSE ground
    /\ UNCHANGED <<heap, _operation, reader, cmd>>

Transmit == (Receive /\ UNCHANGED readVars) \/ WriteToUart

Sends(t) == InSendTo(t) /\ UNCHANGED readVars

CmdTask ==
    \/ LoadOperation \/ AskRunning \/ StartFails
    \/ \E input \in Inputs : Start(input)
    \/ CancelInstalled \/ Install \/ Answer \/ NextCommand

StorageTask ==
    \/ Enter \/ EnterFails \/ LeaveLoop
    \/ ReadPiece \/ ReadPieceFails \/ ReadEntry \/ ReadEnd \/ ReadEntryFails
    \/ PieceSent \/ EntrySent \/ SentFromDeleted \/ Refused
    \/ After \/ Cancel \/ Delete

Next ==
    \/ CmdTask \/ StorageTask \/ Transmit \/ Other
    \/ \E t \in Tasks : Sends(t)

(* Every task runs for ever, and the mutex is handed to each in the end. *)
Fairness ==
    /\ WF_vars(StorageTask) /\ WF_vars(CmdTask) /\ WF_vars(Transmit)
    /\ \A t \in Tasks : WF_vars(Sends(t)) /\ SF_vars(DrawNumber(t) /\ UNCHANGED readVars)

Spec == Init /\ [][Next]_vars /\ Fairness

---------------------------------------------------------------------------

(* The manager's pointer is null or leads to an object that lives, and the *)
(* tasks are where the code has steps.                                     *)
TypeOK ==
    /\ _operation \in {0} \cup {r \in Requests : heap[r].live}
    /\ \A r \in Requests : heap[r].left \in Nat /\ heap[r].index \in Nat
    /\ reader.at \in {"look", "test", "sent", "after", "cancel", "delete", "crashed"}
    /\ cmd.at \in {"idle", "running", "build", "install", "reset", "answer", "answered"}
    /\ Len(out_queue) =< QueueLimit
    /\ buffers \in Nat /\ mishaps \in 0 .. MaxMishaps

(* What arrives at the ground station is put together without holes: a     *)
(* frame goes on where the one before it ended, with the next index, or is *)
(* the first frame of a later request.  Frames are neither repeated nor    *)
(* skipped when one was refused, and those of two operations do not mix.   *)
FollowsOn ==
    \/ ground' = ground
    \/ /\ ground'.request = ground.request
       /\ ground'.index = ground.index + 1
       /\ ground.kind # "dir" => ground'.from = ground.to
    \/ /\ ground'.request > ground.request
       /\ ground'.index = 0
       /\ ground'.kind # "dir" => ground'.from = 0
FramesFollowOn == [][FollowsOn]_vars

(* A frame is marked as the last one, by an index equal to its maximum,    *)
(* exactly when nothing follows it: the ground station knows when it has   *)
(* everything.                                                             *)
LastIsMarked ==
    \A i \in DOMAIN UnderWay : UnderWay[i].from = Storage =>
        (UnderWay[i].body.index = UnderWay[i].body.max <=> UnderWay[i].body.last)

(* "Starting a new operation while another one is running" is refused: the *)
(* cmd task never ends an operation that still has something to send.      *)
NeverReplaced ==
    [][cmd' # cmd => \A r \in Requests : Running(heap[r]) => Running(heap'[r])]_vars

(* Of downloads, "_one_ reading operation" is true: while the frame of one *)
(* is sent, it is the operation installed, and no other task cancels,      *)
(* deletes or changes it, or puts another one in its place.                *)
SendingDownload == reader.at = "sent" /\ current.kind \in {"raw", "file"}
DownloadsUndisturbed ==
    /\ [](SendingDownload => _operation = reader.request)
    /\ [][SendingDownload /\ reader' = reader => current' = current /\ _operation' = _operation]_vars

(* Every operation ends and makes room for the next one, also after        *)
(* refused frames, failed reads and requests that came at the wrong time;  *)
(* or the storage task is lost.                                            *)
EveryOperationEnds == []<>(_operation = 0 \/ reader.at = "crashed")

(* "At any point in time it takes care of _one_ reading operation": the    *)
(* storage task is in an operation only while that is the one installed.   *)
OneOperation == reader.at \in {"test", "sent"} => _operation = reader.request

=============================================================================
