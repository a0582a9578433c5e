------------------------------ MODULE Telemetry ------------------------------
(***************************************************************************)
(* Outbound telemetry: sendTo(), called by any task, and the task that     *)
(* writes the messages to the UARTs.  A message draws a sequence number    *)
(* and is put in out_queue under one mutex; its buffer is allocated before *)
(* and freed after it was written, or at once when it was refused.         *)
(***************************************************************************)
EXTENDS Naturals, Sequences, FiniteSets

CONSTANTS
    Tasks,       \* the tasks that send
    NoTask,      \* nobody holds the mutex
    NoMessage,   \* a task sends nothing
    QueueLimit,  \* QUEUE_SIZE
    MaxMishaps   \* bound: mishaps of the environment in a behaviour

VARIABLES
    out_queue,
    seq_no_mutex,   \* the task that holds it
    sending,        \* where each task is in sendTo(), with what, and its result
    writing,        \* the message the uartTx task writes, if any
    buffers,        \* allocated buffers of messages
    order,          \* history: who drew the sequence numbers under way
    mishaps

telemVars == <<out_queue, seq_no_mutex, sending, writing,
               buffers, order, mishaps>>

ASSUME TelemetryAssumption ==
    /\ QueueLimit \in Nat \ {0} /\ MaxMishaps \in Nat
    /\ IsFiniteSet(Tasks) /\ NoTask \notin Tasks

(* The places in sendTo(): outside; before the mutex; with the mutex and a *)
(* sequence number; refused, with the buffer to be freed.                  *)
Places == {"idle", "lock", "enqueue", "free", "done"}

(* Something goes wrong that the environment may do only so often. *)
Mishap == mishaps < MaxMishaps /\ mishaps' = mishaps + 1

GoTo(t, place) == sending' = [sending EXCEPT ![t].at = place]
Finish(t, sent) ==
    sending' = [sending EXCEPT ![t] = [at |-> "done", body |-> NoMessage, sent |-> sent]]

TelemInit ==
    /\ out_queue = <<>>
    /\ seq_no_mutex = NoTask
    /\ sending = [t \in Tasks |-> [at |-> "idle", body |-> NoMessage, sent |-> FALSE]]
    /\ writing = <<>>
    /\ buffers = 0
    /\ order = <<>>
    /\ mishaps = 0

---------------------------------------------------------------------------
(* sendTo(), called by t with a body.  With minimal telemetry a message    *)
(* that is not essential is left out, and the caller is told that it was   *)
(* sent.  Any task may have changed the level, so either level is read.    *)
SendTo(t, body, essential) ==
    /\ sending[t].at = "idle"
    /\ \/ /\ buffers' = buffers + 1
          /\ sending' = [sending EXCEPT ![t] = [at |-> "lock", body |-> body, sent |-> FALSE]]
          /\ UNCHANGED mishaps
       \/ /\ Mishap      \* no memory
          /\ Finish(t, FALSE)
          /\ UNCHANGED buffers
       \/ /\ ~essential
          /\ Finish(t, TRUE)
          /\ UNCHANGED <<buffers, mishaps>>
    /\ UNCHANGED <<out_queue, seq_no_mutex, writing, order>>

(* Mutant: the mutex only guards the sequence number. *)
DrawNumberUnlocked(t) ==
    /\ sending[t].at = "lock" /\ seq_no_mutex = NoTask
    /\ order' = Append(order, t)
    /\ GoTo(t, "enqueue")
    /\ UNCHANGED <<out_queue, seq_no_mutex, writing, buffers, mishaps>>

DrawNumber(t) ==
    /\ sending[t].at = "lock" /\ seq_no_mutex = NoTask
    /\ seq_no_mutex' = t
    /\ order' = Append(order, t)
    /\ GoTo(t, "enqueue")
    /\ UNCHANGED <<out_queue, writing, buffers, mishaps>>

Enqueue(t) ==
    /\ sending[t].at = "enqueue"
    /\ Len(out_queue) < QueueLimit
    /\ out_queue' = Append(out_queue, [from |-> t, body |-> sending[t].body])
    /\ seq_no_mutex' = NoTask
    /\ Finish(t, TRUE)
    /\ UNCHANGED <<writing, buffers, order, mishaps>>

(* The queue stays full for the whole timeout; the number is lost. *)
TimeOut(t) ==
    /\ sending[t].at = "enqueue"
    /\ Len(out_queue) = QueueLimit
    /\ Mishap
    /\ seq_no_mutex' = NoTask
    /\ order' = SubSeq(order, 1, Len(order) - 1)
    /\ GoTo(t, "free")
    /\ UNCHANGED <<out_queue, writing, buffers>>

FreeBuffer(t) ==
    /\ sending[t].at = "free"
    /\ buffers' = buffers - 1
    /\ Finish(t, FALSE)
    /\ UNCHANGED <<out_queue, seq_no_mutex, writing, order, mishaps>>

(* sendTo() returns, and its caller goes on. *)
Return(t) ==
    /\ sending[t].at = "done"
    /\ sending' = [sending EXCEPT ![t] = [at |-> "idle", body |-> NoMessage, sent |-> FALSE]]

---------------------------------------------------------------------------
(* The uartTx task: processNext(). *)

Receive ==
    /\ writing = <<>> /\ out_queue # <<>>
    /\ writing' = <<Head(out_queue)>>
    /\ out_queue' = Tail(out_queue)
    /\ UNCHANGED <<seq_no_mutex, sending, buffers, order, mishaps>>

Write ==
    /\ writing # <<>>
    /\ writing' = <<>>
    /\ buffers' = buffers - 1
    /\ order' = Tail(order)
    /\ UNCHANGED <<out_queue, seq_no_mutex, sending, mishaps>>

(* What happens to a message after sendTo() was called. *)
InSendTo(t) == DrawNumber(t) \/ Enqueue(t) \/ TimeOut(t) \/ FreeBuffer(t)

---------------------------------------------------------------------------
(* The messages that were drawn and not written yet, oldest first. *)
UnderWay == writing \o out_queue

(* Messages are written in the order in which they drew their sequence     *)
(* numbers: the mutex is held until the message is in the queue, as the    *)
(* comment in sendTo() demands.                                            *)
WrittenInOrder ==
    /\ Len(UnderWay) =< Len(order)
    /\ \A i \in DOMAIN UnderWay : UnderWay[i].from = order[i]

(* Every allocated buffer belongs to a message: one that is being written, *)
(* one in the queue, or one a task is about to enqueue or to free.  None   *)
(* is leaked when a message is refused, and none is freed twice.           *)
BuffersAccounted ==
    buffers = Len(UnderWay) + Cardinality({t \in Tasks : sending[t].at \in {"lock", "enqueue", "free"}})

=============================================================================
