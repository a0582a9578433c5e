----------------------------- MODULE LogMessages -----------------------------
(***************************************************************************)
(* Text messages of the tasks (modules/log).  Every module has a logger    *)
(* with a buffer and a mutex of its own; what a logger sends as telemetry  *)
(* is put together in one payload that all loggers share.                  *)
(***************************************************************************)
EXTENDS Naturals, FiniteSets

CONSTANTS
    LogTasks,   \* the tasks that log
    Loggers,    \* the modules with a logger
    NoLogTask   \* nobody holds a mutex

ASSUME LogMessagesAssumption == NoLogTask \notin LogTasks

VARIABLES
    loggerMutex,  \* per logger: _mutex
    loggerBuf,    \* per logger: _buf, by the task whose text is in it
    sharedPayload, \* the static payload: a header and a text
    logCall,      \* per task: where it is, the logger, and whether it was alone
    arrived       \* per task: what its last message was as telemetry and as a record

messageVars == <<loggerMutex, loggerBuf, sharedPayload, logCall, arrived>>

NoText == "none"
NotCalling == [at |-> "idle", logger |-> NoText, alone |-> TRUE]

MessagesInit ==
    /\ loggerMutex = [l \in Loggers |-> NoLogTask]
    /\ loggerBuf = [l \in Loggers |-> NoLogTask]
    /\ sharedPayload = [header |-> NoText, text |-> NoLogTask]
    /\ logCall = [t \in LogTasks |-> NotCalling]
    /\ arrived = [t \in LogTasks |-> [sent |-> sharedPayload, record |-> NoLogTask]]

Calling(t) == logCall[t].at # "idle"
Goes(t, place) == logCall' = [logCall EXCEPT ![t].at = place]

(* A task is alone in its call if no task is in one of another logger.     *)
CallLogger(t, l) ==
    /\ ~Calling(t)
    /\ LET others == {u \in LogTasks : Calling(u) /\ logCall[u].logger # l}
       IN  logCall' = [u \in LogTasks |->
                         IF u = t THEN [at |-> "lock", logger |-> l, alone |-> others = {}]
                         ELSE IF u \in others THEN [logCall[u] EXCEPT !.alone = FALSE]
                         ELSE logCall[u]]
    /\ UNCHANGED <<loggerMutex, loggerBuf, sharedPayload, arrived>>

(* Mutant: the text is formatted before the mutex is locked. *)
FormatFirst(t) ==
    /\ logCall[t].at = "lock"
    /\ loggerBuf' = [loggerBuf EXCEPT ![logCall[t].logger] = t]
    /\ Goes(t, "header")
    /\ UNCHANGED <<loggerMutex, sharedPayload, arrived>>

(* vsend(): lock, and vsnprintf() into the buffer of the logger.           *)
Format(t) ==
    /\ logCall[t].at = "lock"
    /\ loggerMutex[logCall[t].logger] = NoLogTask
    /\ loggerMutex' = [loggerMutex EXCEPT ![logCall[t].logger] = t]
    /\ loggerBuf' = [loggerBuf EXCEPT ![logCall[t].logger] = t]
    /\ Goes(t, "header")
    /\ UNCHANGED <<sharedPayload, arrived>>

(* encodeTextMessageFrame(): the byte of module and level, then the text.  *)
EncodeHeader(t) ==
    /\ logCall[t].at = "header"
    /\ sharedPayload' = [sharedPayload EXCEPT !.header = logCall[t].logger]
    /\ Goes(t, "text")
    /\ UNCHANGED <<loggerMutex, loggerBuf, arrived>>

CopyText(t) ==
    /\ logCall[t].at = "text"
    /\ sharedPayload' = [sharedPayload EXCEPT !.text = loggerBuf[logCall[t].logger]]
    /\ Goes(t, "send")
    /\ UNCHANGED <<loggerMutex, loggerBuf, arrived>>

(* telem::send() copies the payload into a message of its own.             *)
SendText(t) ==
    /\ logCall[t].at = "send"
    /\ arrived' = [arrived EXCEPT ![t].sent = sharedPayload]
    /\ Goes(t, "record")
    /\ UNCHANGED <<loggerMutex, loggerBuf, sharedPayload>>

(* The record is made from the buffer of the logger; a full queue of the   *)
(* recorder drops it.                                                      *)
RecordText(t) ==
    /\ logCall[t].at = "record"
    /\ \/ arrived' = [arrived EXCEPT ![t].record = loggerBuf[logCall[t].logger]]
       \/ UNCHANGED arrived
    /\ Goes(t, "unlock")
    /\ UNCHANGED <<loggerMutex, loggerBuf, sharedPayload>>

UnlockLogger(t) ==
    /\ logCall[t].at = "unlock"
    /\ loggerMutex' = [loggerMutex EXCEPT ![logCall[t].logger] = NoLogTask]
    /\ Goes(t, "returned")
    /\ UNCHANGED <<loggerBuf, sharedPayload, arrived>>

LeaveLogger(t) ==
    /\ logCall[t].at = "returned"
    /\ logCall' = [logCall EXCEPT ![t] = NotCalling]
    /\ arrived' = [arrived EXCEPT ![t] = [sent |-> [header |-> NoText, text |-> NoLogTask],
                                          record |-> NoLogTask]]
    /\ UNCHANGED <<loggerMutex, loggerBuf, sharedPayload>>

LogStep(t) ==
    \/ Format(t) \/ EncodeHeader(t) \/ CopyText(t) \/ SendText(t)
    \/ RecordText(t) \/ UnlockLogger(t) \/ LeaveLogger(t)

MessagesNext == \E t \in LogTasks : LogStep(t) \/ \E l \in Loggers : CallLogger(t, l)
MessagesSpec == MessagesInit /\ [][MessagesNext]_messageVars
---------------------------------------------------------------------------
Intact(t) == arrived[t].sent = [header |-> logCall[t].logger, text |-> t]

(* What a task logs is recorded under its own text or not at all, whoever  *)
(* logs at the same time, and it is sent as it was logged if no task was   *)
(* in a call of another logger meanwhile.                                  *)
TextsIntact ==
    \A t \in LogTasks : logCall[t].at = "returned" =>
        /\ arrived[t].record \in {t, NoLogTask}
        /\ logCall[t].alone => Intact(t)
=============================================================================
