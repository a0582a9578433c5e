------------------------------ MODULE LogFiles ------------------------------
(***************************************************************************)
(* The files that the experiment data recorder keeps on one storage area:  *)
(* one log for each run, numbered, and LASTLOG.TXT with the last number.   *)
(* An operation of the filesystem may fail, and the power may fail between *)
(* any two of them.  littlefs keeps the old state of a file until the file *)
(* is synced or closed, and replaces it then as a whole.                   *)
(***************************************************************************)
EXTENDS Naturals, Sequences, FiniteSetsExt

CONSTANTS
    MaxLogs,       \* bound: logs
    MaxRecords,    \* bound: records that are sent to the recorder in all
    RequestLimit,  \* QUEUE_SIZE
    SyncInterval   \* SYNC_INTERVAL_MS

ASSUME LogFilesAssumption == {MaxLogs, MaxRecords, RequestLimit, SyncInterval} \subseteq Nat

VARIABLES
    files,         \* for each name, what is on the medium
    descriptors,   \* the files that are open, by name, with what was written
    recorderState, \* STATE_DISABLED, STATE_STARTING or STATE_RUNNING
    runAt,         \* where _run() is
    logIndex,
    requests,
    sent,          \* how many records were sent
    lastSync,      \* the time since _last_sync_at
    uptime,        \* the time since the boot
    age,           \* of the oldest record that is written and not synced
    misread        \* the number on the medium was not read or written as it should

(* LASTLOG.TXT, and the logs by their numbers *)
LASTLOG_FILE == 0
Files == {LASTLOG_FILE} \cup 1 .. MaxLogs
stopRecorderRequest == 0
run == <<recorderState, runAt, logIndex>>
times == <<lastSync, uptime, age>>
logVars == <<files, descriptors, run, requests, sent, times, misread>>

Absent == [exists |-> FALSE, content |-> <<>>]
Holds(content) == [exists |-> TRUE, content |-> content]
Late == SyncInterval + 1

---------------------------------------------------------------------------
(* The wrapper of littlefs: open files are known by their descriptors.     *)
(* Opening a file for writing creates it, and empties the open one only.   *)
OpenToWrite(name) ==
    /\ descriptors' = descriptors \cup {[name |-> name, content |-> <<>>]}
    /\ files' = [files EXCEPT ![name] = IF @.exists THEN @ ELSE Holds(<<>>)]

OpenFile(name) == CHOOSE d \in descriptors : d.name = name

Write(name, item) ==
    descriptors' = (descriptors \ {OpenFile(name)})
                   \cup {[name |-> name, content |-> Append(OpenFile(name).content, item)]}

Sync(name) == files' = [files EXCEPT ![name] = Holds(OpenFile(name).content)]

(* The destructor of the smart handle closes the file, and does not say    *)
(* whether that failed.  A file on which a write failed keeps its old      *)
(* state, and so does one that cannot be synced.                           *)
Close(name, ok) ==
    /\ descriptors' = descriptors \ {OpenFile(name)}
    /\ IF ok THEN Sync(name) ELSE UNCHANGED files

---------------------------------------------------------------------------
(* run() throws away what is left in the queue.  *)
RunStarts ==
    /\ runAt = "idle"
    /\ requests' = <<>>
    /\ runAt' = "stat"
    /\ UNCHANGED <<files, descriptors, recorderState, logIndex, sent, times, misread>>

RunEnds == runAt' = "idle" /\ recorderState' = "STATE_DISABLED" /\ UNCHANGED logIndex

(* Mutant: the number of the last log is taken for the next one. *)
SameIndex(number) == logIndex' = number + (IF number = 0 THEN 1 ELSE 0) /\ number <= MaxLogs

(* _getLastLogIndex(): a file that cannot be seen is no file, and one that *)
(* cannot be read holds 0.                                                 *)
NextIndex(number) == logIndex' = number + 1 /\ number < MaxLogs

StatLastLog(ok) ==
    /\ runAt = "stat"
    /\ IF ok /\ files[LASTLOG_FILE].exists
       THEN runAt' = "read" /\ UNCHANGED <<logIndex, misread>>
       ELSE /\ NextIndex(0) /\ runAt' = "update"
            /\ misread' = (misread \/ files[LASTLOG_FILE].exists)
    /\ UNCHANGED <<files, descriptors, recorderState, requests, sent, times>>

LastLog == LET content == files[LASTLOG_FILE].content IN IF content = <<>> THEN 0 ELSE content[1]

ReadLastLog(outcome) ==
    /\ runAt = "read"
    /\ CASE outcome = "notOpened" -> RunEnds /\ UNCHANGED misread
         [] outcome = "notRead" -> NextIndex(0) /\ runAt' = "update" /\ misread' = TRUE
         [] outcome = "read" -> NextIndex(LastLog) /\ runAt' = "update" /\ UNCHANGED misread
    /\ outcome # "notOpened" => UNCHANGED recorderState
    /\ UNCHANGED <<files, descriptors, requests, sent, times>>

(* _updateLastLogIndex() *)
OpenLastLog(ok) ==
    /\ runAt = "update"
    /\ IF ok THEN /\ OpenToWrite(LASTLOG_FILE)
                  /\ runAt' = "write" /\ UNCHANGED <<recorderState, logIndex>>
       ELSE RunEnds /\ UNCHANGED <<files, descriptors>>
    /\ UNCHANGED <<requests, sent, times, misread>>

WriteLastLog(ok) ==
    /\ runAt = "write"
    /\ IF ok THEN Write(LASTLOG_FILE, logIndex) /\ runAt' = "close"
       ELSE UNCHANGED descriptors /\ runAt' = "giveUp"
    /\ UNCHANGED <<files, recorderState, logIndex, requests, sent, times, misread>>

CloseLastLog(ok) ==
    /\ runAt \in {"close", "giveUp"}
    /\ runAt = "giveUp" => ~ok
    /\ Close(LASTLOG_FILE, ok)
    /\ IF runAt = "close"
       THEN runAt' = "open" /\ misread' = (misread \/ ~ok) /\ UNCHANGED <<recorderState, logIndex>>
       ELSE RunEnds /\ UNCHANGED misread
    /\ UNCHANGED <<requests, sent, times>>

---------------------------------------------------------------------------
(* The log itself.  _last_sync_at starts at 0, the time of the boot. *)
OpenLog(ok) ==
    /\ runAt = "open"
    /\ IF ok THEN /\ OpenToWrite(logIndex)
                  /\ runAt' = "loop" /\ recorderState' = "STATE_STARTING" /\ lastSync' = uptime
                  /\ UNCHANGED logIndex
       ELSE RunEnds /\ UNCHANGED <<files, descriptors, lastSync>>
    /\ UNCHANGED <<requests, sent, uptime, age, misread>>

(* The callbacks have sent their records. *)
CallbacksDone ==
    /\ runAt = "loop" /\ recorderState = "STATE_STARTING"
    /\ recorderState' = "STATE_RUNNING"
    /\ UNCHANGED <<files, descriptors, runAt, logIndex, requests, sent, times, misread>>

(* FormattedLogRecord::write(): records go to a recorder that runs or      *)
(* starts, and are dropped when there is no room in time.                  *)
SendRecord ==
    /\ recorderState \in {"STATE_STARTING", "STATE_RUNNING"}
    /\ sent < MaxRecords /\ sent' = sent + 1
    /\ requests' = IF Len(requests) < RequestLimit THEN Append(requests, sent') ELSE requests
    /\ UNCHANGED <<files, descriptors, run, times, misread>>

(* requestStopAndUnmount() and simulateIOError() *)
SendSentinel ==
    /\ recorderState = "STATE_RUNNING" /\ Len(requests) < RequestLimit
    /\ requests' = Append(requests, stopRecorderRequest)
    /\ UNCHANGED <<files, descriptors, run, sent, times, misread>>

Receive == runAt = "loop" /\ recorderState = "STATE_RUNNING" /\ requests # <<>> /\ requests' = Tail(requests)

(* LogWriter::write() and the flush after every record, which syncs the    *)
(* file when the last time was long ago.                                   *)
SyncDue == lastSync > SyncInterval

WriteRecord ==
    /\ Receive /\ Head(requests) # stopRecorderRequest
    /\ Write(logIndex, Head(requests))
    /\ IF SyncDue
       THEN /\ files' = [files EXCEPT ![logIndex] = Holds(Append(OpenFile(logIndex).content, Head(requests)))]
            /\ lastSync' = 0 /\ age' = 0
       ELSE UNCHANGED <<files, lastSync, age>>
    /\ UNCHANGED <<run, sent, uptime, misread>>

(* The recorder takes one more request, and loses it, before it ends. *)
WriteFails ==
    /\ Receive /\ Head(requests) # stopRecorderRequest
    /\ runAt' = "oneMore"
    /\ UNCHANGED <<files, descriptors, recorderState, logIndex, sent, times, misread>>

LoseRequest ==
    /\ runAt = "oneMore" /\ requests # <<>>
    /\ requests' = Tail(requests)
    /\ runAt' = "failed"
    /\ UNCHANGED <<files, descriptors, recorderState, logIndex, sent, times, misread>>

ReceiveSentinel ==
    /\ Receive /\ Head(requests) = stopRecorderRequest
    /\ runAt' = "stopped"
    /\ UNCHANGED <<files, descriptors, recorderState, logIndex, sent, times, misread>>

CloseLog(ok) ==
    /\ runAt \in {"failed", "stopped"}
    /\ runAt = "failed" => ~ok
    /\ Close(logIndex, ok)
    /\ RunEnds
    /\ age' = 0
    /\ UNCHANGED <<requests, sent, lastSync, uptime, misread>>

---------------------------------------------------------------------------
TimePasses ==
    /\ uptime' = Min({uptime + 1, Late}) /\ lastSync' = Min({lastSync + 1, Late})
    /\ age' = IF \E d \in descriptors : d.name = logIndex /\ d.content # files[logIndex].content
              THEN Min({age + 1, Late + 1}) ELSE 0
    /\ UNCHANGED <<files, descriptors, run, requests, sent, misread>>

(* The power fails: what is not on the medium is gone. *)
PowerFails ==
    /\ descriptors' = {} /\ requests' = <<>>
    /\ recorderState' = "STATE_DISABLED" /\ runAt' = "idle" /\ logIndex' = 0
    /\ lastSync' = 0 /\ uptime' = 0 /\ age' = 0
    /\ UNCHANGED <<files, sent, misread>>

LogFilesInit ==
    /\ files = [name \in Files |-> Absent]
    /\ descriptors = {} /\ requests = <<>> /\ sent = 0 /\ misread = FALSE
    /\ recorderState = "STATE_DISABLED" /\ runAt = "idle" /\ logIndex = 0
    /\ lastSync = 0 /\ uptime = 0 /\ age = 0

LogFilesNext ==
    \/ RunStarts
    \/ \E ok \in BOOLEAN : \/ StatLastLog(ok) \/ OpenLastLog(ok) \/ WriteLastLog(ok) \/ CloseLastLog(ok)
                           \/ OpenLog(ok) \/ CloseLog(ok)
    \/ \E outcome \in {"notOpened", "notRead", "read"} : ReadLastLog(outcome)
    \/ CallbacksDone \/ SendRecord \/ SendSentinel
    \/ WriteRecord \/ WriteFails \/ LoseRequest \/ ReceiveSentinel
    \/ TimePasses \/ PowerFails

LogFilesSpec == LogFilesInit /\ [][LogFilesNext]_logVars

---------------------------------------------------------------------------
LogFilesTypeOK ==
    /\ files \in [Files -> [exists : BOOLEAN, content : Seq(Nat)]]
    /\ \A d \in descriptors : d.name \in Files
    /\ recorderState \in {"STATE_DISABLED", "STATE_STARTING", "STATE_RUNNING"}
    /\ logIndex \in 0 .. MaxLogs /\ Len(requests) <= RequestLimit /\ sent \in 0 .. MaxRecords
    /\ {lastSync, uptime, age} \subseteq 0 .. Late + 1 /\ misread \in BOOLEAN

(* The buffer of the recorder serves one open file at a time, and a run    *)
(* that ends has closed its files, however it ended.                       *)
BufferHasOneUser == Cardinality(descriptors) <= (IF runAt \in {"idle", "stat", "read", "update", "open"} THEN 0 ELSE 1)

(* No run touches the log of an earlier one, through power failures and    *)
(* failures of any operation, as long as the number in LASTLOG.TXT is read *)
(* and stored as it should be: a log only grows.                           *)
LogsOnlyGrow ==
    \A i \in 1 .. MaxLogs :
        LET before == files[i].content  after == files'[i].content
        IN  Len(after) >= Len(before) /\ SubSeq(after, 1, Len(before)) = before

LogsKept == [][misread \/ LogsOnlyGrow]_logVars

(* Records are on the medium in the order in which they were sent. *)
LogsInOrder ==
    \A i \in 1 .. MaxLogs : \A m \in 1 .. Len(files[i].content) : \A n \in 1 .. m - 1 :
        files[i].content[n] < files[i].content[m]

(* When a record is written, no older one has waited for longer than the   *)
(* sync interval: the power takes away the records of that time and those  *)
(* after the last one that was written.                                    *)
OldRecordsAreDurable == [][WriteRecord => age' <= SyncInterval]_logVars
=============================================================================
