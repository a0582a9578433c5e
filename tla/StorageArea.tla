---------------------------- MODULE StorageArea ----------------------------
(***************************************************************************)
(* One storage area and every task that touches it: the experiment data    *)
(* recorder task (manage() of src/src/modules/edr.cpp, which runs an       *)
(* ExperimentDataRecorder and remounts after I/O errors), the command task *)
(* (the STORAGE and DEBUG commands of src/src/modules/cmd.cpp), the        *)
(* storage task that mounts at boot, and the tasks that write log records. *)
(* The two areas of the firmware share no state but the cmd and storage    *)
(* tasks; the other area appears here as results of those and as records.  *)
(***************************************************************************)
EXTENDS FilesystemState, Sequences

CONSTANTS
    Commands,   \* the commands ground control sends
    Careful,    \* whether it lets the storage task finish before it sends
                \* MOUNT or ERASE, and sends MOUNT only when GET_STATUS says
                \* "unmounted"
    MaxRemounts,
    QueueCap,   \* QUEUE_SIZE
    MaxDropped  \* bound: where _dropped stops counting

ASSUME CommandsAssumption ==
    Commands \subseteq {"MOUNT", "UNMOUNT", "ERASE", "SIMULATE_ERROR"}
ASSUME CarefulAssumption == Careful \in BOOLEAN
ASSUME BoundsAssumption ==
    MaxRemounts \in Nat /\ QueueCap \in Nat \ {0} /\ MaxDropped \in Nat

VARIABLES
    recState,       \* ExperimentDataRecorder::_state
    queue,          \* ExperimentDataRecorder::_queue
    dropped,        \* ExperimentDataRecorder::_dropped
    maybeError,     \* maybeError of _run()
    hasIoError,     \* hasIoError of manage()
    remountCounter  \* remountCounter of manage()

recVars == <<recState, queue, dropped, maybeError>>
manageVars == <<hasIoError, remountCounter>>
vars == <<areaVars, taskVars, recVars, manageVars>>

(* What is in the queue: log records, the sentinel of                      *)
(* requestStopAndUnmount() and the one of simulateIOError().               *)
Requests == {"record", "stop", "ioError"}

---------------------------------------------------------------------------
(* record(), in the tasks that send requests to the recorder *)

(* The request of a task that is inside record(). *)
RequestOf(t) == IF t = "cmd" THEN "stop" ELSE "record"

RecordDone(t) ==
    CASE t = "cmd" -> "idle"
      [] pc[t] = "callback1" -> "callback2"
      [] pc[t] = "callback2" -> "start"
      [] OTHER -> "work"

RecordCheck(t) ==
    /\ pc[t] = "recordChk"
    /\ Goto(t, IF recState = "DISABLED" THEN RecordDone(t) ELSE "recordSend")
    /\ UNCHANGED <<areaVars, tmp, call, recVars, manageVars>>

(* Mutant: the timeout of send_with_timeout() is lost. *)
EnqueueOrWait(request) ==
    /\ Len(queue) < QueueCap
    /\ queue' = Append(queue, request)
    /\ dropped' = dropped

(* Enqueue, or count the request as dropped when the queue stays full for  *)
(* the 100 ms of the timeout (record()) or is full now                     *)
(* (recordNonblocking()).                                                  *)
EnqueueOrDrop(request) ==
    \/ /\ Len(queue) < QueueCap
       /\ queue' = Append(queue, request)
       /\ dropped' = dropped
    \/ /\ Len(queue) = QueueCap
       /\ queue' = queue
       /\ dropped' = IF dropped < MaxDropped THEN dropped + 1 ELSE dropped

RecordSend(t) ==
    /\ pc[t] = "recordSend"
    /\ EnqueueOrDrop(RequestOf(t))
    /\ Goto(t, RecordDone(t))
    /\ UNCHANGED <<areaVars, tmp, call, recState, maybeError, manageVars>>

(* A task has a record to write. *)
NewRecord(p) ==
    /\ pc[p] = "work"
    /\ Goto(p, "recordChk")
    /\ UNCHANGED <<areaVars, tmp, call, recVars, manageVars>>

---------------------------------------------------------------------------
(* The recorder: run() and _run(), in the EDR task *)

(* run() empties the queue before _run() opens a log. *)
ClearQueue ==
    /\ pc["edr"] = "run"
    /\ queue' = <<>>
    /\ maybeError' = FALSE
    /\ Goto("edr", "open")
    /\ UNCHANGED <<areaVars, tmp, call, recState, dropped, manageVars>>

(* The new index in LASTLOG.TXT and the new log file. *)
OpenLog ==
    /\ pc["edr"] = "open"
    /\ \/ /\ recState' = "STARTING"
          /\ Goto("edr", "callback1")
          /\ UNCHANGED hasIoError
       \/ /\ "open" \in Faults
          /\ hasIoError' = TRUE
          /\ Goto("edr", "account")
          /\ UNCHANGED recState
    /\ UNCHANGED <<areaVars, tmp, call, queue, dropped, maybeError, remountCounter>>

(* rxsm::onLogOpened() writes two records from the EDR task itself. *)
LogOpened ==
    /\ pc["edr"] \in {"callback1", "callback2"}
    /\ EnqueueOrDrop("record")
    /\ Goto("edr", RecordDone("edr"))
    /\ UNCHANGED <<areaVars, tmp, call, recState, maybeError, manageVars>>

Start ==
    /\ pc["edr"] = "start"
    /\ recState' = "RUNNING"
    /\ Goto("edr", "receive")
    /\ UNCHANGED <<areaVars, tmp, call, queue, dropped, maybeError, manageVars>>

(* Mutant: the loop goes on after a sentinel. *)
ReceiveWithoutBreak ==
    /\ pc["edr"] = "receive"
    /\ queue # <<>>
    /\ queue' = Tail(queue)
    /\ maybeError' = (maybeError \/ Head(queue) = "ioError")
    /\ Goto("edr", IF maybeError THEN "exit" ELSE "receive")
    /\ UNCHANGED <<areaVars, tmp, call, recState, dropped, manageVars>>

(* `while (_queue.receive(request) && !maybeError)`: after a failed write  *)
(* the loop takes one more request, and drops it.                          *)
Receive ==
    /\ pc["edr"] = "receive"
    /\ queue # <<>>
    /\ queue' = Tail(queue)
    /\ LET request == Head(queue) IN
       \/ /\ maybeError
          /\ maybeError' = maybeError
          /\ Goto("edr", "exit")
       \/ /\ ~maybeError /\ request # "record"
          /\ maybeError' = (request = "ioError")
          /\ Goto("edr", "exit")
       \/ /\ ~maybeError /\ request = "record"
          /\ maybeError' \in IF "write" \in Faults THEN BOOLEAN ELSE {FALSE}
          /\ Goto("edr", "receive")
    /\ UNCHANGED <<areaVars, tmp, call, recState, dropped, manageVars>>

Exit ==
    /\ pc["edr"] = "exit"
    /\ recState' = "DISABLED"
    /\ hasIoError' = maybeError
    /\ Goto("edr", "account")
    /\ UNCHANGED <<areaVars, tmp, call, queue, dropped, maybeError, remountCounter>>

---------------------------------------------------------------------------
(* manage() around the recorder *)

WaitUntilMounted ==
    /\ pc["edr"] = "waitMounted"
    /\ Goto("edr", IF "MOUNTED" \in flags THEN "run" ELSE "mountedEvt")
    /\ UNCHANGED <<areaVars, tmp, call, recVars, manageVars>>

WaitUntilUnmounted ==
    /\ pc["edr"] = "waitUnmounted"
    /\ Goto("edr", IF "MOUNTED" \in flags THEN "unmountedEvt" ELSE "decide")
    /\ UNCHANGED <<areaVars, tmp, call, recVars, manageVars>>

(* Mutant: waitUntilMounted() does not look at the flag again. *)
WaitAnyOnce ==
    /\ \E w \in {[at |-> "mountedEvt",   event |-> "MOUNTED",   to |-> "run"],
                 [at |-> "unmountedEvt", event |-> "UNMOUNTED", to |-> "waitUnmounted"]} :
         /\ pc["edr"] = w.at
         /\ w.event \in events
         /\ events' = events \ {w.event}
         /\ Goto("edr", w.to)
    /\ UNCHANGED <<flags, fsPtr, lfs, formatted, tmp, call, recVars, manageVars>>

(* waitAny() blocks until the event is set, and clears it. *)
WaitAny ==
    /\ \E w \in {[at |-> "mountedEvt",   event |-> "MOUNTED",   to |-> "waitMounted"],
                 [at |-> "unmountedEvt", event |-> "UNMOUNTED", to |-> "waitUnmounted"]} :
         /\ pc["edr"] = w.at
         /\ w.event \in events
         /\ events' = events \ {w.event}
         /\ Goto("edr", w.to)
    /\ UNCHANGED <<flags, fsPtr, lfs, formatted, tmp, call, recVars, manageVars>>

(* The counter starts again when the recorder ran for more than 10 s or    *)
(* stopped without an error; then the area is unmounted.                   *)
AccountRun ==
    /\ pc["edr"] = "account"
    /\ \E longRun \in BOOLEAN :
         remountCounter' = IF longRun \/ ~hasIoError THEN 0 ELSE remountCounter
    /\ call' = [call EXCEPT !["edr"] = "unmount"]
    /\ Goto("edr", "unmountChk")
    /\ UNCHANGED <<areaVars, tmp, recVars, hasIoError>>

Decide ==
    /\ pc["edr"] = "decide"
    /\ Goto("edr", IF remountCounter <= MaxRemounts /\ hasIoError
                   THEN "remount" ELSE "waitMounted")
    /\ UNCHANGED <<areaVars, tmp, call, recVars, manageVars>>

(* Mutant: one attempt too many. *)
RemountOnceMore ==
    /\ pc["edr"] = "remount"
    /\ IF remountCounter <= MaxRemounts
       THEN /\ remountCounter' = remountCounter + 1
            /\ call' = [call EXCEPT !["edr"] = "mount"]
            /\ Goto("edr", "mountChk")
       ELSE /\ UNCHANGED <<remountCounter, call>>
            /\ Goto("edr", "waitMounted")
    /\ UNCHANGED <<areaVars, tmp, recVars, hasIoError>>

(* Mutant: the attempts are not counted. *)
RemountUncounted ==
    /\ pc["edr"] = "remount"
    /\ call' = [call EXCEPT !["edr"] = "mount"]
    /\ Goto("edr", "mountChk")
    /\ UNCHANGED <<areaVars, tmp, recVars, manageVars>>

Remount ==
    /\ pc["edr"] = "remount"
    /\ IF remountCounter < MaxRemounts
       THEN /\ remountCounter' = remountCounter + 1
            /\ call' = [call EXCEPT !["edr"] = "mount"]
            /\ Goto("edr", "mountChk")
       ELSE /\ UNCHANGED <<remountCounter, call>>
            /\ Goto("edr", "waitMounted")
    /\ UNCHANGED <<areaVars, tmp, recVars, hasIoError>>

---------------------------------------------------------------------------
(* The cmd task takes one command at a time from its queue. *)

CommandPlaces ==
    [MOUNT |-> "clearLoad", ERASE |-> "eraseChk",
     UNMOUNT |-> "stopChk", SIMULATE_ERROR |-> "simulateSend"]
CommandCalls ==
    [MOUNT |-> "mount", ERASE |-> "erase", UNMOUNT |-> "none", SIMULATE_ERROR |-> "none"]

TakeCommand(c) ==
    /\ pc["cmd"] = "idle"
    /\ Careful /\ c \in {"MOUNT", "ERASE"} => pc["boot"] = "done"
    /\ Careful /\ c = "MOUNT" => "MOUNTED" \notin flags
    /\ call' = [call EXCEPT !["cmd"] = CommandCalls[c]]
    /\ Goto("cmd", CommandPlaces[c])
    /\ UNCHANGED <<areaVars, tmp, recVars, manageVars>>

(* requestStopAndUnmount() reports success once the recorder was running,  *)
(* whatever record() does with the sentinel.                               *)
StopCheck ==
    /\ pc["cmd"] = "stopChk"
    /\ Reply("cmd", IF recState = "RUNNING" THEN "recordChk" ELSE "idle", "error")
    /\ UNCHANGED <<areaVars, tmp, call, recVars, manageVars>>

(* simulateIOError() waits for space in the queue for ever, whether or not *)
(* a recorder is there to empty it.                                        *)
SimulateSend ==
    /\ pc["cmd"] = "simulateSend"
    /\ Len(queue) < QueueCap
    /\ queue' = Append(queue, "ioError")
    /\ Goto("cmd", "idle")
    /\ UNCHANGED <<areaVars, tmp, call, recState, dropped, maybeError, manageVars>>

---------------------------------------------------------------------------
Init ==
    /\ AreaInit
    /\ pc = [t \in Tasks |-> CASE t = "edr" -> "waitMounted" [] t = "cmd" -> "idle"
                               [] t = "boot" -> "setup" [] OTHER -> "work"]
    /\ recState = "DISABLED"
    /\ queue = <<>>
    /\ dropped = 0
    /\ maybeError = FALSE
    /\ hasIoError = FALSE
    /\ remountCounter = 0

StorageStep(t) == AreaStep(t) /\ UNCHANGED <<recVars, manageVars>>

Record(t) == RecordCheck(t) \/ RecordSend(t)

EdrTask ==
    \/ StorageStep("edr")
    \/ Unmount /\ UNCHANGED <<recVars, manageVars>>
    \/ ClearQueue \/ OpenLog \/ LogOpened \/ Start \/ Receive \/ Exit
    \/ WaitUntilMounted \/ WaitUntilUnmounted \/ WaitAny
    \/ AccountRun \/ Decide \/ Remount

CmdTask ==
    \/ StorageStep("cmd")
    \/ EraseCheck /\ UNCHANGED <<recVars, manageVars>>
    \/ StopCheck \/ Record("cmd") \/ SimulateSend

BootTask ==
    \/ StorageStep("boot")
    \/ Setup /\ UNCHANGED <<recVars, manageVars>>

Next ==
    \/ EdrTask
    \/ CmdTask
    \/ BootTask
    \/ \E c \in Commands : TakeCommand(c)
    \/ \E p \in Producers : NewRecord(p) \/ Record(p)

(* The scheduler runs every task that can run: the tasks of these          *)
(* priorities leave the processor whenever they wait.  Ground control need *)
(* not send anything, and no task has to write records.                    *)
Fairness == WF_vars(EdrTask) /\ WF_vars(CmdTask) /\ WF_vars(BootTask)

Spec == Init /\ [][Next]_vars
FairSpec == Spec /\ Fairness

---------------------------------------------------------------------------
Places == {"clearLoad", "clearStore", "mountChk", "lfsMount", "setLoad", "setStore",
           "setEvt", "unmountChk", "lfsUnmount", "clrLoad", "clrStore", "clrEvt",
           "errLoad", "errStore", "lfsFormat", "recordChk", "recordSend",
           \* edr
           "waitMounted", "mountedEvt", "run", "open", "callback1", "callback2",
           "start", "receive", "exit", "account", "waitUnmounted", "unmountedEvt",
           "decide", "remount",
           \* cmd, boot and the producers
           "idle", "eraseChk", "stopChk", "simulateSend",
           "setup", "cfgLoad", "cfgStore", "mountedAtBoot", "formatChk", "done", "work"}

(* Every variable has its type; the counters are within their bounds. *)
AreaTypeOK ==
    /\ flags \in SUBSET Flags
    /\ fsPtr \in BOOLEAN
    /\ events \in SUBSET {"MOUNTED", "UNMOUNTED"}
    /\ lfs \in BOOLEAN
    /\ formatted \in BOOLEAN

TaskTypeOK ==
    /\ pc \in [Tasks -> Places]
    /\ tmp \in [Tasks -> SUBSET Flags]
    /\ call \in [Tasks -> Calls]
    /\ reply \in {"none", "ok", "error"}

RecorderTypeOK ==
    /\ recState \in {"DISABLED", "STARTING", "RUNNING"}
    /\ queue \in Seq(Requests)
    /\ Len(queue) <= QueueCap
    /\ dropped \in 0..MaxDropped
    /\ maybeError \in BOOLEAN
    /\ hasIoError \in BOOLEAN
    /\ remountCounter \in 0..MaxRemounts

TypeOK == AreaTypeOK /\ TaskTypeOK /\ RecorderTypeOK

(* FLAG_MOUNTED says what LittleFS is, but for the task that is between    *)
(* its mount or unmount call and its store to the flags.  Three tasks load *)
(* and store that byte; one lost update breaks this for good.              *)
MountedFlagAgrees ==
    /\ lfs /\ "MOUNTED" \notin flags => \E t \in Tasks : pc[t] \in {"setLoad", "setStore"}
    /\ ~lfs /\ "MOUNTED" \in flags => \E t \in Tasks : pc[t] \in {"clrLoad", "clrStore"}

(* From run() to its return the recorder has a mounted filesystem under    *)
(* its open file, whatever the other tasks do to the area meanwhile.       *)
Recording == {"run", "open", "callback1", "callback2", "start", "receive", "exit"}

RecorderHasFilesystem ==
    pc["edr"] \in Recording \/ recState # "DISABLED" => lfs /\ fsPtr

(* A task that waits for EVT_MOUNTED or EVT_UNMOUNTED after the flag has   *)
(* changed finds the event set, or the task that changed the flag is about *)
(* to set it: no wake-up of waitUntilMounted() is lost.                    *)
NoLostWakeup ==
    /\ pc["edr"] = "mountedEvt" /\ "MOUNTED" \in flags =>
         "MOUNTED" \in events \/ \E t \in Tasks : pc[t] = "setEvt"
    /\ pc["edr"] = "unmountedEvt" /\ "MOUNTED" \notin flags =>
         "UNMOUNTED" \in events \/ \E t \in Tasks : pc[t] = "clrEvt"

(* A task at place l goes on, so the call at l is made. *)
Leaves(t, l) == pc[t] = l /\ pc'[t] # l

(* ensureMounted() mounts "the filesystem if it is not mounted yet": no    *)
(* task calls lfs_mount() on a mounted lfs_t (it would forget the open     *)
(* log file and lose the buffers).                                         *)
MountsUnmounted == [][\A t \in Tasks : Leaves(t, "lfsMount") => ~lfs]_vars

(* eraseStorage() refuses a mounted area: no task formats the storage      *)
(* under a mounted filesystem.                                             *)
FormatsUnmounted == [][\A t \in Tasks : Leaves(t, "lfsFormat") => ~lfs]_vars

(* markErrored(): no attempt is made to mount an area that is marked as    *)
(* errored until the error flag is cleared.                                *)
ErroredNotMounted ==
    [][\A t \in Tasks : Leaves(t, "lfsMount") => "ERRORED" \notin flags]_vars

(* "trying to remount, attempt %d": every remount attempt of manage() asks *)
(* the device.                                                             *)
RemountTriesDevice ==
    [][Leaves("edr", "mountChk") => pc'["edr"] # "errLoad"]_vars

(* A sentinel in the queue of a running recorder is not passed over: the   *)
(* recorder stops and the area is unmounted, however many records the      *)
(* other tasks put behind it.                                              *)
StopUnmounts ==
    recState = "RUNNING" /\ (\E i \in DOMAIN queue : queue[i] = "stop")
        ~> "MOUNTED" \notin flags

(* manage() "waits until the filesystem is mounted again externally, then  *)
(* resumes logging": an area that is mounted while the EDR task waits for  *)
(* it is recorded to.                                                      *)
MountedIsRecorded ==
    pc["edr"] \in {"waitMounted", "mountedEvt"} /\ "MOUNTED" \in flags
        ~> recState = "RUNNING"

(* If the remount counter is not reset any more, because no run lasts 10 s *)
(* and none ends without an error, then manage() stops remounting: it waits *)
(* for an event, or records.                                               *)
CounterReset == pc["edr"] = "account" /\ pc'["edr"] # "account" /\ remountCounter' = 0

RemountingEnds ==
    <>[][~CounterReset]_vars =>
        <>[](pc["edr"] \in {"mountedEvt", "unmountedEvt"} \/ recState = "RUNNING")

(* The cmd task comes back for the next command whatever it is asked. *)
CommandsReturn == pc["cmd"] # "idle" ~> pc["cmd"] = "idle"
=============================================================================
