------------------------------ MODULE Watchdog ------------------------------
(***************************************************************************)
(* The life of the board from one reset to the next: the stages of the     *)
(* boot, a fatal error of some task, which stores what happened in memory  *)
(* that survives a reset and stops everything, the watchdog, which is      *)
(* started by the supervisor task, and the debug task, which reports what  *)
(* happened before the reset.  The tasks run by their priority: the debug  *)
(* task gets to its report before any task of low priority starts.         *)
(***************************************************************************)
EXTENDS Naturals

CONSTANTS
    WatchdogSeconds,  \* the time the watchdog waits
    MaxLag,           \* how long, in seconds, tasks of low priority are held up at most
    CrashTasks        \* bound: the tasks that meet a fatal error

ASSUME WatchdogAssumption == {WatchdogSeconds, MaxLag} \subseteq Nat

Stages == <<"debug", "hal", "drivers", "modules", "tasks", "running">>
FatalErrors == {"STACK_OVERFLOW", "MALLOC_FAILED", "HARD_FAULT"}
NoCrash == [error |-> "none", task |-> "none"]

VARIABLES
    stage,          \* how far bootSystem() is, as an index of Stages
    inited, systemInitError,
    cpu,            \* whether it runs, or spins with the interrupts disabled
    commandTask,    \* whether the command task runs, or spins
    debug_info,     \* the memory that survives a reset
    debugTaskDone,  \* the debug task has reported
    reported,       \* what it reported
    supervisorTask, \* where the supervisor task is, and how late it is
    watchdog,
    reasonOfLastReset,
    lastCrash       \* the fatal error that was met last and is not reported yet

bootVars == <<stage, inited, systemInitError>>
watchdogVars == <<bootVars, cpu, commandTask, debug_info, debugTaskDone, reported, supervisorTask, watchdog,
                  reasonOfLastReset, lastCrash>>

(* What the first boot finds in that memory is anything but the marker. *)
AfterPowerOn == [marker |-> FALSE, errors |-> FatalErrors, task |-> "none"]
SupervisorNotStarted == [at |-> "setup", lag |-> 0]
WatchdogOff == [on |-> FALSE, left |-> 0]

WatchdogInit ==
    /\ stage = 1 /\ inited = TRUE /\ systemInitError = FALSE
    /\ cpu = "runs" /\ commandTask = "runs" /\ debug_info = AfterPowerOn
    /\ debugTaskDone = FALSE /\ reported = NoCrash
    /\ supervisorTask = SupervisorNotStarted /\ watchdog = WatchdogOff
    /\ reasonOfLastReset = "unknown" /\ lastCrash = NoCrash

(* All static variables are back where they were, and so is the watchdog.  *)
Restart(reason) ==
    /\ stage' = 1 /\ inited' = TRUE /\ systemInitError' = FALSE
    /\ cpu' = "runs" /\ commandTask' = "runs" /\ debugTaskDone' = FALSE /\ reported' = NoCrash
    /\ supervisorTask' = SupervisorNotStarted /\ watchdog' = WatchdogOff
    /\ reasonOfLastReset' = reason

Running == cpu = "runs" /\ Stages[stage] = "running"

---------------------------------------------------------------------------
(* bootSystem(): the debug module is the first, and cannot fail. *)
BootDebug ==
    /\ Stages[stage] = "debug"
    /\ stage' = stage + 1
    /\ debug_info' = IF debug_info.marker THEN debug_info
                     ELSE [marker |-> TRUE, errors |-> {}, task |-> "none"]
    /\ UNCHANGED <<inited, systemInitError, cpu, commandTask, debugTaskDone, reported, supervisorTask, watchdog,
                   reasonOfLastReset, lastCrash>>

(* Whatever fails, the boot goes on, and the error is set at its end. *)
BootStage(ok) ==
    /\ Stages[stage] \notin {"debug", "running"}
    /\ stage' = stage + 1
    /\ inited' = (inited /\ ok)
    /\ systemInitError' = (Stages[stage] = "tasks" /\ ~inited')
    /\ UNCHANGED <<cpu, commandTask, debug_info, debugTaskDone, reported, supervisorTask, watchdog,
                   reasonOfLastReset, lastCrash>>

(* reportErrorsDuringPreviousBoot() tells of one of the errors. *)
FirstOf(errors) == IF "STACK_OVERFLOW" \in errors THEN "STACK_OVERFLOW"
                   ELSE IF "MALLOC_FAILED" \in errors THEN "MALLOC_FAILED"
                   ELSE IF "HARD_FAULT" \in errors THEN "HARD_FAULT" ELSE "none"

ReportErrors ==
    /\ Running /\ ~debugTaskDone
    /\ debugTaskDone' = TRUE
    /\ reported' = IF debug_info.errors = {} THEN NoCrash
                   ELSE [error |-> FirstOf(debug_info.errors), task |-> debug_info.task]
    /\ debug_info' = [debug_info EXCEPT !.errors = {}]
    /\ lastCrash' = NoCrash
    /\ UNCHANGED <<bootVars, cpu, commandTask, supervisorTask, watchdog, reasonOfLastReset>>

(* HANDLE_FATAL_ERROR() *)
Crash(task, error) ==
    /\ Running
    /\ debug_info' = [marker |-> debug_info.marker, errors |-> debug_info.errors \cup {error},
                       task |-> task]
    /\ cpu' = "spins"
    /\ lastCrash' = [error |-> error, task |-> task]
    /\ UNCHANGED <<bootVars, commandTask, debugTaskDone, reported, supervisorTask, watchdog, reasonOfLastReset>>

---------------------------------------------------------------------------
(* supervisorTask(): setup() starts the watchdog, checkTasks() resets it.  *)
SupervisorSetup ==
    /\ Running /\ debugTaskDone
    /\ supervisorTask.at = "setup"
    /\ supervisorTask' = [at |-> "delay", lag |-> 0]
    /\ watchdog' = [on |-> TRUE, left |-> WatchdogSeconds]
    /\ UNCHANGED <<bootVars, cpu, commandTask, debug_info, debugTaskDone, reported, reasonOfLastReset, lastCrash>>

SupervisorChecks ==
    /\ Running
    /\ supervisorTask.at = "check"
    /\ supervisorTask' = [at |-> "delay", lag |-> 0]
    /\ watchdog' = [watchdog EXCEPT !.left = WatchdogSeconds]
    /\ UNCHANGED <<bootVars, cpu, commandTask, debug_info, debugTaskDone, reported, reasonOfLastReset, lastCrash>>

(* Mutant: the watchdog stops with the program. *)
SecondPassesWithCpu ==
    /\ cpu = "runs" /\ watchdog.on /\ watchdog.left > 0
    /\ watchdog' = [watchdog EXCEPT !.left = @ - 1]
    /\ supervisorTask.at = "check" => supervisorTask.lag < MaxLag
    /\ supervisorTask' = [at |-> "check", lag |-> 0]
    /\ UNCHANGED <<bootVars, cpu, commandTask, debug_info, debugTaskDone, reported, reasonOfLastReset, lastCrash>>

(* One second.  The watchdog counts on when the program has stopped. *)
SecondPasses ==
    /\ watchdog.on /\ watchdog.left > 0
    /\ watchdog' = [watchdog EXCEPT !.left = @ - 1]
    /\ IF cpu = "runs"
       THEN /\ supervisorTask.at = "check" => supervisorTask.lag < MaxLag
            /\ supervisorTask' = IF supervisorTask.at = "delay" THEN [at |-> "check", lag |-> 0]
                                 ELSE [supervisorTask EXCEPT !.lag = @ + 1]
       ELSE UNCHANGED supervisorTask
    /\ UNCHANGED <<bootVars, cpu, commandTask, debug_info, debugTaskDone, reported, reasonOfLastReset, lastCrash>>

WatchdogFires ==
    /\ watchdog.on /\ watchdog.left = 0
    /\ Restart("watchdog")
    /\ UNCHANGED <<debug_info, lastCrash>>

(* The commands RESET and DEBUG_CMD_TRIGGER_WATCHDOG.  Its task has the low *)
(* priority of the supervisor task, and spins with interrupts enabled: the *)
(* two take turns, and the watchdog is still reset.                        *)
ResetBoard ==
    /\ Running /\ debugTaskDone /\ commandTask = "runs"
    /\ Restart("software")
    /\ UNCHANGED <<debug_info, lastCrash>>

TriggerWatchdog ==
    /\ Running /\ debugTaskDone
    /\ commandTask' = "spins"
    /\ UNCHANGED <<bootVars, cpu, debug_info, debugTaskDone, reported, supervisorTask, watchdog,
                   reasonOfLastReset, lastCrash>>

PowerCycle ==
    /\ Restart("normal")
    /\ debug_info' = AfterPowerOn
    /\ lastCrash' = NoCrash

---------------------------------------------------------------------------
SupervisorRuns == SupervisorSetup \/ SupervisorChecks

WatchdogNext ==
    \/ BootDebug
    \/ \E ok \in BOOLEAN : BootStage(ok)
    \/ ReportErrors
    \/ \E task \in CrashTasks, error \in FatalErrors : Crash(task, error)
    \/ SupervisorRuns \/ SecondPasses \/ WatchdogFires \/ ResetBoard \/ TriggerWatchdog
    \/ PowerCycle

WatchdogSpec == WatchdogInit /\ [][WatchdogNext]_watchdogVars
                /\ WF_watchdogVars(SecondPasses) /\ WF_watchdogVars(WatchdogFires)

---------------------------------------------------------------------------
WatchdogTypeOK ==
    /\ stage \in 1 .. 6 /\ {inited, systemInitError, debugTaskDone} \subseteq BOOLEAN
    /\ {cpu, commandTask} \subseteq {"runs", "spins"}
    /\ debug_info \in [marker : BOOLEAN, errors : SUBSET FatalErrors, task : CrashTasks \cup {"none"}]
    /\ {reported, lastCrash} \subseteq [error : FatalErrors \cup {"none"}, task : CrashTasks \cup {"none"}]
    /\ supervisorTask \in [at : {"setup", "delay", "check"}, lag : 0 .. MaxLag]
    /\ watchdog \in [on : BOOLEAN, left : 0 .. WatchdogSeconds]
    /\ reasonOfLastReset \in {"unknown", "watchdog", "software", "normal"}

(* What the debug task is about to report is what happened: the flags of   *)
(* errors add up and the name of the task does not, but no board comes back*)
(* from a second error before the first one was reported.                  *)
ReportIsTrue ==
    Running =>
        /\ debug_info.errors = IF lastCrash = NoCrash THEN {} ELSE {lastCrash.error}
        /\ lastCrash # NoCrash => debug_info.task = lastCrash.task

(* The watchdog never resets a board on which tasks still run, not even if *)
(* it is asked to: DEBUG_CMD_TRIGGER_WATCHDOG only stops the commands.     *)
WatchdogSparesTheLiving == [][WatchdogFires => cpu = "spins"]_watchdogVars

(* A fatal error that is met once the watchdog runs ends in a reset. *)
WatchedErrorsReset == (cpu = "spins" /\ watchdog.on) ~> cpu = "runs"

=============================================================================
