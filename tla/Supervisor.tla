----------------------------- MODULE Supervisor -----------------------------
(***************************************************************************)
(* The supervisor of tasks and queues.  Tasks register under a mutex and   *)
(* then nudge the supervisor without one, several times between two checks;*)
(* the supervisor task looks at their counters once per second.  A nudge   *)
(* loads and stores its counter, and a check reads and clears it: the two  *)
(* may take turns at any point.  Queues register when their tasks start.   *)
(***************************************************************************)
EXTENDS Naturals, FiniteSetsExt

CONSTANTS
    NudgingTasks,   \* the tasks that register
    MinNudges,      \* how many nudges are expected of them between checks
    MaxNudges,
    NudgeLimit,     \* bound: nudges between two checks
    WatchedQueues,  \* the queues that register
    NoQueue,        \* none of them
    MaxQueues       \* MAX_QUEUES

ASSUME SupervisorAssumption ==
    /\ {MinNudges, MaxNudges, NudgeLimit, MaxQueues} \subseteq Nat \ {0}
    /\ NoQueue \notin WatchedQueues
    /\ {"queues", "tasks"} \cap NudgingTasks = {}

VARIABLES
    task_stats,
    nudging,        \* for each task, whether a nudge is on its way, and the count it loaded
    queue_stats,    \* the queue in each slot
    registered,     \* the queues whose tasks have registered them
    fullQueues,     \* the queues that are full
    queueError,     \* QUEUE_FULL is set
    supervising,    \* where the supervisor task is
    verdicts,       \* what its last check said of each task
    silence         \* completed checks since each task last nudged

supervisorQueues == <<queue_stats, registered, fullQueues, queueError>>
supervisorVars == <<task_stats, nudging, supervisorQueues, supervising, verdicts, silence>>

NotNudging == [on |-> FALSE, loaded |-> 0]
NoStats == [valid |-> FALSE, enabled |-> FALSE, nudges |-> 0]

SupervisorInit ==
    /\ task_stats = [t \in NudgingTasks |-> NoStats]
    /\ nudging = [t \in NudgingTasks |-> NotNudging]
    /\ queue_stats = [i \in 1 .. MaxQueues |-> NoQueue]
    /\ registered = {} /\ fullQueues = {} /\ queueError = FALSE
    /\ supervising = [at |-> "queues", todo |-> {}]
    /\ verdicts = [t \in NudgingTasks |-> "ok"]
    /\ silence = [t \in NudgingTasks |-> 0]

---------------------------------------------------------------------------
(* registerTask(); a task that has not nudged yet is not checked. *)
RegisterTask(t) ==
    /\ ~task_stats[t].valid
    /\ task_stats' = [task_stats EXCEPT ![t].valid = TRUE]
    /\ UNCHANGED <<nudging, supervisorQueues, supervising, verdicts, silence>>

NudgeLoad(t) ==
    /\ task_stats[t].valid /\ ~nudging[t].on
    /\ task_stats[t].nudges < NudgeLimit
    /\ nudging' = [nudging EXCEPT ![t] = [on |-> TRUE, loaded |-> task_stats[t].nudges]]
    /\ UNCHANGED <<task_stats, supervisorQueues, supervising, verdicts, silence>>

NudgeStore(t) ==
    /\ nudging[t].on
    /\ task_stats' = [task_stats EXCEPT ![t] =
                        [valid |-> @.valid, enabled |-> TRUE, nudges |-> nudging[t].loaded + 1]]
    /\ nudging' = [nudging EXCEPT ![t] = NotNudging]
    /\ silence' = [silence EXCEPT ![t] = 0]
    /\ UNCHANGED <<supervisorQueues, supervising, verdicts>>

(* registerQueue() goes on after the first free slot, up to the last one.  *)
RegisterQueue(q) ==
    /\ q \notin registered
    /\ registered' = registered \cup {q}
    /\ queue_stats' = [i \in 1 .. MaxQueues |-> IF queue_stats[i] = NoQueue THEN q ELSE queue_stats[i]]
    /\ UNCHANGED <<task_stats, nudging, fullQueues, queueError, supervising, verdicts, silence>>

QueueFillsOrEmpties(q) ==
    /\ q \in registered
    /\ fullQueues' = IF q \in fullQueues THEN fullQueues \ {q} ELSE fullQueues \cup {q}
    /\ UNCHANGED <<task_stats, nudging, queue_stats, registered, queueError, supervising, verdicts, silence>>

---------------------------------------------------------------------------
(* One round of supervisorTask(): checkQueues(), and checkTasks() task by  *)
(* task, with the task that is checked between its two steps.              *)
CheckQueues ==
    /\ supervising.at = "queues"
    /\ queueError' = (\E i \in 1 .. MaxQueues : queue_stats[i] \in fullQueues)
    /\ supervising' = [at |-> "tasks", todo |-> NudgingTasks]
    /\ UNCHANGED <<task_stats, nudging, queue_stats, registered, fullQueues, verdicts, silence>>

Verdict(n) == IF n = 0 THEN "stalled"
              ELSE IF n < MinNudges THEN "too slow"
              ELSE IF n > MaxNudges THEN "too fast" ELSE "ok"

CheckTask(t) ==
    /\ supervising.at = "tasks" /\ t \in supervising.todo
    /\ IF task_stats[t].valid /\ task_stats[t].enabled
       THEN /\ verdicts' = [verdicts EXCEPT ![t] = Verdict(task_stats[t].nudges)]
            /\ supervising' = [at |-> t, todo |-> supervising.todo \ {t}]
       ELSE /\ supervising' = [supervising EXCEPT !.todo = @ \ {t}]
            /\ UNCHANGED verdicts
    /\ UNCHANGED <<task_stats, nudging, supervisorQueues, silence>>

(* Mutant: the nudges are not cleared after a check. *)
KeepNudges(t) ==
    /\ supervising.at = t
    /\ silence' = [silence EXCEPT ![t] = Min({@ + 1, 2})]
    /\ supervising' = [supervising EXCEPT !.at = "tasks"]
    /\ UNCHANGED <<task_stats, nudging, supervisorQueues, verdicts>>

ClearNudges(t) ==
    /\ supervising.at = t
    /\ task_stats' = [task_stats EXCEPT ![t].nudges = 0]
    /\ silence' = [silence EXCEPT ![t] = Min({@ + 1, 2})]
    /\ supervising' = [supervising EXCEPT !.at = "tasks"]
    /\ UNCHANGED <<nudging, supervisorQueues, verdicts>>

(* The watchdog is reset, and a second goes by. *)
ChecksDone ==
    /\ supervising = [at |-> "tasks", todo |-> {}]
    /\ supervising' = [at |-> "queues", todo |-> {}]
    /\ UNCHANGED <<task_stats, nudging, supervisorQueues, verdicts, silence>>

---------------------------------------------------------------------------
SupervisorStep == CheckQueues \/ ChecksDone \/ \E t \in NudgingTasks : CheckTask(t) \/ ClearNudges(t)

SupervisorNext ==
    \/ \E t \in NudgingTasks : RegisterTask(t) \/ NudgeLoad(t) \/ NudgeStore(t)
    \/ \E q \in WatchedQueues : RegisterQueue(q) \/ QueueFillsOrEmpties(q)
    \/ SupervisorStep

SupervisorSpec == SupervisorInit /\ [][SupervisorNext]_supervisorVars /\ WF_supervisorVars(SupervisorStep)

---------------------------------------------------------------------------
SupervisorTypeOK ==
    /\ task_stats \in [NudgingTasks -> [valid : BOOLEAN, enabled : BOOLEAN, nudges : 0 .. NudgeLimit]]
    /\ nudging \in [NudgingTasks -> [on : BOOLEAN, loaded : 0 .. NudgeLimit - 1]]
    /\ queue_stats \in [1 .. MaxQueues -> WatchedQueues \cup {NoQueue}]
    /\ registered \subseteq WatchedQueues /\ fullQueues \subseteq registered /\ queueError \in BOOLEAN
    /\ supervising \in [at : {"queues", "tasks"} \cup NudgingTasks, todo : SUBSET NudgingTasks]
    /\ verdicts \in [NudgingTasks -> {"ok", "stalled", "too slow", "too fast"}]
    /\ silence \in [NudgingTasks -> 0 .. 2]

(* A task that stops after it was once seen is reported by the second check*)
(* at the latest, even if a check cleared its counter in the middle of its *)
(* last nudge, which then brings the old count back.                       *)
StalledIsReported ==
    \A t \in NudgingTasks : silence[t] = 2 => verdicts[t] = "stalled"

(* A task that stands still is found: it stays silent until it is reported,*)
(* or it goes on.                                                          *)
StallsAreFound ==
    \A t \in NudgingTasks : (task_stats[t].enabled /\ ~nudging[t].on) ~>
                              (verdicts[t] = "stalled" \/ nudging[t].on)

=============================================================================
