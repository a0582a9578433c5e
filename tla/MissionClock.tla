---------------------------- MODULE MissionClock ----------------------------
(***************************************************************************)
(* The mission clock: the scheduler that the SOE signal controls, and the  *)
(* three tasks that call it without a lock.  The pins task restarts and    *)
(* stops it when the voted signal changes (rxsm::update()), the cmd task   *)
(* starts, stops and resets it for ground control, and the mission task    *)
(* executes the events that are due (scheduler::update()).                 *)
(*                                                                         *)
(* Every store of a method of class Scheduler is a step of its own; now()  *)
(* is read in the step that uses it, and the loads of one call of          *)
(* getElapsedTimeMsec() are one step.  The schedulers of SODS and LO are   *)
(* of the same class, with one event each and no commands.                 *)
(***************************************************************************)
EXTENDS Integers, Sequences, FiniteSets

CONSTANTS
    Events,      \* eventsRelativeToSOE, without NO_MORE_EVENTS
    Commands,    \* the debug commands ground control sends
    MaxChanges,  \* bound: how often the voted SOE signal changes
    MaxTime,     \* bound: when time ends
    Word         \* 2^32: the clock values are unsigned words

ASSUME EventsAssumption ==
    /\ Events \in Seq([at : Nat, flagged : BOOLEAN])
    /\ \A i, j \in DOMAIN Events : i <= j => Events[i].at <= Events[j].at
ASSUME CommandsAssumption == Commands \subseteq {"start", "stop", "reset"}
ASSUME BoundsAssumption ==
    /\ MaxChanges \in Nat /\ MaxTime \in Nat
    /\ Word \in Nat /\ MaxTime < Word

(* A table of the shape of eventsRelativeToSOE, for the runs: an event at  *)
(* the start, one that is ignored after a boot in flight and one that is   *)
(* due at the same time as the one before it.  One tick stands for the gap *)
(* between the times of the events.                                        *)
MCEvents == <<[at |-> 0, flagged |-> FALSE],
              [at |-> 1, flagged |-> TRUE],
              [at |-> 1, flagged |-> FALSE]>>

VARIABLES
    time,            \* getTimeSinceBootMsec(), in ticks
    soe,             \* the SOE signal after majority voting
    changes,         \* how often it has changed
    booted,          \* rxsm::wasBootedAfterLiftoff()
    startedAt, stoppedAt, isClockRunning, nextEventIndex,  \* class Scheduler
    elapsedTime,     \* the local variable of executePendingEvents()
    pc,              \* where each task is
    reg,             \* the value a task has loaded and not stored yet
    picked,          \* history: the events taken since the index was reset
    executed         \* history: the events ever executed

clockVars == <<startedAt, stoppedAt, isClockRunning, nextEventIndex>>
environment == <<time, soe, changes, booted>>
history == <<picked, executed>>
vars == <<environment, clockVars, elapsedTime, pc, reg, history>>

Tasks == {"pins", "cmd", "mission"}
Callers == {"pins", "cmd"}
EventIndices == DOMAIN Events
LastEvent == Len(Events)

(* getElapsedTimeMsec() *)
Elapsed ==
    IF isClockRunning THEN (time - startedAt) % Word
                      ELSE (stoppedAt - startedAt) % Word

Goto(t, l) == pc' = [pc EXCEPT ![t] = l]
Load(t, v) == reg' = [reg EXCEPT ![t] = v]

---------------------------------------------------------------------------
(* The methods of class Scheduler *)

(* Where a task goes on after reset(): restart() starts the clock next. *)
ResetDone(t) == IF t = "pins" THEN "startChk" ELSE "idle"

ResetCheck(t) ==
    /\ pc[t] = "resetChk"
    /\ Load(t, IF isClockRunning THEN time ELSE 0)
    /\ Goto(t, "resetStarted")
    /\ UNCHANGED <<environment, clockVars, elapsedTime, history>>

ResetStartedAt(t) ==
    /\ pc[t] = "resetStarted"
    /\ startedAt' = reg[t]
    /\ Goto(t, "resetStopped")
    /\ UNCHANGED <<environment, stoppedAt, isClockRunning, nextEventIndex, elapsedTime,
                   reg, history>>

ResetStoppedAt(t) ==
    /\ pc[t] = "resetStopped"
    /\ stoppedAt' = 0
    /\ Goto(t, "resetIndex")
    /\ UNCHANGED <<environment, startedAt, isClockRunning, nextEventIndex, elapsedTime,
                   reg, history>>

ResetIndex(t) ==
    /\ pc[t] = "resetIndex"
    /\ nextEventIndex' = 1
    /\ picked' = {}
    /\ Goto(t, ResetDone(t))
    /\ UNCHANGED <<environment, startedAt, stoppedAt, isClockRunning, elapsedTime, reg,
                   executed>>

StartCheck(t) ==
    /\ pc[t] = "startChk"
    /\ Goto(t, IF isClockRunning THEN "idle" ELSE "startLoad")
    /\ UNCHANGED <<environment, clockVars, elapsedTime, reg, history>>

(* Mutant: the clock starts from zero again. *)
StartLoadZero(t) ==
    /\ pc[t] = "startLoad"
    /\ Load(t, time)
    /\ Goto(t, "startStore")
    /\ UNCHANGED <<environment, clockVars, elapsedTime, history>>

StartLoad(t) ==
    /\ pc[t] = "startLoad"
    /\ Load(t, (time - Elapsed) % Word)
    /\ Goto(t, "startStore")
    /\ UNCHANGED <<environment, clockVars, elapsedTime, history>>

StartStore(t) ==
    /\ pc[t] = "startStore"
    /\ startedAt' = reg[t]
    /\ Goto(t, "startClear")
    /\ UNCHANGED <<environment, stoppedAt, isClockRunning, nextEventIndex, elapsedTime,
                   reg, history>>

StartClear(t) ==
    /\ pc[t] = "startClear"
    /\ stoppedAt' = 0
    /\ Goto(t, "startRun")
    /\ UNCHANGED <<environment, startedAt, isClockRunning, nextEventIndex, elapsedTime,
                   reg, history>>

StartRun(t) ==
    /\ pc[t] = "startRun"
    /\ isClockRunning' = TRUE
    /\ Goto(t, "idle")
    /\ UNCHANGED <<environment, startedAt, stoppedAt, nextEventIndex, elapsedTime, reg,
                   history>>

StopCheck(t) ==
    /\ pc[t] = "stopChk"
    /\ Goto(t, IF isClockRunning THEN "stopStore" ELSE "idle")
    /\ UNCHANGED <<environment, clockVars, elapsedTime, reg, history>>

StopStore(t) ==
    /\ pc[t] = "stopStore"
    /\ stoppedAt' = time
    /\ Goto(t, "stopRun")
    /\ UNCHANGED <<environment, startedAt, isClockRunning, nextEventIndex, elapsedTime,
                   reg, history>>

StopRun(t) ==
    /\ pc[t] = "stopRun"
    /\ isClockRunning' = FALSE
    /\ Goto(t, "idle")
    /\ UNCHANGED <<environment, startedAt, stoppedAt, nextEventIndex, elapsedTime, reg,
                   history>>

---------------------------------------------------------------------------
(* executePendingEvents(), in the mission task *)

PassStart ==
    /\ pc["mission"] = "sleep"
    /\ isClockRunning
    /\ Goto("mission", "elapsed")
    /\ UNCHANGED <<environment, clockVars, elapsedTime, reg, history>>

ReadElapsed ==
    /\ pc["mission"] = "elapsed"
    /\ elapsedTime' = Elapsed
    /\ Goto("mission", "next")
    /\ UNCHANGED <<environment, clockVars, reg, history>>

Due(i) == i <= LastEvent /\ Events[i].at <= elapsedTime

NextEvent ==
    /\ pc["mission"] = "next"
    /\ IF Due(nextEventIndex)
       THEN /\ picked' = picked \cup {nextEventIndex}
            /\ Load("mission", nextEventIndex)
            /\ Goto("mission", "execute")
       ELSE /\ Goto("mission", "sleep")
            /\ UNCHANGED <<picked, reg>>
    /\ UNCHANGED <<environment, clockVars, elapsedTime, executed>>

(* executeEvent() blocks for 100 ms when it resets an LCL. *)
ExecuteEvent ==
    /\ pc["mission"] = "execute"
    /\ executed' = IF Events[reg["mission"]].flagged /\ booted
                   THEN executed ELSE executed \cup {reg["mission"]}
    /\ Goto("mission", "incLoad")
    /\ UNCHANGED <<environment, clockVars, elapsedTime, reg, picked>>

IncrementLoad ==
    /\ pc["mission"] = "incLoad"
    /\ Load("mission", nextEventIndex)
    /\ Goto("mission", "incStore")
    /\ UNCHANGED <<environment, clockVars, elapsedTime, history>>

(* Mutant: the index does not move. *)
KeepIndex ==
    /\ pc["mission"] = "incStore"
    /\ Goto("mission", "next")
    /\ UNCHANGED <<environment, clockVars, elapsedTime, reg, history>>

(* Mutant: an event is passed over. *)
IncrementTwice ==
    /\ pc["mission"] = "incStore"
    /\ nextEventIndex' = reg["mission"] + 2
    /\ Goto("mission", "next")
    /\ UNCHANGED <<environment, startedAt, stoppedAt, isClockRunning, elapsedTime, reg,
                   history>>

IncrementStore ==
    /\ pc["mission"] = "incStore"
    /\ nextEventIndex' = reg["mission"] + 1
    /\ Goto("mission", "next")
    /\ UNCHANGED <<environment, startedAt, stoppedAt, isClockRunning, elapsedTime, reg,
                   history>>

---------------------------------------------------------------------------
(* The callers *)

(* rxsm::update() calls a scheduler only when the voted signal changes. *)
SignalChange ==
    /\ pc["pins"] = "idle"
    /\ changes < MaxChanges
    /\ changes' = changes + 1
    /\ soe' = ~soe
    /\ Goto("pins", IF soe' THEN "resetChk" ELSE "stopChk")
    /\ UNCHANGED <<time, booted, clockVars, elapsedTime, reg, history>>

Command(c) ==
    /\ pc["cmd"] = "idle"
    /\ Goto("cmd", CASE c = "start" -> "startChk" [] c = "stop" -> "stopChk"
                     [] c = "reset" -> "resetChk")
    /\ UNCHANGED <<environment, clockVars, elapsedTime, reg, history>>

Tick ==
    /\ time < MaxTime
    /\ time' = time + 1
    /\ UNCHANGED <<soe, changes, booted, clockVars, elapsedTime, pc, reg,
                   history>>

Init ==
    /\ time = 0 /\ soe = FALSE /\ changes = 0
    /\ booted \in BOOLEAN
    /\ startedAt = 0 /\ stoppedAt = 0 /\ isClockRunning = FALSE /\ nextEventIndex = 1
    /\ elapsedTime = 0
    /\ pc = [t \in Tasks |-> IF t = "mission" THEN "sleep" ELSE "idle"]
    /\ reg = [t \in Tasks |-> 0]
    /\ picked = {} /\ executed = {}

Reset(t) == ResetCheck(t) \/ ResetStartedAt(t) \/ ResetStoppedAt(t) \/ ResetIndex(t)
Start(t) == StartCheck(t) \/ StartLoad(t) \/ StartStore(t) \/ StartClear(t) \/ StartRun(t)
Stop(t) == StopCheck(t) \/ StopStore(t) \/ StopRun(t)
ClockStep(t) == Reset(t) \/ Start(t) \/ Stop(t)

MissionTask ==
    \/ PassStart \/ ReadElapsed \/ NextEvent \/ ExecuteEvent
    \/ IncrementLoad \/ IncrementStore

Next ==
    \/ \E t \in Callers : ClockStep(t)
    \/ MissionTask
    \/ SignalChange
    \/ \E c \in Commands : Command(c)
    \/ Tick

(* Time passes and every task that can run does; signals and commands need *)
(* not come.                                                               *)
Fairness ==
    /\ WF_vars(MissionTask) /\ WF_vars(Tick)
    /\ \A t \in Callers : WF_vars(ClockStep(t))

Spec == Init /\ [][Next]_vars
FairSpec == Spec /\ Fairness
---------------------------------------------------------------------------
Places == {"resetChk", "resetStarted", "resetStopped", "resetIndex",
           "startChk", "startLoad", "startStore", "startClear", "startRun",
           "stopChk", "stopStore", "stopRun", "idle",
           "sleep", "elapsed", "next", "execute", "incLoad", "incStore"}

(* Every variable has its type; the index of the next event never leaves   *)
(* the table and its end mark.                                             *)
TypeOK ==
    /\ time \in 0..MaxTime
    /\ soe \in BOOLEAN
    /\ changes \in 0..MaxChanges
    /\ booted \in BOOLEAN
    /\ startedAt \in 0..(Word - 1)
    /\ stoppedAt \in 0..(Word - 1)
    /\ isClockRunning \in BOOLEAN
    /\ nextEventIndex \in 1..(LastEvent + 1)
    /\ elapsedTime \in 0..(Word - 1)
    /\ pc \in [Tasks -> Places]
    /\ reg \in [Tasks -> Nat]
    /\ picked \subseteq EventIndices
    /\ executed \subseteq EventIndices

(* The mission task takes an event from the table in this step. *)
Picks == pc["mission"] = "next" /\ pc'["mission"] = "execute"

(* Between two resets of the index, no event is taken twice and none after *)
(* a later one, however restarts, resets and commands fall into a pass: an *)
(* LCL is not power cycled again.                                          *)
EventsInOrder == [][Picks => \A i \in picked : i < reg'["mission"]]_vars

(* An event the index has passed was executed at some time, or ignored as  *)
(* its flag demands.  A restart in the middle of a pass makes the index    *)
(* skip events of the new run, but only ones an earlier run has executed:  *)
(* no LCL is left off for good.                                            *)
NothingForgotten ==
    \A i \in EventIndices :
        i < nextEventIndex /\ ~(Events[i].flagged /\ booted) =>
            \/ i \in executed
            \/ pc["mission"] = "execute" /\ reg["mission"] = i

(* If the clock comes to run on beyond the time of the last event, then    *)
(* every event is executed, the ones ignored after liftoff excepted.       *)
EventsHappen ==
    <>[](isClockRunning /\ Elapsed >= Events[LastEvent].at) =>
        <>(\A i \in EventIndices : i \in executed \/ (Events[i].flagged /\ booted))

(* After a pass, every event the index has passed was taken since the last *)
(* reset: the pass is "on every event in the table of the scheduler that   *)
(* have not been executed yet".                                            *)
RestartRunsAll ==
    pc["mission"] = "sleep" => \A i \in EventIndices : i < nextEventIndex => i \in picked
=============================================================================
