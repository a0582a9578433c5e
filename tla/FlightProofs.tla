---------------------------- MODULE FlightProofs ----------------------------
(***************************************************************************)
(* Proofs about the logic that a flight drives.  A step of one session     *)
(* leaves the state of the others alone, so the invariant of each part is  *)
(* inductive for the steps of all of them.                                 *)
(***************************************************************************)
EXTENDS MCFlight, SequenceTheorems, FiniteSetTheorems, TLAPS

---------------------------------------------------------------------------
(* The mission clock, for every table of events, every word size and       *)
(* however often signals and commands come: it keeps its types, and the    *)
(* mission task takes the events of a run in the order of the table and    *)
(* never twice, and forgets none.                                          *)

(* The event needs no more attention: it was executed, or is ignored. *)
Handled(i) == i \in executed \/ (Events[i].flagged /\ booted)

(* Outside an execution everything before the index is handled and         *)
(* everything taken in this run is before the index.  While the mission    *)
(* task executes the event in its register, a reset can only move the      *)
(* index back.                                                             *)
Cursor ==
    /\ pc["mission"] \in {"sleep", "elapsed", "next"} =>
         /\ \A i \in picked : i < nextEventIndex
         /\ \A i \in EventIndices : i < nextEventIndex => Handled(i)
    /\ pc["mission"] \in {"execute", "incLoad", "incStore"} =>
         /\ reg["mission"] \in EventIndices
         /\ nextEventIndex <= reg["mission"]
    /\ pc["mission"] \in {"execute", "incLoad"} =>
         \A i \in picked : i <= nextEventIndex
    /\ pc["mission"] = "execute" =>
         \A i \in EventIndices : i < reg["mission"] => Handled(i)
    /\ pc["mission"] \in {"incLoad", "incStore"} =>
         \A i \in EventIndices : i <= reg["mission"] => Handled(i)
    /\ pc["mission"] = "incStore" =>
         \A i \in picked : i <= reg["mission"]
    /\ pc["mission"] \in {"sleep", "elapsed", "next", "execute", "incLoad", "incStore"}

(* What the tasks hold in their registers. *)
RegistersOK == \A t \in Callers : reg[t] < Word

IInv == TypeOK /\ RegistersOK /\ Cursor

(* The value of a clock is an unsigned word. *)
LEMMA WordRange == ASSUME NEW a \in Int PROVE a % Word \in 0..(Word - 1)
  BY BoundsAssumption, SMT

LEMMA ElapsedType == TypeOK => Elapsed \in 0..(Word - 1)
  BY WordRange, BoundsAssumption, SMT DEF TypeOK, Elapsed

LEMMA Indices ==
    /\ LastEvent \in Nat
    /\ EventIndices = 1..LastEvent
    /\ \A i \in EventIndices : Events[i].at \in Nat
<1> DEFINE Event == [at : Nat, flagged : BOOLEAN]
<1>1. Events \in Seq(Event)
  BY EventsAssumption
<1>2. Len(Events) \in Nat /\ DOMAIN Events = 1..Len(Events)
  BY <1>1, LenProperties
<1>3. \A i \in 1..Len(Events) : Events[i] \in Event
  BY <1>1, ElementOfSeq
<1> QED
  BY <1>2, <1>3 DEF EventIndices, LastEvent

LEMMA InitHolds == Init => IInv
<1> SUFFICES ASSUME Init PROVE IInv
  OBVIOUS
<1>1. pc \in [Tasks -> Places]
  BY DEF Init, Tasks, Places
<1>2. reg = [t \in Tasks |-> 0]
  BY DEF Init
<1>3. TypeOK
  <2>1. reg \in [Tasks -> Nat]
    BY <1>2
  <2>2. nextEventIndex \in 1..(LastEvent + 1) /\ 0 \in 0..(Word - 1)
    BY Indices, BoundsAssumption DEF Init
  <2> QED
    <3>1. soe \in BOOLEAN /\ booted \in BOOLEAN /\ isClockRunning \in BOOLEAN
      BY DEF Init
    <3>2. /\ time \in 0..MaxTime /\ changes \in 0..MaxChanges
          /\ startedAt \in 0..(Word - 1) /\ stoppedAt \in 0..(Word - 1)
          /\ elapsedTime \in 0..(Word - 1)
      BY <2>2, BoundsAssumption DEF Init
    <3>3. picked \subseteq EventIndices /\ executed \subseteq EventIndices
      BY DEF Init
    <3> QED
      BY <1>1, <2>1, <2>2, <3>1, <3>2, <3>3 DEF TypeOK
<1>4. RegistersOK
  BY <1>2, BoundsAssumption DEF RegistersOK, Callers, Tasks
<1>5. Cursor
  BY Indices DEF Init, Cursor, Tasks
<1> QED
  BY <1>3, <1>4, <1>5 DEF IInv

LEMMA TypeStep == IInv /\ [Next]_vars => TypeOK' /\ RegistersOK'
<1> SUFFICES ASSUME IInv, [Next]_vars
             PROVE  TypeOK' /\ RegistersOK'
  OBVIOUS
<1> USE DEF IInv, TypeOK, RegistersOK, Goto, Load, Places, Tasks, Callers,
            environment, clockVars, history
<1>1. pc["mission"] = "incStore" => reg["mission"] \in EventIndices
  BY DEF Cursor
<1>2. pc["mission"] = "execute" => reg["mission"] \in EventIndices
  BY DEF Cursor
<1> QED
  <2>1. ASSUME NEW t \in Callers, Reset(t) PROVE TypeOK' /\ RegistersOK'
    <3>1. CASE ResetCheck(t)
      BY <3>1, BoundsAssumption DEF ResetCheck
    <3>2. CASE ResetStartedAt(t)
      BY <3>2, BoundsAssumption DEF ResetStartedAt
    <3>3. CASE ResetStoppedAt(t)
      BY <3>3, BoundsAssumption DEF ResetStoppedAt
    <3>4. CASE ResetIndex(t)
      BY <3>4, Indices DEF ResetIndex, ResetDone
    <3> QED
      BY <2>1, <3>1, <3>2, <3>3, <3>4 DEF Reset
  <2>2. ASSUME NEW t \in Callers, Start(t) PROVE TypeOK' /\ RegistersOK'
    <3>1. CASE StartCheck(t)
      BY <3>1 DEF StartCheck
    <3>2. CASE StartLoad(t)
      <4>1. Elapsed \in 0..(Word - 1)
        BY ElapsedType
      <4>2. (time - Elapsed) % Word \in 0..(Word - 1)
        BY <4>1, BoundsAssumption, WordRange
      <4> QED
        BY <3>2, <4>2, BoundsAssumption DEF StartLoad
    <3>3. CASE StartStore(t)
      BY <3>3, BoundsAssumption DEF StartStore
    <3>4. CASE StartClear(t)
      BY <3>4, BoundsAssumption DEF StartClear
    <3>5. CASE StartRun(t)
      BY <3>5 DEF StartRun
    <3> QED
      BY <2>2, <3>1, <3>2, <3>3, <3>4, <3>5 DEF Start
  <2>3. ASSUME NEW t \in Callers, Stop(t) PROVE TypeOK' /\ RegistersOK'
    <3>1. CASE StopCheck(t)
      BY <3>1 DEF StopCheck
    <3>2. CASE StopStore(t)
      BY <3>2, BoundsAssumption DEF StopStore
    <3>3. CASE StopRun(t)
      BY <3>3 DEF StopRun
    <3> QED
      BY <2>3, <3>1, <3>2, <3>3 DEF Stop
  <2>4. CASE PassStart
    BY <2>4 DEF PassStart
  <2>5. CASE ReadElapsed
    BY <2>5, ElapsedType DEF ReadElapsed
  <2>6. CASE NextEvent
    <3>1. CASE Due(nextEventIndex)
      <4>1. nextEventIndex \in EventIndices
        BY <3>1, Indices DEF Due
      <4>2. /\ picked' = picked \cup {nextEventIndex}
            /\ reg' = [reg EXCEPT !["mission"] = nextEventIndex]
            /\ pc' = [pc EXCEPT !["mission"] = "execute"]
        BY <2>6, <3>1 DEF NextEvent
      <4>3. picked' \subseteq EventIndices /\ reg' \in [Tasks -> Nat] /\ pc' \in [Tasks -> Places]
        BY <4>1, <4>2, Indices
      <4>4. \A t \in Callers : reg'[t] = reg[t]
        BY <4>2
      <4> QED
        BY <2>6, <4>3, <4>4 DEF NextEvent
    <3>2. CASE ~Due(nextEventIndex)
      BY <2>6, <3>2 DEF NextEvent
    <3> QED
      BY <3>1, <3>2
  <2>7. CASE ExecuteEvent
    <3>1. executed' \subseteq EventIndices
      BY <2>7, <1>2 DEF ExecuteEvent
    <3>2. pc' \in [Tasks -> Places]
      BY <2>7 DEF ExecuteEvent
    <3> QED
      BY <2>7, <3>1, <3>2 DEF ExecuteEvent
  <2>8. CASE IncrementLoad
    BY <2>8, Indices DEF IncrementLoad
  <2>9. CASE IncrementStore
    <3>1. nextEventIndex' \in 1..(LastEvent + 1)
      <4>1. reg["mission"] \in 1..LastEvent
        BY <2>9, <1>1, Indices DEF IncrementStore
      <4> QED
        BY <2>9, <4>1, Indices DEF IncrementStore
    <3> QED
      BY <2>9, <3>1 DEF IncrementStore
  <2>10. CASE SignalChange
    <3>1. soe' \in BOOLEAN
      BY <2>10 DEF SignalChange
    <3>2. pc' \in [Tasks -> Places]
      <4>1. CASE soe'
        BY <2>10, <4>1 DEF SignalChange
      <4>2. CASE ~soe'
        BY <2>10, <4>2 DEF SignalChange
      <4> QED
        BY <4>1, <4>2
    <3>3. changes' \in 0..MaxChanges
      BY <2>10, BoundsAssumption DEF SignalChange
    <3> QED
      BY <2>10, <3>1, <3>2, <3>3 DEF SignalChange
  <2>11. ASSUME NEW c \in Commands, Command(c) PROVE TypeOK' /\ RegistersOK'
    BY <2>11, CommandsAssumption DEF Command
  <2>12. CASE Tick
    BY <2>12, BoundsAssumption DEF Tick
  <2>13. CASE UNCHANGED vars
    BY <2>13 DEF vars
  <2> QED
    BY <2>1, <2>2, <2>3, <2>4, <2>5, <2>6, <2>7, <2>8, <2>9, <2>10, <2>11, <2>12, <2>13 DEF Next, ClockStep, MissionTask

LEMMA CursorStep == IInv /\ [Next]_vars => Cursor'
<1> SUFFICES ASSUME IInv, [Next]_vars
             PROVE  Cursor'
  OBVIOUS
<1>1. /\ pc \in [Tasks -> Places] /\ reg \in [Tasks -> Nat]
      /\ nextEventIndex \in 1..(LastEvent + 1)
      /\ picked \subseteq EventIndices
  BY DEF IInv, TypeOK
<1>2. Cursor
  BY DEF IInv
<1> USE <1>1, <1>2 DEF Cursor, Handled, Goto, Load, Tasks, Callers, environment, clockVars,
                       history
<1> QED
  <2>1. ASSUME NEW t \in Callers, Reset(t) PROVE Cursor'
    <3>1. CASE ResetCheck(t)
      BY <3>1 DEF ResetCheck
    <3>2. CASE ResetStartedAt(t)
      BY <3>2 DEF ResetStartedAt
    <3>3. CASE ResetStoppedAt(t)
      BY <3>3 DEF ResetStoppedAt
    <3>4. CASE ResetIndex(t)
      BY <3>4, Indices DEF ResetIndex, ResetDone
    <3> QED
      BY <2>1, <3>1, <3>2, <3>3, <3>4 DEF Reset
  <2>2. ASSUME NEW t \in Callers, Start(t) PROVE Cursor'
    <3>1. CASE StartCheck(t)
      BY <3>1 DEF StartCheck
    <3>2. CASE StartLoad(t)
      BY <3>2 DEF StartLoad
    <3>3. CASE StartStore(t)
      BY <3>3 DEF StartStore
    <3>4. CASE StartClear(t)
      BY <3>4 DEF StartClear
    <3>5. CASE StartRun(t)
      BY <3>5 DEF StartRun
    <3> QED
      BY <2>2, <3>1, <3>2, <3>3, <3>4, <3>5 DEF Start
  <2>3. ASSUME NEW t \in Callers, Stop(t) PROVE Cursor'
    <3>1. CASE StopCheck(t)
      BY <3>1 DEF StopCheck
    <3>2. CASE StopStore(t)
      BY <3>2 DEF StopStore
    <3>3. CASE StopRun(t)
      BY <3>3 DEF StopRun
    <3> QED
      BY <2>3, <3>1, <3>2, <3>3 DEF Stop
  <2>4. CASE PassStart
    BY <2>4, Indices DEF PassStart
  <2>5. CASE ReadElapsed
    BY <2>5, Indices DEF ReadElapsed
  <2>6. CASE NextEvent
    <3>1. CASE Due(nextEventIndex)
      <4>1. nextEventIndex \in EventIndices
        BY <3>1, Indices DEF Due
      <4>2. /\ picked' = picked \cup {nextEventIndex}
            /\ reg'["mission"] = nextEventIndex
            /\ pc'["mission"] = "execute"
        BY <2>6, <3>1 DEF NextEvent
      <4>3. \A i \in picked' : i <= nextEventIndex
        BY <2>6, <4>2, Indices DEF NextEvent
      <4> QED
        BY <2>6, <4>1, <4>2, <4>3, Indices DEF NextEvent
    <3>2. CASE ~Due(nextEventIndex)
      BY <2>6, <3>2, Indices DEF NextEvent
    <3> QED
      BY <3>1, <3>2
  <2>7. CASE ExecuteEvent
    BY <2>7, Indices DEF ExecuteEvent
  <2>8. CASE IncrementLoad
    BY <2>8, Indices DEF IncrementLoad
  <2>9. CASE IncrementStore
    BY <2>9, Indices DEF IncrementStore
  <2>10. CASE SignalChange
    BY <2>10 DEF SignalChange
  <2>11. ASSUME NEW c \in Commands, Command(c) PROVE Cursor'
    BY <2>11, CommandsAssumption DEF Command
  <2>12. CASE Tick
    BY <2>12, BoundsAssumption DEF Tick
  <2>13. CASE UNCHANGED vars
    BY <2>13 DEF vars
  <2> QED
    BY <2>1, <2>2, <2>3, <2>4, <2>5, <2>6, <2>7, <2>8, <2>9, <2>10, <2>11, <2>12, <2>13 DEF Next, ClockStep, MissionTask

LEMMA Inductive == Spec => []IInv
<1>1. IInv /\ [Next]_vars => IInv'
  BY TypeStep, CursorStep DEF IInv
<1> QED
  BY InitHolds, <1>1, PTL DEF Spec

(* Every variable keeps its type: the index of the next event never leaves *)
(* the table and its end mark (executePendingEvents() checks no bound).    *)
THEOREM TypeCorrect == Spec => []TypeOK
<1>1. IInv => TypeOK
  BY DEF IInv
<1> QED
  BY Inductive, <1>1, PTL

(* Whatever restarts, resets and commands do to the index in the middle of *)
(* a pass, every event before it has been executed or is to be ignored.    *)
THEOREM NoEventForgotten == Spec => []NothingForgotten
<1>1. IInv => NothingForgotten
  <2> SUFFICES ASSUME IInv, NEW i \in EventIndices, i < nextEventIndex,
                      ~(Events[i].flagged /\ booted)
               PROVE  i \in executed \/ (pc["mission"] = "execute" /\ reg["mission"] = i)
    BY DEF NothingForgotten
  <2> QED
    BY Indices DEF IInv, Cursor, Handled, TypeOK
<1> QED
  BY Inductive, <1>1, PTL

(* Between two resets the mission task takes the events in the order of    *)
(* the table, and none twice.                                              *)
THEOREM EventsTakenInOrder == Spec => EventsInOrder
<1>1. IInv /\ [Next]_vars => [Picks => \A i \in picked : i < reg'["mission"]]_vars
  <2> SUFFICES ASSUME IInv, Next, Picks
               PROVE  \A i \in picked : i < reg'["mission"]
    BY DEF Picks, vars
  <2>1. pc \in [Tasks -> Places] /\ reg \in [Tasks -> Nat]
    BY DEF IInv, TypeOK
  <2>2. NextEvent
    BY <2>1 DEF Picks, Next, ClockStep, Reset, ResetCheck, ResetStartedAt, ResetStoppedAt,
       ResetIndex, Start, StartCheck, StartLoad, StartStore, StartClear, StartRun, Stop,
       StopCheck, StopStore, StopRun, MissionTask, PassStart, ReadElapsed, ExecuteEvent,
       IncrementLoad, IncrementStore, SignalChange, Command, Tick, Goto, Tasks, Callers
  <2> QED
    BY <2>1, <2>2 DEF NextEvent, Picks, IInv, Cursor, Goto, Load, Tasks
<1> QED
  BY Inductive, <1>1, PTL DEF Spec, EventsInOrder

---------------------------------------------------------------------------
(* The clock and the stopwatch, with ground control as the only caller.    *)

Runs == isClockRunning /\ counting /\ startedAt + stopwatch = time
Stands == ~isClockRunning /\ ~counting /\ stoppedAt - startedAt = stopwatch

(* In the middle of a method the new value of the clock is still in the    *)
(* register, or the clock already counts and is not said to run, or no     *)
(* longer counts and is not said to stand.                                 *)
StopwatchInv ==
    /\ pc["pins"] = "idle"
    /\ stopwatch \in 0 .. time /\ counting \in BOOLEAN
    /\ pc["cmd"] \in {"idle", "startChk", "stopChk", "resetChk", "resetIndex"} => Runs \/ Stands
    /\ pc["cmd"] = "startLoad" => Stands
    /\ pc["cmd"] = "startStore" =>
         ~isClockRunning /\ counting /\ reg["cmd"] + stopwatch = time
    /\ pc["cmd"] \in {"startClear", "startRun"} =>
         ~isClockRunning /\ counting /\ startedAt + stopwatch = time
    /\ pc["cmd"] = "stopStore" => Runs
    /\ pc["cmd"] = "stopRun" =>
         isClockRunning /\ ~counting /\ stoppedAt - startedAt = stopwatch
    /\ pc["cmd"] = "resetStarted" =>
         \/ Runs /\ reg["cmd"] <= time
         \/ Stands /\ reg["cmd"] = 0
    /\ pc["cmd"] = "resetStopped" =>
         \/ Runs
         \/ ~isClockRunning /\ ~counting /\ startedAt = 0 /\ stopwatch = 0
    /\ pc["cmd"] \in {"idle", "startChk", "stopChk", "resetChk", "resetIndex", "startLoad",
                      "startStore", "startClear", "startRun", "stopStore", "stopRun",
                      "resetStarted", "resetStopped"}

LEMMA StopwatchNumbers ==
    ASSUME TypeOK
    PROVE  /\ time \in Nat /\ time < Word /\ Word \in Nat
           /\ startedAt \in Nat /\ stoppedAt \in Nat /\ isClockRunning \in BOOLEAN
           /\ reg \in [Tasks -> Nat] /\ reg["cmd"] \in Nat
           /\ pc \in [Tasks -> Places]
BY BoundsAssumption DEF TypeOK, Tasks

(* A clock that shows a number of the stopwatch. *)
LEMMA ClockShows ==
    ASSUME TypeOK, stopwatch \in 0 .. time, Runs \/ Stands
    PROVE  Elapsed = stopwatch
<1>1. \A s \in 0 .. time : s % Word = s
  BY StopwatchNumbers
<1>2. isClockRunning => time - startedAt = stopwatch
  BY StopwatchNumbers DEF Runs, Stands
<1>3. ~isClockRunning => stoppedAt - startedAt = stopwatch
  BY DEF Runs, Stands
<1> QED
  BY <1>1, <1>2, <1>3 DEF Elapsed

LEMMA CmdMoves ==
    ASSUME pc["pins"] = "idle", pc'["pins"] = "idle", NEW from, NEW to, from # "idle"
    PROVE  Moves(from, to) <=> pc["cmd"] = from /\ pc'["cmd"] = to
BY DEF Moves, Callers

LEMMA StopwatchStep ==
    ASSUME MaxChanges = 0, IInv, StopwatchInv, SwNext
    PROVE  StopwatchInv'
<1>1. /\ TypeOK /\ Next /\ time' \in Nat
      /\ counting' = ((counting \/ Moves("startLoad", "startStore")) /\ ~Moves("stopStore", "stopRun"))
      /\ stopwatch' = IF Moves("resetStarted", "resetStopped")
                      THEN IF isClockRunning THEN time - startedAt' ELSE 0
                      ELSE IF counting THEN stopwatch + (time' - time) ELSE stopwatch
  BY TypeStep, BoundsAssumption DEF SwNext, IInv, TypeOK
<1>2. ~SignalChange /\ \A t \in Callers : ClockStep(t) => t = "cmd"
  BY <1>1 DEF SignalChange, StopwatchInv, TypeOK, ClockStep, Reset, ResetCheck, ResetStartedAt,
     ResetStoppedAt, ResetIndex, Start, StartCheck, StartLoad, StartStore, StartClear, StartRun, Stop,
     StopCheck, StopStore, StopRun, Callers
<1>3. ClockStep("cmd") \/ MissionTask \/ (\E c \in Commands : Command(c)) \/ Tick
  BY <1>1, <1>2 DEF Next
<1>4. pc'["pins"] = "idle"
  BY <1>1, <1>3, StopwatchNumbers DEF StopwatchInv, ClockStep, Reset, ResetCheck, ResetStartedAt, ResetStoppedAt,
     ResetIndex, Start, StartCheck, StartLoad, StartStore, StartClear, StartRun, Stop, StopCheck,
     StopStore, StopRun, MissionTask, PassStart, ReadElapsed, NextEvent, ExecuteEvent,
     IncrementLoad, IncrementStore, Command, Tick, Goto, Tasks
<1>5. \A from, to : from # "idle" => (Moves(from, to) <=> pc["cmd"] = from /\ pc'["cmd"] = to)
  BY <1>4, CmdMoves DEF StopwatchInv
<1>6. /\ counting' = ((counting \/ (pc["cmd"] = "startLoad" /\ pc'["cmd"] = "startStore"))
                        /\ ~(pc["cmd"] = "stopStore" /\ pc'["cmd"] = "stopRun"))
      /\ stopwatch' = IF pc["cmd"] = "resetStarted" /\ pc'["cmd"] = "resetStopped"
                      THEN IF isClockRunning THEN time - startedAt' ELSE 0
                      ELSE IF counting THEN stopwatch + (time' - time) ELSE stopwatch
  BY <1>1, <1>5
<1>7. /\ stopwatch \in 0 .. time /\ counting \in BOOLEAN /\ time \in Nat /\ startedAt \in Nat
      /\ stoppedAt \in Nat /\ isClockRunning \in BOOLEAN /\ reg["cmd"] \in Nat
      /\ reg \in [Tasks -> Nat] /\ pc \in [Tasks -> Places]
      /\ "cmd" \in Tasks /\ "mission" \in Tasks
  BY <1>1, StopwatchNumbers DEF StopwatchInv, Tasks
<1>8. CASE MissionTask
  <2>1. /\ pc'["cmd"] = pc["cmd"] /\ reg'["cmd"] = reg["cmd"]
        /\ time' = time /\ startedAt' = startedAt /\ stoppedAt' = stoppedAt
        /\ isClockRunning' = isClockRunning
    BY <1>7, <1>8 DEF MissionTask, PassStart, ReadElapsed, NextEvent, ExecuteEvent, IncrementLoad,
       IncrementStore, Goto, Load, environment, clockVars
  <2>2. counting' = counting /\ stopwatch' = stopwatch
    BY <1>6, <1>7, <2>1
  <2> QED
    BY <1>4, <2>1, <2>2 DEF StopwatchInv, Runs, Stands
<1>9. CASE \E c \in Commands : Command(c)
  <2>1. /\ pc["cmd"] = "idle" /\ pc'["cmd"] \in {"startChk", "stopChk", "resetChk"}
        /\ time' = time /\ startedAt' = startedAt /\ stoppedAt' = stoppedAt
        /\ isClockRunning' = isClockRunning
    BY <1>7, <1>9, CommandsAssumption DEF Command, Goto, environment, clockVars
  <2>2. counting' = counting /\ stopwatch' = stopwatch
    BY <1>6, <1>7, <2>1
  <2> QED
    BY <1>4, <2>1, <2>2 DEF StopwatchInv, Runs, Stands
<1>10. CASE Tick
  <2>1. /\ pc' = pc /\ reg' = reg /\ time' = time + 1 /\ startedAt' = startedAt
        /\ stoppedAt' = stoppedAt /\ isClockRunning' = isClockRunning
    BY <1>10 DEF Tick, clockVars
  <2>2. counting' = counting /\ stopwatch' = IF counting THEN stopwatch + 1 ELSE stopwatch
    BY <1>6, <1>7, <2>1
  <2> QED
    BY <1>4, <1>7, <2>1, <2>2 DEF StopwatchInv, Runs, Stands
<1>11. CASE ClockStep("cmd")
  <2>1. time' = time
    BY <1>11 DEF ClockStep, Reset, ResetCheck, ResetStartedAt, ResetStoppedAt, ResetIndex, Start,
       StartCheck, StartLoad, StartStore, StartClear, StartRun, Stop, StopCheck, StopStore, StopRun,
       environment
  <2>2. /\ pc["cmd"] # "resetStarted" => stopwatch' = stopwatch
        /\ pc["cmd"] \notin {"startLoad", "stopStore"} => counting' = counting
    BY <1>6, <1>7, <2>1
  <2>3. CASE ResetCheck("cmd")
    <3>1. /\ pc["cmd"] = "resetChk" /\ pc'["cmd"] = "resetStarted"
          /\ reg'["cmd"] = IF isClockRunning THEN time ELSE 0
          /\ startedAt' = startedAt /\ stoppedAt' = stoppedAt /\ isClockRunning' = isClockRunning
      BY <1>7, <2>3 DEF ResetCheck, Goto, Load, clockVars
    <3> QED
      BY <1>4, <1>6, <1>7, <2>1, <2>2, <3>1 DEF StopwatchInv, Runs, Stands
  <2>4. CASE ResetStartedAt("cmd")
    <3>1. /\ pc["cmd"] = "resetStarted" /\ pc'["cmd"] = "resetStopped"
          /\ startedAt' = reg["cmd"] /\ isClockRunning' = isClockRunning
      BY <1>7, <2>4 DEF ResetStartedAt, Goto
    <3> QED
      BY <1>4, <1>6, <1>7, <2>1, <3>1 DEF StopwatchInv, Runs, Stands
  <2>5. CASE ResetStoppedAt("cmd")
    <3>1. /\ pc["cmd"] = "resetStopped" /\ pc'["cmd"] = "resetIndex" /\ stoppedAt' = 0
          /\ startedAt' = startedAt /\ isClockRunning' = isClockRunning
      BY <1>7, <2>5 DEF ResetStoppedAt, Goto
    <3>2. counting' = counting /\ stopwatch' = stopwatch
      BY <2>2, <3>1
    <3>3. (Runs \/ Stands)'
      BY <1>7, <2>1, <3>1, <3>2 DEF StopwatchInv, Runs, Stands
    <3> QED
      BY <1>4, <1>7, <2>1, <3>1, <3>2, <3>3 DEF StopwatchInv
  <2>11. CASE ResetIndex("cmd")
    <3>1. /\ pc["cmd"] = "resetIndex" /\ pc'["cmd"] = "idle" /\ stoppedAt' = stoppedAt
          /\ startedAt' = startedAt /\ isClockRunning' = isClockRunning
      BY <1>7, <2>11 DEF ResetIndex, ResetDone, Goto
    <3>2. counting' = counting /\ stopwatch' = stopwatch
      BY <2>2, <3>1
    <3> QED
      BY <1>4, <1>7, <2>1, <3>1, <3>2 DEF StopwatchInv, Runs, Stands
  <2>6. CASE StartCheck("cmd") \/ StopCheck("cmd")
    <3>1. /\ \/ /\ pc["cmd"] = "startChk"
                /\ pc'["cmd"] = IF isClockRunning THEN "idle" ELSE "startLoad"
             \/ /\ pc["cmd"] = "stopChk"
                /\ pc'["cmd"] = IF isClockRunning THEN "stopStore" ELSE "idle"
          /\ startedAt' = startedAt /\ stoppedAt' = stoppedAt /\ isClockRunning' = isClockRunning
      BY <1>7, <2>6 DEF StartCheck, StopCheck, Goto, clockVars
    <3> QED
      BY <1>4, <1>6, <1>7, <2>1, <2>2, <3>1 DEF StopwatchInv, Runs, Stands
  <2>7. CASE StartLoad("cmd")
    <3>1. /\ pc["cmd"] = "startLoad" /\ pc'["cmd"] = "startStore"
          /\ reg'["cmd"] = (time - Elapsed) % Word
          /\ startedAt' = startedAt /\ stoppedAt' = stoppedAt /\ isClockRunning' = isClockRunning
      BY <1>7, <2>7 DEF StartLoad, Goto, Load, clockVars
    <3>2. Elapsed = stopwatch
      BY <1>1, <1>7, <3>1, ClockShows DEF StopwatchInv
    <3>3. time - stopwatch \in Nat /\ time - stopwatch < Word /\ Word \in Nat
      BY <1>1, <1>7, StopwatchNumbers
    <3>4. reg'["cmd"] = time - stopwatch
      BY <3>1, <3>2, <3>3
    <3>5. counting' = TRUE /\ stopwatch' = stopwatch /\ ~isClockRunning
      BY <1>6, <2>2, <3>1 DEF StopwatchInv, Stands
    <3>6. reg'["cmd"] + stopwatch' = time
      BY <1>7, <3>4, <3>5
    <3>7. counting' /\ counting' \in BOOLEAN
      BY <3>5, Zenon
    <3> QED
      BY <1>4, <1>7, <2>1, <3>1, <3>5, <3>6, <3>7 DEF StopwatchInv
  <2>8. CASE StartStore("cmd")
    <3>1. /\ pc["cmd"] = "startStore" /\ pc'["cmd"] = "startClear"
          /\ startedAt' = reg["cmd"] /\ isClockRunning' = isClockRunning
      BY <1>7, <2>8 DEF StartStore, Goto
    <3> QED
      BY <1>4, <1>6, <1>7, <2>1, <2>2, <3>1 DEF StopwatchInv, Runs, Stands
  <2>9. CASE StartClear("cmd") \/ StartRun("cmd")
    <3>1. /\ \/ pc["cmd"] = "startClear" /\ pc'["cmd"] = "startRun" /\ isClockRunning' = isClockRunning
             \/ pc["cmd"] = "startRun" /\ pc'["cmd"] = "idle" /\ isClockRunning'
          /\ startedAt' = startedAt
      BY <1>7, <2>9 DEF StartClear, StartRun, Goto
    <3> QED
      BY <1>4, <1>6, <1>7, <2>1, <2>2, <3>1 DEF StopwatchInv, Runs, Stands
  <2>10. CASE StopStore("cmd")
    <3>1. /\ pc["cmd"] = "stopStore" /\ pc'["cmd"] = "stopRun"
          /\ stoppedAt' = time /\ isClockRunning' = isClockRunning /\ startedAt' = startedAt
      BY <1>7, <2>10 DEF StopStore, Goto
    <3>2. ~counting' /\ counting' \in BOOLEAN /\ stopwatch' = stopwatch
      BY <1>6, <2>2, <3>1
    <3>3. isClockRunning' /\ stoppedAt' - startedAt' = stopwatch'
      BY <1>7, <3>1, <3>2 DEF StopwatchInv, Runs
    <3> QED
      BY <1>4, <1>7, <2>1, <3>1, <3>2, <3>3 DEF StopwatchInv
  <2>12. CASE StopRun("cmd")
    <3>1. /\ pc["cmd"] = "stopRun" /\ pc'["cmd"] = "idle"
          /\ stoppedAt' = stoppedAt /\ ~isClockRunning' /\ startedAt' = startedAt
      BY <1>7, <2>12 DEF StopRun, Goto
    <3>2. counting' = counting /\ stopwatch' = stopwatch
      BY <2>2, <3>1
    <3>3. Stands'
      BY <3>1, <3>2 DEF StopwatchInv, Stands
    <3> QED
      BY <1>4, <1>7, <2>1, <3>1, <3>2, <3>3 DEF StopwatchInv
  <2> QED
    BY <1>11, <2>3, <2>4, <2>5, <2>6, <2>7, <2>8, <2>9, <2>10, <2>11, <2>12 DEF ClockStep, Reset, Start, Stop
<1> QED
  BY <1>3, <1>8, <1>9, <1>10, <1>11

LEMMA ClockPartNext == [FlightNext]_flightVars => SwNext \/ UNCHANGED <<vars, stopwatchVars>>
BY DEF FlightNext, flightVars, Only

(* For every table of events, word size and sequence of commands, while    *)
(* the signal does not change: outside the methods of the scheduler its    *)
(* clock shows how long it ran since it was last reset.                    *)
THEOREM ClockCorrect == ASSUME MaxChanges = 0 PROVE FlightSpec => []ClockIsStopwatch
<1>1. FlightInit => IInv /\ StopwatchInv
  <2> SUFFICES ASSUME FlightInit PROVE IInv /\ StopwatchInv
    OBVIOUS
  <2>1. Init /\ stopwatch = 0 /\ counting = FALSE
    BY DEF FlightInit, SwInit
  <2>2. /\ pc["pins"] = "idle" /\ pc["cmd"] = "idle" /\ time = 0 /\ startedAt = 0 /\ stoppedAt = 0
        /\ isClockRunning = FALSE
    BY <2>1 DEF Init, Tasks
  <2>3. Stands
    BY <2>1, <2>2 DEF Stands
  <2>4. stopwatch \in 0 .. time /\ counting \in BOOLEAN
    <3>1. stopwatch = 0 /\ time = 0
      BY <2>1, <2>2
    <3>2. counting \in BOOLEAN
      BY <2>1, Zenon
    <3> QED
      BY <3>1, <3>2
  <2>5. StopwatchInv
    BY <2>2, <2>3, <2>4 DEF StopwatchInv
  <2> QED
    BY <2>1, <2>5, InitHolds
<1>2. IInv /\ StopwatchInv /\ [FlightNext]_flightVars => (IInv /\ StopwatchInv)'
  <2> SUFFICES ASSUME IInv, StopwatchInv, [FlightNext]_flightVars PROVE IInv' /\ StopwatchInv'
    OBVIOUS
  <2>1. [Next]_vars
    BY ClockPartNext DEF SwNext
  <2>2. IInv'
    BY <2>1, TypeStep, CursorStep DEF IInv
  <2>3. CASE SwNext
    BY <2>2, <2>3, StopwatchStep
  <2>4. CASE UNCHANGED <<vars, stopwatchVars>>
    BY <2>2, <2>4 DEF vars, stopwatchVars, environment, clockVars, history, StopwatchInv, Runs, Stands
  <2> QED
    BY <2>2, <2>3, <2>4, ClockPartNext
<1>3. IInv /\ StopwatchInv => ClockIsStopwatch
  <2> SUFFICES ASSUME IInv, StopwatchInv, \A t \in Callers : pc[t] = "idle"
               PROVE  isClockRunning = counting /\ Elapsed = stopwatch
    BY DEF ClockIsStopwatch, StopwatchAgrees
  <2>1. Runs \/ Stands
    BY DEF StopwatchInv, Callers
  <2>2. Elapsed = stopwatch
    BY <2>1, ClockShows DEF IInv, StopwatchInv
  <2>3. isClockRunning \in BOOLEAN /\ counting \in BOOLEAN
    BY DEF IInv, TypeOK, StopwatchInv
  <2> QED
    BY <2>1, <2>2, <2>3 DEF Runs, Stands
<1> QED
  BY <1>1, <1>2, <1>3, PTL DEF FlightSpec

---------------------------------------------------------------------------
(* The signals.                                                            *)

(* A majority of five, without the magic number. *)
One(b) == IF b THEN 1 ELSE 0
CountOf(b) == One(b[1]) + One(b[2]) + One(b[3]) + One(b[4]) + One(b[5])
Word5(b) == 16 * One(b[1]) + 8 * One(b[2]) + 4 * One(b[3]) + 2 * One(b[4]) + One(b[5])

OnUpTo(b, n) == {i \in 1 .. n : b[i]}

LEMMA OnOneMore ==
    ASSUME NEW b, NEW n \in Nat, IsFiniteSet(OnUpTo(b, n)), b[n + 1] \in BOOLEAN
    PROVE  /\ IsFiniteSet(OnUpTo(b, n + 1))
           /\ Cardinality(OnUpTo(b, n + 1)) = Cardinality(OnUpTo(b, n)) + One(b[n + 1])
           /\ Cardinality(OnUpTo(b, n + 1)) \in Nat
<1>1. CASE b[n + 1]
  <2>1. OnUpTo(b, n + 1) = OnUpTo(b, n) \cup {n + 1} /\ n + 1 \notin OnUpTo(b, n)
    BY <1>1 DEF OnUpTo
  <2> QED
    BY <1>1, <2>1, FS_AddElement, FS_CardinalityType DEF One
<1>2. CASE ~b[n + 1]
  <2>1. OnUpTo(b, n + 1) = OnUpTo(b, n)
    BY <1>2 DEF OnUpTo
  <2> QED
    BY <1>2, <2>1, FS_CardinalityType DEF One
<1> QED
  BY <1>1, <1>2

LEMMA CountIs ==
    ASSUME NEW b \in [1 .. 5 -> BOOLEAN]
    PROVE  /\ Cardinality({i \in 1 .. 5 : b[i]}) = CountOf(b)
           /\ Cardinality({i \in 1 .. 4 : b[i]}) = One(b[1]) + One(b[2]) + One(b[3]) + One(b[4])
<1>0. IsFiniteSet(OnUpTo(b, 0)) /\ Cardinality(OnUpTo(b, 0)) = 0
  <2>1. OnUpTo(b, 0) = {}
    BY DEF OnUpTo
  <2> QED
    BY <2>1, FS_EmptySet
<1> DEFINE c(n) == Cardinality(OnUpTo(b, n))
<1>1. IsFiniteSet(OnUpTo(b, 1)) /\ c(1) = One(b[1])
  <2>1. b[0 + 1] \in BOOLEAN /\ 0 \in Nat /\ 0 + 1 = 1
    OBVIOUS
  <2>2. IsFiniteSet(OnUpTo(b, 0 + 1)) /\ c(0 + 1) = c(0) + One(b[0 + 1])
    BY <1>0, <2>1, OnOneMore
  <2> QED
    BY <1>0, <2>1, <2>2 DEF One
<1>2. IsFiniteSet(OnUpTo(b, 2)) /\ c(2) = c(1) + One(b[2])
  <2>1. b[1 + 1] \in BOOLEAN /\ 1 + 1 = 2
    OBVIOUS
  <2> QED
    BY <1>1, <2>1, OnOneMore
<1>3. IsFiniteSet(OnUpTo(b, 3)) /\ c(3) = c(2) + One(b[3])
  <2>1. b[2 + 1] \in BOOLEAN /\ 2 + 1 = 3
    OBVIOUS
  <2> QED
    BY <1>2, <2>1, OnOneMore
<1>4. IsFiniteSet(OnUpTo(b, 4)) /\ c(4) = c(3) + One(b[4])
  <2>1. b[3 + 1] \in BOOLEAN /\ 3 + 1 = 4
    OBVIOUS
  <2> QED
    BY <1>3, <2>1, OnOneMore
<1>5. c(5) = c(4) + One(b[5])
  <2>1. b[4 + 1] \in BOOLEAN /\ 4 + 1 = 5
    OBVIOUS
  <2> QED
    BY <1>4, <2>1, OnOneMore
<1>6. c(5) = CountOf(b) /\ c(4) = One(b[1]) + One(b[2]) + One(b[3]) + One(b[4])
  <2> HIDE DEF c
  <2> QED
    BY <1>1, <1>2, <1>3, <1>4, <1>5 DEF CountOf
<1>7. OnUpTo(b, 5) = {i \in 1 .. 5 : b[i]} /\ OnUpTo(b, 4) = {i \in 1 .. 4 : b[i]}
  BY DEF OnUpTo
<1> QED
  BY <1>6, <1>7

(* The bits of the magic number are the majorities of all words of five. *)
LEMMA TableIsMajority ==
    ASSUME NEW b \in [1 .. 5 -> BOOLEAN]
    PROVE  /\ Word5(b) \in 0 .. 31
           /\ Majority(Word5(b)) <=> CountOf(b) >= 3
<1>1. /\ One(b[1]) \in {0, 1} /\ One(b[2]) \in {0, 1} /\ One(b[3]) \in {0, 1}
      /\ One(b[4]) \in {0, 1} /\ One(b[5]) \in {0, 1}
  BY DEF One
<1>2. \A x1, x2, x3, x4, x5 \in {0, 1} :
         LET w == 16 * x1 + 8 * x2 + 4 * x3 + 2 * x4 + x5 IN
         w \in 0 .. 31 /\ (Majority(w) <=> x1 + x2 + x3 + x4 + x5 >= 3)
  BY DEF Majority, Bit, BitMask, MajorityTable
<1> QED
  BY <1>1, <1>2 DEF Word5, CountOf

LEMMA SampleShifted ==
    ASSUME NEW b \in [1 .. 5 -> BOOLEAN], NEW bit \in BOOLEAN
    PROVE  LET n == Slid(b, bit) IN
           /\ n \in [1 .. 5 -> BOOLEAN]
           /\ n[1] = b[2] /\ n[2] = b[3] /\ n[3] = b[4] /\ n[4] = b[5] /\ n[5] = bit
           /\ Shift(Word5(b), bit) = Word5(n)
<1> DEFINE n == Slid(b, bit)
<1>1. n \in [1 .. 5 -> BOOLEAN]
  BY DEF Slid
<1>2. n[1] = b[2] /\ n[2] = b[3] /\ n[3] = b[4] /\ n[4] = b[5] /\ n[5] = bit
  BY DEF Slid
<1> HIDE DEF n
<1>3. /\ One(b[1]) \in {0, 1} /\ One(b[2]) \in {0, 1} /\ One(b[3]) \in {0, 1}
      /\ One(b[4]) \in {0, 1} /\ One(b[5]) \in {0, 1} /\ One(bit) \in {0, 1}
  BY DEF One
<1>4. \A x1, x2, x3, x4, x5, y \in {0, 1} :
         (2 * (16 * x1 + 8 * x2 + 4 * x3 + 2 * x4 + x5) + y) % 32 = 16 * x2 + 8 * x3 + 4 * x4 + 2 * x5 + y
  OBVIOUS
<1>5. Shift(Word5(b), bit) = (2 * Word5(b) + One(bit)) % 32
  BY DEF Shift, One
<1>6. Word5(n) = 16 * One(b[2]) + 8 * One(b[3]) + 4 * One(b[4]) + 2 * One(b[5]) + One(bit)
  BY <1>2 DEF Word5
<1>7. Shift(Word5(b), bit) = Word5(n)
  BY <1>3, <1>4, <1>5, <1>6 DEF Word5
<1> QED
  BY <1>1, <1>2, <1>7 DEF n

(* A history is the word of its samples; a time stamp is about to be set   *)
(* only for a signal whose last sample has turned the vote on.             *)
Turned(b) == b[5] /\ CountOf(b) = 3
SignalsInv ==
    /\ RxsmTypeOK
    /\ \A s \in Signals : voterHistory[s] = Word5(samples[s])
    /\ stamp => signalPlace # 0 /\ Turned(samples[Order[signalPlace]])

LEMMA SignalNumbers ==
    /\ Len(Order) \in Nat /\ Len(Order) > 0 /\ Window \in Nat /\ MaxSampleTime \in Nat
    /\ \A i \in 1 .. Len(Order) : Order[i] \in Signals
    /\ "LO" \in Signals /\ "SODS" \in Signals
BY OrderAssumption, SignalBoundsAssumption DEF Signals

LEMMA VotesAre ==
    ASSUME SignalsInv, NEW s \in Signals
    PROVE  /\ samples[s] \in [1 .. 5 -> BOOLEAN]
           /\ Vote(s) <=> CountOf(samples[s]) >= 3
<1>1. samples[s] \in [1 .. 5 -> BOOLEAN] /\ voterHistory[s] = Word5(samples[s])
  BY DEF SignalsInv, RxsmTypeOK
<1> QED
  BY <1>1, TableIsMajority DEF Vote

LEMMA SignalsInit == RxsmInit => SignalsInv
<1> SUFFICES ASSUME RxsmInit PROVE SignalsInv
  OBVIOUS
<1> DEFINE none == [i \in 1 .. 5 |-> FALSE]
<1>1. none \in [1 .. 5 -> BOOLEAN] /\ Word5(none) = 0
  BY DEF Word5, One
<1>2. samples = [s \in Signals |-> none] /\ stamp = FALSE /\ voterHistory = [s \in Signals |-> 0]
  BY DEF RxsmInit
<1> HIDE DEF none
<1>3. RxsmTypeOK
  <2>1. stamp \in BOOLEAN
    BY <1>2, Zenon
  <2>2. samples \in [Signals -> [1 .. 5 -> BOOLEAN]]
    BY <1>1, <1>2
  <2>3. voterHistory \in [Signals -> 0 .. 31]
    BY <1>2
  <2> QED
    BY <2>1, <2>2, <2>3, SignalNumbers DEF RxsmInit, RxsmTypeOK
<1> QED
  BY <1>1, <1>2, <1>3 DEF SignalsInv

LEMMA FeedStep ==
    ASSUME SignalsInv, NEW bit \in BOOLEAN, Feed(bit)
    PROVE  SignalsInv'
<1> DEFINE s == Order[signalPlace]
           b == samples[s]
           n == Slid(b, bit)
           h == Shift(voterHistory[s], bit)
<1>1. /\ signalPlace \in 1 .. Len(Order) /\ s \in Signals /\ b \in [1 .. 5 -> BOOLEAN]
      /\ voterHistory[s] = Word5(b)
  BY SignalNumbers DEF Feed, SignalsInv, RxsmTypeOK
<1>2. /\ voterHistory' = [voterHistory EXCEPT ![s] = h]
      /\ samples' = [samples EXCEPT ![s] = n]
      /\ stamp' = (Majority(h) /\ ~Vote(s))
      /\ signalPlace' = IF stamp' THEN signalPlace ELSE (signalPlace + 1) % (Len(Order) + 1)
      /\ sampleTime' = sampleTime /\ edgeAt' = edgeAt
  BY DEF Feed
<1>3. /\ n \in [1 .. 5 -> BOOLEAN] /\ h = Word5(n)
      /\ n[1] = b[2] /\ n[2] = b[3] /\ n[3] = b[4] /\ n[4] = b[5] /\ n[5] = bit
  BY <1>1, SampleShifted
<1>4. h \in 0 .. 31 /\ (Majority(h) <=> CountOf(n) >= 3)
  BY <1>3, TableIsMajority
<1>5. Vote(s) <=> CountOf(b) >= 3
  BY <1>1, VotesAre
<1> HIDE DEF s, b, n, h
<1>6. stamp' \in BOOLEAN /\ (stamp' <=> CountOf(n) >= 3 /\ ~(CountOf(b) >= 3))
  BY <1>2, <1>4, <1>5
<1>7. stamp' => Turned(n)
  <2>1. CountOf(n) = CountOf(b) - One(b[1]) + One(bit)
    BY <1>1, <1>3 DEF CountOf, One
  <2>2. CountOf(b) \in Int /\ One(b[1]) \in {0, 1} /\ ((One(bit) = 1 /\ bit) \/ One(bit) = 0)
    BY <1>1 DEF CountOf, One
  <2> QED
    BY <1>3, <1>6, <2>1, <2>2 DEF Turned
<1>8. signalPlace' \in 0 .. Len(Order)
  BY <1>1, <1>2, SignalNumbers
<1>9. RxsmTypeOK'
  BY <1>1, <1>2, <1>3, <1>4, <1>6, <1>8 DEF SignalsInv, RxsmTypeOK
<1>10. \A q \in Signals : voterHistory'[q] = Word5(samples'[q])
  BY <1>1, <1>2, <1>3 DEF SignalsInv, RxsmTypeOK
<1>11. stamp' => signalPlace' # 0 /\ Turned(samples'[Order[signalPlace']])
  <2>1. stamp' => signalPlace' = signalPlace
    BY <1>2
  <2>2. samples'[s] = n
    BY <1>1, <1>2 DEF SignalsInv, RxsmTypeOK
  <2> QED
    BY <1>1, <1>7, <2>1, <2>2 DEF s
<1> QED
  BY <1>9, <1>10, <1>11 DEF SignalsInv

LEMMA SignalsStep ==
    ASSUME SignalsInv, [RxsmNext]_rxsmVars
    PROVE  /\ SignalsInv'
           /\ edgeAt' = edgeAt
              \/ /\ stamp /\ signalPlace \in 1 .. Len(Order)
                 /\ edgeAt' = [edgeAt EXCEPT ![Order[signalPlace]] = sampleTime]
                 /\ sampleTime' = sampleTime
<1>1. CASE NextUpdate
  <2>1. ~stamp
    BY <1>1 DEF NextUpdate, SignalsInv
  <2> QED
    BY <1>1, <2>1, SignalNumbers DEF NextUpdate, SignalsInv, RxsmTypeOK
<1>2. ASSUME NEW bit \in BOOLEAN, Feed(bit) PROVE SignalsInv' /\ edgeAt' = edgeAt
  BY <1>2, FeedStep DEF Feed
<1>3. CASE RisingEdge
  <2>1. /\ stamp /\ signalPlace \in 1 .. Len(Order) /\ Order[signalPlace] \in Signals
        /\ edgeAt' = [edgeAt EXCEPT ![Order[signalPlace]] = sampleTime]
        /\ stamp' = FALSE /\ signalPlace' = (signalPlace + 1) % (Len(Order) + 1)
        /\ UNCHANGED <<sampleTime, voterHistory, samples>>
    BY <1>3, SignalNumbers DEF RisingEdge, SignalsInv, RxsmTypeOK
  <2>2. signalPlace' \in 0 .. Len(Order)
    BY <2>1, SignalNumbers
  <2>3. RxsmTypeOK'
    BY <2>1, <2>2 DEF SignalsInv, RxsmTypeOK
  <2> QED
    BY <2>1, <2>3 DEF SignalsInv
<1>4. CASE UNCHANGED rxsmVars
  BY <1>4 DEF rxsmVars, SignalsInv, RxsmTypeOK
<1> QED
  BY <1>1, <1>2, <1>3, <1>4 DEF RxsmNext

LEMMA SignalsPartNext == [FlightNext]_flightVars => [RxsmNext]_rxsmVars
BY DEF FlightNext, flightVars, Only

(* For every order of the signals, every window and all samples: the magic *)
(* number of the voter is the majority of five, a time stamp moves only    *)
(* when the vote turns on, and after the window has passed no signal makes *)
(* a boot look like one in flight.                                         *)
THEOREM SignalsCorrect == FlightSpec => SignalsTrue
<1>1. FlightInit => SignalsInv
  BY SignalsInit DEF FlightInit
<1>2. SignalsInv /\ [FlightNext]_flightVars => SignalsInv'
  BY SignalsStep, SignalsPartNext
<1>3. SignalsInv => RxsmTypeOK /\ VoteIsMajority
  <2> SUFFICES ASSUME SignalsInv, NEW s \in Signals
               PROVE  Vote(s) = (Cardinality({i \in 1 .. 5 : samples[s][i]}) >= 3)
    BY DEF SignalsInv, VoteIsMajority
  <2>1. Vote(s) <=> Cardinality({i \in 1 .. 5 : samples[s][i]}) >= 3
    BY VotesAre, CountIs
  <2>2. Vote(s) \in BOOLEAN
    BY DEF Vote, Majority
  <2> QED
    BY <2>1, <2>2
<1>4. SignalsInv /\ [FlightNext]_flightVars =>
        [\A s \in Signals : edgeAt'[s] # edgeAt[s] =>
            /\ samples[s][5] /\ Vote(s)
            /\ Cardinality({i \in 1..4 : samples[s][i]}) = 2]_rxsmVars
  <2> SUFFICES ASSUME SignalsInv, [RxsmNext]_rxsmVars, NEW s \in Signals, edgeAt'[s] # edgeAt[s]
               PROVE  /\ samples[s][5] /\ Vote(s)
                      /\ Cardinality({i \in 1..4 : samples[s][i]}) = 2
    BY SignalsPartNext
  <2>1. stamp /\ s = Order[signalPlace]
    BY SignalsStep DEF SignalsInv, RxsmTypeOK
  <2>2. Turned(samples[s])
    BY <2>1 DEF SignalsInv
  <2>3. Vote(s) /\ samples[s] \in [1 .. 5 -> BOOLEAN]
    BY <2>2, VotesAre DEF Turned
  <2>4. One(samples[s][1]) + One(samples[s][2]) + One(samples[s][3]) + One(samples[s][4]) = 2
    BY <2>2, <2>3 DEF Turned, CountOf, One
  <2> QED
    BY <2>2, <2>3, <2>4, CountIs DEF Turned
<1>5. SignalsInv /\ [FlightNext]_flightVars =>
        [sampleTime >= Window /\ BootedAfterLiftoff' => BootedAfterLiftoff]_rxsmVars
  <2> SUFFICES ASSUME SignalsInv, [RxsmNext]_rxsmVars, sampleTime >= Window, BootedAfterLiftoff'
               PROVE  BootedAfterLiftoff
    BY SignalsPartNext
  <2>1. edgeAt'["LO"] < Window /\ edgeAt'["SODS"] < Window /\ edgeAt'["LO"] > 0 /\ edgeAt'["SODS"] > 0
    BY DEF BootedAfterLiftoff
  <2>2. \A s \in Signals : edgeAt'[s] = edgeAt[s] \/ edgeAt'[s] = sampleTime
    BY SignalsStep DEF SignalsInv, RxsmTypeOK
  <2>3. edgeAt'["LO"] = edgeAt["LO"] /\ edgeAt'["SODS"] = edgeAt["SODS"]
    BY <2>1, <2>2, SignalNumbers DEF SignalsInv, RxsmTypeOK
  <2> QED
    BY <2>1, <2>3 DEF BootedAfterLiftoff
<1> QED
  BY <1>1, <1>2, <1>3, <1>4, <1>5, PTL DEF FlightSpec, SignalsTrue, EdgesMoveOnChange, RecognisedEarly

---------------------------------------------------------------------------
(* The LCLs.  The counter of resets is a history of the automatic resets,  *)
(* until the logic gives up or the recovery period is over; a broken LCL   *)
(* triggers again before that, and nothing but the logic resets it.        *)

LclTyped ==
    /\ lo \in BOOLEAN /\ bootedInFlight \in BOOLEAN /\ tracking \in BOOLEAN
    /\ triggered \in [Lcls -> BOOLEAN]
    /\ active \in [Lcls -> BOOLEAN]
    /\ state \in [Lcls -> States]
    /\ sinceTrigger \in [Lcls -> 0..Never]
    /\ sinceReset \in [Lcls -> 0..Never]
    /\ resetCounter \in [Lcls -> 0..MaxResetCount]
    /\ autoResets \in [Lcls -> 0..(MaxResetCount + 1)]
    /\ mask \subseteq Lcls
    /\ cmdPlace \in {"idle", "pulse"}

(* An update takes at most one tick for each LCL. *)
UpdateAges ==
    /\ lclPlace \in {"sleep", "update", "pulse"}
    /\ lcl \in Lcls /\ nowAge \in Nat
    /\ timer \in [{"mission", "cmd"} -> 0..1]
    /\ lclPlace = "sleep" => nowAge <= NumLcls
    /\ lclPlace = "update" => nowAge <= lcl - 1 /\ timer["mission"] = 0
    /\ lclPlace = "pulse" => nowAge + timer["mission"] <= lcl
    /\ lclPlace # "sleep" => tracking

InPulse(l) == lclPlace = "pulse" /\ lcl = l

Counted(l) ==
    /\ resetCounter[l] <= autoResets[l]
    /\ state[l] = "WAITING" => resetCounter[l] < MaxResetCount
    /\ state[l] = "GIVEN_UP" => autoResets[l] >= MaxResetCount
    /\ InPulse(l) => state[l] = "WAITING" /\ resetCounter[l] + 1 <= autoResets[l]

Followed(l) ==
    /\ l \notin mask
    /\ ~tracking => resetCounter[l] = 0 /\ autoResets[l] = 0 /\ state[l] = "DISABLED"
    /\ state[l] # "GIVEN_UP" /\ InPulse(l) => autoResets[l] = resetCounter[l] + 1
    /\ state[l] # "GIVEN_UP" /\ ~InPulse(l) => autoResets[l] = resetCounter[l]
    /\ autoResets[l] <= MaxResetCount
    /\ ~triggered[l] /\ sinceReset[l] # Never /\ ~InPulse(l) => sinceReset[l] < RecoveryPeriod

LclInv ==
    /\ LclTyped /\ UpdateAges /\ PinsReleased
    /\ \A l \in Lcls : Counted(l)
    /\ \A l \in Broken : Followed(l)

BrokenStaysBroken ==
    /\ TripTime < RecoveryPeriod /\ NumLcls < RecoveryPeriod
    /\ \A m \in Masks : m \cap Broken = {}

LEMMA LclNumbers ==
    /\ NumLcls \in Nat \ {0} /\ MaxResetCount \in Nat /\ RecoveryPeriod \in Nat /\ TripTime \in Nat
    /\ DelayBefore \in Nat /\ DelayAfter \in Nat
    /\ Long \in Nat /\ Never = Long + 1 /\ NumLcls <= Long /\ RecoveryPeriod <= Long
    /\ Lcls = 1 .. NumLcls /\ Broken \subseteq Lcls /\ \A m \in Masks : m \subseteq Lcls
BY NumLclsAssumption, DelaysAssumption, MasksAssumption DEF Long, Never, Lcls

LEMMA LclValues ==
    0 \in 0..MaxResetCount /\ 0 \in 0..(MaxResetCount + 1) /\ Never \in 0..Never
BY LclNumbers

LEMMA LclInvInit == LclSystemInit => LclInv
<1> SUFFICES ASSUME LclSystemInit PROVE LclInv
  OBVIOUS
<1> USE LclNumbers DEF LclSystemInit, LclInit
<1>1. LclTyped
  BY LclValues DEF LclTyped, States
<1>2. UpdateAges
  BY DEF UpdateAges
<1>3. PinsReleased
  BY DEF PinsReleased
<1>4. ASSUME NEW l \in Lcls PROVE Counted(l)
  BY DEF Counted, InPulse
<1>5. ASSUME NEW l \in Broken PROVE Followed(l)
  BY DEF Followed, InPulse
<1> QED
  BY <1>1, <1>2, <1>3, <1>4, <1>5 DEF LclInv

(* What is known about one LCL. *)
LEMMA LclFacts ==
    ASSUME LclInv, NEW l \in Lcls
    PROVE  /\ triggered[l] \in BOOLEAN /\ active[l] \in BOOLEAN /\ state[l] \in States
           /\ sinceTrigger[l] \in 0..Never /\ sinceReset[l] \in 0..Never
           /\ resetCounter[l] \in 0..MaxResetCount /\ autoResets[l] \in 0..(MaxResetCount + 1)
           /\ Counted(l) /\ (l \in Broken => Followed(l))
BY DEF LclInv, LclTyped

(* The end of the turn of one LCL in an update. *)
LEMMA ProceedAges ==
    ASSUME UpdateAges, lclPlace # "sleep", timer["mission"] = 0, nowAge <= lcl,
           Proceed, UNCHANGED <<tracking, nowAge>>
    PROVE  UpdateAges' /\ lclPlace' # "pulse"
<1>1. CASE lcl < NumLcls
  BY <1>1, LclNumbers DEF Proceed, UpdateAges
<1>2. CASE ~(lcl < NumLcls)
  <2>1. lclPlace' = "sleep" /\ timer' = [timer EXCEPT !["mission"] = 1] /\ lcl' = lcl
    BY <1>2 DEF Proceed, Sleep
  <2>2. nowAge' <= NumLcls
    BY LclNumbers DEF UpdateAges
  <2> QED
    BY <2>1, <2>2 DEF UpdateAges
<1> QED
  BY <1>1, <1>2

LEMMA NowAgeSmall == ASSUME UpdateAges PROVE nowAge \in 0 .. NumLcls /\ nowAge <= Never
BY LclNumbers DEF UpdateAges

LEMMA BeforeTakeoffKeeps == ASSUME BrokenStaysBroken, LclInv, BeforeTakeoff, UNCHANGED <<lo, bootedInFlight>> PROVE LclInv'
<1>0. LclTyped /\ UpdateAges /\ PinsReleased
  BY DEF LclInv
<1>1. LclTyped'
  <2>1. CASE tracking
    <3>1. state' = [l \in Lcls |-> "DISABLED"] /\ tracking' = FALSE
      BY <2>1 DEF BeforeTakeoff, ClearLogic
    <3>2. resetCounter' = [l \in Lcls |-> 0] /\ autoResets' = [l \in Lcls |-> 0]
      BY <2>1 DEF BeforeTakeoff, ClearLogic
    <3>3. sinceReset' = [l \in Lcls |-> Never] /\ sinceTrigger' = [l \in Lcls |-> Never]
      BY <2>1 DEF BeforeTakeoff, ClearLogic
    <3>4. UNCHANGED <<lo, bootedInFlight, triggered, active, mask, cmdPlace>>
      BY DEF BeforeTakeoff, inputs, command
    <3>5. state' \in [Lcls -> States] /\ tracking' \in BOOLEAN
      BY <3>1 DEF States
    <3>6. resetCounter' \in [Lcls -> 0..MaxResetCount]
      BY <3>2, LclValues
    <3>7. autoResets' \in [Lcls -> 0..(MaxResetCount + 1)]
      BY <3>2, LclValues
    <3>8. sinceReset' \in [Lcls -> 0..Never] /\ sinceTrigger' \in [Lcls -> 0..Never]
      BY <3>3, LclValues
    <3> QED
      BY <1>0, <3>4, <3>5, <3>6, <3>7, <3>8 DEF LclTyped
  <2>2. CASE ~tracking
    BY <1>0, <2>2 DEF BeforeTakeoff, logic, inputs, command, LclTyped
  <2> QED
    BY <2>1, <2>2
<1>2. UpdateAges'
  BY <1>0, LclNumbers DEF BeforeTakeoff, ClearLogic, logic, inputs, command, Sleep, UpdateAges
<1>3. PinsReleased'
  BY <1>0, <1>2 DEF BeforeTakeoff, ClearLogic, logic, inputs, command, Sleep, LclTyped, UpdateAges, PinsReleased
<1>4. ASSUME NEW l \in Lcls PROVE Counted(l)'
  <2>1. lclPlace' = "sleep"
    BY DEF BeforeTakeoff, Sleep
  <2>2. CASE tracking
    <3>1. state'[l] = "DISABLED" /\ resetCounter'[l] = 0 /\ autoResets'[l] = 0
      BY <2>2 DEF BeforeTakeoff, ClearLogic
    <3> QED
      BY <2>1, <3>1 DEF Counted, InPulse
  <2>3. CASE ~tracking
    BY <2>1, <2>3, LclFacts DEF BeforeTakeoff, logic, Counted, InPulse
  <2> QED
    BY <2>2, <2>3
<1>5. ASSUME NEW l \in Broken PROVE Followed(l)'
  <2>1. l \in Lcls /\ Followed(l) /\ lclPlace' = "sleep" /\ mask' = mask /\ triggered' = triggered
    BY LclNumbers, LclFacts DEF BeforeTakeoff, Sleep, command, inputs
  <2>2. CASE tracking
    <3>1. state'[l] = "DISABLED" /\ resetCounter'[l] = 0 /\ autoResets'[l] = 0 /\ sinceReset'[l] = Never
      BY <2>1, <2>2 DEF BeforeTakeoff, ClearLogic
    <3> QED
      BY <2>1, <3>1, LclNumbers DEF Followed, InPulse
  <2>3. CASE ~tracking
    BY <2>1, <2>3 DEF BeforeTakeoff, logic, Followed, InPulse
  <2> QED
    BY <2>2, <2>3
<1> QED
  BY <1>1, <1>2, <1>3, <1>4, <1>5 DEF LclInv

LEMMA TakeoffKeeps == ASSUME BrokenStaysBroken, LclInv, Takeoff, UNCHANGED <<lo, bootedInFlight>> PROVE LclInv'
<1>0. LclTyped /\ UpdateAges /\ PinsReleased
  BY DEF LclInv
<1>1. LclTyped'
  <2>1. tracking' \in BOOLEAN
    BY <1>0, LclNumbers, NowAgeSmall, LclFacts DEF Takeoff, inputs, command, LclTyped, UpdateAges, Counted, States
  <2>2. state' \in [Lcls -> States]
    BY <1>0, LclNumbers, NowAgeSmall, LclFacts DEF Takeoff, inputs, command, LclTyped, UpdateAges, Counted, States
  <2>3. resetCounter' \in [Lcls -> 0..MaxResetCount]
    BY <1>0, LclNumbers, NowAgeSmall, LclFacts DEF Takeoff, inputs, command, LclTyped, UpdateAges, Counted, States
  <2>4. sinceReset' \in [Lcls -> 0..Never]
    BY <1>0, LclNumbers, NowAgeSmall, LclFacts DEF Takeoff, inputs, command, LclTyped, UpdateAges, Counted, States
  <2>5. sinceTrigger' \in [Lcls -> 0..Never]
    BY <1>0, LclNumbers, NowAgeSmall, LclFacts DEF Takeoff, inputs, command, LclTyped, UpdateAges, Counted, States
  <2> QED
    BY <1>0, <2>1, <2>2, <2>3, <2>4, <2>5, LclNumbers DEF Takeoff, inputs, command, LclTyped
<1>2. UpdateAges'
  BY <1>0, LclNumbers DEF Takeoff, inputs, command, Sleep, UpdateAges
<1>3. PinsReleased'
  BY <1>0, <1>2 DEF Takeoff, inputs, command, Sleep, LclTyped, UpdateAges, PinsReleased
<1>4. ASSUME NEW l \in Lcls PROVE Counted(l)'
  BY <1>0, <1>2, LclFacts, LclNumbers DEF Takeoff, inputs, command, Sleep, UpdateAges, LclTyped, Counted, InPulse
<1>5. ASSUME NEW l \in Broken PROVE Followed(l)'
  BY <1>0, <1>2, LclFacts, LclNumbers, NowAgeSmall DEF Takeoff, inputs, command, Sleep, UpdateAges, LclTyped, PinsReleased, Counted, Followed, InPulse, BrokenStaysBroken
<1> QED
  BY <1>1, <1>2, <1>3, <1>4, <1>5 DEF LclInv

LEMMA UpdateStartKeeps == ASSUME BrokenStaysBroken, LclInv, UpdateStart, UNCHANGED <<lo, bootedInFlight>> PROVE LclInv'
<1>0. LclTyped /\ UpdateAges /\ PinsReleased
  BY DEF LclInv
<1>1. LclTyped'
  <2> QED
    BY <1>0, LclNumbers DEF UpdateStart, inputs, logic, command, LclTyped
<1>2. UpdateAges'
  BY <1>0, LclNumbers DEF UpdateStart, inputs, logic, command, UpdateAges
<1>3. PinsReleased'
  BY <1>0, <1>2 DEF UpdateStart, inputs, logic, command, LclTyped, UpdateAges, PinsReleased
<1>4. ASSUME NEW l \in Lcls PROVE Counted(l)'
  BY <1>0, <1>2, LclFacts, LclNumbers DEF UpdateStart, inputs, logic, command, UpdateAges, LclTyped, Counted, InPulse
<1>5. ASSUME NEW l \in Broken PROVE Followed(l)'
  BY <1>0, <1>2, LclFacts, LclNumbers, NowAgeSmall DEF UpdateStart, inputs, logic, command, UpdateAges, LclTyped, PinsReleased, Counted, Followed, InPulse, BrokenStaysBroken
<1> QED
  BY <1>1, <1>2, <1>3, <1>4, <1>5 DEF LclInv

LEMMA TriggerKeeps == ASSUME BrokenStaysBroken, LclInv, Trigger, UNCHANGED <<lo, bootedInFlight>> PROVE LclInv'
<1>0. LclTyped /\ UpdateAges /\ PinsReleased
  BY DEF LclInv
<1>1. LclTyped'
  <2>0. lcl \in Lcls /\ nowAge \in 0..Never
    BY <1>0, NowAgeSmall, LclNumbers DEF UpdateAges
  <2>1. state' \in [Lcls -> States]
    BY <1>0, <2>0 DEF Trigger, LclTyped, States
  <2>2. resetCounter' \in [Lcls -> 0..MaxResetCount]
    BY <1>0, <2>0, LclValues DEF Trigger, LclTyped
  <2>3. sinceTrigger' \in [Lcls -> 0..Never]
    BY <1>0, <2>0 DEF Trigger, LclTyped
  <2> QED
    BY <1>0, <2>1, <2>2, <2>3 DEF Trigger, inputs, command, LclTyped
<1>2. UpdateAges' /\ lclPlace' # "pulse"
  <2>1. lclPlace # "sleep" /\ timer["mission"] = 0 /\ nowAge <= lcl
    BY <1>0, LclNumbers DEF Trigger, Looks, inputs, command, UpdateAges
  <2>2. Proceed /\ UNCHANGED <<tracking, nowAge>>
    BY DEF Trigger, Looks, inputs, command, logic
  <2> QED
    BY <1>0, <2>1, <2>2, ProceedAges
<1>3. PinsReleased'
  BY <1>0, <1>2 DEF Trigger, Looks, inputs, command, LclTyped, UpdateAges, PinsReleased
<1>4. ASSUME NEW l \in Lcls PROVE Counted(l)'
  <2>0. lcl \in Lcls /\ Counted(l) /\ Counted(lcl) /\ state[lcl] = "ON" /\ lclPlace = "update"
    BY <1>0, LclFacts DEF UpdateAges, Trigger, Looks
  <2>1. /\ resetCounter[l] \in Nat /\ autoResets[l] \in Nat /\ MaxResetCount \in Nat
        /\ autoResets' = autoResets
    BY LclFacts, LclNumbers DEF Trigger
  <2>2. CASE l # lcl
    <3>1. state'[l] = state[l] /\ resetCounter'[l] = resetCounter[l]
      BY <1>0, <2>2 DEF Trigger, LclTyped
    <3> QED
      BY <1>2, <2>0, <2>1, <3>1 DEF Counted, InPulse
  <2>3. CASE l = lcl /\ resetCounter[lcl] >= MaxResetCount
    <3>1. state'[l] = "GIVEN_UP" /\ resetCounter'[l] = 0
      BY <1>0, <2>3 DEF Trigger, LclTyped
    <3> QED
      BY <1>2, <2>0, <2>1, <2>3, <3>1 DEF Counted, InPulse
  <2>4. CASE l = lcl /\ ~(resetCounter[lcl] >= MaxResetCount)
    <3>1. state'[l] = "WAITING" /\ resetCounter'[l] = resetCounter[l]
      BY <1>0, <2>4 DEF Trigger, LclTyped
    <3> QED
      BY <1>2, <2>0, <2>1, <2>4, <3>1 DEF Counted, InPulse
  <2> QED
    BY <2>2, <2>3, <2>4
<1>5. ASSUME NEW l \in Broken PROVE Followed(l)'
  BY <1>0, <1>2, LclFacts, LclNumbers, NowAgeSmall DEF Trigger, Looks, inputs, command, UpdateAges, LclTyped, PinsReleased, Counted, Followed, InPulse, BrokenStaysBroken
<1> QED
  BY <1>1, <1>2, <1>3, <1>4, <1>5 DEF LclInv

LEMMA NominalKeeps == ASSUME BrokenStaysBroken, LclInv, Nominal, UNCHANGED <<lo, bootedInFlight>> PROVE LclInv'
<1>0. LclTyped /\ UpdateAges /\ PinsReleased
  BY DEF LclInv
<1>1. LclTyped'
  <2>0. lcl \in Lcls
    BY <1>0 DEF UpdateAges
  <2>1. resetCounter' \in [Lcls -> 0..MaxResetCount]
    BY <1>0, <2>0, LclValues DEF Nominal, LclTyped
  <2>2. sinceReset' \in [Lcls -> 0..Never]
    BY <1>0, <2>0, LclValues DEF Nominal, LclTyped
  <2>3. sinceTrigger' \in [Lcls -> 0..Never]
    BY <1>0, <2>0, LclValues DEF Nominal, LclTyped
  <2> QED
    BY <1>0, <2>1, <2>2, <2>3 DEF Nominal, inputs, command, LclTyped
<1>2. UpdateAges' /\ lclPlace' # "pulse"
  <2>1. lclPlace # "sleep" /\ timer["mission"] = 0 /\ nowAge <= lcl
    BY <1>0, LclNumbers DEF Nominal, Looks, inputs, command, UpdateAges
  <2>2. Proceed /\ UNCHANGED <<tracking, nowAge>>
    BY DEF Nominal, Looks, inputs, command, logic
  <2> QED
    BY <1>0, <2>1, <2>2, ProceedAges
<1>3. PinsReleased'
  BY <1>0, <1>2 DEF Nominal, Looks, inputs, command, LclTyped, UpdateAges, PinsReleased
<1>4. ASSUME NEW l \in Lcls PROVE Counted(l)'
  <2>0. lcl \in Lcls /\ Counted(l) /\ lclPlace = "update"
    BY <1>0, LclFacts DEF UpdateAges, Nominal, Looks
  <2>1. resetCounter[l] \in Nat /\ autoResets[l] \in Nat /\ autoResets' = autoResets
    BY LclFacts, LclNumbers DEF Nominal
  <2>2. state' = state /\ resetCounter'[l] \in {0, resetCounter[l]}
    BY <1>0, <2>0 DEF Nominal, LclTyped
  <2>3. state[lcl] = "ON" /\ MaxResetCount \in Nat
    BY LclNumbers DEF Nominal, Looks
  <2>4. resetCounter'[l] <= resetCounter[l] /\ resetCounter'[l] \in Nat
    BY <2>1, <2>2
  <2> QED
    BY <1>2, <2>0, <2>1, <2>2, <2>3, <2>4 DEF Counted, InPulse
<1>5. ASSUME NEW l \in Broken PROVE Followed(l)'
  <2>0. l \in Lcls /\ lcl \in Lcls /\ Followed(l) /\ lclPlace = "update"
    BY <1>0, LclNumbers, LclFacts DEF UpdateAges, Nominal, Looks
  <2>1. /\ mask' = mask /\ triggered' = triggered /\ state' = state
        /\ autoResets' = autoResets /\ tracking' = tracking
    BY DEF Nominal, inputs, command
  <2>2. sinceReset[l] \in Nat /\ nowAge \in Nat /\ RecoveryPeriod \in Nat
    BY <1>0, <2>0, LclFacts, LclNumbers DEF UpdateAges
  <2>3. CASE l = lcl
    <3>1. ~triggered[l] /\ (sinceReset[l] # Never => sinceReset[l] < RecoveryPeriod)
      BY <2>0, <2>3 DEF Nominal, Followed, InPulse
    <3>2. ~(sinceReset[l] # Never /\ sinceReset[l] - nowAge >= RecoveryPeriod)
      BY <2>2, <3>1
    <3>3. UNCHANGED <<resetCounter, sinceReset>>
      BY <2>3, <3>2 DEF Nominal
    <3> QED
      BY <1>2, <2>0, <2>1, <3>3 DEF Followed, InPulse
  <2>4. CASE l # lcl
    <3>1. resetCounter'[l] = resetCounter[l] /\ sinceReset'[l] = sinceReset[l]
      BY <1>0, <2>0, <2>4 DEF Nominal, LclTyped
    <3> QED
      BY <1>2, <2>0, <2>1, <3>1 DEF Followed, InPulse
  <2> QED
    BY <2>3, <2>4
<1> QED
  BY <1>1, <1>2, <1>3, <1>4, <1>5 DEF LclInv

LEMMA WaitKeeps == ASSUME BrokenStaysBroken, LclInv, Wait, UNCHANGED <<lo, bootedInFlight>> PROVE LclInv'
<1>0. LclTyped /\ UpdateAges /\ PinsReleased
  BY DEF LclInv
<1>1. LclTyped'
  <2>1. state' \in [Lcls -> States]
    BY <1>0, LclNumbers, NowAgeSmall, LclFacts DEF Wait, Looks, inputs, command, LclTyped, UpdateAges, Counted, States
  <2> QED
    BY <1>0, <2>1, LclNumbers DEF Wait, Looks, inputs, command, LclTyped
<1>2. UpdateAges' /\ lclPlace' # "pulse"
  <2>1. lclPlace # "sleep" /\ timer["mission"] = 0 /\ nowAge <= lcl
    BY <1>0, LclNumbers DEF Wait, Looks, inputs, command, UpdateAges
  <2>2. Proceed /\ UNCHANGED <<tracking, nowAge>>
    BY DEF Wait, Looks, inputs, command, logic
  <2> QED
    BY <1>0, <2>1, <2>2, ProceedAges
<1>3. PinsReleased'
  BY <1>0, <1>2 DEF Wait, Looks, inputs, command, LclTyped, UpdateAges, PinsReleased
<1>4. ASSUME NEW l \in Lcls PROVE Counted(l)'
  BY <1>0, <1>2, LclFacts, LclNumbers DEF Wait, Looks, inputs, command, UpdateAges, LclTyped, Counted, InPulse
<1>5. ASSUME NEW l \in Broken PROVE Followed(l)'
  BY <1>0, <1>2, LclFacts, LclNumbers, NowAgeSmall DEF Wait, Looks, inputs, command, UpdateAges, LclTyped, PinsReleased, Counted, Followed, InPulse, BrokenStaysBroken
<1> QED
  BY <1>1, <1>2, <1>3, <1>4, <1>5 DEF LclInv

LEMMA AutoResetKeeps == ASSUME BrokenStaysBroken, LclInv, AutoReset, UNCHANGED <<lo, bootedInFlight>> PROVE LclInv'
<1>0. LclTyped /\ UpdateAges /\ PinsReleased
  BY DEF LclInv
<1>1. LclTyped'
  <2>0. lcl \in Lcls
    BY <1>0 DEF UpdateAges
  <2>1. active' \in [Lcls -> BOOLEAN] /\ triggered' \in [Lcls -> BOOLEAN]
    BY <1>0 DEF AutoReset, PulseBegins, LclTyped
  <2>2. autoResets[lcl] \in 0..(MaxResetCount + 1)
    BY <2>0, LclFacts
  <2>3. (IF autoResets[lcl] > MaxResetCount THEN autoResets[lcl] ELSE autoResets[lcl] + 1)
            \in 0..(MaxResetCount + 1)
    BY <2>2, LclNumbers
  <2>4. autoResets' \in [Lcls -> 0..(MaxResetCount + 1)]
    BY <1>0, <2>0, <2>3 DEF AutoReset, LclTyped
  <2> QED
    BY <1>0, <2>1, <2>4 DEF AutoReset, command, LclTyped
<1>2. UpdateAges'
  BY <1>0, LclNumbers DEF AutoReset, Looks, PulseBegins, command, UpdateAges
<1>3. PinsReleased'
  BY <1>0, <1>2 DEF AutoReset, Looks, PulseBegins, command, LclTyped, UpdateAges, PinsReleased
<1>4. ASSUME NEW l \in Lcls PROVE Counted(l)'
  <2>0. lcl \in Lcls /\ Counted(l) /\ state[lcl] = "WAITING" /\ lclPlace = "update"
    BY <1>0, LclFacts DEF UpdateAges, AutoReset, Looks
  <2>1. /\ resetCounter[l] \in Nat /\ autoResets[l] \in Nat /\ MaxResetCount \in Nat
        /\ state' = state /\ resetCounter' = resetCounter /\ lcl' = lcl
    BY LclFacts, LclNumbers DEF AutoReset
  <2>2. CASE l = lcl
    <3>1. autoResets'[l] = IF autoResets[l] > MaxResetCount THEN autoResets[l] ELSE autoResets[l] + 1
      BY <1>0, <2>2 DEF AutoReset, LclTyped
    <3> QED
      BY <2>0, <2>1, <2>2, <3>1 DEF Counted, InPulse
  <2>3. CASE l # lcl
    <3>1. autoResets'[l] = autoResets[l]
      BY <1>0, <2>3 DEF AutoReset, LclTyped
    <3> QED
      BY <2>0, <2>1, <2>3, <3>1 DEF Counted, InPulse
  <2> QED
    BY <2>2, <2>3
<1>5. ASSUME NEW l \in Broken PROVE Followed(l)'
  <2>0. /\ l \in Lcls /\ lcl \in Lcls /\ Counted(l) /\ Followed(l)
        /\ state[lcl] = "WAITING" /\ lclPlace = "update" /\ lclPlace' = "pulse"
    BY <1>0, LclNumbers, LclFacts DEF UpdateAges, AutoReset, Looks
  <2>1. /\ resetCounter[l] \in Nat /\ autoResets[l] \in Nat /\ MaxResetCount \in Nat
        /\ state' = state /\ resetCounter' = resetCounter /\ lcl' = lcl /\ mask' = mask
        /\ tracking' = tracking /\ sinceReset' = sinceReset
    BY <2>0, LclFacts, LclNumbers DEF AutoReset, command
  <2>2. CASE l = lcl
    <3>1. autoResets[l] = resetCounter[l] /\ resetCounter[l] < MaxResetCount /\ tracking
      BY <1>0, <2>0, <2>2 DEF Counted, Followed, InPulse, UpdateAges
    <3>2. autoResets'[l] = resetCounter[l] + 1
      <4>1. ~(autoResets[l] > MaxResetCount)
        BY <2>1, <3>1
      <4>2. autoResets'[l] = autoResets[l] + 1
        BY <1>0, <2>0, <2>2, <4>1 DEF AutoReset, LclTyped
      <4> QED
        BY <3>1, <4>2
    <3> QED
      BY <2>0, <2>1, <2>2, <3>1, <3>2 DEF Followed, InPulse
  <2>3. CASE l # lcl
    <3>1. autoResets'[l] = autoResets[l] /\ triggered'[l] = triggered[l]
      BY <1>0, <2>0, <2>3 DEF AutoReset, PulseBegins, LclTyped
    <3> QED
      BY <2>0, <2>1, <2>3, <3>1 DEF Followed, InPulse
  <2> QED
    BY <2>2, <2>3
<1> QED
  BY <1>1, <1>2, <1>3, <1>4, <1>5 DEF LclInv

LEMMA AutoResetDoneKeeps == ASSUME BrokenStaysBroken, LclInv, AutoResetDone, UNCHANGED <<lo, bootedInFlight>> PROVE LclInv'
<1>0. LclTyped /\ UpdateAges /\ PinsReleased
  BY DEF LclInv
<1>1. LclTyped'
  <2>1. active' \in [Lcls -> BOOLEAN]
    BY <1>0 DEF AutoResetDone, PulseEnds, LclTyped
  <2>2. sinceReset' \in [Lcls -> 0..Never]
    <3>1. nowAge \in 0..Never
      BY <1>0, LclNumbers, NowAgeSmall
    <3> QED
      BY <1>0, <3>1 DEF AutoResetDone, LclTyped
  <2>3. state' \in [Lcls -> States]
    BY <1>0 DEF AutoResetDone, LclTyped, States
  <2>4. resetCounter' \in [Lcls -> 0..MaxResetCount]
    <3>1. /\ lcl \in Lcls /\ resetCounter[lcl] \in 0..MaxResetCount
          /\ resetCounter[lcl] < MaxResetCount
      BY <1>0, LclFacts DEF AutoResetDone, UpdateAges, Counted, InPulse
    <3>2. resetCounter[lcl] + 1 \in 0..MaxResetCount
      BY <3>1, LclNumbers
    <3> QED
      BY <1>0, <3>1, <3>2 DEF AutoResetDone, LclTyped
  <2> QED
    BY <1>0, <2>1, <2>2, <2>3, <2>4, LclNumbers DEF AutoResetDone, PulseEnds, inputs, command, LclTyped
<1>2. UpdateAges' /\ lclPlace' # "pulse"
  <2>1. lclPlace # "sleep" /\ timer["mission"] = 0 /\ nowAge <= lcl
    BY <1>0, LclNumbers DEF AutoResetDone, PulseEnds, inputs, command, UpdateAges
  <2>2. Proceed /\ UNCHANGED <<tracking, nowAge>>
    BY DEF AutoResetDone, PulseEnds, inputs, command, logic
  <2> QED
    BY <1>0, <2>1, <2>2, ProceedAges
<1>3. PinsReleased'
  BY <1>0, <1>2 DEF AutoResetDone, PulseEnds, inputs, command, LclTyped, UpdateAges, PinsReleased
<1>4. ASSUME NEW l \in Lcls PROVE Counted(l)'
  BY <1>0, <1>2, LclFacts, LclNumbers DEF AutoResetDone, PulseEnds, inputs, command, UpdateAges, LclTyped, Counted, InPulse
<1>5. ASSUME NEW l \in Broken PROVE Followed(l)'
  <2>0. /\ l \in Lcls /\ lcl \in Lcls /\ Followed(l) /\ lclPlace = "pulse"
        /\ state[lcl] = "WAITING" /\ tracking
    BY <1>0, LclNumbers, LclFacts DEF UpdateAges, AutoResetDone, Counted, InPulse
  <2>1. /\ triggered' = triggered /\ autoResets' = autoResets /\ mask' = mask
        /\ tracking' = tracking
    BY DEF AutoResetDone, inputs, command
  <2>2. CASE l = lcl
    <3>1. /\ state'[l] = "TRIED_RECENTLY" /\ resetCounter'[l] = resetCounter[l] + 1
          /\ sinceReset'[l] = nowAge
      BY <1>0, <2>0, <2>2 DEF AutoResetDone, LclTyped
    <3>2. nowAge < RecoveryPeriod
      BY <1>0, NowAgeSmall, LclNumbers DEF BrokenStaysBroken
    <3> QED
      BY <1>2, <2>0, <2>1, <2>2, <3>1, <3>2 DEF Followed, InPulse
  <2>3. CASE l # lcl
    <3>1. UNCHANGED <<state[l], resetCounter[l], sinceReset[l]>>
      BY <1>0, <2>0, <2>3 DEF AutoResetDone, LclTyped
    <3> QED
      BY <1>2, <2>0, <2>1, <2>3, <3>1 DEF Followed, InPulse
  <2> QED
    BY <2>2, <2>3
<1> QED
  BY <1>1, <1>2, <1>3, <1>4, <1>5 DEF LclInv

LEMMA TriedKeeps == ASSUME BrokenStaysBroken, LclInv, Tried, UNCHANGED <<lo, bootedInFlight>> PROVE LclInv'
<1>0. LclTyped /\ UpdateAges /\ PinsReleased
  BY DEF LclInv
<1>1. LclTyped'
  <2>1. state' \in [Lcls -> States]
    BY <1>0, LclNumbers, NowAgeSmall, LclFacts DEF Tried, Looks, inputs, command, LclTyped, UpdateAges, Counted, States
  <2> QED
    BY <1>0, <2>1, LclNumbers DEF Tried, Looks, inputs, command, LclTyped
<1>2. UpdateAges' /\ lclPlace' # "pulse"
  <2>1. lclPlace # "sleep" /\ timer["mission"] = 0 /\ nowAge <= lcl
    BY <1>0, LclNumbers DEF Tried, Looks, inputs, command, UpdateAges
  <2>2. Proceed /\ UNCHANGED <<tracking, nowAge>>
    BY DEF Tried, Looks, inputs, command, logic
  <2> QED
    BY <1>0, <2>1, <2>2, ProceedAges
<1>3. PinsReleased'
  BY <1>0, <1>2 DEF Tried, Looks, inputs, command, LclTyped, UpdateAges, PinsReleased
<1>4. ASSUME NEW l \in Lcls PROVE Counted(l)'
  BY <1>0, <1>2, LclFacts, LclNumbers DEF Tried, Looks, inputs, command, UpdateAges, LclTyped, Counted, InPulse
<1>5. ASSUME NEW l \in Broken PROVE Followed(l)'
  BY <1>0, <1>2, LclFacts, LclNumbers, NowAgeSmall DEF Tried, Looks, inputs, command, UpdateAges, LclTyped, PinsReleased, Counted, Followed, InPulse, BrokenStaysBroken
<1> QED
  BY <1>1, <1>2, <1>3, <1>4, <1>5 DEF LclInv

LEMMA SkipKeeps == ASSUME BrokenStaysBroken, LclInv, Skip, UNCHANGED <<lo, bootedInFlight>> PROVE LclInv'
<1>0. LclTyped /\ UpdateAges /\ PinsReleased
  BY DEF LclInv
<1>1. LclTyped'
  <2> QED
    BY <1>0, LclNumbers DEF Skip, inputs, logic, command, LclTyped
<1>2. UpdateAges' /\ lclPlace' # "pulse"
  <2>1. lclPlace # "sleep" /\ timer["mission"] = 0 /\ nowAge <= lcl
    BY <1>0, LclNumbers DEF Skip, inputs, logic, command, UpdateAges
  <2>2. Proceed /\ UNCHANGED <<tracking, nowAge>>
    BY DEF Skip, inputs, logic, command, logic
  <2> QED
    BY <1>0, <2>1, <2>2, ProceedAges
<1>3. PinsReleased'
  BY <1>0, <1>2 DEF Skip, inputs, logic, command, LclTyped, UpdateAges, PinsReleased
<1>4. ASSUME NEW l \in Lcls PROVE Counted(l)'
  BY <1>0, <1>2, LclFacts, LclNumbers DEF Skip, inputs, logic, command, UpdateAges, LclTyped, Counted, InPulse
<1>5. ASSUME NEW l \in Broken PROVE Followed(l)'
  BY <1>0, <1>2, LclFacts, LclNumbers, NowAgeSmall DEF Skip, inputs, logic, command, UpdateAges, LclTyped, PinsReleased, Counted, Followed, InPulse, BrokenStaysBroken
<1> QED
  BY <1>1, <1>2, <1>3, <1>4, <1>5 DEF LclInv

LEMMA ResetCommandDoneKeeps == ASSUME BrokenStaysBroken, LclInv, ResetCommandDone, UNCHANGED <<lo, bootedInFlight>> PROVE LclInv'
<1>0. LclTyped /\ UpdateAges /\ PinsReleased
  BY DEF LclInv
<1>1. LclTyped'
  <2>1. active' \in [Lcls -> BOOLEAN]
    BY <1>0, LclNumbers, NowAgeSmall, LclFacts DEF ResetCommandDone, PulseEnds, inputs, logic, mission, LclTyped, UpdateAges, Counted, States
  <2> QED
    BY <1>0, <2>1, LclNumbers DEF ResetCommandDone, PulseEnds, inputs, logic, mission, LclTyped
<1>2. UpdateAges'
  BY <1>0, LclNumbers DEF ResetCommandDone, PulseEnds, inputs, logic, mission, UpdateAges
<1>3. PinsReleased'
  BY <1>0, <1>2 DEF ResetCommandDone, PulseEnds, inputs, logic, mission, LclTyped, UpdateAges, PinsReleased
<1>4. ASSUME NEW l \in Lcls PROVE Counted(l)'
  BY <1>0, <1>2, LclFacts, LclNumbers DEF ResetCommandDone, PulseEnds, inputs, logic, mission, UpdateAges, LclTyped, Counted, InPulse
<1>5. ASSUME NEW l \in Broken PROVE Followed(l)'
  BY <1>0, <1>2, LclFacts, LclNumbers, NowAgeSmall DEF ResetCommandDone, PulseEnds, inputs, logic, mission, UpdateAges, LclTyped, PinsReleased, Counted, Followed, InPulse, BrokenStaysBroken
<1> QED
  BY <1>1, <1>2, <1>3, <1>4, <1>5 DEF LclInv

LEMMA LclTickKeeps == ASSUME BrokenStaysBroken, LclInv, LclTick, UNCHANGED <<lo, bootedInFlight>> PROVE LclInv'
<1>0. LclTyped /\ UpdateAges /\ PinsReleased
  BY DEF LclInv
<1>1. LclTyped'
  <2>0. \A a \in 0..Never : Aged(a) \in 0..Never
    BY LclNumbers DEF Aged
  <2>1. sinceTrigger' \in [Lcls -> 0..Never] /\ sinceReset' \in [Lcls -> 0..Never]
    BY <1>0, <2>0 DEF LclTick, LclTyped
  <2> QED
    BY <1>0, <2>1 DEF LclTick, inputs, command, LclTyped
<1>2. UpdateAges'
  BY <1>0, LclNumbers DEF LclTick, Aged, inputs, command, UpdateAges
<1>3. PinsReleased'
  BY <1>0, <1>2 DEF LclTick, Aged, inputs, command, LclTyped, UpdateAges, PinsReleased
<1>4. ASSUME NEW l \in Lcls PROVE Counted(l)'
  BY <1>0, <1>2, LclFacts, LclNumbers DEF LclTick, Aged, inputs, command, UpdateAges, LclTyped, Counted, InPulse
<1>5. ASSUME NEW l \in Broken PROVE Followed(l)'
  <2>0. /\ l \in Lcls /\ Followed(l) /\ sinceReset'[l] = Aged(sinceReset[l])
        /\ sinceReset[l] \in 0..Never
    BY LclNumbers, LclFacts DEF LclTick
  <2>1. UNCHANGED <<triggered, state, resetCounter, autoResets, mask, tracking, lclPlace, lcl>>
    BY DEF LclTick, inputs, command
  <2>2. ASSUME ~triggered[l], ~InPulse(l), sinceReset'[l] # Never PROVE sinceReset'[l] < RecoveryPeriod
    <3>1. ~active[l]
      BY <1>0, <2>0, <2>2 DEF PinsReleased, Followed, InPulse
    <3>2. sinceReset[l] < TripTime
      BY <2>2, <3>1 DEF LclTick
    <3>3. Aged(sinceReset[l]) <= sinceReset[l] + 1
      BY <2>0 DEF Aged
    <3>4. sinceReset'[l] <= sinceReset[l] + 1 /\ sinceReset'[l] \in Nat
      BY <2>0, <3>3, LclNumbers DEF Aged
    <3> QED
      BY <2>0, <3>2, <3>4, LclNumbers DEF BrokenStaysBroken
  <2> QED
    BY <2>0, <2>1, <2>2 DEF Followed, InPulse
<1> QED
  BY <1>1, <1>2, <1>3, <1>4, <1>5 DEF LclInv

LEMMA ResetCommandKeeps == ASSUME BrokenStaysBroken, LclInv, NEW m \in Masks, ResetCommand(m), UNCHANGED <<lo, bootedInFlight>> PROVE LclInv'
<1>0. LclTyped /\ UpdateAges /\ PinsReleased
  BY DEF LclInv
<1>1. LclTyped'
  <2>1. active' \in [Lcls -> BOOLEAN] /\ triggered' \in [Lcls -> BOOLEAN]
    <3>1. CASE m = {}
      BY <1>0, <3>1 DEF ResetCommand, LclTyped
    <3>2. CASE m # {}
      BY <1>0, <3>2 DEF ResetCommand, PulseBegins, LclTyped
    <3> QED
      BY <3>1, <3>2
  <2> QED
    BY <1>0, <2>1, LclNumbers DEF ResetCommand, PulseBegins, logic, mission, LclTyped
<1>2. UpdateAges'
  BY <1>0, LclNumbers DEF ResetCommand, PulseBegins, logic, mission, UpdateAges
<1>3. PinsReleased'
  BY <1>0, <1>2 DEF ResetCommand, PulseBegins, logic, mission, LclTyped, UpdateAges, PinsReleased
<1>4. ASSUME NEW l \in Lcls PROVE Counted(l)'
  BY <1>0, <1>2, LclFacts, LclNumbers DEF ResetCommand, PulseBegins, logic, mission, UpdateAges, LclTyped, Counted, InPulse
<1>5. ASSUME NEW l \in Broken PROVE Followed(l)'
  BY <1>0, <1>2, LclFacts, LclNumbers, NowAgeSmall DEF ResetCommand, PulseBegins, logic, mission, UpdateAges, LclTyped, PinsReleased, Counted, Followed, InPulse, BrokenStaysBroken
<1> QED
  BY <1>1, <1>2, <1>3, <1>4, <1>5 DEF LclInv

LEMMA OvercurrentKeeps == ASSUME BrokenStaysBroken, LclInv, NEW o \in Lcls, Overcurrent(o), UNCHANGED <<lo, bootedInFlight>> PROVE LclInv'
<1>0. LclTyped /\ UpdateAges /\ PinsReleased
  BY DEF LclInv
<1>1. LclTyped'
  <2>1. triggered' \in [Lcls -> BOOLEAN]
    BY <1>0, LclNumbers, NowAgeSmall, LclFacts DEF Overcurrent, logic, mission, command, LclTyped, UpdateAges, Counted, States
  <2> QED
    BY <1>0, <2>1, LclNumbers DEF Overcurrent, logic, mission, command, LclTyped
<1>2. UpdateAges'
  BY <1>0, LclNumbers DEF Overcurrent, logic, mission, command, UpdateAges
<1>3. PinsReleased'
  BY <1>0, <1>2 DEF Overcurrent, logic, mission, command, LclTyped, UpdateAges, PinsReleased
<1>4. ASSUME NEW l \in Lcls PROVE Counted(l)'
  BY <1>0, <1>2, LclFacts, LclNumbers DEF Overcurrent, logic, mission, command, UpdateAges, LclTyped, Counted, InPulse
<1>5. ASSUME NEW l \in Broken PROVE Followed(l)'
  BY <1>0, <1>2, LclFacts, LclNumbers, NowAgeSmall DEF Overcurrent, logic, mission, command, UpdateAges, LclTyped, PinsReleased, Counted, Followed, InPulse, BrokenStaysBroken
<1> QED
  BY <1>1, <1>2, <1>3, <1>4, <1>5 DEF LclInv

LEMMA LoChangeKeeps == ASSUME BrokenStaysBroken, LclInv, LoChange PROVE LclInv'
<1>0. LclTyped /\ UpdateAges /\ PinsReleased
  BY DEF LclInv
<1>1. LclTyped'
  <2>1. lo' \in BOOLEAN
    BY <1>0, LclNumbers, NowAgeSmall, LclFacts DEF LoChange, lclVars, logic, mission, command, LclTyped, UpdateAges, Counted, States
  <2>2. bootedInFlight' \in BOOLEAN
    BY <1>0, LclNumbers, NowAgeSmall, LclFacts DEF LoChange, lclVars, logic, mission, command, LclTyped, UpdateAges, Counted, States
  <2> QED
    BY <1>0, <2>1, <2>2, LclNumbers DEF LoChange, lclVars, logic, mission, command, LclTyped
<1>2. UpdateAges'
  BY <1>0, LclNumbers DEF LoChange, lclVars, logic, mission, command, UpdateAges
<1>3. PinsReleased'
  BY <1>0, <1>2 DEF LoChange, lclVars, logic, mission, command, LclTyped, UpdateAges, PinsReleased
<1>4. ASSUME NEW l \in Lcls PROVE Counted(l)'
  BY <1>0, <1>2, LclFacts, LclNumbers DEF LoChange, lclVars, logic, mission, command, UpdateAges, LclTyped, Counted, InPulse
<1>5. ASSUME NEW l \in Broken PROVE Followed(l)'
  BY <1>0, <1>2, LclFacts, LclNumbers, NowAgeSmall DEF LoChange, lclVars, logic, mission, command, UpdateAges, LclTyped, PinsReleased, Counted, Followed, InPulse, BrokenStaysBroken
<1> QED
  BY <1>1, <1>2, <1>3, <1>4, <1>5 DEF LclInv

LEMMA LclInvNext == ASSUME BrokenStaysBroken, LclInv, [LclSystemNext]_lclSystemVars PROVE LclInv'
<1>1. CASE UNCHANGED lclSystemVars
  BY <1>1 DEF lclSystemVars, lclVars, logic, mission, command, LclInv, LclTyped, UpdateAges, PinsReleased,
     Counted, Followed, InPulse
<1> QED
  BY <1>1, BeforeTakeoffKeeps, TakeoffKeeps, UpdateStartKeeps, TriggerKeeps, NominalKeeps, WaitKeeps,
     AutoResetKeeps, AutoResetDoneKeeps, TriedKeeps, SkipKeeps, ResetCommandDoneKeeps, LclTickKeeps, ResetCommandKeeps, OvercurrentKeeps, LoChangeKeeps DEF LclSystemNext, LclNext, LclMissionTask

LEMMA LclInvImplies == ASSUME LclInv PROVE LclsRight
<1>1. nowAge \in 0 .. NumLcls
  BY LclNumbers DEF LclInv, UpdateAges
<1>2. LclTypeOK
  BY <1>1 DEF LclInv, LclTyped, UpdateAges, LclTypeOK
<1>3. NoEarlyGiveUp /\ ResetsLimited
  BY LclNumbers DEF LclInv, Counted, Followed, NoEarlyGiveUp, ResetsLimited
<1> QED
  BY <1>2, <1>3 DEF LclInv, LclsRight

LEMMA LclPartNext == [FlightNext]_flightVars => [LclSystemNext]_lclSystemVars
BY DEF FlightNext, flightVars, Only

(* For any number of LCLs, delays and limits, as long as a broken LCL      *)
(* triggers again within the recovery period, which is longer than an      *)
(* update, and only the logic resets it: no pin stays active, no LCL is    *)
(* given up early and none is reset more often than allowed.               *)
THEOREM LclsCorrect == ASSUME BrokenStaysBroken PROVE FlightSpec => []LclsRight
<1>1. FlightInit => LclInv
  BY LclInvInit DEF FlightInit
<1>2. LclInv /\ [FlightNext]_flightVars => LclInv'
  BY LclInvNext, LclPartNext
<1>3. LclInv => LclsRight
  BY LclInvImplies
<1> QED
  BY <1>1, <1>2, <1>3, PTL DEF FlightSpec

---------------------------------------------------------------------------
(* The log files, for any number of logs and records, any limit of the     *)
(* queue and any sync interval.                                            *)

(* The places of a run with no open file, with LASTLOG.TXT open, and with  *)
(* the log open. *)
NothingOpen == runAt \in {"idle", "stat", "read", "update", "open"}
Numbering == runAt \in {"write", "close", "giveUp"}
Logging == runAt \in {"loop", "oneMore", "failed", "stopped"}

Ascending(c) == \A m \in 1 .. Len(c) : \A n \in 1 .. m - 1 : c[n] < c[m]
Begins(c, d) == Len(c) <= Len(d) /\ \A i \in 1 .. Len(c) : d[i] = c[i]
Opened(file, c) == [name |-> file, content |-> c]

(* What is on the medium; a file that does not exist has no content. *)
MediumOK ==
    /\ files \in [Files -> [exists : BOOLEAN, content : Seq(Nat)]]
    /\ \A f \in Files : ~files[f].exists => files[f].content = <<>>
    /\ LogsInOrder

(* Records wait in the order in which they were sent, sentinels between    *)
(* them.                                                                   *)
RequestsOK ==
    /\ requests \in Seq(Nat) /\ Len(requests) <= RequestLimit /\ sent \in 0 .. MaxRecords
    /\ \A m \in 1 .. Len(requests) :
          /\ requests[m] <= sent
          /\ requests[m] # stopRecorderRequest => \A n \in 1 .. m - 1 : requests[n] < requests[m]

(* What a run has written of its log: records older than those that wait,  *)
(* after what is on the medium of it.                                      *)
WrittenOK(c) ==
    /\ c \in Seq(Nat) /\ Ascending(c)
    /\ \A i \in 1 .. Len(c) :
          /\ c[i] <= sent
          /\ \A j \in 1 .. Len(requests) : requests[j] # stopRecorderRequest => c[i] < requests[j]
    /\ ~misread => Begins(files[logIndex].content, c)

DescriptorsOK ==
    /\ NothingOpen => descriptors = {}
    /\ Numbering =>
          descriptors = {Opened(LASTLOG_FILE, IF runAt = "close" THEN <<logIndex>> ELSE <<>>)}
    /\ Logging =>
          \E c \in Seq(Nat) : descriptors = {Opened(logIndex, c)} /\ WrittenOK(c)

(* The logs after the last number are empty, and a run takes the number    *)
(* after it.                                                               *)
NumbersFollow ==
    /\ \A i \in 1 .. MaxLogs : i > LastLog => files[i].content = <<>>
    /\ Numbering \/ runAt = "update" => logIndex = LastLog + 1
    /\ Logging \/ runAt = "open" => logIndex = LastLog
    /\ runAt = "open" => files[logIndex].content = <<>>

NumbersOK ==
    /\ logIndex \in 0 .. MaxLogs
    /\ Numbering \/ Logging \/ runAt = "update" \/ runAt = "open" => logIndex # 0
    /\ ~misread => NumbersFollow

(* No record waits for longer than the time since the last sync. *)
AgesOK ==
    /\ lastSync \in 0 .. Late /\ uptime \in 0 .. Late /\ age \in 0 .. Late + 1
    /\ ~Logging => age = 0
    /\ lastSync <= SyncInterval => age <= lastSync

PlacesOK ==
    /\ recorderState \in {"STATE_DISABLED", "STATE_STARTING", "STATE_RUNNING"}
    /\ NothingOpen \/ Numbering \/ Logging
    /\ misread \in BOOLEAN

LogsInv == PlacesOK /\ MediumOK /\ RequestsOK /\ DescriptorsOK /\ NumbersOK /\ AgesOK

(* What a step may do to the medium. *)
Grows == misread \/ \A i \in 1 .. MaxLogs : Begins(files[i].content, files'[i].content)

LEMMA LogNumbers ==
    /\ MaxLogs \in Nat /\ MaxRecords \in Nat /\ RequestLimit \in Nat /\ SyncInterval \in Nat
    /\ Late = SyncInterval + 1 /\ LASTLOG_FILE = 0 /\ stopRecorderRequest = 0
    /\ Files = 0 .. MaxLogs
BY LogFilesAssumption DEF Late, LASTLOG_FILE, stopRecorderRequest, Files

LEMMA OpenFileIs ==
    ASSUME NEW f, NEW c, descriptors = {Opened(f, c)}
    PROVE  OpenFile(f) = Opened(f, c) /\ OpenFile(f).content = c
<1>1. \A d \in descriptors : d.name = f <=> d = Opened(f, c)
  BY DEF Opened
<1>2. OpenFile(f) = Opened(f, c)
  BY <1>1 DEF OpenFile
<1> QED
  BY <1>2 DEF Opened

LEMMA BeginsItself == \A c \in Seq(Nat) : Begins(c, c)
BY LenProperties DEF Begins

LEMMA NothingBegins == \A c \in Seq(Nat) : Begins(<<>>, c)
<1>1. Len(<<>>) = 0
  OBVIOUS
<1>2. \A c \in Seq(Nat) : Len(c) \in Nat
  BY LenProperties
<1> QED
  BY <1>1, <1>2 DEF Begins

LEMMA Appended ==
    ASSUME NEW c \in Seq(Nat), NEW x \in Nat
    PROVE  /\ Append(c, x) \in Seq(Nat) /\ Len(c) \in Nat /\ Len(Append(c, x)) = Len(c) + 1
           /\ Append(c, x)[Len(c) + 1] = x
           /\ \A i \in 1 .. Len(c) : Append(c, x)[i] = c[i] /\ c[i] \in Nat
<1>1. Append(c, x) \in Seq(Nat) /\ Len(Append(c, x)) = Len(c) + 1
  BY AppendProperties
<1>2. Append(c, x)[Len(c) + 1] = x
  BY AppendProperties
<1>3. \A i \in 1 .. Len(c) : Append(c, x)[i] = c[i]
  BY AppendProperties
<1>4. Len(c) \in Nat /\ \A i \in 1 .. Len(c) : c[i] \in Nat
  BY LenProperties, ElementOfSeq
<1> QED
  BY <1>1, <1>2, <1>3, <1>4

LEMMA AppendedAscends ==
    ASSUME NEW c \in Seq(Nat), NEW x \in Nat, Ascending(c), \A i \in 1 .. Len(c) : c[i] < x
    PROVE  Ascending(Append(c, x))
<1> DEFINE a == Append(c, x)
<1>1. /\ Len(c) \in Nat /\ Len(a) = Len(c) + 1 /\ a[Len(c) + 1] = x
      /\ \A i \in 1 .. Len(c) : a[i] = c[i] /\ c[i] \in Nat
  BY Appended
<1> HIDE DEF a
<1>2. Ascending(a)
  <2> SUFFICES ASSUME NEW m \in 1 .. Len(a), NEW n \in 1 .. m - 1 PROVE a[n] < a[m]
    BY DEF Ascending
  <2>1. m \in Nat /\ n \in Nat /\ n < m /\ n \in 1 .. Len(c) /\ a[n] = c[n]
    BY <1>1
  <2>2. CASE m = Len(c) + 1
    BY <1>1, <2>1, <2>2
  <2>3. CASE m # Len(c) + 1
    <3>1. Len(c) \in Nat /\ m \in 1 .. Len(c) + 1
      BY <1>1
    <3>2. m \in 1 .. Len(c)
      BY <2>1, <2>3, <3>1
    <3>3. a[m] = c[m] /\ c[n] < c[m]
      BY <1>1, <3>2 DEF Ascending
    <3> QED
      BY <2>1, <3>3
  <2> QED
    BY <2>2, <2>3
<1> QED
  BY <1>2 DEF a

LEMMA AppendedBegins ==
    ASSUME NEW c \in Seq(Nat), NEW b \in Seq(Nat), NEW x \in Nat, Begins(b, c)
    PROVE  Begins(b, Append(c, x))
<1> DEFINE a == Append(c, x)
<1>1. /\ Len(c) \in Nat /\ Len(a) = Len(c) + 1 /\ Len(b) \in Nat
      /\ \A i \in 1 .. Len(c) : a[i] = c[i] /\ c[i] \in Nat
  BY Appended, LenProperties
<1> HIDE DEF a
<1>2. Begins(b, a)
  BY <1>1 DEF Begins
<1> QED
  BY <1>2 DEF a

(* Opening a file changes no content. *)
LEMMA OpenToWriteKeeps ==
    ASSUME MediumOK, NEW f \in Files, OpenToWrite(f), descriptors = {}
    PROVE  /\ MediumOK'
           /\ \A g \in Files : files'[g].content = files[g].content
           /\ descriptors' = {Opened(f, <<>>)}
<1> DEFINE n == IF files[f].exists THEN files[f] ELSE Holds(<<>>)
<1>1. files' = [files EXCEPT ![f] = n] /\ descriptors' = {Opened(f, <<>>)}
  BY DEF OpenToWrite, Opened
<1>2. n \in [exists : BOOLEAN, content : Seq(Nat)] /\ n.exists /\ n.content = files[f].content
  <2>1. CASE files[f].exists
    BY <2>1 DEF MediumOK
  <2>2. CASE ~files[f].exists
    <3>1. files[f].content = <<>>
      BY <2>2 DEF MediumOK
    <3>2. <<>> \in Seq(Nat)
      OBVIOUS
    <3> QED
      BY <2>2, <3>1, <3>2 DEF Holds
  <2> QED
    BY <2>1, <2>2
<1> HIDE DEF n
<1>3. files' \in [Files -> [exists : BOOLEAN, content : Seq(Nat)]]
  BY <1>1, <1>2 DEF MediumOK
<1>4. \A g \in Files : files'[g] = IF g = f THEN n ELSE files[g]
  BY <1>1 DEF MediumOK
<1>5. \A g \in Files : files'[g].content = files[g].content
  BY <1>2, <1>4
<1>6. \A g \in Files : ~files'[g].exists => files'[g].content = <<>>
  BY <1>2, <1>4 DEF MediumOK
<1>7. LogsInOrder'
  BY <1>5, LogNumbers DEF MediumOK, LogsInOrder
<1> QED
  BY <1>1, <1>3, <1>5, <1>6, <1>7 DEF MediumOK

(* A sync replaces the content of one file. *)
LEMMA SyncKeeps ==
    ASSUME MediumOK, NEW f \in Files, NEW c \in Seq(Nat), f # 0 => Ascending(c),
           files' = [files EXCEPT ![f] = Holds(c)]
    PROVE  /\ MediumOK'
           /\ files'[f].content = c
           /\ \A g \in Files : g # f => files'[g] = files[g]
<1>1. Holds(c) \in [exists : BOOLEAN, content : Seq(Nat)] /\ Holds(c).exists /\ Holds(c).content = c
  BY DEF Holds
<1>2. files' \in [Files -> [exists : BOOLEAN, content : Seq(Nat)]]
  BY <1>1 DEF MediumOK
<1>3. \A g \in Files : files'[g] = IF g = f THEN Holds(c) ELSE files[g]
  BY DEF MediumOK
<1>4. \A g \in Files : ~files'[g].exists => files'[g].content = <<>>
  BY <1>1, <1>3 DEF MediumOK
<1>5. LogsInOrder'
  <2> SUFFICES ASSUME NEW i \in 1 .. MaxLogs PROVE Ascending(files'[i].content)
    BY DEF LogsInOrder, Ascending
  <2>1. i \in Files /\ i # 0
    BY LogNumbers
  <2>2. CASE i = f
    BY <1>1, <1>3, <2>1, <2>2
  <2>3. CASE i # f
    BY <1>3, <2>1, <2>3 DEF MediumOK, LogsInOrder, Ascending
  <2> QED
    BY <2>2, <2>3
<1> QED
  BY <1>1, <1>2, <1>3, <1>4, <1>5 DEF MediumOK

LEMMA LogsInit == LogFilesInit => LogsInv
<1> SUFFICES ASSUME LogFilesInit PROVE LogsInv
  OBVIOUS
<1>1. /\ files = [f \in Files |-> Absent] /\ descriptors = {} /\ requests = <<>> /\ sent = 0
      /\ misread = FALSE /\ recorderState = "STATE_DISABLED" /\ runAt = "idle" /\ logIndex = 0
      /\ lastSync = 0 /\ uptime = 0 /\ age = 0
  BY DEF LogFilesInit
<1>2. <<>> \in Seq(Nat) /\ Len(<<>>) = 0
  OBVIOUS
<1>3. Absent \in [exists : BOOLEAN, content : Seq(Nat)] /\ Absent.content = <<>>
  BY <1>2 DEF Absent
<1>4. files \in [Files -> [exists : BOOLEAN, content : Seq(Nat)]] /\ \A f \in Files : files[f].content = <<>>
  BY <1>1, <1>3
<1>5. MediumOK
  <2>1. \A i \in 1 .. MaxLogs : files[i].content = <<>>
    BY <1>4, LogNumbers
  <2>2. LogsInOrder
    BY <1>2, <2>1 DEF LogsInOrder
  <2> QED
    BY <1>4, <2>2 DEF MediumOK
<1>6. RequestsOK
  BY <1>1, <1>2, LogNumbers DEF RequestsOK
<1>7. DescriptorsOK
  BY <1>1 DEF DescriptorsOK, Numbering, Logging
<1>8. NumbersOK
  <2>1. \A i \in 1 .. MaxLogs : files[i].content = <<>>
    BY <1>4, LogNumbers
  <2> QED
    BY <1>1, <2>1, LogNumbers DEF NumbersOK, NumbersFollow, Numbering, Logging
<1>9. AgesOK
  BY <1>1, LogNumbers DEF AgesOK
<1>10. PlacesOK
  <2>1. misread \in BOOLEAN
    BY <1>1, Zenon
  <2> QED
    BY <1>1, <2>1 DEF PlacesOK, NothingOpen
<1> QED
  BY <1>5, <1>6, <1>7, <1>8, <1>9, <1>10 DEF LogsInv

(* A step that leaves the medium alone lets the logs grow. *)
LEMMA MediumKept ==
    ASSUME LogsInv, UNCHANGED files
    PROVE  MediumOK' /\ Grows /\ LastLog' = LastLog
<1>1. \A i \in 1 .. MaxLogs : files[i].content \in Seq(Nat)
  BY LogNumbers DEF LogsInv, MediumOK
<1> QED
  BY <1>1, BeginsItself DEF LogsInv, MediumOK, LogsInOrder, Grows, LastLog

LEMMA LastLogIs == LogsInv => LastLog \in Nat
<1> SUFFICES ASSUME LogsInv PROVE LastLog \in Nat
  OBVIOUS
<1> DEFINE c == files[LASTLOG_FILE].content
<1>1. c \in Seq(Nat)
  BY LogNumbers DEF LogsInv, MediumOK
<1>2. c # <<>> => c[1] \in Nat
  BY <1>1, EmptySeq, ElementOfSeq
<1>3. LastLog = IF c = <<>> THEN 0 ELSE c[1]
  BY DEF LastLog
<1> QED
  BY <1>2, <1>3

(* Nothing that waits, and what is written stays before it. *)
LEMMA RequestsCleared ==
    ASSUME LogsInv, requests' = <<>>, UNCHANGED sent
    PROVE  RequestsOK'
<1>1. <<>> \in Seq(Nat) /\ Len(<<>>) = 0
  OBVIOUS
<1> QED
  BY <1>1, LogNumbers DEF LogsInv, RequestsOK

(* Where a run is before and after a step. *)
LEMMA PlacesAre ==
    /\ runAt \in {"idle", "stat", "read", "update", "open"} <=> NothingOpen
    /\ runAt \in {"write", "close", "giveUp"} <=> Numbering
    /\ runAt \in {"loop", "oneMore", "failed", "stopped"} <=> Logging
    /\ (NothingOpen => ~Numbering /\ ~Logging) /\ (Numbering => ~Logging)
BY DEF NothingOpen, Numbering, Logging

LEMMA PlacesWillBe ==
    /\ runAt' \in {"idle", "stat", "read", "update", "open"} <=> NothingOpen'
    /\ runAt' \in {"write", "close", "giveUp"} <=> Numbering'
    /\ runAt' \in {"loop", "oneMore", "failed", "stopped"} <=> Logging'
    /\ (NothingOpen' => ~Numbering' /\ ~Logging') /\ (Numbering' => ~Logging')
BY DEF NothingOpen, Numbering, Logging

LEMMA LogsNumbered == LogsInv => sent \in Nat /\ sent <= MaxRecords /\ logIndex \in Nat /\ logIndex <= MaxLogs
BY LogNumbers DEF LogsInv, RequestsOK, NumbersOK

LEMMA RunStartsKeeps == ASSUME LogsInv, RunStarts PROVE LogsInv' /\ Grows
<1>1. /\ runAt = "idle" /\ runAt' = "stat"
      /\ UNCHANGED <<files, descriptors, recorderState, logIndex, sent, lastSync, uptime, age, misread>>
  BY DEF RunStarts, times
<1>2. MediumOK' /\ Grows /\ LastLog' = LastLog
  BY <1>1, MediumKept
<1>3. RequestsOK'
  BY <1>1, RequestsCleared DEF RunStarts
<1>4. DescriptorsOK'
  BY <1>1, PlacesAre, PlacesWillBe DEF LogsInv, DescriptorsOK
<1>5. NumbersOK'
  BY <1>1, <1>2, PlacesAre, PlacesWillBe DEF LogsInv, NumbersOK, NumbersFollow
<1>6. AgesOK' /\ PlacesOK'
  BY <1>1, PlacesAre, PlacesWillBe DEF LogsInv, AgesOK, PlacesOK, Late
<1> QED
  BY <1>2, <1>3, <1>4, <1>5, <1>6 DEF LogsInv

LEMMA StatLastLogKeeps == ASSUME LogsInv, NEW ok \in BOOLEAN, StatLastLog(ok) PROVE LogsInv' /\ Grows
<1>1. /\ runAt = "stat"
      /\ UNCHANGED <<files, descriptors, recorderState, requests, sent, lastSync, uptime, age>>
      /\ \/ runAt' = "read" /\ UNCHANGED <<logIndex, misread>>
         \/ /\ runAt' = "update" /\ logIndex' = 1 /\ 0 < MaxLogs
            /\ misread' = (misread \/ files[LASTLOG_FILE].exists)
  BY DEF StatLastLog, NextIndex, times
<1>2. MediumOK' /\ Grows /\ LastLog' = LastLog
  BY <1>1, MediumKept
<1>3. RequestsOK'
  BY <1>1 DEF LogsInv, RequestsOK
<1>4. DescriptorsOK'
  BY <1>1, PlacesAre, PlacesWillBe DEF LogsInv, DescriptorsOK
<1>5. ~misread' => ~misread
  BY <1>1
<1>6. ~misread' /\ runAt' = "update" => LastLog = 0
  BY <1>1, LogNumbers DEF LogsInv, MediumOK, LastLog
<1>7. NumbersOK'
  <2>1. NothingOpen' /\ ~Numbering' /\ ~Logging'
    BY <1>1, PlacesWillBe
  <2>2. CASE runAt' = "read" /\ UNCHANGED <<logIndex, misread>>
    BY <1>1, <1>2, <2>1, <2>2 DEF LogsInv, NumbersOK, NumbersFollow
  <2>3. CASE runAt' = "update" /\ logIndex' = 1 /\ 0 < MaxLogs
    <3>1. ~misread' => NumbersFollow'
      BY <1>1, <1>2, <1>5, <1>6, <2>1, <2>3 DEF LogsInv, NumbersOK, NumbersFollow
    <3>2. logIndex' \in 0 .. MaxLogs /\ logIndex' # 0
      BY <2>3, LogNumbers
    <3> QED
      BY <3>1, <3>2 DEF NumbersOK
  <2> QED
    BY <1>1, <2>2, <2>3
<1>8. AgesOK'
  BY <1>1, PlacesAre, PlacesWillBe DEF LogsInv, AgesOK, Late
<1>9. PlacesOK'
  <2>1. misread' \in BOOLEAN
    BY <1>1, LogNumbers DEF LogsInv, MediumOK, PlacesOK
  <2> QED
    BY <1>1, <2>1, PlacesWillBe DEF LogsInv, PlacesOK
<1> QED
  BY <1>2, <1>3, <1>4, <1>7, <1>8, <1>9 DEF LogsInv

(* Nothing comes to wait that is not newer than everything sent before. *)
NewRequests ==
    \A j \in 1 .. Len(requests') :
        \/ requests'[j] = stopRecorderRequest \/ requests'[j] > sent
        \/ \E k \in 1 .. Len(requests) : requests'[j] = requests[k]

LEMMA RequestsTaken ==
    ASSUME LogsInv, requests # <<>>, requests' = Tail(requests), UNCHANGED sent
    PROVE  /\ RequestsOK' /\ NewRequests
           /\ Len(requests) \in Nat \ {0} /\ Head(requests) = requests[1] /\ requests[1] \in Nat
           /\ \A j \in 1 .. Len(requests') : j + 1 \in 2 .. Len(requests) /\ requests'[j] = requests[j + 1]
<1>1. requests \in Seq(Nat) /\ Len(requests) <= RequestLimit /\ sent \in 0 .. MaxRecords
  BY DEF LogsInv, RequestsOK
<1>2. requests' \in Seq(Nat) /\ Len(requests') = Len(requests) - 1
  BY <1>1, HeadTailProperties
<1>3. \A j \in 1 .. Len(requests') : requests'[j] = requests[j + 1]
  BY <1>1, HeadTailProperties
<1>4. Len(requests) \in Nat \ {0}
  BY <1>1, EmptySeq
<1>5. \A j \in 1 .. Len(requests) : requests[j] \in Nat
  BY <1>1, ElementOfSeq
<1>6. \A j \in 1 .. Len(requests') : j \in Nat /\ j + 1 \in 2 .. Len(requests) /\ j + 1 \in 1 .. Len(requests)
  BY <1>2, <1>4
<1>7. \A m \in 1 .. Len(requests') :
         /\ requests'[m] <= sent
         /\ requests'[m] # stopRecorderRequest => \A n \in 1 .. m - 1 : requests'[n] < requests'[m]
  <2> SUFFICES ASSUME NEW m \in 1 .. Len(requests')
               PROVE  /\ requests'[m] <= sent
                      /\ requests'[m] # stopRecorderRequest =>
                            \A n \in 1 .. m - 1 : requests'[n] < requests'[m]
    OBVIOUS
  <2>1. m + 1 \in 1 .. Len(requests) /\ requests'[m] = requests[m + 1] /\ m \in Nat
    BY <1>3, <1>6
  <2>2. requests'[m] <= sent
    BY <2>1 DEF LogsInv, RequestsOK
  <2>3. ASSUME requests'[m] # stopRecorderRequest, NEW n \in 1 .. m - 1
        PROVE  requests'[n] < requests'[m]
    <3>1. n \in 1 .. Len(requests') /\ n + 1 \in 1 .. (m + 1) - 1 /\ requests'[n] = requests[n + 1]
      BY <1>2, <1>3, <1>4, <2>1
    <3> QED
      BY <2>1, <2>3, <3>1 DEF LogsInv, RequestsOK
  <2> QED
    BY <2>2, <2>3
<1>8. RequestsOK'
  BY <1>1, <1>2, <1>4, <1>7, LogNumbers DEF RequestsOK
<1>9. NewRequests
  BY <1>3, <1>6 DEF NewRequests
<1>10. Head(requests) = requests[1] /\ requests[1] \in Nat
  BY <1>4, <1>5 DEF Head
<1> QED
  BY <1>3, <1>4, <1>6, <1>8, <1>9, <1>10

LEMMA RequestsSent ==
    ASSUME LogsInv, NEW x \in Nat, Len(requests) < RequestLimit, requests' = Append(requests, x),
           x = stopRecorderRequest \/ x > sent, sent' \in 0 .. MaxRecords, x <= sent', sent <= sent'
    PROVE  RequestsOK' /\ NewRequests
<1> DEFINE a == Append(requests, x)
<1>1. requests \in Seq(Nat) /\ sent \in 0 .. MaxRecords
  BY DEF LogsInv, RequestsOK
<1>2. /\ a \in Seq(Nat) /\ Len(requests) \in Nat /\ Len(a) = Len(requests) + 1
      /\ a[Len(requests) + 1] = x
      /\ \A i \in 1 .. Len(requests) : a[i] = requests[i] /\ requests[i] \in Nat
  BY <1>1, Appended
<1>3. requests' = a
  OBVIOUS
<1> HIDE DEF a
<1>4. \A m \in 1 .. Len(a) : m \in 1 .. Len(requests) \/ m = Len(requests) + 1
  BY <1>2
<1>5. \A m \in 1 .. Len(requests) : requests[m] <= sent
  BY DEF LogsInv, RequestsOK
<1>6. ASSUME NEW m \in 1 .. Len(a)
      PROVE  /\ a[m] <= sent'
             /\ a[m] # stopRecorderRequest => \A n \in 1 .. m - 1 : a[n] < a[m]
  <2>1. CASE m \in 1 .. Len(requests)
    <3>1. \A n \in 1 .. m - 1 : n \in 1 .. Len(requests)
      BY <1>2, <2>1
    <3>2. a[m] = requests[m] /\ \A n \in 1 .. m - 1 : a[n] = requests[n]
      BY <1>2, <2>1, <3>1
    <3>3. requests[m] # stopRecorderRequest => \A n \in 1 .. m - 1 : requests[n] < requests[m]
      BY <2>1 DEF LogsInv, RequestsOK
    <3>4. requests[m] <= sent /\ requests[m] \in Nat
      BY <1>2, <1>5, <2>1
    <3> QED
      BY <1>1, <3>2, <3>3, <3>4, LogNumbers
  <2>2. CASE m = Len(requests) + 1
    <3>1. a[m] = x
      BY <1>2, <2>2
    <3>2. ASSUME NEW n \in 1 .. m - 1, x # stopRecorderRequest PROVE a[n] < x
      <4>1. n \in 1 .. Len(requests)
        BY <1>2, <2>2
      <4>2. a[n] = requests[n] /\ requests[n] \in Nat /\ requests[n] <= sent
        BY <1>2, <1>5, <4>1
      <4>3. sent \in Nat /\ x > sent
        BY <1>1, <3>2, LogNumbers
      <4> QED
        BY <4>2, <4>3
    <3> QED
      BY <3>1, <3>2
  <2> QED
    BY <1>4, <2>1, <2>2
<1>7. Len(a) <= RequestLimit
  BY <1>2, LogNumbers
<1>8. RequestsOK'
  BY <1>2, <1>3, <1>6, <1>7 DEF RequestsOK
<1>9. NewRequests
  <2> SUFFICES ASSUME NEW j \in 1 .. Len(a)
               PROVE  a[j] = stopRecorderRequest \/ a[j] > sent \/ \E k \in 1 .. Len(requests) : a[j] = requests[k]
    BY <1>3 DEF NewRequests
  <2> QED
    BY <1>2, <1>4
<1> QED
  BY <1>8, <1>9

LEMMA WrittenStays ==
    ASSUME LogsInv, NEW c \in Seq(Nat), WrittenOK(c), RequestsOK', NewRequests, sent <= sent',
           UNCHANGED <<files, logIndex, misread>>
    PROVE  WrittenOK(c)'
<1>1. sent \in Nat /\ sent' \in Nat /\ (\A i \in 1 .. Len(c) : c[i] \in Nat)
  BY ElementOfSeq, LogNumbers DEF LogsInv, RequestsOK
<1>2. requests' \in Seq(Nat) /\ (\A j \in 1 .. Len(requests') : requests'[j] \in Nat)
  BY ElementOfSeq DEF RequestsOK
<1>3. \A i \in 1 .. Len(c) : c[i] <= sent'
  BY <1>1 DEF WrittenOK
<1>4. ASSUME NEW i \in 1 .. Len(c), NEW j \in 1 .. Len(requests'), requests'[j] # stopRecorderRequest
      PROVE  c[i] < requests'[j]
  <2>1. CASE requests'[j] > sent
    BY <1>1, <1>2, <2>1 DEF WrittenOK
  <2>2. CASE \E k \in 1 .. Len(requests) : requests'[j] = requests[k]
    BY <1>4, <2>2 DEF WrittenOK
  <2> QED
    BY <1>4, <2>1, <2>2 DEF NewRequests
<1> QED
  BY <1>3, <1>4 DEF WrittenOK

(* A step of the queue, or of a run between two places of its loop. *)
RunMove ==
    /\ RequestsOK' /\ NewRequests /\ sent <= sent'
    /\ UNCHANGED <<files, descriptors, logIndex, misread, lastSync, uptime, age>>
    /\ (UNCHANGED runAt \/ (Logging /\ Logging'))
    /\ recorderState' \in {"STATE_DISABLED", "STATE_STARTING", "STATE_RUNNING"}

LEMMA RunMoves == ASSUME LogsInv, RunMove PROVE LogsInv' /\ Grows
<1>1. /\ RequestsOK' /\ NewRequests /\ sent <= sent'
      /\ UNCHANGED <<files, descriptors, logIndex, misread, lastSync, uptime, age>>
      /\ (UNCHANGED runAt \/ (Logging /\ Logging'))
      /\ recorderState' \in {"STATE_DISABLED", "STATE_STARTING", "STATE_RUNNING"}
  BY DEF RunMove
<1>2. MediumOK' /\ Grows /\ LastLog' = LastLog
  BY <1>1, MediumKept
<1>3. /\ NothingOpen' <=> NothingOpen
      /\ Numbering' <=> Numbering
      /\ Logging' <=> Logging
  <2>1. CASE UNCHANGED runAt
    BY <2>1 DEF NothingOpen, Numbering, Logging
  <2>2. CASE Logging /\ Logging'
    BY <2>2, PlacesAre, PlacesWillBe
  <2> QED
    BY <1>1, <2>1, <2>2
<1>4. \A p \in {"close", "update", "open"} : runAt' = p <=> runAt = p
  BY <1>1, PlacesAre, PlacesWillBe
<1>5. DescriptorsOK'
  <2>1. NothingOpen' => descriptors' = {}
    BY <1>1, <1>3 DEF LogsInv, DescriptorsOK
  <2>2. Numbering' => descriptors' = {Opened(LASTLOG_FILE, IF runAt' = "close" THEN <<logIndex'>> ELSE <<>>)}
    BY <1>1, <1>3, <1>4 DEF LogsInv, DescriptorsOK
  <2>3. ASSUME Logging' PROVE \E c \in Seq(Nat) : descriptors' = {Opened(logIndex', c)} /\ WrittenOK(c)'
    <3>1. PICK c \in Seq(Nat) : descriptors = {Opened(logIndex, c)} /\ WrittenOK(c)
      BY <1>3, <2>3 DEF LogsInv, DescriptorsOK
    <3>2. WrittenOK(c)'
      BY <1>1, <3>1, WrittenStays
    <3> QED
      BY <1>1, <3>1, <3>2
  <2> QED
    BY <2>1, <2>2, <2>3 DEF DescriptorsOK, LASTLOG_FILE
<1>6. NumbersOK'
  BY <1>1, <1>2, <1>3, <1>4 DEF LogsInv, NumbersOK, NumbersFollow
<1>7. AgesOK' /\ PlacesOK'
  BY <1>1, <1>3 DEF LogsInv, AgesOK, PlacesOK, Late
<1> QED
  BY <1>1, <1>2, <1>5, <1>6, <1>7 DEF LogsInv

LEMMA CallbacksDoneKeeps == ASSUME LogsInv, CallbacksDone PROVE LogsInv' /\ Grows
<1>1. /\ UNCHANGED <<files, descriptors, runAt, logIndex, requests, sent, misread, lastSync, uptime, age>>
      /\ recorderState' = "STATE_RUNNING"
  BY DEF CallbacksDone, times
<1>2. RequestsOK' /\ NewRequests /\ sent <= sent'
  BY <1>1, LogNumbers DEF LogsInv, RequestsOK, NewRequests
<1>3. recorderState' \in {"STATE_DISABLED", "STATE_STARTING", "STATE_RUNNING"}
  BY <1>1
<1> QED
  <2>1. RunMove
    BY <1>1, <1>2, <1>3 DEF RunMove
  <2> QED
    BY <2>1, RunMoves

LEMMA SendRecordKeeps == ASSUME LogsInv, SendRecord PROVE LogsInv' /\ Grows
<1>1. /\ UNCHANGED <<files, descriptors, recorderState, runAt, logIndex, misread, lastSync, uptime, age>>
      /\ sent < MaxRecords /\ sent' = sent + 1
      /\ requests' = IF Len(requests) < RequestLimit THEN Append(requests, sent') ELSE requests
  BY DEF SendRecord, run, times
<1>2. sent \in Nat /\ sent' \in Nat /\ sent' \in 0 .. MaxRecords /\ sent <= sent' /\ sent' > sent /\ sent' <= sent'
  BY <1>1, LogNumbers DEF LogsInv, RequestsOK
<1>3. recorderState' \in {"STATE_DISABLED", "STATE_STARTING", "STATE_RUNNING"}
  BY <1>1 DEF LogsInv, PlacesOK
<1>4. CASE Len(requests) < RequestLimit
  <2>1. RequestsOK' /\ NewRequests
    BY <1>1, <1>2, <1>4, RequestsSent
  <2> QED
    <3>1. RunMove
      BY <1>3, <1>1, <1>2, <2>1 DEF RunMove
    <3> QED
      BY <3>1, RunMoves
<1>5. CASE ~(Len(requests) < RequestLimit)
  <2>1. requests' = requests
    BY <1>1, <1>5
  <2>2. \A m \in 1 .. Len(requests) : requests[m] \in Nat
    BY ElementOfSeq DEF LogsInv, RequestsOK
  <2>3. RequestsOK' /\ NewRequests
    BY <1>2, <2>1, <2>2 DEF LogsInv, RequestsOK, NewRequests
  <2> QED
    <3>1. RunMove
      BY <1>3, <1>1, <1>2, <2>3 DEF RunMove
    <3> QED
      BY <3>1, RunMoves
<1> QED
  BY <1>4, <1>5

LEMMA SendSentinelKeeps == ASSUME LogsInv, SendSentinel PROVE LogsInv' /\ Grows
<1>1. /\ UNCHANGED <<files, descriptors, recorderState, runAt, logIndex, sent, misread, lastSync, uptime, age>>
      /\ Len(requests) < RequestLimit /\ requests' = Append(requests, stopRecorderRequest)
  BY DEF SendSentinel, run, times
<1>2. /\ sent \in 0 .. MaxRecords /\ sent' \in 0 .. MaxRecords /\ sent <= sent'
      /\ stopRecorderRequest <= sent' /\ stopRecorderRequest \in Nat
  BY <1>1, LogNumbers DEF LogsInv, RequestsOK
<1>3. RequestsOK' /\ NewRequests
  BY <1>1, <1>2, RequestsSent
<1>4. recorderState' \in {"STATE_DISABLED", "STATE_STARTING", "STATE_RUNNING"}
  BY <1>1 DEF LogsInv, PlacesOK
<1> QED
  <2>1. RunMove
    BY <1>1, <1>2, <1>3, <1>4 DEF RunMove
  <2> QED
    BY <2>1, RunMoves

LEMMA LoopMovesKeep ==
    ASSUME LogsInv, WriteFails \/ LoseRequest \/ ReceiveSentinel PROVE LogsInv' /\ Grows
<1>1. /\ UNCHANGED <<files, descriptors, recorderState, logIndex, sent, misread, lastSync, uptime, age>>
      /\ requests # <<>> /\ requests' = Tail(requests)
      /\ runAt \in {"loop", "oneMore"} /\ runAt' \in {"oneMore", "failed", "stopped"}
  BY DEF WriteFails, LoseRequest, ReceiveSentinel, Receive, times
<1>2. RequestsOK' /\ NewRequests
  BY <1>1, RequestsTaken
<1>3. Logging /\ Logging'
  BY <1>1, PlacesAre, PlacesWillBe
<1>4. sent <= sent'
  <2>1. sent \in Nat /\ sent' = sent
    BY <1>1, LogsNumbered
  <2> QED
    BY <2>1
<1>5. recorderState' \in {"STATE_DISABLED", "STATE_STARTING", "STATE_RUNNING"}
  BY <1>1 DEF LogsInv, PlacesOK
<1> QED
  <2>1. RunMove
    BY <1>1, <1>2, <1>3, <1>4, <1>5 DEF RunMove
  <2> QED
    BY <2>1, RunMoves

LEMMA ReadLastLogKeeps ==
    ASSUME LogsInv, NEW outcome \in {"notOpened", "notRead", "read"}, ReadLastLog(outcome)
    PROVE  LogsInv' /\ Grows
<1>1. /\ runAt = "read"
      /\ UNCHANGED <<files, descriptors, requests, sent, lastSync, uptime, age>>
      /\ recorderState' = recorderState \/ recorderState' = "STATE_DISABLED"
      /\ \/ runAt' = "idle" /\ UNCHANGED <<logIndex, misread>>
         \/ runAt' = "update" /\ logIndex' = 1 /\ 0 < MaxLogs /\ misread'
         \/ runAt' = "update" /\ logIndex' = LastLog + 1 /\ LastLog < MaxLogs /\ misread' = misread
  <2>1. /\ runAt = "read"
        /\ UNCHANGED <<files, descriptors, requests, sent, lastSync, uptime, age>>
    BY DEF ReadLastLog, times
  <2>2. CASE outcome = "notOpened"
    BY <2>1, <2>2 DEF ReadLastLog, RunEnds
  <2>3. CASE outcome = "notRead"
    <3>1. logIndex' = 0 + 1 /\ 0 < MaxLogs /\ runAt' = "update" /\ misread' = TRUE /\ UNCHANGED recorderState
      BY <2>3 DEF ReadLastLog, NextIndex
    <3>2. misread'
      BY <3>1, Zenon
    <3>3. logIndex' = 1
      BY <3>1
    <3> QED
      BY <2>1, <3>1, <3>2, <3>3
  <2>4. CASE outcome = "read"
    BY <2>1, <2>4 DEF ReadLastLog, NextIndex
  <2> QED
    BY <2>2, <2>3, <2>4
<1>2. MediumOK' /\ Grows /\ LastLog' = LastLog
  BY <1>1, MediumKept
<1>3. RequestsOK'
  BY <1>1 DEF LogsInv, RequestsOK
<1>4. NothingOpen' /\ ~Numbering' /\ ~Logging'
  BY <1>1, PlacesWillBe
<1>5. DescriptorsOK'
  BY <1>1, <1>4, PlacesAre DEF LogsInv, DescriptorsOK
<1>6. NumbersOK'
  <2>1. CASE runAt' = "idle" /\ UNCHANGED <<logIndex, misread>>
    BY <1>2, <1>1, <1>4, <2>1 DEF LogsInv, NumbersOK, NumbersFollow
  <2>2. CASE runAt' = "update" /\ logIndex' = 1 /\ 0 < MaxLogs /\ misread'
    <3>1. logIndex' \in 0 .. MaxLogs /\ logIndex' # 0
      <4>1. logIndex' = 1 /\ 0 < MaxLogs
        BY <2>2
      <4> QED
        BY <4>1, LogNumbers
    <3>2. misread'
      BY <2>2
    <3> QED
      BY <3>1, <3>2 DEF NumbersOK
  <2>3. CASE runAt' = "update" /\ logIndex' = LastLog + 1 /\ LastLog < MaxLogs /\ misread' = misread
    <3>1. logIndex' \in 0 .. MaxLogs /\ logIndex' # 0
      <4>1. LastLog \in Nat
        BY LastLogIs
      <4>2. logIndex' = LastLog + 1 /\ LastLog < MaxLogs
        BY <2>3
      <4> QED
        BY <4>1, <4>2, LogNumbers
    <3>2. ~misread' => NumbersFollow'
      BY <1>1, <1>2, <1>4, <2>3 DEF LogsInv, NumbersOK, NumbersFollow
    <3> QED
      BY <3>1, <3>2 DEF NumbersOK
  <2> QED
    BY <1>1, <2>1, <2>2, <2>3
<1>7. AgesOK'
  BY <1>1, <1>4, PlacesAre DEF LogsInv, AgesOK, Late
<1>8. PlacesOK'
  <2>1. misread' \in BOOLEAN
    BY <1>1 DEF LogsInv, PlacesOK
  <2> QED
    BY <1>1, <1>4, <2>1 DEF LogsInv, PlacesOK
<1> QED
  BY <1>2, <1>3, <1>5, <1>6, <1>7, <1>8 DEF LogsInv

LEMMA OpenLastLogKeeps == ASSUME LogsInv, NEW ok \in BOOLEAN, OpenLastLog(ok) PROVE LogsInv' /\ Grows
<1>1. runAt = "update" /\ UNCHANGED <<requests, sent, lastSync, uptime, age, misread>>
  BY DEF OpenLastLog, times
<1>2. RequestsOK' /\ descriptors = {} /\ ~Numbering /\ ~Logging /\ NothingOpen /\ logIndex # 0
  BY <1>1, PlacesAre DEF LogsInv, RequestsOK, DescriptorsOK, NumbersOK
<1>3. CASE ok
  <2>1. /\ OpenToWrite(LASTLOG_FILE)
        /\ runAt' = "write" /\ UNCHANGED <<recorderState, logIndex>>
    BY <1>3 DEF OpenLastLog
  <2>2. Numbering' /\ ~NothingOpen' /\ ~Logging'
    BY <2>1, PlacesWillBe
  <2>3. LASTLOG_FILE \in Files
    BY LogNumbers
  <2>4. /\ MediumOK'
        /\ \A g \in Files : files'[g].content = files[g].content
        /\ descriptors' = {Opened(LASTLOG_FILE, <<>>)}
    BY <1>2, <2>1, <2>3, OpenToWriteKeeps DEF LogsInv
  <2>5. LastLog' = LastLog
    BY <2>3, <2>4 DEF LastLog, LASTLOG_FILE
  <2>6. Grows
    <3>1. \A i \in 1 .. MaxLogs : files[i].content \in Seq(Nat) /\ files'[i].content = files[i].content
      BY <2>4, LogNumbers DEF LogsInv, MediumOK
    <3> QED
      BY <3>1, BeginsItself DEF Grows
  <2>7. DescriptorsOK'
    BY <2>1, <2>2, <2>4 DEF DescriptorsOK, LASTLOG_FILE
  <2>8. NumbersOK'
    <3>1. \A i \in 1 .. MaxLogs : files'[i].content = files[i].content
      BY <2>4, LogNumbers
    <3> QED
      BY <1>1, <1>2, <2>1, <2>2, <2>5, <3>1 DEF LogsInv, NumbersOK, NumbersFollow
  <2>9. AgesOK' /\ PlacesOK'
    BY <1>1, <1>2, <2>1, <2>2 DEF LogsInv, AgesOK, PlacesOK, Late
  <2> QED
    BY <1>2, <2>4, <2>6, <2>7, <2>8, <2>9 DEF LogsInv
<1>4. CASE ~ok
  <2>1. /\ runAt' = "idle" /\ recorderState' = "STATE_DISABLED" /\ UNCHANGED logIndex
        /\ UNCHANGED <<files, descriptors>>
    BY <1>4 DEF OpenLastLog, RunEnds
  <2>2. NothingOpen' /\ ~Numbering' /\ ~Logging'
    BY <2>1, PlacesWillBe
  <2>3. MediumOK' /\ Grows /\ LastLog' = LastLog
    BY <2>1, MediumKept
  <2>4. DescriptorsOK'
    BY <1>2, <2>1, <2>2 DEF DescriptorsOK
  <2>5. NumbersOK'
    BY <1>1, <2>1, <2>2, <2>3 DEF LogsInv, NumbersOK, NumbersFollow
  <2>6. AgesOK' /\ PlacesOK'
    BY <1>1, <1>2, <2>1, <2>2 DEF LogsInv, AgesOK, PlacesOK, Late
  <2> QED
    BY <1>2, <2>3, <2>4, <2>5, <2>6 DEF LogsInv
<1> QED
  BY <1>3, <1>4

LEMMA WriteLastLogKeeps == ASSUME LogsInv, NEW ok \in BOOLEAN, WriteLastLog(ok) PROVE LogsInv' /\ Grows
<1>1. runAt = "write" /\ UNCHANGED <<files, recorderState, logIndex, requests, sent, lastSync, uptime, age, misread>>
  BY DEF WriteLastLog, times
<1>2. runAt' = "close" \/ runAt' = "giveUp"
  BY DEF WriteLastLog
<1>3. Numbering /\ ~NothingOpen /\ ~Logging /\ Numbering' /\ ~NothingOpen' /\ ~Logging'
  BY <1>1, <1>2, PlacesAre, PlacesWillBe
<1>4. MediumOK' /\ Grows /\ LastLog' = LastLog
  BY <1>1, MediumKept
<1>5. RequestsOK'
  BY <1>1 DEF LogsInv, RequestsOK
<1>6. descriptors = {Opened(LASTLOG_FILE, <<>>)}
  BY <1>1, <1>3 DEF LogsInv, DescriptorsOK
<1>7. descriptors' = {Opened(LASTLOG_FILE, IF runAt' = "close" THEN <<logIndex>> ELSE <<>>)}
  <2>1. CASE ok
    <3>1. Write(LASTLOG_FILE, logIndex) /\ runAt' = "close"
      BY <2>1 DEF WriteLastLog
    <3>2. OpenFile(LASTLOG_FILE) = Opened(LASTLOG_FILE, <<>>) /\ OpenFile(LASTLOG_FILE).content = <<>>
      BY <1>6, OpenFileIs
    <3>3. Append(<<>>, logIndex) = <<logIndex>>
      OBVIOUS
    <3>4. descriptors' = (descriptors \ {Opened(LASTLOG_FILE, <<>>)})
                         \cup {Opened(LASTLOG_FILE, <<logIndex>>)}
      BY <3>1, <3>2, <3>3 DEF Write, Opened
    <3>5. descriptors' = {Opened(LASTLOG_FILE, <<logIndex>>)}
      BY <1>6, <3>4
    <3> QED
      BY <3>1, <3>5
  <2>2. CASE ~ok
    <3>1. UNCHANGED descriptors /\ runAt' = "giveUp"
      BY <2>2 DEF WriteLastLog
    <3> QED
      BY <1>6, <3>1
  <2> QED
    BY <2>1, <2>2
<1>8. DescriptorsOK'
  BY <1>1, <1>3, <1>7 DEF DescriptorsOK, LASTLOG_FILE
<1>9. NumbersOK'
  BY <1>1, <1>2, <1>3, <1>4 DEF LogsInv, NumbersOK, NumbersFollow
<1>10. AgesOK' /\ PlacesOK'
  BY <1>1, <1>3 DEF LogsInv, AgesOK, PlacesOK, Late
<1> QED
  BY <1>4, <1>5, <1>8, <1>9, <1>10 DEF LogsInv

LEMMA CloseLastLogKeeps == ASSUME LogsInv, NEW ok \in BOOLEAN, CloseLastLog(ok) PROVE LogsInv' /\ Grows
<1>1. /\ runAt \in {"close", "giveUp"} /\ (runAt = "giveUp" => ~ok)
      /\ UNCHANGED <<requests, sent, lastSync, uptime, age, logIndex>>
      /\ Close(LASTLOG_FILE, ok)
  BY DEF CloseLastLog, RunEnds, times
<1>2. Numbering /\ ~NothingOpen /\ ~Logging
  BY <1>1, PlacesAre
<1>3. RequestsOK'
  BY <1>1 DEF LogsInv, RequestsOK
<1> DEFINE c == IF runAt = "close" THEN <<logIndex>> ELSE <<>>
<1>4. descriptors = {Opened(LASTLOG_FILE, c)}
  BY <1>2 DEF LogsInv, DescriptorsOK
<1>5. OpenFile(LASTLOG_FILE) = Opened(LASTLOG_FILE, c) /\ OpenFile(LASTLOG_FILE).content = c
  BY <1>4, OpenFileIs
<1>6. descriptors' = {}
  BY <1>1, <1>4, <1>5 DEF Close
<1>7. LASTLOG_FILE \in Files /\ LASTLOG_FILE = 0 /\ logIndex \in Nat /\ logIndex # 0 /\ logIndex \in 1 .. MaxLogs
  BY <1>2, LogNumbers DEF LogsInv, NumbersOK
<1>8. /\ runAt = "close" => runAt' = "open" /\ misread' = (misread \/ ~ok) /\ UNCHANGED recorderState
      /\ runAt = "giveUp" => runAt' = "idle" /\ recorderState' = "STATE_DISABLED" /\ UNCHANGED misread
  BY DEF CloseLastLog, RunEnds
<1>9. NothingOpen' /\ ~Numbering' /\ ~Logging'
  BY <1>1, <1>8, PlacesWillBe
<1>10. DescriptorsOK'
  BY <1>6, <1>9 DEF DescriptorsOK
<1>11. AgesOK'
  BY <1>1, <1>2, <1>9 DEF LogsInv, AgesOK, Late
<1>12. PlacesOK'
  <2>1. misread' \in BOOLEAN
    BY <1>1, <1>8 DEF LogsInv, PlacesOK
  <2> QED
    BY <1>1, <1>8, <1>9, <2>1 DEF LogsInv, PlacesOK
<1>13. CASE ok
  <2>1. runAt = "close" /\ runAt' = "open" /\ c = <<logIndex>> /\ (misread' = misread)
    BY <1>1, <1>8, <1>13 DEF LogsInv, PlacesOK
  <2>2. files' = [files EXCEPT ![LASTLOG_FILE] = Holds(<<logIndex>>)]
    BY <1>1, <1>5, <1>13, <2>1 DEF Close, Sync
  <2>3. <<logIndex>> \in Seq(Nat) /\ <<logIndex>>[1] = logIndex /\ <<logIndex>> # <<>>
    BY <1>7
  <2>4. /\ MediumOK'
        /\ files'[LASTLOG_FILE].content = <<logIndex>>
        /\ \A g \in Files : g # LASTLOG_FILE => files'[g] = files[g]
    BY <1>7, <2>2, <2>3, SyncKeeps DEF LogsInv
  <2>5. \A i \in 1 .. MaxLogs : files[i].content \in Seq(Nat) /\ files'[i] = files[i]
    BY <1>7, <2>4, LogNumbers DEF LogsInv, MediumOK
  <2>6. Grows
    BY <2>5, BeginsItself DEF Grows
  <2>7. LastLog' = logIndex
    BY <2>3, <2>4 DEF LastLog, LASTLOG_FILE
  <2>8. NumbersOK'
    <3>1. logIndex' \in 0 .. MaxLogs /\ logIndex' # 0
      BY <1>1, <1>7 DEF LogsInv, NumbersOK
    <3>2. ASSUME ~misread' PROVE NumbersFollow'
      <4>1. ~misread /\ NumbersFollow /\ logIndex = LastLog + 1
        BY <1>2, <2>1, <3>2 DEF LogsInv, NumbersOK, NumbersFollow
      <4>2. LastLog \in Nat
        BY LastLogIs
      <4>3. \A i \in 1 .. MaxLogs : i > logIndex => files'[i].content = <<>>
        BY <2>5, <4>1, <4>2 DEF NumbersFollow
      <4>4. files'[logIndex].content = <<>>
        BY <1>7, <2>5, <4>1, <4>2 DEF NumbersFollow
      <4> QED
        BY <1>1, <1>9, <2>1, <2>7, <4>3, <4>4 DEF NumbersFollow
    <3> QED
      BY <3>1, <3>2 DEF NumbersOK
  <2> QED
    BY <1>3, <1>10, <1>11, <1>12, <2>4, <2>6, <2>8 DEF LogsInv
<1>14. CASE ~ok
  <2>1. UNCHANGED files
    BY <1>1, <1>14 DEF Close
  <2>2. MediumOK' /\ Grows /\ LastLog' = LastLog
    BY <2>1, MediumKept
  <2>3. NumbersOK'
    <3>1. logIndex' \in 0 .. MaxLogs /\ logIndex' # 0
      BY <1>1, <1>7 DEF LogsInv, NumbersOK
    <3>2. ASSUME ~misread' PROVE NumbersFollow'
      <4>1. runAt' = "idle" /\ ~misread
        <5>1. CASE runAt = "close"
          <6>1. misread' = (misread \/ ~ok)
            BY <1>8, <5>1
          <6> QED
            BY <1>14, <3>2, <6>1, Zenon
        <5>2. CASE runAt = "giveUp"
          <6>1. runAt' = "idle" /\ misread' = misread
            BY <1>8, <5>2
          <6> QED
            BY <3>2, <6>1, Zenon
        <5> QED
          BY <1>1, <5>1, <5>2
      <4> QED
        BY <1>1, <1>9, <2>1, <2>2, <4>1 DEF LogsInv, NumbersOK, NumbersFollow
    <3> QED
      BY <3>1, <3>2 DEF NumbersOK
  <2> QED
    BY <1>3, <1>10, <1>11, <1>12, <2>2, <2>3 DEF LogsInv
<1> QED
  BY <1>13, <1>14

(* The log is opened: nothing of it is on the medium. *)
LEMMA OpenLogKeeps == ASSUME LogsInv, NEW ok \in BOOLEAN, OpenLog(ok) PROVE LogsInv' /\ Grows
<1>1. runAt = "open" /\ UNCHANGED <<requests, sent, uptime, age, misread, logIndex>>
  BY DEF OpenLog, RunEnds
<1>2. /\ RequestsOK' /\ descriptors = {} /\ ~Numbering /\ ~Logging /\ NothingOpen
      /\ logIndex \in 1 .. MaxLogs /\ logIndex \in Files /\ logIndex # 0
  BY <1>1, PlacesAre, LogNumbers DEF LogsInv, RequestsOK, DescriptorsOK, NumbersOK
<1>3. CASE ok
  <2>1. /\ OpenToWrite(logIndex)
        /\ runAt' = "loop" /\ recorderState' = "STATE_STARTING" /\ lastSync' = uptime
    BY <1>3 DEF OpenLog
  <2>2. Logging' /\ ~NothingOpen' /\ ~Numbering'
    BY <2>1, PlacesWillBe
  <2>3. /\ MediumOK'
        /\ \A g \in Files : files'[g].content = files[g].content
        /\ descriptors' = {Opened(logIndex, <<>>)}
    BY <1>2, <2>1, OpenToWriteKeeps DEF LogsInv
  <2>4. LastLog' = LastLog
    BY <2>3, LogNumbers DEF LastLog, LASTLOG_FILE
  <2>5. \A i \in 1 .. MaxLogs : files[i].content \in Seq(Nat) /\ files'[i].content = files[i].content
    BY <2>3, LogNumbers DEF LogsInv, MediumOK
  <2>6. Grows
    BY <2>5, BeginsItself DEF Grows
  <2>7. WrittenOK(<<>>)'
    <3>1. <<>> \in Seq(Nat) /\ Len(<<>>) = 0
      OBVIOUS
    <3>2. ~misread' => files'[logIndex'].content = <<>>
      BY <1>1, <1>2, <2>5 DEF LogsInv, NumbersOK, NumbersFollow
    <3>3. Ascending(<<>>)
      BY <3>1 DEF Ascending
    <3>4. ~misread' => Begins(files'[logIndex'].content, <<>>)
      BY <3>1, <3>2, NothingBegins
    <3> QED
      BY <3>1, <3>3, <3>4 DEF WrittenOK
  <2>8. DescriptorsOK'
    <3>1. <<>> \in Seq(Nat)
      OBVIOUS
    <3>2. descriptors' = {Opened(logIndex', <<>>)}
      BY <1>1, <2>3
    <3> QED
      BY <2>2, <2>7, <3>1, <3>2 DEF DescriptorsOK
  <2>9. NumbersOK'
    BY <1>1, <1>2, <2>1, <2>2, <2>4, <2>5 DEF LogsInv, NumbersOK, NumbersFollow
  <2>10. AgesOK' /\ PlacesOK'
    BY <1>1, <1>2, <2>1, <2>2, LogNumbers DEF LogsInv, AgesOK, PlacesOK, Late
  <2> QED
    BY <1>2, <2>3, <2>6, <2>8, <2>9, <2>10 DEF LogsInv
<1>4. CASE ~ok
  <2>1. /\ runAt' = "idle" /\ recorderState' = "STATE_DISABLED"
        /\ UNCHANGED <<files, descriptors, lastSync>>
    BY <1>4 DEF OpenLog, RunEnds
  <2>2. NothingOpen' /\ ~Numbering' /\ ~Logging'
    BY <2>1, PlacesWillBe
  <2>3. MediumOK' /\ Grows /\ LastLog' = LastLog
    BY <2>1, MediumKept
  <2>4. DescriptorsOK'
    BY <1>2, <2>1, <2>2 DEF DescriptorsOK
  <2>5. NumbersOK'
    BY <1>1, <2>1, <2>2, <2>3 DEF LogsInv, NumbersOK, NumbersFollow
  <2>6. AgesOK' /\ PlacesOK'
    BY <1>1, <1>2, <2>1, <2>2 DEF LogsInv, AgesOK, PlacesOK, Late
  <2> QED
    BY <1>2, <2>3, <2>4, <2>5, <2>6 DEF LogsInv
<1> QED
  BY <1>3, <1>4

(* What a run has open while it logs. *)
LEMMA LoggingFacts ==
    ASSUME LogsInv, Logging
    PROVE  /\ logIndex \in 1 .. MaxLogs /\ logIndex \in Files /\ logIndex # 0
           /\ ~misread => NumbersFollow
           /\ \E c \in Seq(Nat) : /\ descriptors = {Opened(logIndex, c)} /\ WrittenOK(c)
                                  /\ OpenFile(logIndex) = Opened(logIndex, c)
                                  /\ OpenFile(logIndex).content = c
<1>1. logIndex \in 1 .. MaxLogs /\ logIndex \in Files /\ logIndex # 0 /\ (~misread => NumbersFollow)
  BY LogNumbers DEF LogsInv, NumbersOK
<1>2. PICK c \in Seq(Nat) : descriptors = {Opened(logIndex, c)} /\ WrittenOK(c)
  BY DEF LogsInv, DescriptorsOK
<1>3. OpenFile(logIndex) = Opened(logIndex, c) /\ OpenFile(logIndex).content = c
  BY <1>2, OpenFileIs
<1> QED
  BY <1>1, <1>2, <1>3

(* The medium of a log takes over what its run has written. *)
LEMMA LogSynced ==
    ASSUME LogsInv, Logging, NEW c \in Seq(Nat), Ascending(c),
           ~misread => Begins(files[logIndex].content, c),
           files' = [files EXCEPT ![logIndex] = Holds(c)]
    PROVE  /\ MediumOK' /\ Grows /\ LastLog' = LastLog
           /\ files'[logIndex].content = c
           /\ ~misread => \A i \in 1 .. MaxLogs : i > LastLog => files'[i].content = <<>>
<1>1. logIndex \in 1 .. MaxLogs /\ logIndex \in Files /\ logIndex # 0 /\ (~misread => NumbersFollow)
  BY LogNumbers DEF LogsInv, NumbersOK
<1>2. /\ MediumOK'
      /\ files'[logIndex].content = c
      /\ \A g \in Files : g # logIndex => files'[g] = files[g]
  BY <1>1, SyncKeeps DEF LogsInv
<1>3. LastLog' = LastLog
  BY <1>1, <1>2, LogNumbers DEF LastLog, LASTLOG_FILE
<1>4. ASSUME ~misread, NEW i \in 1 .. MaxLogs PROVE Begins(files[i].content, files'[i].content)
  <2>1. CASE i = logIndex
    BY <1>2, <1>4, <2>1
  <2>2. CASE i # logIndex
    <3>1. files'[i] = files[i] /\ files[i].content \in Seq(Nat)
      BY <1>2, <2>2, LogNumbers DEF LogsInv, MediumOK
    <3> QED
      BY <3>1, BeginsItself
  <2> QED
    BY <2>1, <2>2
<1>5. Grows
  BY <1>4 DEF Grows
<1>6. ASSUME ~misread, NEW i \in 1 .. MaxLogs, i > LastLog PROVE files'[i].content = <<>>
  <2>1. NumbersFollow /\ logIndex = LastLog /\ LastLog \in Nat
    BY <1>1, <1>6, LastLogIs DEF NumbersFollow
  <2>2. i # logIndex /\ i \in Files /\ files[i].content = <<>>
    BY <1>6, <2>1, LogNumbers DEF NumbersFollow
  <2> QED
    BY <1>2, <2>2
<1> QED
  BY <1>2, <1>3, <1>5, <1>6

LEMMA WriteRecordKeeps ==
    ASSUME LogsInv, WriteRecord PROVE LogsInv' /\ Grows /\ age' <= SyncInterval
<1> DEFINE h == Head(requests)
<1>1. /\ runAt = "loop" /\ requests # <<>> /\ requests' = Tail(requests) /\ h # stopRecorderRequest
      /\ UNCHANGED <<recorderState, runAt, logIndex, sent, uptime, misread>>
      /\ Write(logIndex, h)
  BY DEF WriteRecord, Receive, run
<1>2. /\ RequestsOK' /\ NewRequests
      /\ Len(requests) \in Nat \ {0} /\ h = requests[1] /\ h \in Nat
      /\ \A j \in 1 .. Len(requests') : j + 1 \in 2 .. Len(requests) /\ requests'[j] = requests[j + 1]
  BY <1>1, RequestsTaken
<1>3. Logging /\ Logging' /\ ~NothingOpen' /\ ~Numbering'
  BY <1>1, PlacesAre, PlacesWillBe
<1>4. PICK c \in Seq(Nat) : /\ descriptors = {Opened(logIndex, c)} /\ WrittenOK(c)
                            /\ OpenFile(logIndex) = Opened(logIndex, c)
                            /\ OpenFile(logIndex).content = c
  BY <1>3, LoggingFacts
<1>5. logIndex \in 1 .. MaxLogs /\ logIndex \in Files /\ logIndex # 0 /\ (~misread => NumbersFollow)
  BY <1>3, LoggingFacts
<1>6. PICK a \in Seq(Nat) : a = Append(c, h)
  BY <1>2, Appended
<1>7. descriptors' = {Opened(logIndex, a)}
  <2>1. descriptors' = (descriptors \ {Opened(logIndex, c)}) \cup {Opened(logIndex, a)}
    BY <1>6, <1>1, <1>4 DEF Write, Opened
  <2> QED
    BY <1>4, <2>1
<1>8. /\ a \in Seq(Nat) /\ Len(c) \in Nat /\ Len(a) = Len(c) + 1 /\ a[Len(c) + 1] = h
      /\ \A i \in 1 .. Len(c) : a[i] = c[i] /\ c[i] \in Nat
  BY <1>6, <1>2, Appended
<1>9. h <= sent /\ \A i \in 1 .. Len(c) : c[i] < h
  <2>1. 1 \in 1 .. Len(requests)
    BY <1>2
  <2>2. \A i \in 1 .. Len(c) : requests[1] # stopRecorderRequest => c[i] < requests[1]
    BY <1>4, <2>1 DEF WrittenOK
  <2> QED
    BY <1>1, <1>2, <2>1, <2>2 DEF LogsInv, RequestsOK
<1>10. Ascending(a)
  BY <1>6, <1>2, <1>4, <1>9, AppendedAscends DEF WrittenOK
<1>11. \A b \in Seq(Nat) : Begins(b, c) => Begins(b, a)
  BY <1>6, <1>2, AppendedBegins
<1>12. files[logIndex].content \in Seq(Nat)
  BY <1>5 DEF LogsInv, MediumOK
<1>13. SyncDue => files' = [files EXCEPT ![logIndex] = Holds(a)] /\ lastSync' = 0 /\ age' = 0
  BY <1>6, <1>4 DEF WriteRecord
<1>14. ~SyncDue => UNCHANGED <<files, lastSync, age>>
  BY DEF WriteRecord
<1> HIDE DEF h
<1>15. ~misread => Begins(files[logIndex].content, a)
  BY <1>4, <1>11, <1>12 DEF WrittenOK
<1>16. /\ MediumOK' /\ Grows /\ LastLog' = LastLog
       /\ ~misread => /\ Begins(files'[logIndex].content, a)
                      /\ \A i \in 1 .. MaxLogs : i > LastLog => files'[i].content = <<>>
  <2>1. CASE SyncDue
    <3>1. files' = [files EXCEPT ![logIndex] = Holds(a)]
      BY <1>13, <2>1
    <3>2. /\ MediumOK' /\ Grows /\ LastLog' = LastLog
          /\ files'[logIndex].content = a
          /\ ~misread => \A i \in 1 .. MaxLogs : i > LastLog => files'[i].content = <<>>
      BY <1>3, <1>8, <1>10, <1>15, <3>1, LogSynced
    <3> QED
      BY <1>8, <3>2, BeginsItself
  <2>2. CASE ~SyncDue
    <3>1. files' = files
      BY <1>14, <2>2
    <3> QED
      BY <1>5, <1>15, <3>1, MediumKept DEF NumbersFollow
  <2> QED
    BY <2>1, <2>2
<1>17. WrittenOK(a)'
  <2>1. ASSUME NEW i \in 1 .. Len(a)
        PROVE  /\ a[i] <= sent
               /\ \A j \in 1 .. Len(requests') : requests'[j] # stopRecorderRequest => a[i] < requests'[j]
    <3>1. CASE i = Len(c) + 1
      <4>1. ASSUME NEW j \in 1 .. Len(requests'), requests'[j] # stopRecorderRequest
            PROVE  h < requests'[j]
        <5>1. j + 1 \in 1 .. Len(requests) /\ 1 \in 1 .. (j + 1) - 1 /\ requests'[j] = requests[j + 1]
          BY <1>2
        <5>2. requests[j + 1] # stopRecorderRequest => requests[1] < requests[j + 1]
          BY <5>1 DEF LogsInv, RequestsOK
        <5> QED
          BY <1>2, <4>1, <5>1, <5>2
      <4> QED
        BY <1>8, <1>9, <3>1, <4>1
    <3>2. CASE i # Len(c) + 1
      <4>1. i \in 1 .. Len(c) /\ a[i] = c[i]
        BY <1>8, <3>2
      <4>2. ASSUME NEW j \in 1 .. Len(requests'), requests'[j] # stopRecorderRequest
            PROVE  c[i] < requests'[j]
        <5>1. j + 1 \in 1 .. Len(requests) /\ requests'[j] = requests[j + 1]
          BY <1>2
        <5> QED
          BY <1>4, <4>1, <4>2, <5>1 DEF WrittenOK
      <4> QED
        BY <1>4, <4>1, <4>2 DEF WrittenOK
    <3> QED
      BY <3>1, <3>2
  <2> QED
    BY <1>1, <1>8, <1>10, <1>16, <2>1 DEF WrittenOK
<1>18. DescriptorsOK'
  <2>1. descriptors' = {Opened(logIndex', a)}
    BY <1>1, <1>7
  <2> QED
    BY <1>3, <1>8, <1>17, <2>1 DEF DescriptorsOK
<1>19. NumbersOK'
  BY <1>1, <1>3, <1>5, <1>16 DEF LogsInv, NumbersOK, NumbersFollow
<1>20. AgesOK' /\ age' <= SyncInterval
  <2>1. CASE SyncDue
    BY <1>1, <1>3, <1>13, <2>1, LogNumbers DEF LogsInv, AgesOK, Late
  <2>2. CASE ~SyncDue
    BY <1>1, <1>3, <1>14, <2>2, LogNumbers DEF LogsInv, AgesOK, Late, SyncDue
  <2> QED
    BY <2>1, <2>2
<1>21. PlacesOK'
  BY <1>1, <1>3 DEF LogsInv, PlacesOK
<1> QED
  BY <1>2, <1>16, <1>18, <1>19, <1>20, <1>21 DEF LogsInv

LEMMA CloseLogKeeps == ASSUME LogsInv, NEW ok \in BOOLEAN, CloseLog(ok) PROVE LogsInv' /\ Grows
<1>1. /\ runAt \in {"failed", "stopped"}
      /\ runAt' = "idle" /\ recorderState' = "STATE_DISABLED" /\ age' = 0
      /\ UNCHANGED <<logIndex, requests, sent, lastSync, uptime, misread>>
      /\ Close(logIndex, ok)
  BY DEF CloseLog, RunEnds
<1>2. Logging /\ NothingOpen' /\ ~Numbering' /\ ~Logging'
  BY <1>1, PlacesAre, PlacesWillBe
<1>3. PICK c \in Seq(Nat) : /\ descriptors = {Opened(logIndex, c)} /\ WrittenOK(c)
                            /\ OpenFile(logIndex) = Opened(logIndex, c)
                            /\ OpenFile(logIndex).content = c
  BY <1>2, LoggingFacts
<1>4. logIndex \in 1 .. MaxLogs /\ (~misread => NumbersFollow)
  BY <1>2, LoggingFacts
<1>5. descriptors' = {}
  BY <1>1, <1>3 DEF Close
<1>6. /\ MediumOK' /\ Grows /\ LastLog' = LastLog
      /\ ~misread => \A i \in 1 .. MaxLogs : i > LastLog => files'[i].content = <<>>
  <2>1. CASE ok
    <3>1. files' = [files EXCEPT ![logIndex] = Holds(c)]
      BY <1>1, <1>3, <2>1 DEF Close, Sync
    <3>2. Ascending(c) /\ (~misread => Begins(files[logIndex].content, c))
      BY <1>3 DEF WrittenOK
    <3> QED
      BY <1>2, <3>1, <3>2, LogSynced
  <2>2. CASE ~ok
    <3>1. files' = files
      BY <1>1, <2>2 DEF Close
    <3> QED
      BY <1>4, <3>1, MediumKept DEF NumbersFollow
  <2> QED
    BY <2>1, <2>2
<1>7. RequestsOK'
  BY <1>1 DEF LogsInv, RequestsOK
<1>8. DescriptorsOK'
  BY <1>2, <1>5 DEF DescriptorsOK
<1>9. NumbersOK'
  BY <1>1, <1>2, <1>6 DEF LogsInv, NumbersOK, NumbersFollow
<1>10. AgesOK' /\ PlacesOK'
  BY <1>1, <1>2, LogNumbers DEF LogsInv, AgesOK, PlacesOK, Late
<1> QED
  BY <1>6, <1>7, <1>8, <1>9, <1>10 DEF LogsInv

LEMMA LogTimePassesKeeps == ASSUME LogsInv, TimePasses PROVE LogsInv' /\ Grows
<1>1. /\ UNCHANGED <<files, descriptors, recorderState, runAt, logIndex, requests, sent, misread>>
      /\ uptime' = Min({uptime + 1, Late}) /\ lastSync' = Min({lastSync + 1, Late})
      /\ age' = IF \E d \in descriptors : d.name = logIndex /\ d.content # files[logIndex].content
                THEN Min({age + 1, Late + 1}) ELSE 0
  BY DEF TimePasses, run
<1>2. /\ NothingOpen' <=> NothingOpen
      /\ Numbering' <=> Numbering
      /\ Logging' <=> Logging
  BY <1>1 DEF NothingOpen, Numbering, Logging
<1>3. MediumOK' /\ Grows /\ LastLog' = LastLog
  BY <1>1, MediumKept
<1>4. RequestsOK' /\ PlacesOK'
  BY <1>1, <1>2 DEF LogsInv, RequestsOK, PlacesOK
<1>5. DescriptorsOK'
  BY <1>1, <1>2 DEF LogsInv, DescriptorsOK, WrittenOK, LASTLOG_FILE
<1>6. NumbersOK'
  BY <1>1, <1>2, <1>3 DEF LogsInv, NumbersOK, NumbersFollow
<1>7. \A x, y \in Nat : Min({x, y}) = IF x <= y THEN x ELSE y
  BY DEF Min
<1>8. /\ uptime \in Nat /\ lastSync \in Nat /\ age \in Nat /\ Late \in Nat /\ Late = SyncInterval + 1
      /\ lastSync <= SyncInterval => age <= lastSync
  BY LogNumbers DEF LogsInv, AgesOK
<1>9. /\ uptime' \in 0 .. Late /\ lastSync' \in 0 .. Late
      /\ lastSync' = IF lastSync <= SyncInterval THEN lastSync + 1 ELSE Late
  <2>1. uptime' = IF uptime + 1 <= Late THEN uptime + 1 ELSE Late
    BY <1>1, <1>7, <1>8
  <2>2. lastSync' = IF lastSync + 1 <= Late THEN lastSync + 1 ELSE Late
    BY <1>1, <1>7, <1>8
  <2>3. lastSync <= Late
    BY LogNumbers DEF LogsInv, AgesOK
  <2> QED
    BY <1>8, <2>1, <2>2, <2>3, LogNumbers
<1>10. age' = 0 \/ age' = Min({age + 1, Late + 1})
  BY <1>1
<1>11. Min({age + 1, Late + 1}) \in 0 .. Late + 1 /\ Min({age + 1, Late + 1}) <= age + 1
  BY <1>7, <1>8
<1>12. age' \in 0 .. Late + 1 /\ (lastSync' <= SyncInterval => age' <= lastSync')
  <2>1. age' \in 0 .. Late + 1 /\ age' <= age + 1
    BY <1>8, <1>10, <1>11
  <2> QED
    BY <1>8, <1>9, <2>1, LogNumbers
<1>13. ~Logging => age' = 0
  <2> SUFFICES ASSUME ~Logging, NEW d \in descriptors PROVE d.name # logIndex
    BY <1>1
  <2>1. Numbering /\ d = Opened(LASTLOG_FILE, IF runAt = "close" THEN <<logIndex>> ELSE <<>>)
    BY DEF LogsInv, PlacesOK, DescriptorsOK
  <2> QED
    BY <2>1, LogNumbers DEF LogsInv, NumbersOK, Opened
<1>14. AgesOK'
  <2>1. uptime' \in 0 .. Late' /\ lastSync' \in 0 .. Late' /\ age' \in 0 .. Late' + 1
    BY <1>9, <1>12 DEF Late
  <2> QED
    BY <1>2, <1>12, <1>13, <2>1 DEF AgesOK
<1> QED
  BY <1>3, <1>4, <1>5, <1>6, <1>14 DEF LogsInv

LEMMA PowerFailsKeeps == ASSUME LogsInv, PowerFails PROVE LogsInv' /\ Grows
<1>1. /\ descriptors' = {} /\ requests' = <<>>
      /\ recorderState' = "STATE_DISABLED" /\ runAt' = "idle" /\ logIndex' = 0
      /\ lastSync' = 0 /\ uptime' = 0 /\ age' = 0
      /\ UNCHANGED <<files, sent, misread>>
  BY DEF PowerFails
<1>2. NothingOpen' /\ ~Numbering' /\ ~Logging'
  BY <1>1, PlacesWillBe
<1>3. MediumOK' /\ Grows /\ LastLog' = LastLog
  BY <1>1, MediumKept
<1>4. RequestsOK'
  BY <1>1, RequestsCleared
<1>5. DescriptorsOK'
  BY <1>1, <1>2 DEF DescriptorsOK
<1>6. NumbersOK'
  BY <1>1, <1>2, <1>3, LogNumbers DEF LogsInv, NumbersOK, NumbersFollow
<1>7. AgesOK' /\ PlacesOK'
  BY <1>1, <1>2, LogNumbers DEF LogsInv, AgesOK, PlacesOK, Late
<1> QED
  BY <1>3, <1>4, <1>5, <1>6, <1>7 DEF LogsInv

LEMMA LogsStep ==
    ASSUME LogsInv, [LogFilesNext]_logVars
    PROVE  LogsInv' /\ Grows /\ (WriteRecord => age' <= SyncInterval)
<1>1. CASE LogFilesNext
  BY <1>1, RunStartsKeeps, StatLastLogKeeps, OpenLastLogKeeps, WriteLastLogKeeps, CloseLastLogKeeps,
     OpenLogKeeps, CloseLogKeeps, ReadLastLogKeeps, CallbacksDoneKeeps, SendRecordKeeps, SendSentinelKeeps,
     WriteRecordKeeps, LoopMovesKeep, LogTimePassesKeeps, PowerFailsKeeps DEF LogFilesNext
<1>2. CASE UNCHANGED logVars
  <2>1. /\ UNCHANGED <<files, descriptors, recorderState, runAt, logIndex, requests, sent>>
        /\ UNCHANGED <<lastSync, uptime, age, misread>>
    BY <1>2 DEF logVars, run, times
  <2>2. RequestsOK' /\ NewRequests /\ sent <= sent'
    <3>1. \A m \in 1 .. Len(requests) : requests[m] \in Nat
      BY ElementOfSeq DEF LogsInv, RequestsOK
    <3> QED
      BY <2>1, <3>1, LogsNumbered DEF LogsInv, RequestsOK, NewRequests
  <2>3. recorderState' \in {"STATE_DISABLED", "STATE_STARTING", "STATE_RUNNING"}
    BY <2>1 DEF LogsInv, PlacesOK
  <2>4. RunMove
    BY <2>1, <2>2, <2>3 DEF RunMove
  <2>5. LogsInv' /\ Grows
    BY <2>4, RunMoves
  <2> QED
    BY <2>5, WriteRecordKeeps
<1> QED
  BY <1>1, <1>2

LEMMA LogsInvImplies == ASSUME LogsInv PROVE LogFilesTypeOK /\ BufferHasOneUser /\ LogsInOrder
<1>1. PICK d : descriptors = {} \/ (descriptors = {d} /\ d.name \in Files)
  <2>1. CASE NothingOpen
    BY <2>1 DEF LogsInv, DescriptorsOK
  <2>2. CASE Numbering
    <3>1. LASTLOG_FILE \in Files
      BY LogNumbers
    <3> QED
      BY <2>2, <3>1 DEF LogsInv, DescriptorsOK, Opened
  <2>3. CASE Logging
    BY <2>3, LoggingFacts DEF Opened
  <2> QED
    BY <2>1, <2>2, <2>3 DEF LogsInv, PlacesOK
<1>2. BufferHasOneUser
  <2>1. Cardinality({}) = 0 /\ Cardinality({d}) = 1
    BY FS_EmptySet, FS_Singleton
  <2>2. runAt \in {"idle", "stat", "read", "update", "open"} => descriptors = {}
    BY PlacesAre DEF LogsInv, DescriptorsOK
  <2> QED
    BY <1>1, <2>1, <2>2 DEF BufferHasOneUser
<1>3. LogFilesTypeOK
  <2>1. \A f \in descriptors : f.name \in Files
    BY <1>1
  <2>2. {lastSync, uptime, age} \subseteq 0 .. Late + 1
    BY LogNumbers DEF LogsInv, AgesOK
  <2> QED
    BY <2>1, <2>2 DEF LogsInv, MediumOK, RequestsOK, NumbersOK, PlacesOK, LogFilesTypeOK
<1> QED
  BY <1>2, <1>3 DEF LogsInv, MediumOK

LEMMA GrowsImplies == ASSUME LogsInv, LogsInv', Grows PROVE misread \/ LogsOnlyGrow
<1> SUFFICES ASSUME ~misread, NEW i \in 1 .. MaxLogs
             PROVE  LET before == files[i].content  after == files'[i].content
                    IN  Len(after) >= Len(before) /\ SubSeq(after, 1, Len(before)) = before
  BY DEF LogsOnlyGrow
<1>1. PICK b \in Seq(Nat) : b = files[i].content
  BY LogNumbers DEF LogsInv, MediumOK
<1>2. PICK a \in Seq(Nat) : a = files'[i].content
  <2>1. files' \in [Files -> [exists : BOOLEAN, content : Seq(Nat)]]
    BY DEF LogsInv, MediumOK, Files, LASTLOG_FILE
  <2> QED
    BY <2>1, LogNumbers
<1>3. Len(b) <= Len(a) /\ \A j \in 1 .. Len(b) : a[j] = b[j]
  BY <1>1, <1>2 DEF Grows, Begins
<1>4. Len(b) \in Nat /\ Len(a) \in Nat /\ \A j \in 1 .. Len(b) : b[j] \in Nat
  BY ElementOfSeq, LenProperties
<1> DEFINE s == SubSeq(a, 1, Len(b))
<1>5. /\ s \in Seq(Nat) /\ Len(s) = (IF 1 <= Len(b) THEN Len(b) - 1 + 1 ELSE 0)
      /\ \A j \in 1 .. Len(b) - 1 + 1 : s[j] = a[1 + j - 1]
  BY <1>3, <1>4, SubSeqProperties
<1> HIDE DEF s
<1>6. Len(s) = Len(b) /\ \A j \in 1 .. Len(b) : s[j] = b[j]
  BY <1>3, <1>4, <1>5
<1>7. s = b
  BY <1>5, <1>6, SeqEqual
<1> QED
  BY <1>1, <1>2, <1>3, <1>4, <1>7 DEF s

LEMMA LogsPartNext == [FlightNext]_flightVars => [LogFilesNext]_logVars
BY DEF FlightNext, flightVars, Only

(* For any number of logs and records, any limit of the queue and any sync *)
(* interval, with failures of every operation and of the power: one file   *)
(* is open at a time, records are on the medium in the order in which they *)
(* were sent, no run touches the log of an earlier one as long as the      *)
(* number is read and stored as it should be, and what is written leaves   *)
(* no older record behind for longer than the sync interval.               *)
THEOREM LogsCorrect == FlightSpec => LogsRight
<1>1. FlightInit => LogsInv
  BY LogsInit DEF FlightInit
<1>2. LogsInv /\ [FlightNext]_flightVars => LogsInv'
  BY LogsStep, LogsPartNext
<1>3. LogsInv => LogFilesTypeOK /\ BufferHasOneUser /\ LogsInOrder
  BY LogsInvImplies
<1>4. LogsInv /\ LogsInv' /\ [FlightNext]_flightVars => [misread \/ LogsOnlyGrow]_logVars
  BY LogsStep, LogsPartNext, GrowsImplies
<1>5. LogsInv /\ [FlightNext]_flightVars => [WriteRecord => age' <= SyncInterval]_logVars
  BY LogsStep, LogsPartNext
<1> QED
  BY <1>1, <1>2, <1>3, <1>4, <1>5, PTL DEF FlightSpec, LogsRight, LogsKept, OldRecordsAreDurable
=============================================================================
