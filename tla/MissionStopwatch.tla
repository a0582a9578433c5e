-------------------------- MODULE MissionStopwatch --------------------------
(***************************************************************************)
(* The mission clock beside an ideal stopwatch, which starts when start()  *)
(* reads the time, stops when stop() writes it down, and goes back to zero *)
(* when reset() stores the new start time.                                 *)
(***************************************************************************)
EXTENDS MissionClock

VARIABLES
    stopwatch,  \* what the clock should show
    counting    \* whether it should run

(* Some caller goes from one place to the next in this step. *)
Moves(from, to) == \E t \in Callers : pc[t] = from /\ pc'[t] = to

SwInit == Init /\ stopwatch = 0 /\ counting = FALSE

SwNext ==
    /\ Next
    /\ counting' = ((counting \/ Moves("startLoad", "startStore"))
                       /\ ~Moves("stopStore", "stopRun"))
    /\ stopwatch' =
         IF Moves("resetStarted", "resetStopped")
         THEN IF isClockRunning THEN time - startedAt' ELSE 0
         ELSE IF counting THEN stopwatch + (time' - time) ELSE stopwatch

SwSpec == SwInit /\ [][SwNext]_<<vars, stopwatch, counting>>

(* When no task is inside one of the methods of the scheduler, the clock   *)
(* shows how long it has been running since it was last reset, however     *)
(* often it was stopped and started in between.                            *)
StopwatchAgrees ==
    (\A t \in Callers : pc[t] = "idle") =>
        /\ isClockRunning = counting
        /\ Elapsed = stopwatch
=============================================================================
