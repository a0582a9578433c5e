------------------------------ MODULE MCFlight ------------------------------
(***************************************************************************)
(* The logic that a flight drives.  A behaviour is one of these sessions:  *)
(*   "commands" the mission clock beside the ideal stopwatch, with ground  *)
(*              control as its only caller;                                *)
(*   "signals"  the voters of two signals under any samples;               *)
(*   "lcls"     a broken LCL and one that triggers at any time;            *)
(*   "logs"     the log files of a recorder, with failures of the          *)
(*              filesystem and of the power.                               *)
(* The parts of the program that a session does not look at stand still.   *)
(***************************************************************************)
EXTENDS MissionStopwatch, RxsmSignals, LclAutoReset, LogFiles

(* The two signals that wasBootedAfterLiftoff() looks at. *)
MCOrder == <<"LO", "SODS">>

VARIABLE session

stopwatchVars == <<stopwatch, counting>>
flightVars == <<session, vars, stopwatchVars, rxsmVars, lclSystemVars, logVars>>

Sessions == {"commands", "signals", "lcls", "logs"}

Only(s) ==
    /\ session = s /\ UNCHANGED session
    /\ s # "commands" => UNCHANGED <<vars, stopwatchVars>>
    /\ s # "signals" => UNCHANGED rxsmVars
    /\ s # "lcls" => UNCHANGED lclSystemVars
    /\ s # "logs" => UNCHANGED logVars

FlightInit ==
    /\ session \in Sessions
    /\ SwInit /\ RxsmInit /\ LclSystemInit /\ LogFilesInit
    /\ booted => session = "commands"

FlightNext ==
    \/ Only("commands") /\ SwNext
    \/ Only("signals") /\ RxsmNext
    \/ Only("lcls") /\ LclSystemNext
    \/ Only("logs") /\ LogFilesNext

(* The fairness of the modules, each in its session.                       *)
FlightFairness ==
    /\ WF_lclSystemVars(session = "lcls" /\ LclMissionTask)
    /\ WF_lclSystemVars(session = "lcls" /\ ResetCommandDone)
    /\ WF_lclSystemVars(session = "lcls" /\ LclTick)
    /\ \A l \in Broken : WF_lclSystemVars(session = "lcls" /\ Overcurrent(l))

FlightSpec == FlightInit /\ [][FlightNext]_flightVars /\ FlightFairness
---------------------------------------------------------------------------
(* With ground control as its only caller the scheduler's clock shows what *)
(* the ideal stopwatch shows, whatever was started, stopped and reset.     *)
ClockIsStopwatch == session = "commands" => StopwatchAgrees

(* The signals: the vote that update() reads from the magic number is the  *)
(* majority of the last five samples, a time stamp moves only with a vote  *)
(* that turns on, and a boot in flight is recognised early or never.       *)
SignalsTrue ==
    [](RxsmTypeOK /\ VoteIsMajority) /\ EdgesMoveOnChange /\ RecognisedEarly

(* The LCLs: overlapping pulses release every pin, no LCL is given up      *)
(* before the allowed number of resets since liftoff, and one that         *)
(* triggers again and again is not reset more often than that.             *)
LclsRight == LclTypeOK /\ PinsReleased /\ NoEarlyGiveUp /\ ResetsLimited

(* The logs: no run touches the log of an earlier one as long as the      *)
(* number in LASTLOG.TXT is read and stored, records are on the medium in  *)
(* the order they were sent, and what is written leaves no record behind   *)
(* that is older than the sync interval.                                   *)
LogsRight ==
    [](LogFilesTypeOK /\ BufferHasOneUser /\ LogsInOrder) /\ LogsKept /\ OldRecordsAreDurable

(* An LCL that the logic follows and that has triggered is reset or given  *)
(* up, and a broken one is given up in a liftoff that does not end.        *)
LclsFollowed == TriggeredIsReset /\ BrokenGivenUp
=============================================================================
