------------------------------- MODULE MCGround -------------------------------
(***************************************************************************)
(* What ground control and the engineer at the debug port see.  A          *)
(* behaviour is one of these sessions, and what it does not look at stands *)
(* still:                                                                  *)
(*   "reports"  the reports of the telemetry task;                         *)
(*   "texts"    the text messages of several tasks;                        *)
(*   "frames"   a frame of every kind, written, cut off and read;          *)
(*   "debug"    the debug connection and the mode of operation.            *)
(***************************************************************************)
EXTENDS FrameCodecs, LogMessages, DebugPort, TelemetryReports

VARIABLE session

groundVars == <<session, reportVars, messageVars, codecVars, debugVars>>

Only(s) ==
    /\ session = s /\ UNCHANGED session
    /\ s # "reports" => UNCHANGED reportVars
    /\ s # "texts" => UNCHANGED messageVars
    /\ s # "frames" => UNCHANGED codecVars
    /\ s # "debug" => UNCHANGED debugVars

(* The table of reports: their order is that of the source, and a period   *)
(* is a number of passes that still tells the reports apart.               *)
MCReports == <<"heartbeat", "clock">>
MCPeriod == [heartbeat |-> 2, clock |-> 3]

(* A few of the data of every frame, with what is at the limit of its field*)
(* or beyond what the enumerations know.                                   *)
MCWords == {<<1, 2, 3, 4>>, <<255, 254, 253, 127>>}
MCBytes(n) == [i \in 1..n |-> i]
MCTexts(n) == {<<>>, <<7>>, <<7, 8, 9>>, MCBytes(n)}
MCLengths == {1, MaxReadLength - 1, MaxReadLength}
MCVectors == {<<v, w, v>> : v \in MCWords, w \in MCWords}

MCFrameData ==
    [ACK |-> [frame_type : {6, 12}, seq_no : {0, 255}, result : 0..5, error : MCWords, value : MCWords],
     BINARY_DATA |-> [frame_type : {12}, seq_no : {9}, max : {0, 1, 255}, index : {0, 1, 255},
                      data : MCTexts(MaxPayload - 4)],
     DIRECTORY_ENTRY |-> [frame_type : {11}, seq_no : {9}, max : {0, 1, 255}, index : {0, 1, 255},
                          name : MCTexts(MaxPayload - 5)],
     ECHO |-> [isReply : {0, 1}, data : MCTexts(MaxPayload - 1)],
     CALIBRATION |-> [procedure : 0..NumProcedures],
     DEBUG |-> [command : 0..NumDebugCommands],
     CLOCK_SYNC |-> {[timestamp |-> v \o w] : v \in MCWords, w \in MCWords},
     LCL_RESET |-> [lcls : {0, 1, 32, 63, 64, 255}],
     DIRECTORY_LISTING |-> [area : 0..3, first : {0, 258}, count : {0, 255, 256, 257, 513},
                            name : MCTexts(MaxPayload - 5)],
     FILE_DOWNLOAD |-> [area : 0..3, start : MCWords, length : MCLengths, path : MCTexts(MaxPayload - 7)],
     STORAGE |-> [area : 0..3, command : 0..NumStorageCommands, offset : MCWords, length : MCLengths],
     ADC |-> [timestamp : MCWords,
              measurements : {[i \in 1..13 |-> Unit(i) * k * i + 3] : k \in {0, 1, 300, 5000}}],
     CLOCK_STATUS |-> [timestamp : MCWords, missionClock : MCWords, rtc : {MCBytes(8)}, liftoff : MCWords,
                       running : BOOLEAN, liftoffHappened : BOOLEAN],
     GMM |-> [timestamp : MCWords, hitCounts : {MCBytes(10), [i \in 1..10 |-> 255]}],
     IMU |-> [timestamp : MCWords, acceleration : MCVectors, angularVelocity : MCVectors],
     MAG |-> [timestamp : MCWords, field : MCVectors,
              temperature : {-273000, -200000, -19999, -1, 0, 25004, 300000, 300001}],
     SCM |-> [timestamp : MCWords, max : {0, 3}, index : {0, 3}, scintillator : 0..2,
              data : MCTexts(MaxPayload - 7)],
     TEXT_MESSAGE |-> [level : 0..7, module : 0..7, message : MCTexts(MaxPayload - 1)],
     HEARTBEAT |->
         [timestamp : {MCBytes(4)}, errorCode : {255}, mode : {"mission", "testing"},
          voltage : {-3, 0, 494, 495, 2549, 3000},
          temperature : {-20000, -3050, -149, 0, 8549, 12650, 20000},
          rxsm : {<<TRUE, FALSE, FALSE>>, <<FALSE, TRUE, TRUE>>},
          subsystems : {<<3, 2, 1, 0, 3, 2>>, <<0, 3, 3, 3, 0, 1>>},
          lcls : {<<TRUE, FALSE, FALSE, TRUE, FALSE, TRUE>>, <<FALSE, TRUE, TRUE, FALSE, TRUE, FALSE>>}]]

GroundInit ==
    /\ session \in {"reports", "texts", "frames", "debug"}
    /\ ReportsInit /\ MessagesInit /\ CodecInit /\ DebugPortInit

GroundNext ==
    \/ Only("reports") /\ ReportsNext
    \/ Only("texts") /\ MessagesNext
    \/ Only("frames") /\ CodecNext
    \/ Only("debug") /\ DebugPortNext

(* The fairness of the modules, each in its session.                       *)
GroundFairness ==
    /\ WF_reportVars(session = "reports" /\ RunPass)
    /\ \A w \in Waiters : /\ SF_debugVars(session = "debug" /\ Lock(w))
                          /\ WF_debugVars(session = "debug" /\ Accept(w))
                          /\ SF_debugVars(session = "debug" /\ Unlock(w))
    /\ WF_debugVars(session = "debug" /\ StopReading)
    /\ WF_debugVars(session = "debug" /\ DebugTask)
    /\ WF_debugVars(session = "debug" /\ QueueReport)
    /\ WF_debugVars(session = "debug" /\ WriteReport)
    /\ SF_debugVars(session = "debug" /\ WriteToGone)
    /\ WF_debugVars(session = "debug" /\ UpdateMode)

GroundSpec == GroundInit /\ [][GroundNext]_groundVars /\ GroundFairness
---------------------------------------------------------------------------
(* What is received as telemetry is what was meant: a whole frame is read  *)
(* as it was written, and a text that no other logger disturbs is sent,    *)
(* and always recorded, as the task logged it.                             *)
MessagesRight == FramesAgree /\ TextsIntact

(* What ground control and the engineer see follows what happens: an LCL   *)
(* that stays as it is shows in a heartbeat; telemetry and the mode of     *)
(* operation follow the debug connection, a new client gets in, and the    *)
(* telemetry link is read.                                                 *)
GroundFollows ==
    /\ HeartbeatFollows
    /\ [](DebugPortTypeOK /\ PortAgrees)
    /\ ChannelFollows /\ ModeFollows /\ NextClientAccepted /\ TelemetryLinkRead
=============================================================================
