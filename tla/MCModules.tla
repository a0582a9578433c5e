----------------------------- MODULE MCModules -----------------------------
(***************************************************************************)
(* The modules above the buses: the drivers of the memories, the sensors   *)
(* and detectors, the parser of frames and the command task behind it, the *)
(* error flags, the supervisor and the watchdog.  A behaviour is about one *)
(* part; the others stand still.                                           *)
(***************************************************************************)
EXTENDS FlashMemory, SdCard, SensorChips, ImuCalibration, Scintillators, GeigerCounters,
        FrameParser, CommandIntake, ErrorFlags, Supervisor, Watchdog

VARIABLE part

modulesVars == <<part, flashVars, sdVars, sensorVars, calVars, scmVars, gmmVars, parserVars,
                 intakeVars, errorVars, supervisorVars, watchdogVars>>

(* How often each step of the initialization of an SD card is tried. *)
MCTries == [reset |-> 11, if_cond |-> 6, op_cond |-> 20, ocr |-> 6, csd |-> 21]

(* The registers of the LIS331DL are in one bank, and those of the         *)
(* ICM-20649 in four; the fields of the MLX90393 with the words they are in.*)
MCImu == {<<0, 0>>, <<0, 2, 2>>}
MCMag == <<[word |-> 2], [word |-> 1], [word |-> 3], [word |-> 3], [word |-> 2]>>

(* Pairs of histograms: long runs of zeros, and counts of every size. *)
MCMeasurements == {<< <<0, 0, 70>>, <<70000, 0, 1>> >>, << <<5, 0, 0>>, <<0, 3, 0>> >>}

(* A message that is obeyed, two that run into the next case and one that  *)
(* is cut short.                                                           *)
MCKinds ==
    {[type |-> k[1], source |-> k[2], target |-> "ONBOARD_COMPUTER", payload |-> k[3]] :
       k \in {<<"LCL_RESET", "GROUND_STATION", "ok">>, <<"LCL_RESET", "OTHER", "echo">>,
              <<"RESET", "GROUND_STATION", "ok">>, <<"DEBUG", "OTHER", "short">>}}

Parts == {"flash", "sd", "imu", "mag", "adc", "calibration", "scm", "gmm", "parser", "intake",
          "errors", "supervisor", "watchdog"}

Only(p) ==
    /\ part = p /\ UNCHANGED part
    /\ p # "flash" => UNCHANGED flashVars
    /\ p # "sd" => UNCHANGED sdVars
    /\ p \notin {"imu", "mag", "adc"} => UNCHANGED sensorVars
    /\ p # "calibration" => UNCHANGED calVars
    /\ p # "scm" => UNCHANGED scmVars
    /\ p # "gmm" => UNCHANGED gmmVars
    /\ p # "parser" => UNCHANGED parserVars
    /\ p # "intake" => UNCHANGED intakeVars
    /\ p # "errors" => UNCHANGED errorVars
    /\ p # "supervisor" => UNCHANGED supervisorVars
    /\ p # "watchdog" => UNCHANGED watchdogVars

(* Each sensor is the only one, and shares the bus with none. *)
Imu == Only("imu") /\ SensorNext /\ UNCHANGED <<magVars, adcVars>>
Mag == Only("mag") /\ SensorNext /\ UNCHANGED <<imuVars, adcVars>>
Adc == Only("adc") /\ SensorNext /\ UNCHANGED <<imuVars, magVars>>

(* Bound: after two calls have overlapped, the storage task calls no more, *)
(* and the SD card is not called at all.  A raw read is of one block.      *)
Flash ==
    /\ Only("flash") /\ FlashNext
    /\ overlapped /\ At("raw", "idle") => flashTask'["raw"] = flashTask["raw"]
Sd ==
    /\ Only("sd") /\ SdNext
    /\ sdTask'["raw"].left <= 1
    /\ \A t \in SdTasks : sdOverlap /\ SdAt(t, "idle") => sdTask'[t] = sdTask[t]

(* What a session does not look at has one value. *)
ModulesInit ==
    /\ part \in Parts
    /\ FlashInit /\ SdCardInit /\ SensorInit /\ CalInit /\ ScmInit /\ GmmInit /\ ParserInit
    /\ IntakeInit /\ ErrorsInit /\ SupervisorInit /\ WatchdogInit
    /\ part # "sd" => cardKind = "empty"
    /\ part # "imu" => fitted = <<0, 0>>
    /\ part # "errors" => ~errorLed

ModulesNext ==
    \/ Flash \/ Sd
    \/ Imu \/ Mag \/ Adc
    \/ Only("calibration") /\ CalNext
    \/ Only("scm") /\ ScmNext
    \/ Only("gmm") /\ GmmNext
    \/ Only("parser") /\ ParserNext
    \/ Only("intake") /\ IntakeNext
    \/ Only("errors") /\ ErrorsNext
    \/ Only("supervisor") /\ SupervisorNext
    \/ Only("watchdog") /\ WatchdogNext

(* The fairness of the modules, each in its own session. *)
ModulesFairness ==
    /\ WF_flashVars(part = "flash" /\ ChipReady)
    /\ \A t \in FlashTasks : SF_flashVars(part = "flash" /\ FlashTaskStep(t))
    /\ WF_sdVars(part = "sd" /\ SdProbeStep)
    /\ \A t \in SdTasks : WF_sdVars(part = "sd" /\ SdTaskStep(t))
    /\ WF_sensorVars(part = "imu" /\ ImuStep /\ UNCHANGED <<fitted, magVars, adcVars>>)
    /\ WF_intakeVars(part = "intake" /\ CmdTaskStep)
    /\ WF_supervisorVars(part = "supervisor" /\ SupervisorStep)
    /\ WF_watchdogVars(part = "watchdog" /\ SecondPasses)
    /\ WF_watchdogVars(part = "watchdog" /\ WatchdogFires)

ModulesSpec == ModulesInit /\ [][ModulesNext]_modulesVars /\ ModulesFairness
---------------------------------------------------------------------------
(* The memories: what littlefs is told was written, read or erased is what *)
(* the chips hold, through failed transfers, retries and the block cache,  *)
(* and only a card that can hold it all is used.                           *)
MemoriesRight ==
    /\ part = "flash" => FlashTypeOK /\ FlashDoesAsTold /\ LoneCallsAreClean
    /\ part = "sd" => SdTypeOK /\ OnlyLargeCards /\ SdDoesAsTold

(* The sensors: one whose task runs is fully configured whatever failed    *)
(* before, values that are reported together are from one scan, and the    *)
(* results of a calibration are means of enough samples of the right side. *)
SensorsRight ==
    /\ part \in {"imu", "mag", "adc"} => SensorTypeOK /\ RunningIsConfigured /\ ScansAreWhole
    /\ part = "calibration" => CalTypeOK /\ OffsetOfEnoughSamples /\ ExtremaOfTheirSide

(* The scintillators: a histogram that is reported was measured, and       *)
(* unpacks to itself.                                                      *)
MeasurementsRight ==
    [](part = "scm" => ScmTypeOK /\ FragmentsUnpack) /\ ReportsAreMeasured

(* The parsers of byte streams.  A frame that is reported was received     *)
(* with its checksum, and a parser that hunts finds every frame that comes *)
(* next.  Counts keep the time of their sentence, and a sentence in one    *)
(* piece is reported after any garbage.                                    *)
StreamsParsed ==
    /\ part = "parser" => ParserTypeOK /\ ReportedWasSent /\ HuntingFindsNext
    /\ part = "gmm" => GmmTypeOK /\ CountsHaveTheirTime /\ WholeSentencesReported

(* Commands: each frame is parsed once and on its UART, only ground control*)
(* is obeyed, and no payload is lost but those of refused messages.        *)
CommandsRight ==
    [](part = "intake" => IntakeTypeOK /\ PayloadsAccounted) /\ OnlyGroundIsObeyed /\ ParsedAsReceived

(* The error flags: the single code and the indicator agree with the set   *)
(* of codes, in which nobody undoes the changes of another.                *)
ErrorsRight ==
    [](part = "errors" => ErrorsTypeOK /\ ErrorsAgree) /\ OthersCodesKept

(* Supervision: a task that stopped is reported by the second check, the   *)
(* watchdog spares a board whose tasks run, and after a reset the crash    *)
(* that is reported is the one that happened.                              *)
SupervisionRight ==
    /\ [](part = "supervisor" => SupervisorTypeOK /\ StalledIsReported)
    /\ [](part = "watchdog" => WatchdogTypeOK /\ ReportIsTrue)
    /\ WatchdogSparesTheLiving

(* What must come comes: the ends of all calls of the memories, the reset  *)
(* of a board that hangs with its watchdog on, the report of a task that   *)
(* stands still, the handling of a queued command, and the retry of a      *)
(* one-bank IMU.                                                           *)
ModulesMoveOn ==
    /\ FlashCallsEnd
    /\ part = "sd" => SdCallsEnd
    /\ WatchedErrorsReset /\ CommandsTaken
    /\ part = "supervisor" => StallsAreFound
    /\ part = "imu" => OneBankIsRetried
=============================================================================
