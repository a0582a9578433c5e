---------------------------- MODULE DriverProofs ----------------------------
(***************************************************************************)
(* Proofs about the drivers of the sensors and of the memories, and about  *)
(* the parser of frames.  As in ModulesProofs, a step of one part leaves   *)
(* the others alone, so the invariant of each part is inductive for the    *)
(* steps of all of them.                                                   *)
(***************************************************************************)
EXTENDS MCModules, SequenceTheorems, WellFoundedInduction, TLAPS

---------------------------------------------------------------------------
(* The sensors: the IMU *)

LEMMA SensorNumbers ==
    /\ MagTries \in Nat \ {0} /\ AdcTries \in Nat \ {0} /\ MaxSpiFaults \in Nat \ {0}
    /\ MaxScans \in Nat \ {0} /\ Channels \in Nat \ {0}
    /\ \A config \in ImuConfigs :
          Len(config) \in Nat /\ Len(config) >= 1 /\ \A i \in 1 .. Len(config) : config[i] \in 0 .. 3
    /\ Len(MagFields) \in Nat /\ DOMAIN MagFields = 1 .. Len(MagFields)
  BY SensorAssumption

(* While the IMU is being configured its driver is right about the bank    *)
(* that is selected, and the entries before the next one are held.  The    *)
(* chip may hold more, from a configuration that was not completed.        *)
ImuInv ==
    /\ fitted \in ImuConfigs
    /\ imu \in [at : {"who", "configure", "runs", "waits"}, entry : 1 .. Len(fitted) + 1, bank : Nat]
    /\ imuChip \in [bank : 0 .. 3, holds : SUBSET (1 .. Len(fitted))]
    /\ imu.at = "configure" => /\ imu.bank # NoBank => imuChip.bank = imu.bank
                               /\ 1 .. imu.entry - 1 \subseteq imuChip.holds
    /\ imu.at = "runs" => imuChip = [bank |-> 0, holds |-> 1 .. Len(fitted)]

ImuSteps == (ImuStep \/ ImuFault) /\ UNCHANGED fitted

LEMMA ImuInvInit == SensorInit => ImuInv
<1> SUFFICES ASSUME SensorInit PROVE ImuInv
  OBVIOUS
<1>1. fitted \in ImuConfigs /\ Len(fitted) \in Nat
  BY SensorNumbers DEF SensorInit
<1> QED
  BY <1>1 DEF SensorInit, ImuInit, ImuInv, NoBank

(* A write while the bank is right puts the entry into its register.       *)
LEMMA EntryHeld ==
    ASSUME ImuInv, imu.at = "configure", imu.entry <= Len(fitted)
    PROVE  /\ fitted[imu.entry] \in 0 .. 3 /\ fitted[imu.entry] # NoBank
           /\ HeldAfterWrite \subseteq {imu.entry}
           /\ fitted[imu.entry] = imu.bank => HeldAfterWrite = {imu.entry}
           /\ imu.entry \in 1 .. Len(fitted)
<1>1. fitted[imu.entry] \in 0 .. 3 /\ imu.entry \in 1 .. Len(fitted)
  BY SensorNumbers DEF ImuInv
<1> QED
  BY <1>1 DEF ImuInv, HeldAfterWrite, NoBank

LEMMA ImuInvNext == ImuInv /\ ImuSteps => ImuInv'
<1> SUFFICES ASSUME ImuInv, ImuSteps PROVE ImuInv'
  OBVIOUS
<1>0. fitted \in ImuConfigs /\ fitted' = fitted /\ Len(fitted) \in Nat
  BY SensorNumbers DEF ImuInv, ImuSteps
<1>1. CASE ImuIdentify
  BY <1>0, <1>1 DEF ImuInv, ImuIdentify, NoBank
<1>2. CASE ImuSelectBank
  BY <1>0, <1>2, EntryHeld DEF ImuInv, ImuSelectBank, ImuSwitches
<1>3. CASE ImuWriteRegister
  <2>1. /\ imu' = [imu EXCEPT !.entry = @ + 1]
        /\ imuChip' = [imuChip EXCEPT !.holds = @ \cup {imu.entry}]
        /\ imu.entry \in 1 .. Len(fitted)
    BY <1>3, EntryHeld DEF ImuWriteRegister
  <2> QED
    BY <1>0, <1>3, <2>1 DEF ImuInv, ImuWriteRegister
<1>4. CASE ImuConfigured
  <2>1. imuChip.holds = 1 .. Len(fitted)
    <3>1. imu.entry = Len(fitted) + 1
      BY <1>0, <1>4 DEF ImuInv, ImuConfigured
    <3>2. 1 .. imu.entry - 1 \subseteq imuChip.holds /\ imuChip.holds \subseteq 1 .. Len(fitted)
      BY <1>4 DEF ImuInv, ImuConfigured
    <3>3. imu.entry - 1 = Len(fitted)
      BY <1>0, <3>1
    <3> QED
      BY <3>2, <3>3
  <2>2. imuChip' = [bank |-> 0, holds |-> 1 .. Len(fitted)]
    BY <1>0, <1>4, <2>1 DEF ImuInv, ImuConfigured, NoBank
  <2>3. imu' = [imu EXCEPT !.at = "runs", !.bank = 0]
    BY <1>4 DEF ImuConfigured
  <2>4. imu' \in [at : {"who", "configure", "runs", "waits"}, entry : 1 .. Len(fitted) + 1, bank : Nat]
        /\ imu'.at = "runs"
    BY <2>3 DEF ImuInv
  <2> QED
    BY <1>0, <2>2, <2>4 DEF ImuInv
<1>5. CASE ImuUpdate
  BY <1>0, <1>5 DEF ImuInv, ImuUpdate, imuVars
<1>6. CASE ImuRetry
  BY <1>0, <1>6 DEF ImuInv, ImuRetry
<1>7. CASE ImuFault
  <2>1. imuChip' \in [bank : 0 .. 3, holds : SUBSET (1 .. Len(fitted))]
    <3>1. imu.entry > Len(fitted) \/ imu.entry <= Len(fitted)
      BY <1>0 DEF ImuInv
    <3>2. ImuWritten \in [bank : 0 .. 3, holds : SUBSET (1 .. Len(fitted))]
      BY <1>0, <3>1, EntryHeld DEF ImuInv, ImuWritten
    <3> QED
      BY <1>7, <3>2 DEF ImuInv, ImuFault
  <2> QED
    BY <1>0, <1>7, <2>1 DEF ImuInv, ImuFault, ImuAfterFault
<1> QED
  BY <1>1, <1>2, <1>3, <1>4, <1>5, <1>6, <1>7 DEF ImuSteps, ImuStep

---------------------------------------------------------------------------
(* The magnetometer *)

MagTasks == [at : {"exit", "update", "runs", "sleeps"}, field : Nat, failed : 0 .. MagTries - 1]

(* The fields before the next one are set.  The configuration begins with  *)
(* a reset, and ends for good with its first failure.                      *)
MagInv ==
    /\ magTask \in MagTasks
    /\ magTask.field >= 1 /\ magTask.field <= Len(MagFields) + 1
    /\ magChip \in [set : SUBSET DOMAIN MagFields, measures : BOOLEAN]
    /\ magTask.at = "update" => magChip = [set |-> 1 .. magTask.field - 1, measures |-> FALSE]
    /\ magTask.at = "runs" => magChip = [set |-> DOMAIN MagFields, measures |-> TRUE]

LEMMA MagInvInit == SensorInit => MagInv
  BY SensorNumbers DEF SensorInit, MagInit, MagInv, MagTasks

(* updateRegister() changes one field: the others of its word are merged.  *)
LEMMA OneFieldSet ==
    ASSUME NEW f \in DOMAIN MagFields, magChip.set \subseteq DOMAIN MagFields
    PROVE  MagWrites(f) = [magChip EXCEPT !.set = magChip.set \cup {f}]
<1>1. (magChip.set \ FieldsOfWord(WordOf(f))) \cup Merged(magChip.set \cap FieldsOfWord(WordOf(f)), f)
        = magChip.set \cup {f}
  BY DEF Merged
<1> QED
  BY <1>1 DEF MagWrites

LEMMA MagInvNext == MagInv /\ (MagStep \/ MagFault) => MagInv'
<1> SUFFICES ASSUME MagInv, MagStep \/ MagFault PROVE MagInv'
  OBVIOUS
<1>0. /\ magTask \in MagTasks /\ magTask.field \in Nat
      /\ magTask.field >= 1 /\ magTask.field <= Len(MagFields) + 1
      /\ magChip.set \subseteq DOMAIN MagFields /\ magChip = [set |-> magChip.set, measures |-> magChip.measures]
  BY DEF MagInv, MagTasks
<1>1. CASE MagExit
  <2>1. magChip' = [set |-> {}, measures |-> FALSE]
    BY <1>1 DEF MagExit
  <2>2. magTask' = [magTask EXCEPT !.at = "update", !.field = 1]
    BY <1>1 DEF MagExit
  <2>3. magTask' \in MagTasks /\ magTask'.at = "update" /\ magTask'.field = 1
    BY <1>0, <2>2 DEF MagTasks
  <2>4. 1 .. 1 - 1 = {} /\ 1 <= Len(MagFields) + 1
    BY SensorNumbers
  <2> QED
    BY <2>1, <2>3, <2>4 DEF MagInv, MagTasks
<1>2. CASE MagUpdateRegister
  <2>1. magTask.field \in DOMAIN MagFields /\ magChip = [set |-> 1 .. magTask.field - 1, measures |-> FALSE]
    BY <1>0, <1>2, SensorNumbers DEF MagInv, MagUpdateRegister, MagTasks
  <2>2. magChip' = [magChip EXCEPT !.set = magChip.set \cup {magTask.field}]
    BY <1>0, <1>2, <2>1, OneFieldSet DEF MagUpdateRegister
  <2>3. (1 .. magTask.field - 1) \cup {magTask.field} = 1 .. magTask.field
    BY <2>1, SensorNumbers
  <2>4. magChip' = [set |-> 1 .. magTask.field, measures |-> FALSE]
    BY <2>1, <2>2, <2>3
  <2>5. magTask' = [magTask EXCEPT !.field = @ + 1] /\ magTask.at = "update"
    BY <1>2 DEF MagUpdateRegister
  <2>6. /\ magTask' \in MagTasks /\ magTask'.at = "update" /\ magTask'.field = magTask.field + 1
        /\ magTask'.field - 1 = magTask.field /\ magTask'.field <= Len(MagFields) + 1 /\ magTask'.field >= 1
    <3>1. magTask.field + 1 \in Nat /\ (magTask.field + 1) - 1 = magTask.field /\ magTask.field <= Len(MagFields)
      BY <1>0, <2>1, SensorNumbers
    <3>2. magTask' \in MagTasks
      BY <1>0, <2>5, <3>1 DEF MagTasks
    <3>3. magTask'.at = "update" /\ magTask'.field = magTask.field + 1
      BY <1>0, <2>5 DEF MagTasks
    <3> QED
      BY <1>0, <3>1, <3>2, <3>3, SensorNumbers
  <2>7. 1 .. magTask.field \subseteq DOMAIN MagFields
    BY <2>1, SensorNumbers
  <2> QED
    BY <2>4, <2>6, <2>7 DEF MagInv, MagTasks
<1>3. CASE MagStartBurst
  <2>1. magTask.field = Len(MagFields) + 1 /\ magTask.at = "update"
    BY <1>0, <1>3, SensorNumbers DEF MagStartBurst
  <2>2. 1 .. magTask.field - 1 = DOMAIN MagFields
    BY <2>1, SensorNumbers
  <2>3. magChip' = [set |-> DOMAIN MagFields, measures |-> TRUE]
    <3>1. magChip = [set |-> DOMAIN MagFields, measures |-> FALSE]
      BY <2>1, <2>2 DEF MagInv
    <3> QED
      BY <1>3, <3>1 DEF MagStartBurst
  <2>4. magTask' \in MagTasks /\ magTask'.at = "runs" /\ magTask'.field = magTask.field
    BY <1>0, <1>3 DEF MagStartBurst, MagTasks
  <2> QED
    BY <1>0, <2>3, <2>4 DEF MagInv, MagTasks
<1>4. CASE MagRead
  <2>1. magTask' \in MagTasks /\ magTask'.at = "runs" /\ magTask'.field = magTask.field
    BY <1>0, <1>4, SensorNumbers DEF MagRead, MagTasks
  <2> QED
    BY <1>4, <2>1 DEF MagInv, MagTasks, MagRead
<1>5. CASE MagFault
  <2>1. /\ magTask' \in MagTasks /\ magTask'.field = magTask.field
        /\ magTask'.at = "runs" => magTask.at = "runs"
        /\ magTask'.at \in {"runs", "sleeps"}
    <3>1. CASE magTask.at = "runs" /\ magTask.failed + 1 < MagTries
      <4>1. magTask' = [magTask EXCEPT !.failed = @ + 1]
        BY <1>5, <3>1 DEF MagFault
      <4> QED
        BY <1>0, <3>1, <4>1, SensorNumbers, SMTT(30) DEF MagTasks
    <3>2. CASE ~(magTask.at = "runs" /\ magTask.failed + 1 < MagTries)
      <4>1. magTask' = [magTask EXCEPT !.at = "sleeps"]
        BY <1>5, <3>2 DEF MagFault
      <4> QED
        BY <1>0, <4>1 DEF MagTasks
    <3> QED
      BY <3>1, <3>2
  <2>2. magTask.at = "runs" => magChip' = magChip
    BY <1>5 DEF MagFault
  <2>3. magChip' \in [set : SUBSET DOMAIN MagFields, measures : BOOLEAN]
    <3>1. CASE magTask.at = "update" /\ magTask.field <= Len(MagFields)
      <4>1. magTask.field \in DOMAIN MagFields
        BY <1>0, <3>1, SensorNumbers DEF MagTasks
      <4> QED
        BY <1>0, <1>5, <3>1, <4>1, OneFieldSet DEF MagFault, MagInv
    <3>2. CASE ~(magTask.at = "update" /\ magTask.field <= Len(MagFields))
      BY <1>5, <3>2 DEF MagFault, MagInv
    <3> QED
      BY <3>1, <3>2
  <2> QED
    BY <1>0, <2>1, <2>2, <2>3 DEF MagInv, MagTasks
<1> QED
  BY <1>1, <1>2, <1>3, <1>4, <1>5 DEF MagStep

---------------------------------------------------------------------------
(* The ADC *)

LEMMA StageAfter ==
    /\ AdcAfter("reset") = "setup" /\ AdcAfter("setup") = "averaging"
    /\ AdcAfter("averaging") = "clear" /\ AdcAfter("clear") = "convert"
    /\ AdcAfter("convert") = "ready" /\ AdcAfter("ready") = "read"
<1> DEFINE S == AdcSetupStages
<1>1. /\ S[1] = "reset" /\ S[2] = "setup" /\ S[3] = "averaging" /\ S[4] = "clear"
      /\ S[5] = "convert" /\ S[6] = "ready" /\ S[7] = "read"
  BY DEF AdcSetupStages
<1> HIDE DEF S
<1>2. \A n \in 2 .. 7 : \A i \in 2 .. 7 : S[i - 1] = S[n - 1] <=> i = n
  BY <1>1
<1>3. \A n \in 2 .. 7 : (CHOOSE i \in 2 .. 7 : S[i - 1] = S[n - 1]) = n
  BY <1>2
<1>4. \A n \in 2 .. 7 : AdcAfter(S[n - 1]) = S[n]
  BY <1>3 DEF AdcAfter, S
<1> QED
  BY <1>1, <1>4

AdcStages == {"reset", "setup", "averaging", "clear", "convert", "ready", "read", "scale"}

(* The values that are scaled were all read from the last scan.            *)
AdcInv ==
    /\ adcTask \in [at : AdcStages, failed : 0 .. AdcTries - 1, scan : Nat]
    /\ adcTask.at = "scale" => rawValues = [c \in 1 .. Channels |-> adcTask.scan]
    /\ ScansAreWhole

LEMMA AdcInvInit == SensorInit => AdcInv
  BY SensorNumbers DEF SensorInit, AdcInit, AdcInv, AdcStages, ScansAreWhole

LEMMA AdcInvNext == AdcInv /\ (AdcStep \/ AdcFault) => AdcInv'
<1> SUFFICES ASSUME AdcInv, AdcStep \/ AdcFault PROVE AdcInv'
  OBVIOUS
<1>1. CASE AdcTransfer
  <2>1. AdcAfter(adcTask.at) \in AdcStages /\ AdcAfter(adcTask.at) # "scale"
    BY <1>1, StageAfter DEF AdcTransfer, AdcStages
  <2> QED
    <3>1. adcTask' = [adcTask EXCEPT !.at = AdcAfter(@), !.scan = IF adcTask.at = "convert" THEN @ + 1 ELSE @]
      BY <1>1 DEF AdcTransfer
    <3>4. (IF adcTask.at = "convert" THEN adcTask.scan + 1 ELSE adcTask.scan) \in Nat
      BY DEF AdcInv
    <3>2. adcTask' \in [at : AdcStages, failed : 0 .. AdcTries - 1, scan : Nat] /\ adcTask'.at # "scale"
      <4> DEFINE next == IF adcTask.at = "convert" THEN adcTask.scan + 1 ELSE adcTask.scan
                 place == AdcAfter(adcTask.at)
      <4>1. adcTask' = [adcTask EXCEPT !.at = place, !.scan = next]
        BY <3>1
      <4>2. next \in Nat /\ place \in AdcStages /\ place # "scale"
        BY <2>1, <3>4
      <4> HIDE DEF next, place
      <4> QED
        BY <4>1, <4>2 DEF AdcInv
    <3>3. UNCHANGED scaledValues
      BY <1>1 DEF AdcTransfer
    <3> QED
      BY <3>2, <3>3 DEF AdcInv, ScansAreWhole
<1>2. CASE AdcReads
  <2>1. adcTask' \in [at : AdcStages, failed : 0 .. AdcTries - 1, scan : Nat] /\ adcTask'.scan = adcTask.scan
    BY <1>2 DEF AdcInv, AdcReads, AdcStages
  <2>2. rawValues' = [c \in 1 .. Channels |-> adcTask.scan] /\ UNCHANGED scaledValues
    BY <1>2 DEF AdcReads
  <2> QED
    BY <2>1, <2>2 DEF AdcInv, ScansAreWhole
<1>3. CASE AdcScales
  <2>1. adcTask' = [adcTask EXCEPT !.at = "clear", !.failed = 0] /\ 0 \in 0 .. AdcTries - 1
    BY <1>3, SensorNumbers DEF AdcScales
  <2>2. adcTask' \in [at : AdcStages, failed : 0 .. AdcTries - 1, scan : Nat] /\ adcTask'.at # "scale"
    BY <2>1 DEF AdcInv, AdcStages
  <2>3. scaledValues' = [c \in 1 .. Channels |-> adcTask.scan]
    BY <1>3 DEF AdcInv, AdcScales
  <2> QED
    BY <2>2, <2>3 DEF AdcInv, ScansAreWhole
<1>4. CASE AdcFault
  <2>1. adcTask' \in [at : AdcStages, failed : 0 .. AdcTries - 1, scan : Nat] /\ adcTask'.at # "scale"
    <3>1. CASE AdcSetUpAgain
      <4>1. adcTask' = [adcTask EXCEPT !.at = "reset", !.failed = 0]
        BY <1>4, <3>1 DEF AdcFault
      <4>2. 0 \in 0 .. AdcTries - 1
        BY SensorNumbers
      <4> QED
        BY <4>1, <4>2 DEF AdcInv, AdcStages
    <3>2. CASE ~AdcSetUpAgain
      <4>1. adcTask.failed + 1 \in 0 .. AdcTries - 1
        BY <3>2, SensorNumbers DEF AdcInv, AdcSetUpAgain
      <4>2. adcTask' = [adcTask EXCEPT !.at = "clear", !.failed = @ + 1]
        BY <1>4, <3>2 DEF AdcFault
      <4> QED
        BY <4>1, <4>2 DEF AdcInv, AdcStages
    <3> QED
      BY <3>1, <3>2
  <2>2. UNCHANGED scaledValues
    BY <1>4 DEF AdcFault, AdcStored
  <2> QED
    BY <2>1, <2>2 DEF AdcInv, ScansAreWhole
<1> QED
  BY <1>1, <1>2, <1>3, <1>4 DEF AdcStep

---------------------------------------------------------------------------
SensorInv == ImuInv /\ MagInv /\ AdcInv /\ spiFaults \in 0 .. MaxSpiFaults

LEMMA SensorInvNext == SensorInv /\ [SensorNext]_sensorVars => SensorInv'
<1> SUFFICES ASSUME SensorInv, [SensorNext]_sensorVars PROVE SensorInv'
  OBVIOUS
<1>1. spiFaults' \in 0 .. MaxSpiFaults
  <2>1. UNCHANGED spiFaults \/ SpiFault
    BY DEF SensorNext, sensorVars, ImuStep, ImuFault, MagStep, MagFault, AdcStep, AdcFault, ImuIdentify,
       ImuSelectBank, ImuWriteRegister, ImuConfigured, ImuUpdate, ImuRetry, MagExit, MagUpdateRegister,
       MagStartBurst, MagRead, AdcTransfer, AdcReads, AdcScales, NoSpiFault
  <2> QED
    BY <2>1, SensorNumbers DEF SensorInv, SpiFault
<1>2. ImuInv'
  <2>1. ImuSteps \/ UNCHANGED <<fitted, imuVars>>
    BY DEF SensorNext, sensorVars, ImuSteps
  <2> QED
    BY <2>1, ImuInvNext DEF SensorInv, ImuInv, imuVars
<1>3. MagInv'
  <2>1. MagStep \/ MagFault \/ UNCHANGED magVars
    BY DEF SensorNext, sensorVars
  <2> QED
    BY <2>1, MagInvNext DEF SensorInv, MagInv, magVars
<1>4. AdcInv'
  <2>1. AdcStep \/ AdcFault \/ UNCHANGED adcVars
    BY DEF SensorNext, sensorVars
  <2> QED
    BY <2>1, AdcInvNext DEF SensorInv, AdcInv, adcVars, ScansAreWhole
<1> QED
  BY <1>1, <1>2, <1>3, <1>4 DEF SensorInv

LEMMA SensorInvImplies == SensorInv => SensorTypeOK /\ RunningIsConfigured /\ ScansAreWhole
<1> SUFFICES ASSUME SensorInv PROVE SensorTypeOK /\ RunningIsConfigured /\ ScansAreWhole
  OBVIOUS
<1>1. {AdcSetupStages[i] : i \in 1 .. 7} \cup {"scale"} = AdcStages
  BY DEF AdcSetupStages, AdcStages
<1>2. imu.at \in {"who", "configure", "runs", "waits"} /\ imu.entry \in 1 .. Len(fitted) + 1
  BY DEF SensorInv, ImuInv
<1>3. magTask.at \in {"exit", "update", "runs", "sleeps"} /\ magTask.failed \in 0 .. MagTries - 1
  BY DEF SensorInv, MagInv, MagTasks
<1>4. adcTask.at \in AdcStages /\ adcTask.failed \in 0 .. AdcTries - 1 /\ ScansAreWhole
  BY DEF SensorInv, AdcInv
<1>5. RunningIsConfigured
  BY DEF SensorInv, ImuInv, MagInv, RunningIsConfigured
<1> QED
  BY <1>1, <1>2, <1>3, <1>4, <1>5 DEF SensorInv, SensorTypeOK

---------------------------------------------------------------------------
(* The calibrations of the IMU *)

(* The gyroscope's calibration ends with enough samples, and keeps them    *)
(* until its offset is stored: none starts in between.  The accelerometer  *)
(* expects a side of the device once it samples, and its mean is then of   *)
(* that side alone.                                                        *)
CalInv ==
    /\ CalTypeOK /\ OffsetOfEnoughSamples /\ ExtremaOfTheirSide
    /\ gyro.at # "idle" => gyro.samples >= MinSamples
    /\ accel.state = "SAMPLING" =>
          /\ accel.expectedSide \in AllSides
          /\ accel.mean.sides \subseteq {accel.expectedSide}

LEMMA CalNumbers == MinSamples \in Nat /\ MinSamples > 0 /\ NoSide \notin AllSides
  BY CalibrationAssumption

LEMMA MeanTypes ==
    /\ NoMean \in Means
    /\ \A mean \in Means, side \in AllSides \cup {NoSide} :
          /\ Added(mean, side) \in Means
          /\ Added(mean, side).sides = mean.sides \cup {side}
          /\ Enough(Added(mean, side).n) => Added(mean, side).n = MinSamples
  BY CalNumbers DEF NoMean, Means, Added, Enough

LEMMA CalInvInit == CalInit => CalInv
  BY CalNumbers, MeanTypes DEF CalInit, CalInv, CalTypeOK, OffsetOfEnoughSamples, ExtremaOfTheirSide

States == {"NOT_RUNNING", "STARTED", "WAITING_FOR_REST", "SAMPLING", "FINISHED"}
Accels == [state : States, mean : Means, expectedSide : AllSides \cup {NoSide}, finishedSides : SUBSET AllSides]

(* setState() to the states that a feed can lead to. *)
LEMMA StateSet ==
    ASSUME accel \in Accels, NEW s \in {"STARTED", "WAITING_FOR_REST", "SAMPLING", "FINISHED"}
    PROVE  /\ InState(s) \in Accels /\ InState(s).state = s
           /\ InState(s).finishedSides = accel.finishedSides
           /\ s = "SAMPLING" => InState(s).expectedSide = accel.expectedSide
           /\ s = "SAMPLING" /\ accel.state # s => InState(s).mean = NoMean
<1>1. CASE accel.state = s
  BY <1>1 DEF InState
<1>2. CASE accel.state # s
  BY <1>2, MeanTypes DEF InState, Accels, States
<1> QED
  BY <1>1, <1>2

LEMMA CalInvNext == Racing = FALSE /\ CalInv /\ [CalNext]_calVars => CalInv'
<1> SUFFICES ASSUME Racing = FALSE, CalInv, [CalNext]_calVars PROVE CalInv'
  OBVIOUS
<1> DEFINE Gyros == [running : BOOLEAN, samples : 0 .. MinSamples, at : {"idle", "ends", "stores"}]
           GyroInv == gyro \in Gyros /\ gyroOffset \in 0 .. MinSamples /\ gyroOffset >= MinSamples
                        /\ (gyro.at # "idle" => gyro.samples >= MinSamples)
           AccelInv == /\ accel \in Accels /\ extrema \in [AllSides -> Means] /\ ExtremaOfTheirSide
                       /\ accel.state = "SAMPLING" =>
                             /\ accel.expectedSide \in AllSides
                             /\ accel.mean.sides \subseteq {accel.expectedSide}
<1>0. GyroInv /\ AccelInv
  BY DEF CalInv, CalTypeOK, Accels, States, OffsetOfEnoughSamples
<1>1. GyroInv'
  <2>1. CASE GyroStart
    <3>1. gyro' = [gyro EXCEPT !.running = TRUE, !.samples = 0] /\ 0 \in 0 .. MinSamples
      BY <2>1, CalNumbers DEF GyroStart
    <3>2. gyro.at = "idle" /\ UNCHANGED gyroOffset
      BY <2>1 DEF GyroStart
    <3>3. gyro' \in Gyros /\ gyro'.at = "idle"
      BY <1>0, <3>1, <3>2
    <3> QED
      BY <1>0, <3>2, <3>3
  <2>2. ASSUME NEW secondPassed, GyroFeed(secondPassed) PROVE GyroInv'
    <3>1. Counted(gyro.samples) \in 0 .. MinSamples
      BY <1>0, CalNumbers DEF Counted
    <3> QED
      BY <1>0, <2>2, <3>1, CalNumbers DEF GyroFeed, Enough
  <2>3. CASE GyroEnds
    BY <1>0, <2>3 DEF GyroEnds
  <2>4. CASE GyroStores
    <3>1. gyro' = [gyro EXCEPT !.at = "idle"] /\ gyroOffset' = gyro.samples /\ gyro.samples >= MinSamples
      BY <1>0, <2>4 DEF GyroStores
    <3>2. gyro' \in Gyros /\ gyro'.at = "idle" /\ gyro.samples \in 0 .. MinSamples
      BY <1>0, <3>1
    <3> QED
      BY <3>1, <3>2
  <2>5. CASE UNCHANGED <<gyro, gyroOffset>>
    BY <1>0, <2>5
  <2>6. \/ GyroStart \/ GyroEnds \/ GyroStores \/ UNCHANGED <<gyro, gyroOffset>>
        \/ \E secondPassed \in BOOLEAN : GyroFeed(secondPassed)
    BY DEF CalNext, calVars, AccelStart, AccelFeed
  <2> HIDE DEF GyroInv
  <2> QED
    BY <2>1, <2>2, <2>3, <2>4, <2>5, <2>6
<1>2. AccelInv'
  <2>1. CASE AccelStart
    BY <1>0, <2>1, StateSet DEF AccelStart, ExtremaOfTheirSide
  <2>2. ASSUME NEW side, AccelDropsFirst(side) PROVE AccelInv'
    BY <1>0, <2>2, StateSet DEF AccelDropsFirst, ExtremaOfTheirSide
  <2>3. ASSUME NEW side \in AllSides \cup {NoSide}, NEW secondPassed \in BOOLEAN, AccelWaits(side, secondPassed)
        PROVE  AccelInv'
    <3>1. CASE accel.expectedSide = NoSide
      <4>1. accel' = [accel EXCEPT !.expectedSide = side] /\ accel.state = "WAITING_FOR_REST" /\ UNCHANGED extrema
        BY <2>3, <3>1 DEF AccelWaits
      <4> QED
        BY <1>0, <4>1 DEF ExtremaOfTheirSide, Accels
    <3>2. CASE accel.expectedSide # NoSide /\ accel.expectedSide # side
      <4>1. accel' = InState("STARTED") /\ UNCHANGED extrema
        BY <2>3, <3>2 DEF AccelWaits
      <4> QED
        BY <1>0, <4>1, StateSet DEF ExtremaOfTheirSide
    <3>3. CASE accel.expectedSide # NoSide /\ accel.expectedSide = side
      <4>1. CASE Enough(Added(accel.mean, side).n) /\ secondPassed
        <5>1. accel' = InState("SAMPLING") /\ UNCHANGED extrema /\ accel.state # "SAMPLING"
          BY <2>3, <3>3, <4>1 DEF AccelWaits
        <5>2. accel.expectedSide \in AllSides /\ NoMean.sides = {}
          BY <1>0, <3>3 DEF Accels, NoMean
        <5> QED
          BY <1>0, <5>1, <5>2, StateSet DEF ExtremaOfTheirSide
      <4>2. CASE ~(Enough(Added(accel.mean, side).n) /\ secondPassed)
        <5>1. accel' = [accel EXCEPT !.mean = Added(accel.mean, side)] /\ UNCHANGED extrema
              /\ accel.state = "WAITING_FOR_REST"
          BY <2>3, <3>3, <4>2 DEF AccelWaits
        <5>2. Added(accel.mean, side) \in Means
          BY <1>0, MeanTypes DEF Accels
        <5> QED
          BY <1>0, <5>1, <5>2 DEF ExtremaOfTheirSide, Accels
      <4> QED
        BY <4>1, <4>2
    <3> QED
      BY <3>1, <3>2, <3>3
  <2>4. ASSUME NEW side \in AllSides \cup {NoSide}, NEW secondPassed \in BOOLEAN, AccelSamples(side, secondPassed)
        PROVE  AccelInv'
    <3>0. /\ accel.state = "SAMPLING" /\ accel.expectedSide \in AllSides
          /\ accel.mean.sides \subseteq {accel.expectedSide} /\ Added(accel.mean, side) \in Means
          /\ Added(accel.mean, side).sides = accel.mean.sides \cup {side}
      BY <1>0, <2>4, MeanTypes DEF AccelSamples, Accels
    <3>1. CASE side # accel.expectedSide
      <4>1. accel' = InState("STARTED") /\ UNCHANGED extrema
        BY <2>4, <3>1 DEF AccelSamples
      <4> QED
        BY <1>0, <4>1, StateSet DEF ExtremaOfTheirSide
    <3>2. CASE side = accel.expectedSide /\ ~(Enough(Added(accel.mean, side).n) /\ secondPassed)
      <4>1. accel' = [accel EXCEPT !.mean = Added(accel.mean, side)] /\ UNCHANGED extrema
        BY <2>4, <3>2 DEF AccelSamples
      <4> QED
        BY <1>0, <3>0, <3>2, <4>1 DEF ExtremaOfTheirSide, Accels
    <3>3. CASE side = accel.expectedSide /\ Enough(Added(accel.mean, side).n) /\ secondPassed
      <4> DEFINE mean == Added(accel.mean, side)
                 finished == accel.finishedSides \cup {side}
                 state == IF finished = AllSides THEN "FINISHED" ELSE "STARTED"
      <4>1. extrema' = [extrema EXCEPT ![side] = mean] /\ accel' = [InState(state) EXCEPT !.finishedSides = finished]
        BY <2>4, <3>3 DEF AccelSamples
      <4>2. mean = [n |-> MinSamples, sides |-> {side}]
        <5>1. mean.n = MinSamples
          BY <1>0, <3>3, MeanTypes DEF Accels
        <5>2. mean.sides = {side}
          BY <3>0, <3>3
        <5> QED
          BY <3>0, <5>1, <5>2 DEF Means
      <4>3. side \in AllSides /\ finished \subseteq AllSides /\ mean \in Means
        BY <1>0, <3>0, <3>3 DEF Accels
      <4>4. /\ InState(state) \in Accels /\ InState(state).state # "SAMPLING"
        BY <1>0, StateSet
      <4> HIDE DEF mean, finished, state
      <4>5. accel' \in Accels /\ accel'.state # "SAMPLING" /\ accel'.finishedSides = finished
        BY <4>1, <4>3, <4>4 DEF Accels
      <4>6. extrema' \in [AllSides -> Means]
        BY <1>0, <4>1, <4>3
      <4>7. ExtremaOfTheirSide'
        <5> SUFFICES ASSUME NEW s \in AllSides, s \in finished PROVE extrema'[s] = [n |-> MinSamples, sides |-> {s}]
          BY <4>5 DEF ExtremaOfTheirSide
        <5>1. CASE s = side
          BY <1>0, <4>1, <4>2, <4>3, <5>1
        <5>2. CASE s # side
          BY <1>0, <4>1, <4>3, <5>2 DEF ExtremaOfTheirSide, finished
        <5> QED
          BY <5>1, <5>2
      <4> QED
        BY <4>5, <4>6, <4>7
    <3> QED
      BY <3>1, <3>2, <3>3
  <2>5. CASE UNCHANGED <<accel, extrema>>
    BY <1>0, <2>5 DEF ExtremaOfTheirSide
  <2> QED
    BY <2>1, <2>2, <2>3, <2>4, <2>5 DEF CalNext, calVars, GyroStart, GyroFeed, GyroEnds, GyroStores, AccelFeed
<1> QED
  BY <1>1, <1>2 DEF CalInv, CalTypeOK, Accels, States, OffsetOfEnoughSamples

LEMMA SensorPartsNext ==
    [ModulesNext]_modulesVars => [SensorNext]_sensorVars /\ [CalNext]_calVars
BY DEF ModulesNext, modulesVars, Only, Flash, Sd, Imu, Mag, Adc

(* For any tables of registers and fields, any numbers of tries, channels  *)
(* and samples and any sides, with transfers that fail at any moment: a    *)
(* sensor whose task runs has all its registers and fields set, the values *)
(* of the ADC that are reported together are from one scan, and, as long   *)
(* as no calibration starts while one is being stored, every offset and    *)
(* extremum is a mean of enough samples of its own side.                   *)
THEOREM SensorsCorrect ==
    ASSUME Racing = FALSE PROVE ModulesSpec => []SensorsRight
<1>1. ModulesInit => SensorInv /\ CalInv
  BY ImuInvInit, MagInvInit, AdcInvInit, CalInvInit, SensorNumbers DEF ModulesInit, SensorInv, SensorInit
<1>2. SensorInv /\ CalInv /\ [ModulesNext]_modulesVars => SensorInv' /\ CalInv'
  BY SensorInvNext, CalInvNext, SensorPartsNext
<1>3. SensorInv /\ CalInv => SensorsRight
  BY SensorInvImplies DEF SensorsRight, CalInv
<1> QED
  BY <1>1, <1>2, <1>3, PTL DEF ModulesSpec
---------------------------------------------------------------------------
(* The flash memory *)

FlashOps == {"OP_IDLE", "OP_READ", "OP_WRITE", "OP_ERASE"}
FlashPlaces == {"idle", "ready", "enable", "check", "command", "finish", "disable", "again", "leave"}
FlashCalls == [at : FlashPlaces, op : FlashOps, page : Pages, data : PageStates, old : FlashOps,
               retries : 0 .. MaxRetries, enabled : BOOLEAN, success : BOOLEAN]

(* What the page of a call for littlefs holds when the call has succeeded. *)
DoneAsTold(c) == page[c.page] = IF c.op = "OP_ERASE" THEN "erased" ELSE c.data

(* While a call is about to give a command the chip is ready, because no   *)
(* other call programs or erases; when the command is a write, it is       *)
(* enabled.  A page being programmed is erased or has its contents already.*)
FsCallRight ==
    LET c == flashTask["fs"] IN
    /\ c.at # "idle" => c.op # "OP_IDLE"
    /\ c.at \in {"enable", "check", "command"} => ~busy
    /\ c.at \in {"ready", "enable", "check", "command"} => c.success = FALSE
    /\ c.at \in {"enable", "check", "finish", "disable"} => Writes("fs")
    /\ c.at = "command" /\ Writes("fs") => wel /\ c.enabled
    /\ c.at = "finish" /\ c.success => c.enabled
    /\ c.op = "OP_WRITE" => c.data \in Contents /\ page[c.page] \in {"erased", c.data}
    /\ c.at \in {"finish", "disable", "leave"} /\ c.success => DoneAsTold(c)

(* The raw calls only read, and meet a chip that is ready if they are alone.*)
RawCallRight ==
    LET c == flashTask["raw"] IN
    /\ c.at \in {"idle", "ready", "command", "again", "leave"}
    /\ c.at # "idle" => ~Writes("raw")
    /\ ~overlapped /\ c.at = "command" => ~busy
    /\ ~overlapped /\ c.at = "leave" /\ c.success => c.data # "spoilt"

(* Calls that have not overlapped: one is idle, and they restore OP_IDLE.  *)
AloneInFlash ==
    ~overlapped =>
        /\ \E t \in FlashTasks : At(t, "idle")
        /\ \A t \in FlashTasks : ~At(t, "idle") => flashTask[t].old = "OP_IDLE"
        /\ (\A t \in FlashTasks : At(t, "idle")) => currentOperation = "OP_IDLE"

FlashInv ==
    /\ FlashTypeOK
    /\ \A t \in FlashTasks : ~At(t, "leave") => flashTask[t].retries < MaxRetries
    /\ \A p \in Pages : page[p] # "spoilt"
    /\ FsCallRight /\ RawCallRight /\ AloneInFlash

LEMMA NotCalledIsCall ==
    /\ NotCalled \in FlashCalls /\ NotCalled.at = "idle" /\ NotCalled.retries = 0 /\ NotCalled.op = "OP_IDLE"
    /\ NotCalled.success = FALSE
<1>1. (CHOOSE p \in Pages : TRUE) \in Pages
  BY FlashAssumption
<1> QED
  BY <1>1, FlashAssumption DEF NotCalled, FlashCalls, FlashPlaces, FlashOps, PageStates

LEMMA FlashInvInit == FlashInit => FlashInv
<1> SUFFICES ASSUME FlashInit PROVE FlashInv
  OBVIOUS
<1>3. \A t \in FlashTasks : flashTask[t] = NotCalled
  BY DEF FlashInit
<1>4. FlashTypeOK
  BY NotCalledIsCall DEF FlashInit, FlashTypeOK, FlashCalls, FlashPlaces, FlashOps, PageStates
<1>5. FsCallRight /\ RawCallRight /\ AloneInFlash
  BY NotCalledIsCall, <1>3 DEF FlashInit, FsCallRight, RawCallRight, AloneInFlash, At, FlashTasks
<1> QED
  BY NotCalledIsCall, <1>3, <1>4, <1>5, FlashAssumption DEF FlashInv, FlashInit

LEMMA FlashTypes ==
    FlashTypeOK <=> /\ flashCfg \in {"unknown", "found", "none"}
                    /\ page \in [Pages -> PageStates] /\ busy \in BOOLEAN /\ wel \in BOOLEAN
                    /\ currentOperation \in FlashOps /\ overlapped \in BOOLEAN
                    /\ flashTask \in [FlashTasks -> FlashCalls]
  BY DEF FlashTypeOK, FlashOps, FlashPlaces, FlashCalls

(* What remains to be shown of a step of a call that goes on.              *)
CallGoesOn(t, r) ==
    /\ flashTask' = [flashTask EXCEPT ![t] = r]
    /\ r \in FlashCalls /\ r.at # "idle" /\ r.old = flashTask[t].old /\ flashTask[t].at # "idle"
    /\ r.at # "leave" => r.retries < MaxRetries
    /\ UNCHANGED <<flashCfg, currentOperation, overlapped>>

LEMMA CallKeeps ==
    ASSUME FlashInv, NEW t \in FlashTasks, NEW r, CallGoesOn(t, r),
           page' \in [Pages -> PageStates], busy' \in BOOLEAN, wel' \in BOOLEAN,
           \A p \in Pages : page'[p] # "spoilt",
           FsCallRight', RawCallRight'
    PROVE  FlashInv'
<1>1. /\ flashTask' \in [FlashTasks -> FlashCalls]
      /\ flashTask'[t] = r /\ \A u \in FlashTasks \ {t} : flashTask'[u] = flashTask[u]
  BY FlashTypes DEF FlashInv, CallGoesOn
<1>2. FlashTypeOK'
  BY <1>1 DEF FlashInv, CallGoesOn, FlashTypeOK, FlashOps, FlashPlaces, FlashCalls
<1>3. \A u \in FlashTasks : ~At(u, "leave")' => flashTask'[u].retries < MaxRetries
  BY <1>1 DEF FlashInv, CallGoesOn, At
<1>4. AloneInFlash'
  BY <1>1 DEF FlashInv, CallGoesOn, AloneInFlash, At, FlashTasks
<1> QED
  BY <1>2, <1>3, <1>4 DEF FlashInv

(* The steps of a raw call do nothing to the chip. *)
LEMMA RawStep ==
    ASSUME FlashInv, NEW r, CallGoesOn("raw", r), UNCHANGED flashChip,
           r.at \in {"ready", "command", "again", "leave"}, r.op = flashTask["raw"].op,
           ~overlapped /\ r.at = "command" => ~busy,
           ~overlapped /\ r.at = "leave" /\ r.success => r.data # "spoilt"
    PROVE  FlashInv'
<1>1. flashTask'["raw"] = r /\ flashTask'["fs"] = flashTask["fs"]
  BY FlashTypes DEF FlashInv, CallGoesOn, FlashTasks
<1>2. FsCallRight'
  BY <1>1 DEF FlashInv, FsCallRight, flashChip, Writes, DoneAsTold
<1>3. RawCallRight'
  BY <1>1 DEF FlashInv, RawCallRight, CallGoesOn, flashChip, Writes
<1> QED
  BY <1>2, <1>3, CallKeeps, FlashTypes DEF FlashInv, flashChip, FlashTasks

LEMMA RawStepsKeep ==
    ASSUME FlashInv, NEW x \in Transfers, ~At("raw", "leave"),
           \/ WaitReady("raw", x) \/ WriteEnable("raw", x) \/ CheckWel("raw", x) \/ ReadPage("raw", x)
           \/ WritePage("raw", x) \/ WaitFinished("raw", x) \/ WriteDisable("raw", x) \/ TryAgain("raw")
    PROVE  FlashInv'
<1> DEFINE c == flashTask["raw"]
<1>0. /\ c \in FlashCalls /\ flashTask \in [FlashTasks -> FlashCalls]
      /\ c.at \in {"idle", "ready", "command", "again", "leave"} /\ c.at # "leave" /\ c.retries < MaxRetries
      /\ c.at # "idle" => ~Writes("raw")
  BY FlashTypes DEF FlashInv, RawCallRight, FlashTasks, At
<1>1. CASE WaitReady("raw", x)
  <2>1. PICK y \in {"again", "command"} : Becomes("raw", [c EXCEPT !.at = y]) /\ (y = "command" => ~busy)
    <3>1. ~Writes("raw")
      BY <1>0, <1>1 DEF WaitReady, At
    <3> QED
      BY <1>1, <3>1 DEF WaitReady
  <2> DEFINE r == [c EXCEPT !.at = y]
  <2>2. r \in FlashCalls /\ r.at = y /\ r.op = c.op /\ r.old = c.old /\ r.retries = c.retries
    BY <1>0 DEF FlashCalls, FlashPlaces
  <2>3. c.at = "ready" /\ UNCHANGED <<flashChip, flashCfg, currentOperation, overlapped>>
    BY <1>1 DEF WaitReady, At
  <2>4. flashTask' = [flashTask EXCEPT !["raw"] = r]
    BY <2>1 DEF Becomes
  <2> HIDE DEF r
  <2>5. CallGoesOn("raw", r)
    BY <1>0, <2>1, <2>2, <2>3, <2>4 DEF CallGoesOn
  <2> QED
    BY <2>1, <2>2, <2>3, <2>5, RawStep
<1>2. CASE ReadPage("raw", x)
  <2>0. c.at = "command" /\ UNCHANGED <<flashChip, flashCfg, currentOperation, overlapped>>
    BY <1>2 DEF ReadPage, At
  <2>1. ~overlapped => ~busy
    BY <2>0 DEF FlashInv, RawCallRight
  <2>2. CASE x = "ok"
    <3> DEFINE d == IF busy THEN "spoilt" ELSE page[c.page]
               r == [c EXCEPT !.at = "leave", !.success = TRUE, !.data = d]
    <3>1. d \in PageStates /\ (~busy => d # "spoilt")
      BY <1>0, FlashTypes DEF FlashInv, FlashCalls, PageStates
    <3>2. flashTask' = [flashTask EXCEPT !["raw"] = r]
      BY <1>2, <2>2 DEF ReadPage, Becomes
    <3> HIDE DEF d
    <3>3. r \in FlashCalls /\ r.at = "leave" /\ r.op = c.op /\ r.old = c.old /\ r.data = d
      BY <1>0, <3>1 DEF FlashCalls, FlashPlaces
    <3> HIDE DEF r
    <3>4. CallGoesOn("raw", r)
      BY <2>0, <3>2, <3>3 DEF CallGoesOn
    <3> QED
      BY <2>0, <2>1, <3>1, <3>3, <3>4, RawStep
  <2>3. CASE x # "ok"
    <3> DEFINE r == [c EXCEPT !.at = "again"]
    <3>1. flashTask' = [flashTask EXCEPT !["raw"] = r]
      BY <1>2, <2>3 DEF ReadPage, Becomes
    <3>2. r \in FlashCalls /\ r.at = "again" /\ r.op = c.op /\ r.old = c.old /\ r.retries = c.retries
      BY <1>0 DEF FlashCalls, FlashPlaces
    <3> HIDE DEF r
    <3>3. CallGoesOn("raw", r)
      BY <1>0, <2>0, <3>1, <3>2 DEF CallGoesOn
    <3> QED
      BY <2>0, <3>2, <3>3, RawStep
  <2> QED
    BY <2>2, <2>3
<1>3. CASE TryAgain("raw")
  <2> DEFINE n == c.retries + 1
             y == IF n < MaxRetries THEN "ready" ELSE "leave"
             r == [c EXCEPT !.at = y, !.retries = n, !.success = FALSE]
  <2>1. flashTask' = [flashTask EXCEPT !["raw"] = r]
    BY <1>3 DEF TryAgain, Becomes
  <2>2. n \in 0 .. MaxRetries /\ (y # "leave" => n < MaxRetries) /\ y \in {"ready", "leave"}
    BY <1>0, FlashAssumption DEF FlashCalls
  <2> HIDE DEF n, y
  <2>3. r \in FlashCalls /\ r.at = y /\ r.op = c.op /\ r.old = c.old /\ r.retries = n /\ r.success = FALSE
    BY <1>0, <2>2 DEF FlashCalls, FlashPlaces
  <2>4. c.at = "again" /\ UNCHANGED <<flashChip, flashCfg, currentOperation, overlapped>>
    BY <1>3 DEF TryAgain, At
  <2> HIDE DEF r
  <2>5. CallGoesOn("raw", r)
    BY <1>0, <2>1, <2>2, <2>3, <2>4 DEF CallGoesOn
  <2> QED
    BY <2>2, <2>3, <2>4, <2>5, RawStep
<1> QED
  BY <1>0, <1>1, <1>2, <1>3 DEF WriteEnable, CheckWel, WritePage, WaitFinished, WriteDisable, At

(* A step of a call for littlefs: a raw call goes on only when the two     *)
(* have overlapped.                                                        *)
LEMMA FsStep ==
    ASSUME FlashInv, NEW r, CallGoesOn("fs", r),
           page' \in [Pages -> PageStates], busy' \in BOOLEAN, wel' \in BOOLEAN,
           \A p \in Pages : page'[p] # "spoilt", FsCallRight'
    PROVE  FlashInv'
<1>1. flashTask'["fs"] = r /\ flashTask'["raw"] = flashTask["raw"]
  BY FlashTypes DEF FlashInv, CallGoesOn, FlashTasks
<1>2. ~overlapped => flashTask["raw"].at = "idle"
  BY DEF FlashInv, AloneInFlash, CallGoesOn, At, FlashTasks
<1>3. RawCallRight'
  BY <1>1, <1>2 DEF FlashInv, RawCallRight, CallGoesOn, Writes
<1> QED
  BY <1>3, CallKeeps DEF FlashTasks

(* The same, when the chip is left alone. *)
LEMMA FsStepAlone ==
    ASSUME FlashInv, NEW r, CallGoesOn("fs", r), UNCHANGED flashChip, FsCallRight'
    PROVE  FlashInv'
  BY FsStep, FlashTypes DEF FlashInv, flashChip

LEMMA FsStepsKeep ==
    ASSUME FlashInv, NEW x \in Transfers, ~At("fs", "leave"),
           \/ WaitReady("fs", x) \/ WriteEnable("fs", x) \/ CheckWel("fs", x) \/ ReadPage("fs", x)
           \/ WritePage("fs", x) \/ WaitFinished("fs", x) \/ WriteDisable("fs", x) \/ TryAgain("fs")
    PROVE  FlashInv'
<1> DEFINE c == flashTask["fs"]
<1>0. /\ c \in FlashCalls /\ flashTask \in [FlashTasks -> FlashCalls] /\ "fs" \in FlashTasks
      /\ c.at # "leave" => c.retries < MaxRetries
      /\ page \in [Pages -> PageStates] /\ busy \in BOOLEAN /\ wel \in BOOLEAN
      /\ \A p \in Pages : page[p] # "spoilt"
  BY FlashTypes DEF FlashInv, FlashTasks, At
<1>a. FsCallRight /\ ("fs" \in FlashTasks => c.page \in Pages)
  BY <1>0 DEF FlashInv, FlashCalls
<1>b. ASSUME NEW r, r \in FlashCalls, flashTask' = [flashTask EXCEPT !["fs"] = r] PROVE flashTask'["fs"] = r
  BY <1>0, <1>b
<1>1. CASE WaitReady("fs", x)
  <2> DEFINE y == IF x # "ok" THEN "again" ELSE IF Writes("fs") THEN "enable" ELSE "command"
             r == [c EXCEPT !.at = y]
  <2>1. /\ c.at = "ready" /\ UNCHANGED <<flashChip, flashCfg, currentOperation, overlapped>>
        /\ flashTask' = [flashTask EXCEPT !["fs"] = r] /\ (x = "ok" => ~busy)
    BY <1>1 DEF WaitReady, Becomes, At
  <2>2. /\ y \in {"again", "enable", "command"} /\ (y # "again" => x = "ok")
        /\ (y = "command" => ~Writes("fs")) /\ (y = "enable" => Writes("fs"))
    OBVIOUS
  <2> HIDE DEF y
  <2>3. r \in FlashCalls /\ r = [c EXCEPT !.at = y] /\ r.at = y /\ r.op = c.op /\ r.old = c.old /\ r.retries = c.retries
        /\ r.success = c.success /\ r.page = c.page /\ r.data = c.data /\ r.enabled = c.enabled
    BY <1>0, <2>2 DEF FlashCalls, FlashPlaces
  <2> HIDE DEF r
  <2>4. CallGoesOn("fs", r)
    BY <1>0, <2>1, <2>2, <2>3 DEF CallGoesOn
  <2>5. FsCallRight'
    BY <1>a, <1>b, <2>1, <2>2, <2>3 DEF FsCallRight, Writes, DoneAsTold, flashChip
  <2> QED
    BY <2>1, <2>4, <2>5, FsStepAlone
<1>2. CASE WriteEnable("fs", x)
  <2> DEFINE y == IF x = "ok" THEN "check" ELSE AfterRefusal("fs")
             r == [c EXCEPT !.at = y]
  <2>1. /\ c.at = "enable" /\ UNCHANGED <<page, busy, flashCfg, currentOperation, overlapped>>
        /\ flashTask' = [flashTask EXCEPT !["fs"] = r] /\ wel' \in BOOLEAN
    BY <1>2 DEF WriteEnable, Becomes, At
  <2>2. y \in {"check", "finish", "again"}
    BY DEF AfterRefusal
  <2> HIDE DEF y
  <2>3. r \in FlashCalls /\ r.at = y /\ r.op = c.op /\ r.old = c.old /\ r.retries = c.retries
        /\ r.success = c.success /\ r.page = c.page /\ r.data = c.data /\ r.enabled = c.enabled
    BY <1>0, <2>2 DEF FlashCalls, FlashPlaces
  <2> HIDE DEF r
  <2>4. CallGoesOn("fs", r)
    BY <1>0, <2>1, <2>2, <2>3 DEF CallGoesOn
  <2>5. FsCallRight'
    BY <1>a, <1>b, <2>1, <2>2, <2>3 DEF FsCallRight, Writes, DoneAsTold
  <2> QED
    BY <1>0, <2>1, <2>4, <2>5, FsStep
<1>3. CASE CheckWel("fs", x)
  <2>1. PICK y \in {"command", "finish", "again"}, e \in BOOLEAN :
          /\ flashTask' = [flashTask EXCEPT !["fs"] = [c EXCEPT !.at = y, !.enabled = e]]
          /\ y = "command" => wel /\ e
    <3>1. CASE x = "ok" /\ wel
      BY <1>3, <3>1 DEF CheckWel, Becomes
    <3>2. CASE ~(x = "ok" /\ wel)
      <4>1. flashTask' = [flashTask EXCEPT !["fs"] = [c EXCEPT !.at = AfterRefusal("fs")]]
        BY <1>3, <3>2 DEF CheckWel, Becomes
      <4>2. [c EXCEPT !.at = AfterRefusal("fs")] = [c EXCEPT !.at = AfterRefusal("fs"), !.enabled = c.enabled]
        BY <1>0 DEF FlashCalls
      <4>3. c.enabled \in BOOLEAN /\ AfterRefusal("fs") \in {"finish", "again"}
        BY <1>0 DEF FlashCalls, AfterRefusal
      <4> QED
        BY <4>1, <4>2, <4>3
    <3> QED
      BY <3>1, <3>2
  <2> DEFINE r == [c EXCEPT !.at = y, !.enabled = e]
  <2>2. c.at = "check" /\ UNCHANGED <<flashChip, flashCfg, currentOperation, overlapped>>
    BY <1>3 DEF CheckWel, At
  <2>3. r \in FlashCalls /\ r.at = y /\ r.op = c.op /\ r.old = c.old /\ r.retries = c.retries
        /\ r.success = c.success /\ r.page = c.page /\ r.data = c.data /\ r.enabled = e
    BY <1>0 DEF FlashCalls, FlashPlaces
  <2>4. flashTask' = [flashTask EXCEPT !["fs"] = r]
    BY <2>1
  <2> HIDE DEF r
  <2>5. CallGoesOn("fs", r)
    BY <1>0, <2>2, <2>3, <2>4 DEF CallGoesOn
  <2>6. FsCallRight'
    BY <1>a, <1>b, <2>1, <2>2, <2>3, <2>4 DEF FsCallRight, Writes, DoneAsTold, flashChip
  <2> QED
    BY <2>2, <2>5, <2>6, FsStepAlone, SMTT(30)
<1>4. CASE ReadPage("fs", x)
  <2>1. c.at = "command" /\ ~Writes("fs") /\ UNCHANGED <<flashChip, flashCfg, currentOperation, overlapped>>
    BY <1>4 DEF ReadPage, At
  <2>2. CASE x = "ok"
    <3> DEFINE d == page[c.page]
               r == [c EXCEPT !.at = "leave", !.success = TRUE, !.data = d]
    <3>1. ~busy /\ d \in PageStates
      BY <1>0, <1>a, <2>1 DEF FsCallRight
    <3>2. flashTask' = [flashTask EXCEPT !["fs"] = r]
      BY <1>4, <2>2, <3>1 DEF ReadPage, Becomes
    <3> HIDE DEF d
    <3>3. /\ r \in FlashCalls /\ r.at = "leave" /\ r.op = c.op /\ r.old = c.old /\ r.page = c.page
          /\ r.data = d /\ r.success = TRUE
      BY <1>0, <3>1 DEF FlashCalls, FlashPlaces
    <3> HIDE DEF r
    <3>4. CallGoesOn("fs", r)
      BY <2>1, <3>2, <3>3 DEF CallGoesOn
    <3>5. FsCallRight'
      BY <1>b, <2>1, <3>2, <3>3, ZenonT(40) DEF FsCallRight, Writes, DoneAsTold, flashChip, d
    <3> QED
      BY <2>1, <3>4, <3>5, FsStepAlone
  <2>3. CASE x # "ok"
    <3> DEFINE r == [c EXCEPT !.at = "again"]
    <3>1. flashTask' = [flashTask EXCEPT !["fs"] = r]
      BY <1>4, <2>3 DEF ReadPage, Becomes
    <3>2. r \in FlashCalls /\ r.at = "again" /\ r.op = c.op /\ r.old = c.old /\ r.retries = c.retries
      BY <1>0 DEF FlashCalls, FlashPlaces
    <3> HIDE DEF r
    <3>3. CallGoesOn("fs", r)
      BY <1>0, <2>1, <3>1, <3>2 DEF CallGoesOn
    <3>4. FsCallRight'
      BY <1>b, <2>1, <3>1, <3>2 DEF FsCallRight, Writes
    <3> QED
      BY <2>1, <3>3, <3>4, FsStepAlone
  <2> QED
    BY <2>2, <2>3
<1>5. CASE WritePage("fs", x)
  <2> DEFINE r == [c EXCEPT !.at = "finish", !.success = (x = "ok")]
  <2>1. /\ c.at = "command" /\ Writes("fs") /\ UNCHANGED <<wel, flashCfg, currentOperation, overlapped>>
        /\ flashTask' = [flashTask EXCEPT !["fs"] = r]
    BY <1>5 DEF WritePage, Becomes, At
  <2>2. r \in FlashCalls /\ r.at = "finish" /\ r.op = c.op /\ r.old = c.old /\ r.retries = c.retries
        /\ r.success = (x = "ok") /\ r.page = c.page /\ r.data = c.data /\ r.enabled = c.enabled
    BY <1>0 DEF FlashCalls, FlashPlaces
  <2>3. /\ ~busy /\ wel /\ c.enabled /\ c.page \in Pages
        /\ c.op = "OP_WRITE" => c.data \in Contents /\ page[c.page] \in {"erased", c.data}
    BY <1>0, <1>a, <2>1 DEF FsCallRight
  <2>4. busy' \in BOOLEAN /\ (x = "lost" => UNCHANGED page)
    BY <1>0, <1>5 DEF WritePage, Reaches
  <2>5. x # "lost" =>
          page' = [p \in Pages |-> IF c.op = "OP_ERASE" THEN "erased"
                                   ELSE IF p = c.page THEN Programmed(page[p], c.data) ELSE page[p]]
    BY <1>5, <2>3 DEF WritePage, Reaches
  <2>6. c.op = "OP_WRITE" => Programmed(page[c.page], c.data) = c.data
    BY <2>3 DEF Programmed
  <2>7. c.op = "OP_ERASE" \/ c.op = "OP_WRITE" \/ c.op = "OP_IDLE"
    BY <1>0, <2>1 DEF FlashCalls, FlashOps, Writes
  <2>8. c.op # "OP_IDLE"
    BY <1>a, <2>1 DEF FsCallRight
  <2>9. /\ page' \in [Pages -> PageStates] /\ \A p \in Pages : page'[p] # "spoilt"
        /\ c.op = "OP_WRITE" => page'[c.page] \in {"erased", c.data}
        /\ x # "lost" => page'[c.page] = IF c.op = "OP_ERASE" THEN "erased" ELSE c.data
    <3>1. CASE x = "lost"
      BY <1>0, <2>3, <2>4, <3>1
    <3>2. CASE x # "lost"
      <4>1. CASE c.op = "OP_ERASE"
        <5>1. page' = [p \in Pages |-> "erased"]
          BY <2>5, <3>2, <4>1
        <5> QED
          BY <2>3, <4>1, <5>1 DEF PageStates
      <4>2. CASE c.op = "OP_WRITE"
        <5>1. page' = [p \in Pages |-> IF p = c.page THEN c.data ELSE page[p]]
          BY <2>5, <2>6, <3>2, <4>2
        <5>2. c.data \in Contents /\ c.data # "spoilt"
          BY <2>3, <4>2, FlashAssumption
        <5> QED
          BY <1>0, <2>3, <4>2, <5>1, <5>2 DEF PageStates
      <4> QED
        BY <2>7, <2>8, <4>1, <4>2
    <3> QED
      BY <3>1, <3>2
  <2> HIDE DEF r
  <2>10. CallGoesOn("fs", r)
    BY <1>0, <2>1, <2>2 DEF CallGoesOn
  <2>11. FsCallRight'
    <3>1. flashTask'["fs"] = r
      BY <1>b, <2>1, <2>2
    <3>2. r.success => x # "lost"
      BY <2>2
    <3>3. r.success => page'[r.page] = IF r.op = "OP_ERASE" THEN "erased" ELSE r.data
      BY <2>2, <2>9, <3>2
    <3>4. Writes("fs")' /\ r.enabled /\ (r.op = "OP_WRITE" => r.data \in Contents /\ page'[r.page] \in {"erased", r.data})
      BY <2>1, <2>2, <2>3, <2>9, <3>1 DEF Writes
    <3> QED
      BY <2>2, <2>8, <3>1, <3>3, <3>4 DEF FsCallRight, DoneAsTold
  <2> QED
    BY <1>0, <2>1, <2>4, <2>9, <2>10, <2>11, FsStep
<1>6. CASE WaitFinished("fs", x)
  <2> DEFINE y == IF c.enabled THEN "disable" ELSE "again"
             s == c.success /\ x = "ok"
             r == [c EXCEPT !.at = y, !.success = s]
  <2>1. /\ c.at = "finish" /\ UNCHANGED <<flashChip, flashCfg, currentOperation, overlapped>>
        /\ flashTask' = [flashTask EXCEPT !["fs"] = r]
    BY <1>6 DEF WaitFinished, Becomes, At
  <2>2. y \in {"disable", "again"} /\ s \in BOOLEAN /\ (s => c.success /\ y = "disable")
    BY <1>0, <1>a, <2>1 DEF FsCallRight, FlashCalls
  <2> HIDE DEF y, s
  <2>3. r \in FlashCalls /\ r.at = y /\ r.op = c.op /\ r.old = c.old /\ r.retries = c.retries
        /\ r.success = s /\ r.page = c.page /\ r.data = c.data /\ r.enabled = c.enabled
    BY <1>0, <2>2 DEF FlashCalls, FlashPlaces
  <2> HIDE DEF r
  <2>4. CallGoesOn("fs", r)
    BY <1>0, <2>1, <2>2, <2>3 DEF CallGoesOn
  <2>5. FsCallRight'
    BY <1>a, <1>b, <2>1, <2>2, <2>3 DEF FsCallRight, Writes, DoneAsTold, flashChip
  <2> QED
    BY <2>1, <2>4, <2>5, FsStepAlone
<1>7. CASE WriteDisable("fs", x)
  <2> DEFINE y == IF c.success THEN "leave" ELSE "again"
             r == [c EXCEPT !.at = y, !.enabled = FALSE]
  <2>1. /\ c.at = "disable" /\ UNCHANGED <<page, busy, flashCfg, currentOperation, overlapped>>
        /\ flashTask' = [flashTask EXCEPT !["fs"] = r] /\ wel' \in BOOLEAN
    BY <1>7 DEF WriteDisable, Becomes, At
  <2>2. y \in {"leave", "again"}
    OBVIOUS
  <2> HIDE DEF y
  <2>3. r \in FlashCalls /\ r.at = y /\ r.op = c.op /\ r.old = c.old /\ r.retries = c.retries
        /\ r.success = c.success /\ r.page = c.page /\ r.data = c.data /\ r.enabled = FALSE
    BY <1>0, <2>2 DEF FlashCalls, FlashPlaces
  <2> HIDE DEF r
  <2>4. CallGoesOn("fs", r)
    BY <1>0, <2>1, <2>2, <2>3 DEF CallGoesOn
  <2>5. FsCallRight'
    BY <1>a, <1>b, <2>1, <2>2, <2>3 DEF FsCallRight, Writes, DoneAsTold
  <2> QED
    BY <1>0, <2>1, <2>4, <2>5, FsStep
<1>8. CASE TryAgain("fs")
  <2> DEFINE n == c.retries + 1
             y == IF n < MaxRetries THEN "ready" ELSE "leave"
             r == [c EXCEPT !.at = y, !.retries = n, !.success = FALSE]
  <2>1. /\ c.at = "again" /\ UNCHANGED <<flashChip, flashCfg, currentOperation, overlapped>>
        /\ flashTask' = [flashTask EXCEPT !["fs"] = r]
    BY <1>8 DEF TryAgain, Becomes, At
  <2>2. n \in 0 .. MaxRetries /\ (y # "leave" => n < MaxRetries) /\ y \in {"ready", "leave"}
    BY <1>0, <2>1, FlashAssumption DEF FlashCalls
  <2> HIDE DEF n, y
  <2>3. r \in FlashCalls /\ r.at = y /\ r.op = c.op /\ r.old = c.old /\ r.retries = n
        /\ r.success = FALSE /\ r.page = c.page /\ r.data = c.data /\ r.enabled = c.enabled
    BY <1>0, <2>2 DEF FlashCalls, FlashPlaces
  <2> HIDE DEF r
  <2>4. CallGoesOn("fs", r)
    BY <1>0, <2>1, <2>2, <2>3 DEF CallGoesOn
  <2>5. FsCallRight'
    BY <1>a, <1>b, <2>1, <2>2, <2>3 DEF FsCallRight, Writes, DoneAsTold, flashChip
  <2> QED
    BY <2>1, <2>4, <2>5, FsStepAlone
<1> QED
  BY <1>1, <1>2, <1>3, <1>4, <1>5, <1>6, <1>7, <1>8

LEMMA FlashCallKeeps ==
    ASSUME FlashInv, NEW t \in FlashTasks, NEW op \in {"OP_READ", "OP_WRITE", "OP_ERASE"}, NEW p \in Pages,
           NEW data \in Contents, FlashCall(t, op, p, data)
    PROVE  FlashInv'
<1> DEFINE r == [NotCalled EXCEPT !.at = "ready", !.op = op, !.page = p, !.data = data, !.old = currentOperation]
<1>0. /\ flashTask \in [FlashTasks -> FlashCalls] /\ currentOperation \in FlashOps /\ overlapped \in BOOLEAN
      /\ page \in [Pages -> PageStates]
  BY FlashTypes DEF FlashInv
<1>1. /\ flashTask' = [flashTask EXCEPT ![t] = r] /\ flashTask[t].at = "idle"
      /\ UNCHANGED <<flashCfg, flashChip>> /\ currentOperation' = op
      /\ overlapped' = (overlapped \/ \E u \in FlashTasks \ {t} : ~At(u, "idle"))
      /\ t = "raw" => op = "OP_READ"
      /\ op = "OP_WRITE" => page[p] = "erased"
  BY DEF FlashCall, Becomes, At
<1>2. /\ r \in FlashCalls /\ r.at = "ready" /\ r.op = op /\ r.page = p /\ r.data = data /\ r.old = currentOperation
      /\ r.retries = 0 /\ r.success = FALSE
  BY <1>0, NotCalledIsCall, ZenonT(40) DEF FlashCalls, FlashPlaces, FlashOps, PageStates
<1> HIDE DEF r
<1>3. /\ flashTask' \in [FlashTasks -> FlashCalls] /\ flashTask'[t] = r
      /\ \A u \in FlashTasks \ {t} : flashTask'[u] = flashTask[u]
  BY <1>0, <1>1, <1>2
<1>4. overlapped' \in BOOLEAN
  BY <1>0, <1>1
<1>5. FlashTypeOK'
  BY <1>1, <1>3, <1>4 DEF FlashInv, FlashTypeOK, FlashOps, FlashPlaces, FlashCalls, flashChip
<1>6. \A u \in FlashTasks : ~At(u, "leave")' => flashTask'[u].retries < MaxRetries
  BY <1>2, <1>3, FlashAssumption DEF FlashInv, At
<1>7. FsCallRight'
  <2>1. CASE t = "fs"
    BY <1>1, <1>2, <1>3, <2>1 DEF FsCallRight, Writes, flashChip
  <2>2. CASE t = "raw"
    BY <1>1, <1>3, <2>2 DEF FlashInv, FsCallRight, Writes, DoneAsTold, flashChip, FlashTasks
  <2> QED
    BY <2>1, <2>2 DEF FlashTasks
<1>8. RawCallRight'
  <2>1. CASE t = "raw"
    BY <1>1, <1>2, <1>3, <2>1 DEF RawCallRight, Writes
  <2>2. CASE t = "fs"
    BY <1>1, <1>3, <2>2 DEF FlashInv, RawCallRight, Writes, flashChip, FlashTasks
  <2> QED
    BY <2>1, <2>2 DEF FlashTasks
<1>9. AloneInFlash'
  <2> SUFFICES ASSUME ~overlapped' PROVE AloneInFlash'
    BY DEF AloneInFlash
  <2>1. ~overlapped /\ \A u \in FlashTasks : At(u, "idle")
    BY <1>1 DEF At
  <2>2. currentOperation = "OP_IDLE"
    BY <2>1 DEF FlashInv, AloneInFlash
  <2>3. \A u \in FlashTasks \ {t} : At(u, "idle")'
    BY <1>3, <2>1 DEF At
  <2>4. ~At(t, "idle")' /\ flashTask'[t].old = "OP_IDLE" /\ \E u \in FlashTasks : u # t
    BY <1>2, <1>3, <2>2 DEF At, FlashTasks
  <2> QED
    BY <2>3, <2>4 DEF AloneInFlash
<1> QED
  BY <1>1, <1>5, <1>6, <1>7, <1>8, <1>9 DEF FlashInv, flashChip

LEMMA LeaveFlashKeeps ==
    ASSUME FlashInv, NEW t \in FlashTasks, LeaveFlash(t) PROVE FlashInv'
<1>0. /\ flashTask \in [FlashTasks -> FlashCalls] /\ currentOperation \in FlashOps
      /\ flashTask[t].old \in FlashOps
  BY FlashTypes DEF FlashInv, FlashCalls
<1>1. /\ flashTask' = [flashTask EXCEPT ![t] = NotCalled] /\ flashTask[t].at = "leave"
      /\ UNCHANGED <<flashCfg, flashChip, overlapped>> /\ currentOperation' = flashTask[t].old
  BY DEF LeaveFlash, Becomes, At
<1>3. NotCalled \in FlashCalls /\ NotCalled.at = "idle" /\ NotCalled.retries = 0 /\ NotCalled.op = "OP_IDLE"
  BY NotCalledIsCall
<1>4. /\ flashTask' \in [FlashTasks -> FlashCalls] /\ flashTask'[t] = NotCalled
      /\ \A u \in FlashTasks \ {t} : flashTask'[u] = flashTask[u]
  BY <1>0, <1>1, <1>3
<1>5. FlashTypeOK'
  BY <1>0, <1>1, <1>4 DEF FlashInv, FlashTypeOK, FlashOps, FlashPlaces, FlashCalls, flashChip
<1>6. \A u \in FlashTasks : ~At(u, "leave")' => flashTask'[u].retries < MaxRetries
  BY <1>3, <1>4, FlashAssumption DEF FlashInv, At
<1>7. FsCallRight'
  <2>1. CASE t = "fs"
    BY <1>3, <1>4, <2>1 DEF FsCallRight
  <2>2. CASE t = "raw"
    BY <1>1, <1>4, <2>2 DEF FlashInv, FsCallRight, Writes, DoneAsTold, flashChip, FlashTasks
  <2> QED
    BY <2>1, <2>2 DEF FlashTasks
<1>8. RawCallRight'
  <2>1. CASE t = "raw"
    BY <1>3, <1>4, <2>1 DEF RawCallRight
  <2>2. CASE t = "fs"
    BY <1>1, <1>4, <2>2 DEF FlashInv, RawCallRight, Writes, flashChip, FlashTasks
  <2> QED
    BY <2>1, <2>2 DEF FlashTasks
<1>9. AloneInFlash'
  <2> SUFFICES ASSUME ~overlapped PROVE AloneInFlash'
    BY <1>1 DEF AloneInFlash
  <2>1. flashTask[t].old = "OP_IDLE"
    BY <1>1 DEF FlashInv, AloneInFlash, At
  <2>2. \A u \in FlashTasks \ {t} : At(u, "idle")'
    BY <1>1, <1>4 DEF FlashInv, AloneInFlash, At, FlashTasks
  <2>3. At(t, "idle")'
    BY <1>3, <1>4 DEF At
  <2> QED
    BY <1>1, <2>1, <2>2, <2>3 DEF AloneInFlash
<1> QED
  BY <1>1, <1>5, <1>6, <1>7, <1>8, <1>9 DEF FlashInv, flashChip

LEMMA FlashInvNext == FlashInv /\ [FlashNext]_flashVars => FlashInv'
<1> SUFFICES ASSUME FlashInv, [FlashNext]_flashVars PROVE FlashInv'
  OBVIOUS
<1>1. ASSUME NEW known, NEW large, NEW entered, Identify(known, large, entered) PROVE FlashInv'
  <2>1. flashCfg' \in {"found", "none"} /\ UNCHANGED <<flashChip, currentOperation, flashTask, overlapped>>
    BY <1>1 DEF Identify
  <2>2. FlashTypeOK'
    BY <2>1 DEF FlashInv, FlashTypeOK, flashChip
  <2> QED
    BY <2>1, <2>2 DEF FlashInv, FsCallRight, RawCallRight, AloneInFlash, At, Writes, DoneAsTold, flashChip
<1>2. ASSUME NEW t \in FlashTasks, NEW op \in {"OP_READ", "OP_WRITE", "OP_ERASE"}, NEW p \in Pages,
             NEW data \in Contents, FlashCall(t, op, p, data)
      PROVE  FlashInv'
  BY <1>2, FlashCallKeeps
<1>3. ASSUME NEW t \in FlashTasks, FlashTaskStep(t) PROVE FlashInv'
  <2>1. CASE LeaveFlash(t)
    BY <2>1, LeaveFlashKeeps
  <2>2. CASE ~LeaveFlash(t)
    <3>1. PICK x \in Transfers :
             \/ WaitReady(t, x) \/ WriteEnable(t, x) \/ CheckWel(t, x) \/ ReadPage(t, x)
             \/ WritePage(t, x) \/ WaitFinished(t, x) \/ WriteDisable(t, x) \/ TryAgain(t)
      BY <1>3, <2>2 DEF FlashTaskStep, Transfers
    <3>2. ~At(t, "leave")
      BY <3>1 DEF WaitReady, WriteEnable, CheckWel, ReadPage, WritePage, WaitFinished, WriteDisable, TryAgain, At
    <3>3. t = "fs" \/ t = "raw"
      BY DEF FlashTasks
    <3> QED
      BY <3>1, <3>2, <3>3, FsStepsKeep, RawStepsKeep
  <2> QED
    BY <2>1, <2>2
<1>4. CASE ChipReady
  <2>1. busy /\ busy' = FALSE /\ wel' = FALSE /\ UNCHANGED <<flashCfg, page, currentOperation, flashTask, overlapped>>
    BY <1>4 DEF ChipReady
  <2>2. FlashTypeOK'
    BY <2>1 DEF FlashInv, FlashTypeOK
  <2>3. FsCallRight'
    BY <2>1 DEF FlashInv, FsCallRight, Writes, DoneAsTold
  <2>4. RawCallRight' /\ AloneInFlash'
    BY <2>1 DEF FlashInv, RawCallRight, AloneInFlash, At, Writes
  <2> QED
    BY <2>1, <2>2, <2>3, <2>4 DEF FlashInv, At
<1>5. CASE UNCHANGED flashVars
  <2>1. UNCHANGED <<flashCfg, page, busy, wel, currentOperation, flashTask, overlapped>>
    BY <1>5 DEF flashVars, flashChip
  <2>2. FlashTypeOK'
    BY <2>1 DEF FlashInv, FlashTypeOK
  <2>3. FsCallRight'
    BY <2>1 DEF FlashInv, FsCallRight, Writes, DoneAsTold
  <2>4. RawCallRight' /\ AloneInFlash'
    BY <2>1 DEF FlashInv, RawCallRight, AloneInFlash, At, Writes
  <2> QED
    BY <2>1, <2>2, <2>3, <2>4 DEF FlashInv, At
<1> QED
  BY <1>1, <1>2, <1>3, <1>4, <1>5 DEF FlashNext

LEMMA FlashInvImplies == FlashInv => FlashTypeOK /\ FlashDoesAsTold /\ LoneCallsAreClean
<1> SUFFICES ASSUME FlashInv PROVE FlashDoesAsTold /\ LoneCallsAreClean
  BY DEF FlashInv
<1>1. FlashDoesAsTold
  BY DEF FlashInv, FsCallRight, FlashDoesAsTold, DoneAsTold
<1>2. ASSUME NEW t \in FlashTasks, ~overlapped, At(t, "leave"), flashTask[t].op = "OP_READ", flashTask[t].success
      PROVE  flashTask[t].data # "spoilt"
  <2>1. CASE t = "fs"
    <3>1. flashTask["fs"].data = page[flashTask["fs"].page] /\ flashTask["fs"].page \in Pages
      BY <1>2, <2>1, FlashTypes DEF FlashInv, FsCallRight, DoneAsTold, At, FlashCalls
    <3> QED
      BY <2>1, <3>1 DEF FlashInv
  <2>2. CASE t = "raw"
    BY <1>2, <2>2 DEF FlashInv, RawCallRight, At
  <2> QED
    BY <2>1, <2>2 DEF FlashTasks
<1> QED
  BY <1>1, <1>2 DEF LoneCallsAreClean, FlashInv, AloneInFlash

---------------------------------------------------------------------------
(* The SD card *)

SdPlaces == {"idle", "lookup", "evict", "command", "receive", "commit", "copy", "send", "finish", "done"}
Caches == [isValid : BOOLEAN, blockIndex : Blocks, block : CardStates, holds : 0 .. NumBlocks]
SdCalls == [at : SdPlaces, op : Operations, block : Blocks, left : 0 .. NumBlocks, data : CardStates,
            sends : BOOLEAN, retries : 0 .. MaxSdRetries - 1, success : BOOLEAN]
SdSteps == {"reset", "if_cond", "op_cond", "ocr", "csd"}
SdInits == [at : SdSteps \cup {"none", "ready"}, tries : Nat, restarts : 0 .. MaxRestarts]

SdReading == {"lookup", "command", "receive", "commit", "copy"}

(* Where a call can be, and what is left of it to read. *)
SdShape(t, c) ==
    /\ c.at # "idle" => c.op # "OP_IDLE"
    /\ c.at \in {"lookup", "receive", "commit", "copy"} => c.op = "OP_READ"
    /\ c.at \in {"evict", "send", "finish"} => c.op \in {"OP_WRITE", "OP_ERASE"}
    /\ c.at = "send" => c.op = "OP_WRITE" /\ c.success = FALSE
    /\ c.op = "OP_READ" /\ c.at \in SdReading => c.left >= 1 /\ c.block + c.left <= NumBlocks
    /\ t = "raw" /\ c.at # "idle" => c.op = "OP_READ"

(* A block in the cache is the one of the card, unless the card was erased.*)
CacheRight ==
    cache.isValid /\ card[cache.blockIndex] # "erased" => cache.block = card[cache.blockIndex]

(* A call that reads has its block in the cache when it copies; for        *)
(* littlefs it is not an erased one.  What is written is in no cache.      *)
SdHolds(t) ==
    LET c == sdTask[t] IN
    /\ c.op = "OP_READ" =>
         /\ c.at \in {"command", "receive", "commit"} => ~cache.isValid
         /\ c.at = "commit" => cache.block = card[c.block]
         /\ c.at = "copy" => cache.isValid /\ cache.blockIndex = c.block
         /\ t = "fs" /\ c.at \in SdReading => \A i \in c.block .. c.block + c.left - 1 : card[i] # "erased"
    /\ c.op = "OP_WRITE" =>
         /\ c.at \in {"command", "send"} => ~(cache.isValid /\ cache.blockIndex = c.block)
         /\ c.at = "finish" => card[c.block] = c.data
    /\ t = "fs" /\ c.at = "done" /\ c.success /\ c.op # "OP_ERASE" => card[c.block] = c.data

SdAlone ==
    ~sdOverlap => /\ \E t \in SdTasks : SdAt(t, "idle")
                  /\ CacheRight
                  /\ \A t \in SdTasks : ~SdAt(t, "idle") => SdHolds(t)

SdInv ==
    /\ cardKind \in {"empty", "old", "sdsc", "sdhc"} /\ sdInit \in SdInits /\ OnlyLargeCards
    /\ card \in [Blocks -> CardStates] /\ cache \in Caches /\ sdOverlap \in BOOLEAN
    /\ sdTask \in [SdTasks -> SdCalls]
    /\ \A t \in SdTasks : SdShape(t, sdTask[t])
    /\ SdAlone

LEMMA SdNumbers ==
    /\ NumBlocks \in Nat \ {0} /\ MaxSdRetries \in Nat \ {0} /\ MaxRestarts \in Nat \ {0}
    /\ DOMAIN MaxTries = SdSteps /\ \A step \in SdSteps : MaxTries[step] \in Nat \ {0}
    /\ 0 \in Blocks /\ 0 \in 0 .. MaxSdRetries - 1 /\ 0 \in 0 .. MaxRestarts
  BY SdAssumption DEF SdSteps, Blocks

LEMMA NoSdCallIsCall ==
    /\ NoSdCall \in SdCalls /\ NoSdCall.at = "idle" /\ NoSdCall.op = "OP_IDLE"
    /\ NoSdCall.retries = 0 /\ NoSdCall.success = FALSE
  BY SdNumbers DEF NoSdCall, SdCalls, SdPlaces, Operations, CardStates

LEMMA SdInvInit == SdCardInit => SdInv
<1> SUFFICES ASSUME SdCardInit PROVE SdInv
  OBVIOUS
<1>1. sdInit \in SdInits /\ OnlyLargeCards
  BY SdNumbers DEF SdCardInit, SdInits, SdSteps, OnlyLargeCards
<1>2. /\ card \in [Blocks -> CardStates] /\ cache \in Caches /\ sdOverlap \in BOOLEAN
      /\ cache.isValid = FALSE
  <2>1. NumBlocks \in 0 .. NumBlocks /\ "erased" \in CardStates
    BY SdNumbers DEF CardStates
  <2> QED
    BY <2>1, SdNumbers DEF SdCardInit, Caches
<1>3. sdTask \in [SdTasks -> SdCalls] /\ \A t \in SdTasks : sdTask[t] = NoSdCall
  BY NoSdCallIsCall DEF SdCardInit
<1>4. \A t \in SdTasks : SdShape(t, sdTask[t])
  BY <1>3, NoSdCallIsCall DEF SdShape, SdReading
<1>5. SdAlone
  BY <1>2, <1>3, NoSdCallIsCall DEF SdAlone, SdAt, CacheRight, SdTasks
<1> QED
  BY <1>1, <1>2, <1>3, <1>4, <1>5 DEF SdInv, SdCardInit

LEMMA SdInvImplies == SdInv => SdTypeOK /\ OnlyLargeCards /\ SdDoesAsTold
<1> SUFFICES ASSUME SdInv PROVE SdTypeOK /\ OnlyLargeCards /\ SdDoesAsTold
  OBVIOUS
<1>1. SdCalls \subseteq
          [at : {"idle", "lookup", "evict", "command", "receive", "commit", "copy", "send", "finish", "done"},
           op : Operations, block : Blocks, left : 0 .. NumBlocks, data : CardStates, sends : BOOLEAN,
           retries : 0 .. MaxSdRetries, success : BOOLEAN]
  BY SdNumbers DEF SdCalls, SdPlaces
<1>2. sdInit.at \in DOMAIN MaxTries \cup {"none", "ready"} /\ sdInit.restarts \in 0 .. MaxRestarts /\ sdInit.tries \in Nat
  BY SdNumbers DEF SdInv, SdInits
<1>3. SdTypeOK
  BY <1>1, <1>2 DEF SdInv, SdTypeOK, Caches
<1>4. SdDoesAsTold
  BY DEF SdInv, SdAlone, SdDoesAsTold, SdHolds, SdAt, SdTasks
<1> QED
  BY <1>3, <1>4 DEF SdInv

(* Looking for a card: no call has begun, and only a large card gets ready.*)
LEMMA SdProbeKeeps == SdInv /\ SdProbeStep => SdInv'
<1> SUFFICES ASSUME SdInv, SdProbeStep PROVE SdInv'
  OBVIOUS
<1>0. sdInit \in SdInits /\ cardKind \in {"empty", "old", "sdsc", "sdhc"}
  BY DEF SdInv
<1>1. ASSUME NEW step \in SdSteps \cup {"none", "ready"} PROVE SdStep(step) \in SdInits /\ SdStep(step).at = step
  BY <1>0, SdNumbers DEF SdStep, SdInits
<1>2. ASSUME NEW step \in SdSteps, step = sdInit.at PROVE SdRetry(step) \in SdInits /\ SdRetry(step).at # "ready"
  <2>1. CASE sdInit.tries + 1 < MaxTries[step]
    BY <1>0, <1>2, <2>1 DEF SdRetry, SdInits, SdSteps
  <2>2. CASE ~(sdInit.tries + 1 < MaxTries[step])
    BY <1>1, <2>2 DEF SdRetry
  <2> QED
    BY <2>1, <2>2
<1>3. sdInit' \in SdInits /\ (sdInit'.at = "ready" => cardKind = "sdhc") /\ SdSkip
  <2>1. CASE SdGiveUp
    BY <1>1, <2>1 DEF SdGiveUp
  <2>2. ASSUME NEW response, SdReset(response) PROVE <1>3!:
    BY <1>1, <1>2, <2>2 DEF SdReset, SdSteps
  <2>3. ASSUME NEW response, SdIfCond(response) PROVE <1>3!:
    BY <1>1, <1>2, <2>3 DEF SdIfCond, SdSteps
  <2>4. ASSUME NEW response, SdOpCond(response) PROVE <1>3!:
    <3>1. CASE response \notin {"OK", "IDLE"}
      BY <1>1, <2>4, <3>1 DEF SdOpCond, SdSteps
    <3>2. CASE response = "IDLE" /\ sdInit.tries + 1 < MaxTries["op_cond"]
      BY <1>0, <2>4, <3>2 DEF SdOpCond, SdSteps, SdInits
    <3>3. CASE response \in {"OK", "IDLE"} /\ ~(response = "IDLE" /\ sdInit.tries + 1 < MaxTries["op_cond"])
      BY <1>1, <2>4, <3>3 DEF SdOpCond, SdSteps
    <3> QED
      BY <3>1, <3>2, <3>3
  <2>5. ASSUME NEW response, NEW b \in BOOLEAN, SdOcr(response, b) PROVE <1>3!:
    <3>1. CASE response = "IDLE_ILLEGAL"
      BY <1>1, <2>5, <3>1 DEF SdOcr, SdSteps
    <3>2. CASE response = "OK"
      BY <1>1, <2>5, <3>2 DEF SdOcr, SdSteps
    <3>3. CASE response \notin {"OK", "IDLE_ILLEGAL"}
      BY <1>2, <2>5, <3>3 DEF SdOcr, SdSteps
    <3> QED
      BY <3>1, <3>2, <3>3
  <2>6. ASSUME NEW response, NEW b \in BOOLEAN, SdCsd(response, b) PROVE <1>3!:
    <3>0. sdInit.at = "csd" /\ (b => cardKind = "sdhc") /\ SdSkip
      BY <2>6 DEF SdCsd
    <3>1. CASE response = "OK"
      BY <1>1, <2>6, <3>0, <3>1 DEF SdCsd, SdSteps
    <3>2. CASE response = "IDLE_ILLEGAL" /\ sdInit.restarts + 1 < MaxRestarts
      <4>1. sdInit' = [at |-> "reset", tries |-> 0, restarts |-> sdInit.restarts + 1]
        BY <2>6, <3>2 DEF SdCsd
      <4>2. sdInit.restarts + 1 \in 0 .. MaxRestarts
        BY <1>0, <3>2, SdNumbers DEF SdInits
      <4> QED
        BY <3>0, <4>1, <4>2 DEF SdInits, SdSteps
    <3>3. CASE response # "OK" /\ ~(response = "IDLE_ILLEGAL" /\ sdInit.restarts + 1 < MaxRestarts)
      <4> DEFINE q == SdRetry("csd")
                 n == IF response = "IDLE_ILLEGAL" THEN MaxRestarts ELSE q.restarts
      <4>1. sdInit' = [q EXCEPT !.restarts = n]
        BY <2>6, <3>3 DEF SdCsd
      <4>2. q \in SdInits /\ q.at # "ready"
        BY <1>2, <3>0 DEF SdSteps
      <4> HIDE DEF q
      <4>3. n \in 0 .. MaxRestarts
        BY <4>2, SdNumbers DEF SdInits
      <4> QED
        BY <3>0, <4>1, <4>2, <4>3 DEF SdInits
    <3> QED
      BY <3>1, <3>2, <3>3
  <2> QED
    BY <2>1, <2>2, <2>3, <2>4, <2>5, <2>6 DEF SdProbeStep
<1> QED
  BY <1>3 DEF SdSkip, SdInv, OnlyLargeCards, SdAlone, SdAt, CacheRight, SdHolds

(* What remains to be shown of a step of a call that goes on.  When calls  *)
(* do not overlap the other task has none.                                 *)
SdGoesOn(t, r) ==
    /\ sdTask' = [sdTask EXCEPT ![t] = r]
    /\ r \in SdCalls /\ SdShape(t, r) /\ r.at # "idle" /\ sdTask[t].at # "idle"
    /\ UNCHANGED <<sdProbe, sdOverlap>>

LEMMA SdKeeps ==
    ASSUME SdInv, NEW t \in SdTasks, NEW r, SdGoesOn(t, r),
           card' \in [Blocks -> CardStates], cache' \in Caches,
           ~sdOverlap => CacheRight' /\ SdHolds(t)'
    PROVE  SdInv'
<1>1. /\ sdTask' \in [SdTasks -> SdCalls] /\ sdTask'[t] = r
      /\ \A u \in SdTasks \ {t} : sdTask'[u] = sdTask[u]
  BY DEF SdInv, SdGoesOn
<1>2. \A u \in SdTasks : SdShape(u, sdTask'[u])
  BY <1>1 DEF SdInv, SdGoesOn
<1>3. SdAlone'
  <2> SUFFICES ASSUME ~sdOverlap PROVE SdAlone'
    BY DEF SdAlone, SdGoesOn
  <2>1. \A u \in SdTasks \ {t} : SdAt(u, "idle")'
    BY <1>1 DEF SdInv, SdAlone, SdAt, SdGoesOn, SdTasks
  <2>2. \E u \in SdTasks : u # t
    BY DEF SdTasks
  <2> QED
    BY <2>1, <2>2 DEF SdAlone
<1>4. cardKind' \in {"empty", "old", "sdsc", "sdhc"} /\ sdInit' \in SdInits /\ OnlyLargeCards' /\ sdOverlap' \in BOOLEAN
  BY DEF SdInv, SdGoesOn, sdProbe, OnlyLargeCards
<1>5. \A u \in SdTasks : SdShape(u, sdTask[u])'
  BY <1>2 DEF SdShape
<1> QED
  BY <1>1, <1>3, <1>4, <1>5 DEF SdInv

(* The reply to a call. *)
LEMMA Replied ==
    ASSUME NEW t \in SdTasks, sdTask[t] \in SdCalls, SdShape(t, sdTask[t]), sdTask[t].at # "idle", NEW ok \in BOOLEAN
    PROVE  /\ Reply(t, ok) \in SdCalls /\ SdShape(t, Reply(t, ok)) /\ Reply(t, ok).at = "done"
           /\ Reply(t, ok).success = ok /\ Reply(t, ok).op = sdTask[t].op
           /\ Reply(t, ok).block = sdTask[t].block /\ Reply(t, ok).data = sdTask[t].data
<1>1. Reply(t, ok) = [sdTask[t] EXCEPT !.at = "done", !.success = ok, !.retries = 0, !.sends = FALSE]
  BY DEF Reply
<1>2. /\ Reply(t, ok) \in SdCalls /\ Reply(t, ok).at = "done"
      /\ Reply(t, ok).success = ok /\ Reply(t, ok).op = sdTask[t].op
      /\ Reply(t, ok).block = sdTask[t].block /\ Reply(t, ok).data = sdTask[t].data
  BY <1>1, SdNumbers, ZenonT(40) DEF SdCalls, SdPlaces
<1> QED
  BY <1>2 DEF SdShape, SdReading

(* The retry of a write. *)
LEMMA TriedAgain ==
    ASSUME NEW t \in SdTasks, sdTask[t] \in SdCalls, SdShape(t, sdTask[t]), sdTask[t].at # "idle",
           sdTask[t].op # "OP_READ"
    PROVE  /\ Again(t) \in SdCalls /\ SdShape(t, Again(t)) /\ Again(t).at \in {"command", "done"}
           /\ Again(t).at = "done" => Again(t).success = FALSE
           /\ Again(t).op = sdTask[t].op /\ Again(t).block = sdTask[t].block /\ Again(t).data = sdTask[t].data
<1> DEFINE c == sdTask[t]
<1>1. CASE c.retries + 1 < MaxSdRetries
  <2> DEFINE n == c.retries + 1
  <2>1. Again(t) = [c EXCEPT !.at = "command", !.retries = n]
    BY <1>1 DEF Again
  <2>2. n \in 0 .. MaxSdRetries - 1
    BY <1>1, SdNumbers DEF SdCalls
  <2> HIDE DEF n
  <2> QED
    BY <2>1, <2>2 DEF SdCalls, SdPlaces, SdShape
<1>2. CASE ~(c.retries + 1 < MaxSdRetries)
  <2>1. Again(t) = [c EXCEPT !.at = "done", !.retries = 0, !.success = FALSE]
    BY <1>2 DEF Again
  <2> QED
    BY <2>1, SdNumbers, ZenonT(40) DEF SdCalls, SdPlaces, SdShape, SdReading
<1> QED
  BY <1>1, <1>2

LEMMA SdReadKeeps ==
    ASSUME SdInv, NEW t \in SdTasks,
           Lookup(t) \/ (\E ok \in BOOLEAN : ReadCommand(t, ok)) \/ Commit(t) \/ CopyOut(t)
    PROVE  SdInv'
<1> DEFINE c == sdTask[t]
<1>0. /\ c \in SdCalls /\ SdShape(t, c) /\ sdTask \in [SdTasks -> SdCalls]
      /\ card \in [Blocks -> CardStates] /\ cache \in Caches
      /\ c.block \in Blocks /\ c.left \in 0 .. NumBlocks
  BY DEF SdInv, SdCalls
<1>a. ~sdOverlap /\ c.at # "idle" => CacheRight /\ SdHolds(t)
  BY DEF SdInv, SdAlone, SdAt
<1>b. ASSUME NEW r, sdTask' = [sdTask EXCEPT ![t] = r] PROVE sdTask'[t] = r
  BY <1>0, <1>b
<1>1. CASE Lookup(t)
  <2>0. c.at = "lookup" /\ c.op = "OP_READ" /\ UNCHANGED <<sdProbe, card, sdOverlap>>
    BY <1>0, <1>1 DEF Lookup, SdAt, SdShape
  <2>1. CASE cache.isValid /\ cache.blockIndex = c.block
    <3> DEFINE r == [c EXCEPT !.at = "copy"]
    <3>1. sdTask' = [sdTask EXCEPT ![t] = r] /\ UNCHANGED cache
      BY <1>1, <2>1 DEF Lookup, SdBecomes
    <3>2. r \in SdCalls /\ r.at = "copy" /\ r.op = c.op /\ r.block = c.block /\ r.left = c.left
      BY <1>0 DEF SdCalls, SdPlaces
    <3> HIDE DEF r
    <3>3. SdShape(t, r)
      BY <1>0, <2>0, <3>2 DEF SdShape, SdReading
    <3>4. SdGoesOn(t, r)
      BY <2>0, <3>1, <3>2, <3>3 DEF SdGoesOn
    <3>5. ~sdOverlap => CacheRight' /\ SdHolds(t)'
      BY <1>a, <1>b, <2>0, <2>1, <3>1, <3>2 DEF CacheRight, SdHolds, SdReading
    <3> QED
      BY <1>0, <2>0, <3>1, <3>4, <3>5, SdKeeps
  <2>2. CASE ~(cache.isValid /\ cache.blockIndex = c.block)
    <3> DEFINE r == [c EXCEPT !.at = "command"]
    <3>1. sdTask' = [sdTask EXCEPT ![t] = r] /\ cache' = [cache EXCEPT !.isValid = FALSE]
      BY <1>1, <2>2 DEF Lookup, SdBecomes
    <3>2. r \in SdCalls /\ r.at = "command" /\ r.op = c.op /\ r.block = c.block /\ r.left = c.left
      BY <1>0 DEF SdCalls, SdPlaces
    <3> HIDE DEF r
    <3>3. SdShape(t, r)
      BY <1>0, <2>0, <3>2 DEF SdShape, SdReading
    <3>4. SdGoesOn(t, r)
      BY <2>0, <3>1, <3>2, <3>3 DEF SdGoesOn
    <3>5. cache' \in Caches /\ cache'.isValid = FALSE
      BY <1>0, <3>1 DEF Caches
    <3>6. ~sdOverlap => CacheRight' /\ SdHolds(t)'
      BY <1>a, <1>b, <2>0, <3>1, <3>2, <3>5 DEF CacheRight, SdHolds, SdReading
    <3> QED
      BY <1>0, <2>0, <3>4, <3>5, <3>6, SdKeeps
  <2> QED
    BY <2>1, <2>2
<1>2. ASSUME NEW ok \in BOOLEAN, ReadCommand(t, ok) PROVE SdInv'
  <2>0. c.at = "command" /\ c.op = "OP_READ" /\ UNCHANGED <<sdProbe, card, cache, sdOverlap>>
    BY <1>2 DEF ReadCommand, SdAt
  <2>1. CASE ok
    <3> DEFINE r == [c EXCEPT !.at = "receive", !.sends = TRUE]
    <3>1. sdTask' = [sdTask EXCEPT ![t] = r]
      BY <1>2, <2>1 DEF ReadCommand, SdBecomes
    <3>2. r \in SdCalls /\ r.at = "receive" /\ r.op = c.op /\ r.block = c.block /\ r.left = c.left
      BY <1>0 DEF SdCalls, SdPlaces
    <3> HIDE DEF r
    <3>3. SdShape(t, r)
      BY <1>0, <2>0, <3>2 DEF SdShape, SdReading
    <3>4. SdGoesOn(t, r)
      BY <2>0, <3>1, <3>2, <3>3 DEF SdGoesOn
    <3>5. ~sdOverlap => CacheRight' /\ SdHolds(t)'
      BY <1>a, <1>b, <2>0, <3>1, <3>2 DEF CacheRight, SdHolds, SdReading
    <3> QED
      BY <1>0, <2>0, <3>4, <3>5, SdKeeps
  <2>2. CASE ~ok
    <3> DEFINE r == Reply(t, FALSE)
    <3>1. sdTask' = [sdTask EXCEPT ![t] = r]
      BY <1>2, <2>2 DEF ReadCommand, SdBecomes
    <3>2. r \in SdCalls /\ SdShape(t, r) /\ r.at = "done" /\ r.success = FALSE /\ r.op = "OP_READ"
      BY <1>0, <2>0, Replied
    <3> HIDE DEF r
    <3>3. SdGoesOn(t, r)
      BY <2>0, <3>1, <3>2 DEF SdGoesOn
    <3>4. ~sdOverlap => CacheRight' /\ SdHolds(t)'
      BY <1>a, <1>b, <2>0, <3>1, <3>2 DEF CacheRight, SdHolds, SdReading
    <3> QED
      BY <1>0, <2>0, <3>3, <3>4, SdKeeps
  <2> QED
    BY <2>1, <2>2
<1>3. CASE Commit(t)
  <2> DEFINE r == [c EXCEPT !.at = "copy", !.retries = 0, !.sends = FALSE]
  <2>1. /\ c.at = "commit" /\ c.op = "OP_READ" /\ UNCHANGED <<sdProbe, card, sdOverlap>>
        /\ sdTask' = [sdTask EXCEPT ![t] = r]
        /\ cache' = [cache EXCEPT !.blockIndex = c.block, !.isValid = TRUE]
    BY <1>0, <1>3 DEF Commit, SdAt, SdShape, SdBecomes
  <2>2. r \in SdCalls /\ r.at = "copy" /\ r.op = c.op /\ r.block = c.block /\ r.left = c.left
    BY <1>0, SdNumbers DEF SdCalls, SdPlaces
  <2> HIDE DEF r
  <2>3. SdShape(t, r)
    BY <1>0, <2>1, <2>2 DEF SdShape, SdReading
  <2>4. SdGoesOn(t, r)
    BY <2>1, <2>2, <2>3 DEF SdGoesOn
  <2>5. cache' \in Caches /\ cache'.isValid = TRUE /\ cache'.blockIndex = c.block /\ cache'.block = cache.block
    BY <1>0, <2>1 DEF Caches
  <2>6. ASSUME ~sdOverlap PROVE CacheRight' /\ SdHolds(t)'
    <3>1. /\ cache.block = card[c.block]
          /\ t = "fs" => \A i \in c.block .. c.block + c.left - 1 : card[i] # "erased"
      BY <1>a, <2>1, <2>6 DEF SdHolds, SdReading
    <3>2. sdTask'[t] = r /\ card' = card
      BY <1>b, <2>1
    <3>3. CacheRight'
      BY <2>5, <3>1, <3>2 DEF CacheRight
    <3>4. SdHolds(t)'
      BY <2>1, <2>2, <2>5, <3>1, <3>2 DEF SdHolds, SdReading
    <3> QED
      BY <3>3, <3>4
  <2> QED
    BY <1>0, <2>1, <2>4, <2>5, <2>6, SdKeeps
<1>4. CASE CopyOut(t)
  <2> DEFINE last == c.left = 1
             y == IF last THEN "done" ELSE "lookup"
             b == IF last THEN c.block ELSE c.block + 1
             n == c.left - 1
             d == cache.block
             r == [c EXCEPT !.at = y, !.block = b, !.left = n, !.data = d, !.success = TRUE]
  <2>1. /\ c.at = "copy" /\ c.op = "OP_READ" /\ UNCHANGED <<sdProbe, card, cache, sdOverlap>>
        /\ sdTask' = [sdTask EXCEPT ![t] = r]
    BY <1>0, <1>4 DEF CopyOut, SdAt, SdShape, SdBecomes
  <2>2. c.left >= 1 /\ c.block + c.left <= NumBlocks
    BY <1>0, <2>1 DEF SdShape, SdReading
  <2>3. /\ b \in Blocks /\ n \in 0 .. NumBlocks /\ d \in CardStates /\ y \in {"done", "lookup"}
        /\ y = "lookup" => n >= 1 /\ b + n <= NumBlocks /\ b = c.block + 1
        /\ y = "done" => b = c.block
    BY <1>0, <2>2, SdNumbers, SMTT(30) DEF Blocks, Caches
  <2>4. \A i \in b .. b + n - 1 : y = "lookup" => i \in c.block .. c.block + c.left - 1
    BY <1>0, <2>2, SdNumbers, SMTT(30) DEF Blocks
  <2>a. c.block \in c.block .. c.block + c.left - 1
    BY <1>0, <2>2, SdNumbers DEF Blocks
  <2> HIDE DEF y, b, n, d
  <2>5. /\ r \in SdCalls /\ r.at = y /\ r.op = c.op /\ r.block = b /\ r.left = n /\ r.data = d
    BY <1>0, <2>3 DEF SdCalls, SdPlaces
  <2> HIDE DEF r
  <2>6. SdShape(t, r)
    BY <1>0, <2>1, <2>3, <2>5 DEF SdShape, SdReading
  <2>7. SdGoesOn(t, r)
    BY <2>1, <2>3, <2>5, <2>6 DEF SdGoesOn
  <2>8. ASSUME ~sdOverlap PROVE CacheRight' /\ SdHolds(t)'
    <3>1. CacheRight /\ cache.isValid /\ cache.blockIndex = c.block
          /\ (t = "fs" => \A i \in c.block .. c.block + c.left - 1 : card[i] # "erased")
      BY <1>a, <2>1, <2>8 DEF SdHolds, SdReading
    <3>2. t = "fs" => card[c.block] = d
      BY <2>a, <3>1 DEF CacheRight, d
    <3> QED
      BY <1>b, <2>1, <2>3, <2>4, <2>5, <3>1, <3>2 DEF CacheRight, SdHolds, SdReading
  <2> QED
    BY <1>0, <2>1, <2>7, <2>8, SdKeeps
<1> QED
  BY <1>1, <1>2, <1>3, <1>4

LEMMA ReceiveKeeps ==
    ASSUME SdInv, NEW t \in SdTasks, NEW outcome \in {"ok", "lost", "early"}, Receive(t, outcome)
    PROVE  SdInv'
<1> DEFINE c == sdTask[t]
<1>0. /\ c \in SdCalls /\ SdShape(t, c) /\ sdTask \in [SdTasks -> SdCalls]
      /\ card \in [Blocks -> CardStates] /\ cache \in Caches
      /\ c.block \in Blocks /\ c.left \in 0 .. NumBlocks /\ card[c.block] \in CardStates
  BY DEF SdInv, SdCalls
<1>a. ~sdOverlap /\ c.at # "idle" => CacheRight /\ SdHolds(t)
  BY DEF SdInv, SdAlone, SdAt
<1>b. ASSUME NEW r, sdTask' = [sdTask EXCEPT ![t] = r] PROVE sdTask'[t] = r
  BY <1>0, <1>b
<1>1. c.at = "receive" /\ c.op = "OP_READ" /\ UNCHANGED <<sdProbe, card, sdOverlap>>
  BY <1>0 DEF Receive, SdAt, SdShape
<1>2. /\ cache' \in Caches /\ cache'.isValid = cache.isValid /\ cache'.blockIndex = cache.blockIndex
      /\ outcome = "ok" => cache'.block = card[c.block]
  <2>0. NumBlocks \in 0 .. NumBlocks /\ Blocks \subseteq 0 .. NumBlocks /\ "spoilt" \in CardStates
    BY SdNumbers DEF Blocks, CardStates
  <2>1. CASE outcome = "ok"
    <3>1. cache' = [cache EXCEPT !.holds = c.block, !.block = card[c.block]]
      BY <2>1 DEF Receive
    <3> QED
      BY <1>0, <2>0, <3>1 DEF Caches
  <2>2. CASE outcome = "lost"
    <3>1. cache' = [cache EXCEPT !.holds = NumBlocks, !.block = "spoilt"]
      BY <2>2 DEF Receive
    <3> QED
      BY <1>0, <2>0, <2>2, <3>1 DEF Caches
  <2>3. CASE outcome = "early"
    BY <1>0, <2>3 DEF Receive
  <2> QED
    BY <2>1, <2>2, <2>3
<1>3. \E r \in SdCalls : /\ sdTask' = [sdTask EXCEPT ![t] = r] /\ SdShape(t, r)
                         /\ r.op = "OP_READ" /\ r.block = c.block /\ r.left = c.left
                         /\ \/ r.at = "commit" /\ outcome = "ok"
                            \/ r.at = "done" /\ r.success = FALSE
                            \/ r.at = "receive"
  <2>1. CASE outcome = "ok"
    <3> DEFINE r == [c EXCEPT !.at = "commit"]
    <3>1. sdTask' = [sdTask EXCEPT ![t] = r]
      BY <2>1 DEF Receive, SdBecomes
    <3>2. r \in SdCalls /\ r.at = "commit" /\ r.op = c.op /\ r.block = c.block /\ r.left = c.left
      BY <1>0 DEF SdCalls, SdPlaces
    <3> HIDE DEF r
    <3>3. SdShape(t, r)
      BY <1>0, <1>1, <3>2 DEF SdShape, SdReading
    <3> QED
      BY <1>1, <2>1, <3>1, <3>2, <3>3
  <2>2. CASE outcome # "ok" /\ c.retries + 1 = MaxSdRetries
    <3> DEFINE r == Reply(t, FALSE)
    <3>1. sdTask' = [sdTask EXCEPT ![t] = r]
      BY <2>2 DEF Receive, SdBecomes
    <3>2. r \in SdCalls /\ SdShape(t, r) /\ r.at = "done" /\ r.success = FALSE /\ r.op = "OP_READ" /\ r.block = c.block
      BY <1>0, <1>1, Replied
    <3>3. r.left = c.left
      BY <1>0 DEF Reply, SdCalls
    <3> HIDE DEF r
    <3> QED
      BY <3>1, <3>2, <3>3
  <2>3. CASE outcome # "ok" /\ c.retries + 1 # MaxSdRetries
    <3> DEFINE n == c.retries + 1
               more == c.sends /\ outcome = "early"
               r == [c EXCEPT !.retries = n, !.sends = more]
    <3>1. sdTask' = [sdTask EXCEPT ![t] = r]
      BY <2>3 DEF Receive, SdBecomes
    <3>2. n \in 0 .. MaxSdRetries - 1 /\ more \in BOOLEAN
      <4>1. c.retries \in 0 .. MaxSdRetries - 1 /\ c.sends \in BOOLEAN
        BY <1>0 DEF SdCalls
      <4>2. n \in 0 .. MaxSdRetries - 1
        BY <2>3, <4>1, SdNumbers
      <4> QED
        BY <4>1, <4>2
    <3> HIDE DEF n, more
    <3>3. r \in SdCalls /\ r.at = "receive" /\ r.op = c.op /\ r.block = c.block /\ r.left = c.left
      BY <1>0, <1>1, <3>2 DEF SdCalls
    <3> HIDE DEF r
    <3>4. SdShape(t, r)
      BY <1>0, <1>1, <3>3 DEF SdShape, SdReading
    <3> QED
      BY <1>1, <3>1, <3>3, <3>4
  <2> QED
    BY <2>1, <2>2, <2>3
<1>4. PICK r \in SdCalls : /\ sdTask' = [sdTask EXCEPT ![t] = r] /\ SdShape(t, r)
                           /\ r.op = "OP_READ" /\ r.block = c.block /\ r.left = c.left
                           /\ \/ r.at = "commit" /\ outcome = "ok"
                              \/ r.at = "done" /\ r.success = FALSE
                              \/ r.at = "receive"
  BY <1>3
<1>5. SdGoesOn(t, r)
  BY <1>1, <1>4 DEF SdGoesOn
<1>6. ~sdOverlap => CacheRight' /\ SdHolds(t)'
  BY <1>a, <1>b, <1>1, <1>2, <1>4 DEF CacheRight, SdHolds, SdReading
<1> QED
  BY <1>0, <1>1, <1>2, <1>5, <1>6, SdKeeps

LEMMA SdWriteKeeps ==
    ASSUME SdInv, NEW t \in SdTasks,
           \/ Evict(t) \/ \E ok \in BOOLEAN : WriteCommand(t, ok) \/ FinishWrite(t, ok)
           \/ \E sent \in BOOLEAN, response \in {"OK", "CRC_ERROR", "other"} : SendBlock(t, sent, response)
    PROVE  SdInv'
<1> DEFINE c == sdTask[t]
<1>0. /\ c \in SdCalls /\ SdShape(t, c) /\ sdTask \in [SdTasks -> SdCalls]
      /\ card \in [Blocks -> CardStates] /\ cache \in Caches
      /\ c.block \in Blocks /\ c.data \in CardStates /\ cache.blockIndex \in Blocks
  BY DEF SdInv, SdCalls, Caches
<1>a. ~sdOverlap /\ c.at # "idle" => CacheRight /\ SdHolds(t)
  BY DEF SdInv, SdAlone, SdAt
<1>b. ASSUME NEW r, sdTask' = [sdTask EXCEPT ![t] = r] PROVE sdTask'[t] = r
  BY <1>0, <1>b
<1>1. CASE Evict(t)
  <2> DEFINE r == [c EXCEPT !.at = "command"]
             valid == cache.isValid /\ cache.blockIndex # c.block
  <2>1. /\ c.at = "evict" /\ c.op \in {"OP_WRITE", "OP_ERASE"} /\ UNCHANGED <<sdProbe, card, sdOverlap>>
        /\ sdTask' = [sdTask EXCEPT ![t] = r] /\ cache' = [cache EXCEPT !.isValid = valid]
    BY <1>0, <1>1 DEF Evict, SdAt, SdShape, SdBecomes
  <2>2. r \in SdCalls /\ r.at = "command" /\ r.op = c.op /\ r.block = c.block
    BY <1>0 DEF SdCalls, SdPlaces
  <2> HIDE DEF r
  <2>3. SdShape(t, r)
    BY <1>0, <2>1, <2>2 DEF SdShape
  <2>4. SdGoesOn(t, r)
    BY <2>1, <2>2, <2>3 DEF SdGoesOn
  <2>5. valid \in BOOLEAN /\ (valid => cache.isValid /\ cache.blockIndex # c.block)
    BY <1>0 DEF Caches
  <2> HIDE DEF valid
  <2>6. /\ cache' \in Caches /\ cache'.isValid = valid
        /\ cache'.blockIndex = cache.blockIndex /\ cache'.block = cache.block
    BY <1>0, <2>1, <2>5 DEF Caches
  <2>7. ASSUME ~sdOverlap PROVE CacheRight' /\ SdHolds(t)'
    <3>1. CacheRight /\ sdTask'[t] = r /\ card' = card
      BY <1>a, <1>b, <2>1, <2>7
    <3>2. CacheRight'
      BY <2>5, <2>6, <3>1 DEF CacheRight
    <3>3. SdHolds(t)'
      BY <2>1, <2>2, <2>5, <2>6, <3>1 DEF SdHolds
    <3> QED
      BY <3>2, <3>3
  <2> QED
    BY <1>0, <2>1, <2>4, <2>6, <2>7, SdKeeps
<1>2. ASSUME NEW ok \in BOOLEAN, WriteCommand(t, ok) PROVE SdInv'
  <2>0. c.at = "command" /\ c.op \in {"OP_WRITE", "OP_ERASE"} /\ UNCHANGED <<sdProbe, cache, sdOverlap>>
    <3>1. c.at = "command" /\ c.op # "OP_READ" /\ UNCHANGED <<sdProbe, cache, sdOverlap>>
      BY <1>2 DEF WriteCommand, SdAt
    <3> QED
      BY <1>0, <3>1 DEF SdShape, SdCalls, Operations
  <2>1. CASE ~ok
    <3> DEFINE r == Again(t)
    <3>1. sdTask' = [sdTask EXCEPT ![t] = r] /\ UNCHANGED card
      BY <1>2, <2>1 DEF WriteCommand, SdBecomes
    <3>2. /\ r \in SdCalls /\ SdShape(t, r) /\ r.at \in {"command", "done"} /\ r.op = c.op /\ r.block = c.block
          /\ r.at = "done" => r.success = FALSE
      BY <1>0, <2>0, TriedAgain
    <3> HIDE DEF r
    <3>3. SdGoesOn(t, r)
      BY <2>0, <3>1, <3>2 DEF SdGoesOn
    <3>4. ~sdOverlap => CacheRight' /\ SdHolds(t)'
      BY <1>a, <1>b, <2>0, <3>1, <3>2 DEF CacheRight, SdHolds
    <3> QED
      BY <1>0, <2>0, <3>1, <3>3, <3>4, SdKeeps
  <2>2. CASE ok /\ c.op = "OP_WRITE"
    <3> DEFINE r == [c EXCEPT !.at = "send", !.success = FALSE]
    <3>1. sdTask' = [sdTask EXCEPT ![t] = r] /\ UNCHANGED card
      BY <1>2, <2>2 DEF WriteCommand, SdBecomes
    <3>2. r \in SdCalls /\ r.at = "send" /\ r.op = c.op /\ r.block = c.block /\ r.success = FALSE
      BY <1>0 DEF SdCalls, SdPlaces
    <3> HIDE DEF r
    <3>3. SdShape(t, r)
      BY <1>0, <2>0, <2>2, <3>2 DEF SdShape
    <3>4. SdGoesOn(t, r)
      BY <2>0, <3>1, <3>2, <3>3 DEF SdGoesOn
    <3>5. ~sdOverlap => CacheRight' /\ SdHolds(t)'
      BY <1>a, <1>b, <2>0, <2>2, <3>1, <3>2 DEF CacheRight, SdHolds
    <3> QED
      BY <1>0, <2>0, <3>1, <3>4, <3>5, SdKeeps
  <2>3. CASE ok /\ c.op = "OP_ERASE"
    <3> DEFINE r == [c EXCEPT !.at = "finish", !.success = TRUE]
    <3>1. sdTask' = [sdTask EXCEPT ![t] = r] /\ card' = [b \in Blocks |-> "erased"]
      BY <1>2, <2>3 DEF WriteCommand, SdBecomes
    <3>2. r \in SdCalls /\ r.at = "finish" /\ r.op = c.op
      BY <1>0 DEF SdCalls, SdPlaces
    <3> HIDE DEF r
    <3>3. SdShape(t, r)
      BY <1>0, <2>0, <2>3, <3>2 DEF SdShape
    <3>4. SdGoesOn(t, r)
      BY <2>0, <3>1, <3>2, <3>3 DEF SdGoesOn
    <3>5. CacheRight' /\ SdHolds(t)'
      BY <1>0, <1>b, <2>0, <2>3, <3>1, <3>2 DEF CacheRight, SdHolds
    <3>6. card' \in [Blocks -> CardStates]
      BY <3>1 DEF CardStates
    <3> QED
      BY <1>0, <2>0, <3>4, <3>5, <3>6, SdKeeps
  <2> QED
    BY <2>0, <2>1, <2>2, <2>3
<1>3. ASSUME NEW ok \in BOOLEAN, FinishWrite(t, ok) PROVE SdInv'
  <2> DEFINE s == ok \/ c.op = "OP_ERASE"
             r == Reply(t, s)
  <2>1. /\ c.at = "finish" /\ c.op \in {"OP_WRITE", "OP_ERASE"} /\ UNCHANGED <<sdProbe, card, cache, sdOverlap>>
        /\ sdTask' = [sdTask EXCEPT ![t] = r]
    BY <1>0, <1>3 DEF FinishWrite, SdAt, SdShape, SdBecomes
  <2>2. /\ r \in SdCalls /\ SdShape(t, r) /\ r.at = "done" /\ r.op = c.op /\ r.block = c.block
        /\ r.data = c.data
    BY <1>0, <2>1, Replied
  <2> HIDE DEF r
  <2>3. SdGoesOn(t, r)
    BY <2>1, <2>2 DEF SdGoesOn
  <2>4. ~sdOverlap => CacheRight' /\ SdHolds(t)'
    BY <1>a, <1>b, <2>1, <2>2 DEF CacheRight, SdHolds
  <2> QED
    BY <1>0, <2>1, <2>3, <2>4, SdKeeps
<1>4. ASSUME NEW sent \in BOOLEAN, NEW response \in {"OK", "CRC_ERROR", "other"}, SendBlock(t, sent, response)
      PROVE  SdInv'
  <2>0. c.at = "send" /\ c.op = "OP_WRITE" /\ c.success = FALSE /\ UNCHANGED <<sdProbe, cache, sdOverlap>>
    BY <1>0, <1>4 DEF SendBlock, SdAt, SdShape
  <2>1. CASE sent /\ response = "OK"
    <3> DEFINE r == [c EXCEPT !.at = "finish"]
    <3>1. sdTask' = [sdTask EXCEPT ![t] = r]
      BY <1>4, <2>1 DEF SendBlock, SdBecomes
    <3>2. PICK d \in {c.data} \cup (IF Disturbed(t) THEN {"spoilt"} ELSE {}) : card' = [card EXCEPT ![c.block] = d]
      BY <1>4, <2>1 DEF SendBlock
    <3>3. r \in SdCalls /\ r.at = "finish" /\ r.op = c.op /\ r.block = c.block /\ r.data = c.data
      BY <1>0 DEF SdCalls, SdPlaces
    <3>4. d \in CardStates
      BY <1>0, <3>2 DEF CardStates
    <3>5. card' \in [Blocks -> CardStates] /\ card'[c.block] = d
          /\ \A b \in Blocks \ {c.block} : card'[b] = card[b]
      BY <1>0, <3>2, <3>4
    <3> HIDE DEF r
    <3>6. SdShape(t, r)
      BY <1>0, <2>0, <3>3 DEF SdShape
    <3>7. SdGoesOn(t, r)
      BY <2>0, <3>1, <3>3, <3>6 DEF SdGoesOn
    <3>8. ASSUME ~sdOverlap PROVE CacheRight' /\ SdHolds(t)'
      <4>1. \A u \in SdTasks \ {t} : sdTask[u].at = "idle"
        BY <2>0, <3>8 DEF SdInv, SdAlone, SdAt, SdTasks
      <4>2. d = c.data
        BY <3>2, <4>1 DEF Disturbed, Selected
      <4>3. CacheRight /\ ~(cache.isValid /\ cache.blockIndex = c.block)
        BY <1>a, <2>0, <3>8 DEF SdHolds
      <4>4. CacheRight'
        BY <1>0, <2>0, <3>5, <4>3 DEF CacheRight
      <4>5. SdHolds(t)'
        BY <1>b, <2>0, <3>1, <3>3, <3>5, <4>2, ZenonT(40) DEF SdHolds
      <4> QED
        BY <4>4, <4>5
    <3> QED
      BY <1>0, <2>0, <3>5, <3>7, <3>8, SdKeeps
  <2>2. CASE ~sent \/ response = "CRC_ERROR"
    <3> DEFINE r == Again(t)
    <3>1. sdTask' = [sdTask EXCEPT ![t] = r] /\ UNCHANGED card
      BY <1>4, <2>2 DEF SendBlock, SdBecomes
    <3>2. /\ r \in SdCalls /\ SdShape(t, r) /\ r.at \in {"command", "done"} /\ r.op = c.op /\ r.block = c.block
          /\ r.at = "done" => r.success = FALSE
      BY <1>0, <2>0, TriedAgain
    <3> HIDE DEF r
    <3>3. SdGoesOn(t, r)
      BY <2>0, <3>1, <3>2 DEF SdGoesOn
    <3>4. ~sdOverlap => CacheRight' /\ SdHolds(t)'
      BY <1>a, <1>b, <2>0, <3>1, <3>2 DEF CacheRight, SdHolds
    <3> QED
      BY <1>0, <2>0, <3>1, <3>3, <3>4, SdKeeps
  <2>3. CASE sent /\ response = "other"
    <3> DEFINE r == [c EXCEPT !.at = "done"]
    <3>1. sdTask' = [sdTask EXCEPT ![t] = r] /\ UNCHANGED card
      BY <1>4, <2>3 DEF SendBlock, SdBecomes
    <3>2. r \in SdCalls /\ r.at = "done" /\ r.op = c.op /\ r.success = FALSE
      BY <1>0, <2>0 DEF SdCalls, SdPlaces
    <3> HIDE DEF r
    <3>3. SdShape(t, r)
      BY <1>0, <2>0, <3>2 DEF SdShape, SdReading
    <3>4. SdGoesOn(t, r)
      BY <2>0, <3>1, <3>2, <3>3 DEF SdGoesOn
    <3>5. ~sdOverlap => CacheRight' /\ SdHolds(t)'
      BY <1>a, <1>b, <2>0, <3>1, <3>2 DEF CacheRight, SdHolds
    <3> QED
      BY <1>0, <2>0, <3>1, <3>4, <3>5, SdKeeps
  <2> QED
    BY <2>1, <2>2, <2>3
<1> QED
  BY <1>1, <1>2, <1>3, <1>4

LEMMA SdCallKeeps ==
    ASSUME SdInv, NEW t \in SdTasks, NEW op \in {"OP_READ", "OP_WRITE", "OP_ERASE"}, NEW b \in Blocks,
           NEW n \in 1 .. NumBlocks, NEW data \in BlockContents, SdCall(t, op, b, n, data)
    PROVE  SdInv'
<1> DEFINE d == IF op = "OP_WRITE" THEN data ELSE NoSdCall.data
           y == IF op = "OP_READ" THEN "lookup" ELSE "evict"
           r == [NoSdCall EXCEPT !.at = y, !.op = op, !.block = b, !.left = n, !.data = d]
<1>0. sdTask \in [SdTasks -> SdCalls] /\ sdOverlap \in BOOLEAN
  BY DEF SdInv
<1>1. /\ sdTask' = [sdTask EXCEPT ![t] = r] /\ SdAt(t, "idle") /\ UNCHANGED <<sdProbe, card, cache>>
      /\ b + n <= NumBlocks
      /\ sdOverlap' = (sdOverlap \/ \E u \in SdTasks \ {t} : ~SdAt(u, "idle"))
      /\ t = "raw" => op = "OP_READ"
      /\ t # "raw" /\ op = "OP_READ" => \A i \in b .. b + n - 1 : card[i] # "erased"
  BY DEF SdCall, SdBecomes
<1>2. d \in CardStates /\ y \in {"lookup", "evict"} /\ n \in 0 .. NumBlocks /\ n >= 1
  BY NoSdCallIsCall, SdNumbers DEF CardStates, SdCalls
<1>3. (y = "lookup") <=> op = "OP_READ"
  OBVIOUS
<1> HIDE DEF d, y
<1>4. r \in SdCalls /\ r.at = y /\ r.op = op /\ r.block = b /\ r.left = n
  BY <1>2, NoSdCallIsCall DEF SdCalls, SdPlaces, Operations
<1> HIDE DEF r
<1>5. SdShape(t, r)
  BY <1>1, <1>2, <1>3, <1>4 DEF SdShape, SdReading
<1>6. /\ sdTask' \in [SdTasks -> SdCalls] /\ sdTask'[t] = r
      /\ \A u \in SdTasks \ {t} : sdTask'[u] = sdTask[u]
  BY <1>0, <1>1, <1>4
<1>7. \A u \in SdTasks : SdShape(u, sdTask'[u])
  BY <1>5, <1>6 DEF SdInv
<1>8. SdAlone'
  <2> SUFFICES ASSUME ~sdOverlap' PROVE SdAlone'
    BY DEF SdAlone
  <2>1. ~sdOverlap /\ \A u \in SdTasks \ {t} : SdAt(u, "idle")' /\ \E v \in SdTasks : v # t
    BY <1>1, <1>6 DEF SdAt, SdTasks
  <2>2. CacheRight'
    BY <1>1, <2>1 DEF SdInv, SdAlone, CacheRight
  <2>3. SdHolds(t)'
    BY <1>1, <1>2, <1>3, <1>4, <1>6 DEF SdHolds, SdReading
  <2>4. \A u \in SdTasks \ {t} : SdAt(u, "idle")'
    BY <1>1, <1>6, <2>1 DEF SdAt
  <2>5. \E u \in SdTasks : u # t
    BY DEF SdTasks
  <2> QED
    BY <2>2, <2>3, <2>4, <2>5 DEF SdAlone
<1>9. cardKind' \in {"empty", "old", "sdsc", "sdhc"} /\ sdInit' \in SdInits /\ OnlyLargeCards' /\ sdOverlap' \in BOOLEAN
  BY <1>0, <1>1 DEF SdInv, sdProbe, OnlyLargeCards
<1>10. \A u \in SdTasks : SdShape(u, sdTask[u])'
  BY <1>7 DEF SdShape
<1> QED
  BY <1>1, <1>6, <1>8, <1>9, <1>10 DEF SdInv

LEMMA SdReturnKeeps ==
    ASSUME SdInv, NEW t \in SdTasks, SdReturn(t) PROVE SdInv'
<1>0. sdTask \in [SdTasks -> SdCalls]
  BY DEF SdInv
<1>1. sdTask' = [sdTask EXCEPT ![t] = NoSdCall] /\ UNCHANGED <<sdProbe, card, cache, sdOverlap>>
  BY DEF SdReturn, SdBecomes
<1>2. /\ sdTask' \in [SdTasks -> SdCalls] /\ sdTask'[t] = NoSdCall
      /\ \A u \in SdTasks \ {t} : sdTask'[u] = sdTask[u]
  BY <1>0, <1>1, NoSdCallIsCall
<1>3. \A u \in SdTasks : SdShape(u, sdTask'[u])
  BY <1>2, NoSdCallIsCall DEF SdInv, SdShape, SdReading
<1>4. \A u \in SdTasks : SdShape(u, sdTask[u])'
  BY <1>3 DEF SdShape
<1>5. SdAlone'
  <2>1. SdAt(t, "idle")'
    BY <1>2, NoSdCallIsCall DEF SdAt
  <2>2. \A u \in SdTasks \ {t} : SdHolds(u) => SdHolds(u)'
    BY <1>1, <1>2 DEF SdHolds
  <2> QED
    BY <1>1, <1>2, <2>1, <2>2 DEF SdInv, SdAlone, SdAt, CacheRight
<1> QED
  BY <1>1, <1>2, <1>4, <1>5 DEF SdInv, sdProbe, OnlyLargeCards

LEMMA SdInvNext == SdInv /\ [SdNext]_sdVars => SdInv'
<1> SUFFICES ASSUME SdInv, [SdNext]_sdVars PROVE SdInv'
  OBVIOUS
<1>1. CASE SdProbeStep
  BY <1>1, SdProbeKeeps
<1>2. ASSUME NEW t \in SdTasks, NEW op \in {"OP_READ", "OP_WRITE", "OP_ERASE"}, NEW b \in Blocks,
             NEW n \in 1 .. NumBlocks, NEW data \in BlockContents, SdCall(t, op, b, n, data)
      PROVE  SdInv'
  BY <1>2, SdCallKeeps
<1>3. ASSUME NEW t \in SdTasks, SdTaskStep(t) PROVE SdInv'
  <2>1. CASE Lookup(t) \/ (\E ok \in BOOLEAN : ReadCommand(t, ok)) \/ Commit(t) \/ CopyOut(t)
    BY <2>1, SdReadKeeps
  <2>2. CASE \E outcome \in {"ok", "lost", "early"} : Receive(t, outcome)
    BY <2>2, ReceiveKeeps
  <2>3. CASE \/ Evict(t) \/ \E ok \in BOOLEAN : WriteCommand(t, ok) \/ FinishWrite(t, ok)
             \/ \E sent \in BOOLEAN, response \in {"OK", "CRC_ERROR", "other"} : SendBlock(t, sent, response)
    BY <2>3, SdWriteKeeps
  <2>4. CASE SdReturn(t)
    BY <2>4, SdReturnKeeps
  <2> QED
    BY <1>3, <2>1, <2>2, <2>3, <2>4 DEF SdTaskStep
<1>4. CASE UNCHANGED sdVars
  <2>1. UNCHANGED <<cardKind, sdInit, card, cache, sdTask, sdOverlap>>
    BY <1>4 DEF sdVars, sdProbe
  <2>2. SdAlone'
    BY <2>1 DEF SdInv, SdAlone, SdAt, CacheRight, SdHolds
  <2>3. \A u \in SdTasks : SdShape(u, sdTask[u])'
    BY <2>1 DEF SdInv, SdShape
  <2> QED
    BY <2>1, <2>2, <2>3 DEF SdInv, OnlyLargeCards
<1> QED
  BY <1>1, <1>2, <1>3, <1>4 DEF SdNext

LEMMA MemoryPartsNext == [ModulesNext]_modulesVars => [FlashNext]_flashVars /\ [SdNext]_sdVars
BY DEF ModulesNext, modulesVars, Only, Flash, Sd, Imu, Mag, Adc

(* For any pages, blocks and contents and any numbers of retries, with     *)
(* transfers that are lost, late or refused at any moment: what littlefs   *)
(* is told the flash memory has written, erased or read is what its pages  *)
(* hold, even while raw reads cut in; what it is told of the SD card is    *)
(* true as long as no call has cut in; and only a card with a high capacity*)
(* is ever used.                                                           *)
THEOREM MemoriesCorrect == ModulesSpec => []MemoriesRight
<1>1. ModulesInit => FlashInv /\ SdInv
  BY FlashInvInit, SdInvInit DEF ModulesInit
<1>2. FlashInv /\ SdInv /\ [ModulesNext]_modulesVars => FlashInv' /\ SdInv'
  BY FlashInvNext, SdInvNext, MemoryPartsNext
<1>3. FlashInv /\ SdInv => MemoriesRight
  BY FlashInvImplies, SdInvImplies DEF MemoriesRight
<1> QED
  BY <1>1, <1>2, <1>3, PTL DEF ModulesSpec

---------------------------------------------------------------------------
(* The parser of frames: induction over the natural numbers, in the form   *)
(* of sets, and what it says of the checksum.                              *)

LEMMA LeastNumber ==
    ASSUME NEW T, T \subseteq Nat, T # {}
    PROVE  \E x \in T : \A y \in T : x <= y
<1> DEFINE R == OpToRel(<, Nat)
<1>1. IsWellFoundedOn(R, Nat)
  BY NatLessThanWellFounded
<1>2. \A x, y \in Nat : y < x => <<y, x>> \in R
  BY DEF OpToRel
<1>3. \E x \in T : \A y \in T : ~ (<<y, x>> \in R)
  <2> HIDE DEF R
  <2> QED
    BY <1>1, WFMin
<1>4. PICK x \in T : \A y \in T : ~ (<<y, x>> \in R)
  BY <1>3, Zenon
<1>5. \A y \in T : ~ (y < x)
  <2> HIDE DEF R
  <2> QED
    BY <1>4, <1>2
<1> QED
  BY <1>5

LEMMA AllNumbers ==
    ASSUME NEW S, S \subseteq Nat, 0 \in S, \A n \in S : n + 1 \in S
    PROVE  S = Nat
<1> SUFFICES ASSUME Nat \ S # {} PROVE FALSE
  OBVIOUS
<1>1. PICK x \in Nat \ S : \A y \in Nat \ S : x <= y
  BY LeastNumber
<1>2. x - 1 \in Nat /\ x - 1 \in S
  BY <1>1
<1>3. (x - 1) + 1 \in S
  BY <1>2
<1> QED
  BY <1>1, <1>3

LEMMA FrameNumbers ==
    /\ NumBytes \in Nat /\ MaxPayload \in Nat /\ MaxPayload >= 1 /\ MaxPayload + 2 <= NumBytes
    /\ SyncWord = <<NumBytes - 2, NumBytes - 1>> /\ SyncWord[1] \in Bytes /\ SyncWord[2] \in Bytes
    /\ MaxMessageLength = 5 + MaxPayload /\ HeaderLength = 4
  BY FrameAssumption DEF Bytes, SyncWord, MaxMessageLength, HeaderLength

LEMMA SmallModulus == \A x, n \in Nat : x < n => x % n = x
  OBVIOUS

LEMMA ByteSums ==
    ASSUME NEW a \in Bytes, NEW b \in Bytes
    PROVE  /\ (a + b) % NumBytes = IF a + b < NumBytes THEN a + b ELSE a + b - NumBytes
           /\ (a + b) % NumBytes \in Bytes
<1>0. NumBytes \in Nat /\ NumBytes > 0 /\ a \in Nat /\ b \in Nat /\ a + b < NumBytes + NumBytes
  BY FrameNumbers DEF Bytes
<1>1. CASE a + b < NumBytes
  BY <1>0, <1>1 DEF Bytes
<1>2. CASE ~ (a + b < NumBytes)
  <2>1. a + b - NumBytes \in Nat /\ a + b - NumBytes < NumBytes
    BY <1>0, <1>2
  <2>2. a + b = NumBytes * 1 + (a + b - NumBytes)
    BY <1>0
  <2> QED
    BY <1>0, <1>2, <2>1, <2>2 DEF Bytes
<1> QED
  BY <1>1, <1>2

(* The sums over the beginnings of a sequence of bytes. *)
SumsOf(bytes, s) ==
    s = [n \in 0 .. Len(bytes) |-> IF n = 0 THEN 0 ELSE (s[n - 1] + bytes[n]) % NumBytes]

LEMMA SumsExist == ASSUME NEW b \in Seq(Bytes) PROVE \E s : SumsOf(b, s)
<1> DEFINE Sums(m, s) == s = [n \in 0 .. m |-> IF n = 0 THEN 0 ELSE (s[n - 1] + b[n]) % NumBytes]
           T == {m \in Nat : \E s : Sums(m, s)}
<1>1. 0 \in T
  <2> DEFINE s == [n \in 0 .. 0 |-> 0]
  <2>1. Sums(0, s)
    OBVIOUS
  <2> QED
    BY <2>1
<1>2. ASSUME NEW m \in T PROVE m + 1 \in T
  <2>1. PICK s : Sums(m, s)
    OBVIOUS
  <2> DEFINE r == [n \in 0 .. m + 1 |-> IF n = m + 1 THEN (s[m] + b[n]) % NumBytes ELSE s[n]]
  <2>2. r[m] = s[m] /\ \A n \in 1 .. m : r[n - 1] = s[n - 1]
    OBVIOUS
  <2>3. ASSUME NEW n \in 0 .. m + 1 PROVE r[n] = IF n = 0 THEN 0 ELSE (r[n - 1] + b[n]) % NumBytes
    <3>1. CASE n = m + 1
      BY <3>1, <2>2
    <3>2. CASE n # m + 1
      <4>1. s[n] = IF n = 0 THEN 0 ELSE (s[n - 1] + b[n]) % NumBytes
        BY <2>1, <3>2
      <4> QED
        BY <3>2, <2>2, <4>1
    <3> QED
      BY <3>1, <3>2
  <2>4. Sums(m + 1, r)
    BY <2>3
  <2>5. m + 1 \in Nat
    OBVIOUS
  <2> QED
    BY <2>4, <2>5
<1>3. T \subseteq Nat
  OBVIOUS
<1>4. Len(b) \in T
  <2> HIDE DEF T
  <2>1. T = Nat
    BY <1>1, <1>2, <1>3, AllNumbers
  <2> QED
    BY <2>1
<1> QED
  BY <1>4 DEF SumsOf

LEMMA CrcIsSum ==
    ASSUME NEW b \in Seq(Bytes)
    PROVE  \E s : SumsOf(b, s) /\ Crc(b) = s[Len(b)]
  BY SumsExist DEF SumsOf, Crc

LEMMA SumsAreBytes ==
    ASSUME NEW b \in Seq(Bytes), NEW s, SumsOf(b, s), NEW n \in 0 .. Len(b)
    PROVE  s[n] \in Bytes
<1> DEFINE T == {m \in Nat : m <= Len(b) => s[m] \in Bytes}
<1>1. 0 \in T
  BY FrameNumbers DEF SumsOf, Bytes
<1>2. ASSUME NEW m \in T PROVE m + 1 \in T
  <2> SUFFICES ASSUME m + 1 <= Len(b) PROVE s[m + 1] \in Bytes
    OBVIOUS
  <2>1. s[m + 1] = (s[m] + b[m + 1]) % NumBytes
    BY DEF SumsOf
  <2>2. s[m] \in Bytes /\ b[m + 1] \in Bytes
    OBVIOUS
  <2> QED
    BY <2>1, <2>2, ByteSums
<1>3. T \subseteq Nat
  OBVIOUS
<1>4. n \in T
  <2> HIDE DEF T
  <2>1. T = Nat
    BY <1>1, <1>2, <1>3, AllNumbers
  <2> QED
    BY <2>1
<1> QED
  BY <1>4

LEMMA CrcIsByte == ASSUME NEW b \in Seq(Bytes) PROVE Crc(b) \in Bytes
  BY CrcIsSum, SumsAreBytes

(* The checksum goes on from byte to byte. *)
LEMMA CrcGoesOn ==
    ASSUME NEW b \in Seq(Bytes), NEW x \in Bytes
    PROVE  Crc(Append(b, x)) = (Crc(b) + x) % NumBytes
<1> DEFINE c == Append(b, x)
<1>0. c \in Seq(Bytes) /\ Len(c) = Len(b) + 1 /\ c[Len(b) + 1] = x /\ \A n \in 1 .. Len(b) : c[n] = b[n]
  OBVIOUS
<1> HIDE DEF c
<1>1. PICK s : SumsOf(b, s) /\ Crc(b) = s[Len(b)]
  BY CrcIsSum
<1>2. PICK r : SumsOf(c, r) /\ Crc(c) = r[Len(c)]
  BY <1>0, CrcIsSum
<1> DEFINE T == {m \in Nat : m <= Len(b) => r[m] = s[m]}
<1>3. 0 \in T
  BY <1>0, <1>1, <1>2 DEF SumsOf
<1>4. ASSUME NEW m \in T PROVE m + 1 \in T
  <2> SUFFICES ASSUME m + 1 <= Len(b) PROVE r[m + 1] = s[m + 1]
    OBVIOUS
  <2>1. r[m + 1] = (r[m] + c[m + 1]) % NumBytes
    BY <1>0, <1>2 DEF SumsOf
  <2>2. s[m + 1] = (s[m] + b[m + 1]) % NumBytes
    BY <1>1 DEF SumsOf
  <2> QED
    BY <1>0, <2>1, <2>2
<1>5. T \subseteq Nat
  OBVIOUS
<1>6. Len(b) \in T
  <2> HIDE DEF T
  <2>1. T = Nat
    BY <1>3, <1>4, <1>5, AllNumbers
  <2> QED
    BY <2>1
<1>7. r[Len(b) + 1] = (r[Len(b)] + x) % NumBytes
  BY <1>0, <1>2 DEF SumsOf
<1> QED
  BY <1>0, <1>1, <1>2, <1>6, <1>7 DEF c

---------------------------------------------------------------------------
(* Frames: sequences of bytes that begin with the sync word, have the      *)
(* length of their payload in the fourth byte, and sum up to zero.         *)
FrameShape(m) ==
    /\ m \in Seq(Bytes) /\ Len(m) >= 5
    /\ m[1] = SyncWord[1] /\ m[2] = SyncWord[2]
    /\ m[4] <= MaxPayload /\ Len(m) = 5 + m[4]
    /\ Crc(m) = 0

LEMMA SequenceOf ==
    ASSUME NEW S, NEW n \in Nat, NEW f \in [1 .. n -> S]
    PROVE  f \in Seq(S) /\ Len(f) = n
<1>1. f \in Seq(S) /\ DOMAIN f = 1 .. n
  BY SeqDef
<1>2. Len(f) \in Nat /\ DOMAIN f = 1 .. Len(f)
  BY <1>1, LenProperties
<1> QED
  BY <1>1, <1>2

LEMMA PairsJoined ==
    ASSUME NEW s \in Seq(Bytes), NEW t \in Seq(Bytes), Len(s) = 2, Len(t) = 2
    PROVE  /\ s \o t \in Seq(Bytes) /\ Len(s \o t) = 4
           /\ (s \o t)[1] = s[1] /\ (s \o t)[2] = s[2] /\ (s \o t)[3] = t[1] /\ (s \o t)[4] = t[2]
<1>1. Len(s \o t) = Len(s) + Len(t) /\ s \o t \in Seq(Bytes)
  BY ConcatProperties
<1>2. \A i \in 1 .. Len(s) + Len(t) : (s \o t)[i] = IF i <= Len(s) THEN s[i] ELSE t[i - Len(s)]
  BY ConcatProperties
<1> DEFINE st == s \o t
<1> HIDE DEF st
<1>3. \A i \in 1 .. 4 : st[i] = IF i <= 2 THEN s[i] ELSE t[i - 2]
  <2>1. Len(s) + Len(t) = 4
    OBVIOUS
  <2>2. \A i \in 1 .. 4 : (s \o t)[i] = IF i <= Len(s) THEN s[i] ELSE t[i - Len(s)]
    BY <1>2, <2>1, Zenon
  <2> QED
    BY <2>2 DEF st
<1>4. st[1] = s[1] /\ st[2] = s[2] /\ st[3] = t[1] /\ st[4] = t[2]
  BY <1>3
<1> QED
  BY <1>1, <1>4 DEF st

BodyOf(type, payload) == SyncWord \o <<type, Len(payload)>> \o payload

LEMMA BodyOfFrame ==
    ASSUME NEW type \in Bytes, NEW payload \in Seq(Bytes), Len(payload) <= MaxPayload
    PROVE  /\ BodyOf(type, payload) \in Seq(Bytes) /\ Len(BodyOf(type, payload)) = 4 + Len(payload)
           /\ BodyOf(type, payload)[1] = SyncWord[1] /\ BodyOf(type, payload)[2] = SyncWord[2]
           /\ BodyOf(type, payload)[3] = type /\ BodyOf(type, payload)[4] = Len(payload)
           /\ \A i \in 1 .. Len(payload) : BodyOf(type, payload)[4 + i] = payload[i]
<1> DEFINE head == SyncWord \o <<type, Len(payload)>>
           body == head \o payload
<1>0. Len(payload) \in Bytes
  BY FrameNumbers DEF Bytes
<1> DEFINE pair == <<type, Len(payload)>>
<1>1. pair \in Seq(Bytes) /\ Len(pair) = 2 /\ pair[1] = type /\ pair[2] = Len(payload)
  BY <1>0
<1> HIDE DEF pair
<1>a. SyncWord \in Seq(Bytes) /\ Len(SyncWord) = 2
  BY FrameNumbers
<1>2. /\ head \in Seq(Bytes) /\ Len(head) = 4
      /\ head[1] = SyncWord[1] /\ head[2] = SyncWord[2] /\ head[3] = type /\ head[4] = Len(payload)
  <2> USE DEF pair
  <2>1. head = SyncWord \o pair
    OBVIOUS
  <2> HIDE DEF pair, head
  <2> QED
    BY <2>1, <1>1, <1>a, PairsJoined
<1> HIDE DEF head
<1>3. /\ body \in Seq(Bytes) /\ Len(body) = 4 + Len(payload)
      /\ \A i \in 1 .. 4 : body[i] = head[i]
      /\ \A i \in 1 .. Len(payload) : body[4 + i] = payload[i]
  <2>1. /\ head \o payload \in Seq(Bytes) /\ Len(head \o payload) = 4 + Len(payload)
        /\ \A i \in 1 .. 4 + Len(payload) : (head \o payload)[i] = IF i <= 4 THEN head[i] ELSE payload[i - 4]
    <3>1. /\ head \o payload \in Seq(Bytes) /\ Len(head \o payload) = Len(head) + Len(payload)
          /\ \A i \in 1 .. Len(head) + Len(payload) :
                (head \o payload)[i] = IF i <= Len(head) THEN head[i] ELSE payload[i - Len(head)]
      BY <1>2, ConcatProperties
    <3> QED
      BY <1>2, <3>1
  <2>2. Len(payload) \in Nat
    OBVIOUS
  <2> HIDE DEF body
  <2>3. body = head \o payload
    BY DEF body
  <2>4. ASSUME NEW i \in 1 .. Len(payload) PROVE body[4 + i] = payload[i]
    BY <2>1, <2>2, <2>3
  <2> QED
    BY <2>1, <2>2, <2>3, <2>4, SMTT(30)
<1>4. BodyOf(type, payload) = body
  BY DEF BodyOf, head
<1> HIDE DEF body
<1>5. body[1] = head[1] /\ body[2] = head[2] /\ body[3] = head[3] /\ body[4] = head[4]
  BY <1>3
<1> QED
  BY <1>2, <1>3, <1>4, <1>5

LEMMA FramesAre == Frames = {m \in Seq(Bytes) : FrameShape(m)}
<1>1. ASSUME NEW type \in Bytes, NEW payload \in BoundedSeq(Bytes, MaxPayload)
      PROVE  FrameShape(Serialize(type, payload))
  <2> DEFINE body == BodyOf(type, payload)
             x == (NumBytes - Crc(body)) % NumBytes
  <2>1. payload \in Seq(Bytes) /\ Len(payload) <= MaxPayload
    BY FrameNumbers DEF BoundedSeq, SeqOf
  <2>2. /\ body \in Seq(Bytes) /\ Len(body) = 4 + Len(payload)
        /\ body[1] = SyncWord[1] /\ body[2] = SyncWord[2] /\ body[4] = Len(payload)
    BY <2>1, BodyOfFrame
  <2>3. Serialize(type, payload) = Append(body, x)
    BY DEF Serialize, BodyOf
  <2> HIDE DEF body
  <2>4. Crc(body) \in Bytes
    BY <2>2, CrcIsByte
  <2>5. x \in Bytes /\ (Crc(body) + x) % NumBytes = 0
    <3>1. CASE Crc(body) = 0
      <4>1. x = 0
        BY <3>1, FrameNumbers
      <4> QED
        BY <3>1, <4>1, FrameNumbers DEF Bytes
    <3>2. CASE Crc(body) # 0
      <4>1. x = NumBytes - Crc(body)
        BY <2>4, <3>2, FrameNumbers, SMTT(30) DEF Bytes
      <4>2. Crc(body) + x = NumBytes /\ x \in Bytes
        BY <2>4, <3>2, <4>1, FrameNumbers, SMTT(30) DEF Bytes
      <4>3. NumBytes % NumBytes = 0
        BY FrameNumbers
      <4> QED
        BY <4>2, <4>3
    <3> QED
      BY <3>1, <3>2
  <2> HIDE DEF x
  <2>6. Crc(Append(body, x)) = 0
    BY <2>2, <2>5, CrcGoesOn
  <2>7. /\ Append(body, x) \in Seq(Bytes) /\ Len(Append(body, x)) = 5 + Len(payload)
        /\ \A i \in 1 .. 4 : Append(body, x)[i] = body[i]
    BY <2>1, <2>2, <2>5
  <2> QED
    BY <2>1, <2>2, <2>3, <2>6, <2>7 DEF FrameShape
<1>2. ASSUME NEW m \in Seq(Bytes), FrameShape(m) PROVE m \in Frames
  <2> DEFINE payload == [i \in 1 .. m[4] |-> m[4 + i]]
             body == BodyOf(m[3], payload)
             front == [i \in 1 .. 4 + m[4] |-> m[i]]
             x == m[Len(m)]
  <2>1. m[4] \in Nat /\ m[4] \in 0 .. MaxPayload /\ m[3] \in Bytes /\ x \in Bytes
    <3>0. 3 \in 1 .. Len(m) /\ 4 \in 1 .. Len(m) /\ Len(m) \in 1 .. Len(m)
      BY <1>2, LenProperties DEF FrameShape
    <3>1. m[3] \in Bytes /\ m[4] \in Bytes /\ x \in Bytes
      BY <3>0, ElementOfSeq
    <3> QED
      BY <1>2, <3>1, FrameNumbers DEF FrameShape, Bytes
  <2>a. Len(m) = 5 + m[4] /\ \A i \in 1 .. 5 + m[4] : m[i] \in Bytes
    <3>1. Len(m) = 5 + m[4]
      BY <1>2 DEF FrameShape
    <3> QED
      BY <3>1, ElementOfSeq
  <2>2. payload \in Seq(Bytes) /\ Len(payload) = m[4] /\ payload \in BoundedSeq(Bytes, MaxPayload)
    <3>1. payload \in [1 .. m[4] -> Bytes]
      BY <2>1, <2>a
    <3> HIDE DEF payload
    <3>2. payload \in Seq(Bytes) /\ Len(payload) = m[4]
      BY <2>1, <3>1, SequenceOf, ZenonT(40)
    <3> QED
      BY <2>1, <3>1, <3>2 DEF BoundedSeq, SeqOf
  <2>3. /\ body \in Seq(Bytes) /\ Len(body) = 4 + Len(payload)
        /\ body[1] = SyncWord[1] /\ body[2] = SyncWord[2] /\ body[3] = m[3] /\ body[4] = Len(payload)
        /\ \A i \in 1 .. Len(payload) : body[4 + i] = payload[i]
    <3> HIDE DEF payload
    <3>1. payload \in Seq(Bytes) /\ Len(payload) <= MaxPayload /\ m[3] \in Bytes
      BY <2>1, <2>2, FrameNumbers
    <3> QED
      BY <3>1, BodyOfFrame, ZenonT(40)
  <2>4. front \in Seq(Bytes) /\ Len(front) = 4 + m[4]
    <3>1. front \in [1 .. 4 + m[4] -> Bytes] /\ 4 + m[4] \in Nat
      BY <2>1, <2>a
    <3> HIDE DEF front
    <3> QED
      BY <3>1, SequenceOf
  <2>5. body = front
    <3> HIDE DEF body
    <3>1. ASSUME NEW i \in 1 .. 4 + m[4] PROVE body[i] = m[i]
      <4>1. CASE i <= 4
        <5>1. i = 1 \/ i = 2 \/ i = 3 \/ i = 4
          BY <4>1, <2>1
        <5> QED
          BY <1>2, <5>1, <2>3, <2>2, ZenonT(40) DEF FrameShape
      <4>2. CASE i > 4
        <5>1. i - 4 \in 1 .. Len(payload) /\ i = 4 + (i - 4)
          BY <4>2, <2>1, <2>2
        <5>2. body[4 + (i - 4)] = payload[i - 4]
          BY <5>1, <2>3
        <5>3. payload[i - 4] = m[4 + (i - 4)]
          BY <5>1, <2>2
        <5> QED
          BY <5>1, <5>2, <5>3, <2>1
      <4> QED
        BY <4>1, <4>2, <2>1
    <3> QED
      BY <2>1, <2>2, <2>3, <2>4, <3>1, SMTT(30)
  <2>6. m = Append(front, x)
    <3>1. /\ Append(front, x) \in Seq(Bytes) /\ Len(Append(front, x)) = 5 + m[4]
          /\ \A i \in 1 .. 4 + m[4] : Append(front, x)[i] = front[i]
          /\ Append(front, x)[5 + m[4]] = x
      <4> HIDE DEF front, x
      <4> QED
        BY <2>1, <2>4, AppendProperties
    <3>2. ASSUME NEW i \in 1 .. 5 + m[4] PROVE Append(front, x)[i] = m[i]
      <4>1. CASE i = 5 + m[4]
        BY <4>1, <2>a, <3>1
      <4>2. CASE i # 5 + m[4]
        BY <4>2, <2>1, <3>1, SMTT(30)
      <4> QED
        BY <4>1, <4>2
    <3> HIDE DEF front, x
    <3>3. Append(front, x) = m
      <4> DEFINE g == Append(front, x)
      <4>1. g \in Seq(Bytes) /\ Len(g) = Len(m) /\ \A i \in 1 .. Len(m) : g[i] = m[i]
        BY <2>a, <3>1, <3>2
      <4> HIDE DEF g
      <4>2. g = m
        BY <4>1, SeqEqual
      <4> QED
        BY <4>2 DEF g
    <3> QED
      BY <3>3
  <2> HIDE DEF body, front, payload, x
  <2>7. (Crc(body) + x) % NumBytes = 0 /\ Crc(body) \in Bytes
    <3>1. Crc(m) = (Crc(front) + x) % NumBytes
      BY <2>1, <2>4, <2>6, CrcGoesOn
    <3> QED
      BY <1>2, <2>3, <2>5, <3>1, CrcIsByte DEF FrameShape
  <2>8. x = (NumBytes - Crc(body)) % NumBytes
    <3>1. (Crc(body) + x) % NumBytes = IF Crc(body) + x < NumBytes THEN Crc(body) + x ELSE Crc(body) + x - NumBytes
      BY <2>1, <2>7, ByteSums
    <3>2. CASE Crc(body) = 0
      <4>1. x = 0
        BY <2>1, <2>7, <3>1, <3>2, FrameNumbers DEF Bytes
      <4>2. NumBytes % NumBytes = 0
        BY FrameNumbers
      <4> QED
        BY <3>2, <4>1, <4>2, FrameNumbers
    <3>3. CASE Crc(body) # 0
      <4>1. x = NumBytes - Crc(body) /\ x \in Nat /\ x < NumBytes
        <5>1. 0 = IF Crc(body) + x < NumBytes THEN Crc(body) + x ELSE Crc(body) + x - NumBytes
          BY <2>7, <3>1
        <5>2. /\ NumBytes \in Nat /\ x \in Nat /\ x < NumBytes
              /\ Crc(body) \in Nat /\ Crc(body) < NumBytes
          BY <2>1, <2>7, FrameNumbers DEF Bytes
        <5> QED
          BY <5>1, <5>2, <3>3
      <4>2. x % NumBytes = x
        <5>1. NumBytes \in Nat
          BY FrameNumbers
        <5> QED
          BY <4>1, <5>1, SmallModulus, Zenon
      <4> QED
        BY <4>1, <4>2
    <3> QED
      BY <3>2, <3>3
  <2>9. m = Serialize(m[3], payload)
    BY <2>5, <2>6, <2>8 DEF Serialize, BodyOf, body
  <2> QED
    BY <2>1, <2>2, <2>9 DEF Frames
<1>3. ASSUME NEW type \in Bytes, NEW payload \in BoundedSeq(Bytes, MaxPayload)
      PROVE  Serialize(type, payload) \in Seq(Bytes)
  BY <1>1 DEF FrameShape
<1> QED
  BY <1>1, <1>2, <1>3 DEF Frames

---------------------------------------------------------------------------
(* What the parser knows of the message that it reads. *)
ParserStates == {"WAITING_SYNC_BYTE_1", "WAITING_SYNC_BYTE_2", "READING_HEADER", "READING_PAYLOAD",
                 "READING_CHECKSUM", "DONE"}
Parsers == [state : ParserStates, message : Seq(Bytes), end : Nat]

Synced(m) == m[1] = SyncWord[1] /\ m[2] = SyncWord[2]

ShapeOf(state, message, end) ==
    /\ Len(message) <= MaxMessageLength /\ end <= MaxMessageLength
    /\ state = "WAITING_SYNC_BYTE_2" => Len(message) = 1 /\ message[1] = SyncWord[1]
    /\ state = "READING_HEADER" => /\ Len(message) \in 2 .. 3 /\ end = 4
                                     /\ Synced(message)
    /\ state = "READING_PAYLOAD" => /\ Len(message) >= 4 /\ Synced(message)
                                      /\ message[4] <= MaxPayload
                                      /\ end = 4 + message[4] /\ Len(message) < end
    /\ state = "READING_CHECKSUM" => /\ Len(message) >= 4 /\ Synced(message)
                                       /\ message[4] <= MaxPayload
                                       /\ end = 5 + message[4] /\ Len(message) + 1 = end
    /\ state = "DONE" => FrameShape(message) /\ end = Len(message)

ParserShape(p) == ShapeOf(p.state, p.message, p.end)

LEMMA HuntingIsShaped == Hunting \in Parsers /\ ParserShape(Hunting) /\ Hunting.state = "WAITING_SYNC_BYTE_1"
<1>1. <<>> \in Seq(Bytes) /\ Len(<<>>) = 0
  OBVIOUS
<1> QED
  BY <1>1, FrameNumbers DEF Hunting, Parsers, ParserStates, ParserShape, ShapeOf

(* One byte more keeps the shape.  A message that is still read is the one *)
(* before with this byte, or begins with it.                               *)
LEMMA FedKeepsShape ==
    ASSUME NEW p \in Parsers, p.state # "DONE", ParserShape(p), NEW ch \in Bytes
    PROVE  /\ Fed(p, ch) \in Parsers /\ ParserShape(Fed(p, ch))
           /\ Fed(p, ch).state # "WAITING_SYNC_BYTE_1" =>
                 \/ Fed(p, ch).message = <<ch>>
                 \/ /\ p.state # "WAITING_SYNC_BYTE_1"
                    /\ Fed(p, ch).message = Append(p.message, ch)
<1> DEFINE q == Fed(p, ch)
           m == Append(p.message, ch)
<1>0. /\ p.message \in Seq(Bytes) /\ p.end \in Nat /\ p.state \in ParserStates
      /\ p = [state |-> p.state, message |-> p.message, end |-> p.end] /\ Len(p.message) \in Nat
      /\ ch \in Nat
  BY FrameNumbers DEF Parsers, Bytes
<1>1. /\ m \in Seq(Bytes) /\ Len(m) = Len(p.message) + 1
      /\ m[Len(p.message) + 1] = ch /\ \A i \in 1 .. Len(p.message) : m[i] = p.message[i]
  BY <1>0, AppendProperties
<1>3. <<ch>> \in Seq(Bytes) /\ Len(<<ch>>) = 1 /\ <<ch>>[1] = ch
  OBVIOUS
<1> HIDE DEF m
<1> DEFINE r == [p EXCEPT !.message = m]
<1>2. r = [state |-> p.state, message |-> m, end |-> p.end]
  BY <1>0
<1> HIDE DEF r
<1>4. CASE p.state = "WAITING_SYNC_BYTE_1"
  <2>1. CASE ch = SyncWord[1]
    <3>1. q = [state |-> "WAITING_SYNC_BYTE_2", message |-> <<ch>>, end |-> 0]
      BY <1>4, <2>1 DEF Fed, HuntSync
    <3> HIDE DEF q
    <3>2. /\ q \in Parsers /\ q.message = <<ch>> /\ q.state = "WAITING_SYNC_BYTE_2" /\ q.end = 0
      BY <1>3, <3>1 DEF Parsers, ParserStates
    <3>3. ParserShape(q)
      BY <1>3, <2>1, <3>2, FrameNumbers DEF ParserShape, ShapeOf
    <3> QED
      BY <3>2, <3>3 DEF q
  <2>2. CASE ch # SyncWord[1]
    <3>1. q = p
      BY <1>0, <1>4, <2>2 DEF Fed, HuntSync
    <3> QED
      BY <1>4, <3>1
  <2> QED
    BY <2>1, <2>2
<1>5. CASE p.state = "WAITING_SYNC_BYTE_2"
  <2>1. CASE ch = SyncWord[2]
    <3>1. q = [state |-> "READING_HEADER", message |-> m, end |-> HeaderLength]
      BY <1>5, <2>1 DEF Fed, SecondSync, m
    <3> HIDE DEF q
    <3>2. /\ q \in Parsers /\ q.message = m /\ q.state = "READING_HEADER" /\ q.end = 4
      BY <1>1, <3>1, FrameNumbers DEF Parsers, ParserStates
    <3>3. Len(m) = 2 /\ Synced(m)
      BY <1>1, <1>5, <2>1 DEF ParserShape, ShapeOf, Synced
    <3>4. ParserShape(q)
      BY <3>2, <3>3, FrameNumbers DEF ParserShape, ShapeOf
    <3> QED
      BY <1>5, <3>2, <3>4 DEF q, m
  <2>2. CASE ch # SyncWord[2]
    <3>1. q = [p EXCEPT !.state = "WAITING_SYNC_BYTE_1"]
      BY <1>5, <2>2 DEF Fed, SecondSync
    <3>2. q = [state |-> "WAITING_SYNC_BYTE_1", message |-> p.message, end |-> p.end]
      BY <1>0, <3>1
    <3> HIDE DEF q
    <3>3. /\ q \in Parsers /\ q.message = p.message /\ q.end = p.end
          /\ q.state = "WAITING_SYNC_BYTE_1"
      BY <1>0, <3>2 DEF Parsers, ParserStates
    <3>4. ParserShape(q)
      BY <3>3 DEF ParserShape, ShapeOf
    <3> QED
      BY <3>3, <3>4 DEF q
  <2> QED
    BY <2>1, <2>2
<1>6. CASE p.state \in {"READING_HEADER", "READING_PAYLOAD", "READING_CHECKSUM"}
  <2>0. q = Read(p, ch) /\ p.state # "WAITING_SYNC_BYTE_1"
    BY <1>6 DEF Fed
  <2>a. ASSUME NEW s \in ParserStates, NEW e \in Nat, q = [state |-> s, message |-> m, end |-> e],
               ShapeOf(s, m, e)
        PROVE  q \in Parsers /\ ParserShape(q) /\ q.message = m
    BY <1>1, <2>a DEF Parsers, ParserShape
  <2>b. Hunting \in Parsers /\ ParserShape(Hunting) /\ Hunting.state = "WAITING_SYNC_BYTE_1"
    BY HuntingIsShaped
  <2>c. Len(p.message) >= 2 /\ Synced(p.message)
    <3>1. CASE p.state = "READING_HEADER"
      BY <1>0, <3>1 DEF ParserShape, ShapeOf, Synced
    <3>2. CASE p.state = "READING_PAYLOAD"
      BY <1>0, <3>2 DEF ParserShape, ShapeOf, Synced
    <3>3. CASE p.state = "READING_CHECKSUM"
      BY <1>0, <3>3 DEF ParserShape, ShapeOf, Synced
    <3> QED
      BY <1>6, <3>1, <3>2, <3>3
  <2>d. /\ Len(m) >= 3 /\ Synced(m)
        /\ Len(p.message) >= 4 => m[4] = p.message[4]
    <3> DEFINE n == Len(p.message)
    <3>1. n \in Nat /\ n >= 2 /\ Len(m) = n + 1
      BY <1>0, <1>1, <2>c
    <3>2. \A i \in 1 .. n : m[i] = p.message[i]
      BY <1>1
    <3> HIDE DEF n
    <3>3. 1 \in 1 .. n /\ 2 \in 1 .. n /\ n + 1 >= 3 /\ (n >= 4 => 4 \in 1 .. n)
      BY <3>1
    <3>4. m[1] = p.message[1] /\ m[2] = p.message[2] /\ (n >= 4 => m[4] = p.message[4])
      BY <3>2, <3>3
    <3> QED
      BY <2>c, <3>1, <3>3, <3>4 DEF Synced, n
  <2>e. Len(m) >= 4 => m[4] \in Nat
    <3> SUFFICES ASSUME Len(m) >= 4 PROVE m[4] \in Nat
      OBVIOUS
    <3>1. 4 \in 1 .. Len(m)
      BY <1>0, <1>1
    <3>2. m[4] \in Bytes
      BY <1>1, <3>1, ElementOfSeq
    <3> QED
      BY <3>2, FrameNumbers DEF Bytes
  <2>1. CASE Len(m) < p.end
    <3>1. q = [state |-> p.state, message |-> m, end |-> p.end]
      BY <1>2, <2>0, <2>1 DEF Read, r, m
    <3>2. ShapeOf(p.state, m, p.end)
      <4>1. CASE p.state = "READING_HEADER"
        BY <1>0, <1>1, <4>1, <2>1, <2>d, FrameNumbers DEF ParserShape, ShapeOf
      <4>2. CASE p.state = "READING_PAYLOAD"
        BY <1>0, <1>1, <4>2, <2>1, <2>d, FrameNumbers, SMTT(30) DEF ParserShape, ShapeOf
      <4>3. CASE p.state = "READING_CHECKSUM"
        BY <1>0, <1>1, <4>3, <2>1, <2>d, FrameNumbers DEF ParserShape, ShapeOf
      <4> QED
        BY <1>6, <4>1, <4>2, <4>3
    <3>3. q \in Parsers /\ ParserShape(q) /\ q.message = m
      BY <1>0, <2>a, <3>1, <3>2
    <3> QED
      BY <2>0, <3>3 DEF m
  <2>2. CASE ~ (Len(m) < p.end) /\ p.state = "READING_HEADER"
    <3>0. q = EndOfHeader(r, ch) /\ Len(m) = 4 /\ p.end = 4 /\ m[4] = ch
      BY <1>0, <1>1, <1>2, <2>0, <2>2, SMTT(30) DEF Read, r, m, ParserShape, ShapeOf
    <3>1. CASE ch = 0
      <4>1. q = [state |-> "READING_CHECKSUM", message |-> m, end |-> 5]
        <5>1. q = [r EXCEPT !.state = "READING_CHECKSUM", !.end = @ + 1]
          BY <3>0, <3>1, FrameNumbers DEF EndOfHeader
        <5>2. q = [state |-> "READING_CHECKSUM", message |-> m, end |-> p.end + 1]
          BY <1>2, <5>1
        <5>3. p.end + 1 = 5
          BY <3>0
        <5> QED
          BY <5>2, <5>3
      <4>2. ShapeOf("READING_CHECKSUM", m, 5)
        BY <2>d, <3>0, <3>1, FrameNumbers DEF ParserShape, ShapeOf
      <4>3. q \in Parsers /\ ParserShape(q) /\ q.message = m
        BY <2>a, <4>1, <4>2 DEF ParserStates
      <4> QED
        BY <2>0, <4>3 DEF m
    <3>2. CASE ch # 0 /\ ch > MaxPayload
      <4>1. q = Hunting
        BY <1>2, <3>0, <3>2 DEF EndOfHeader
      <4> QED
        BY <2>b, <4>1
    <3>3. CASE ch # 0 /\ ~ (ch > MaxPayload)
      <4>1. q = [state |-> "READING_PAYLOAD", message |-> m, end |-> 4 + ch]
        BY <1>0, <1>2, <3>0, <3>3 DEF EndOfHeader
      <4>2. ShapeOf("READING_PAYLOAD", m, 4 + ch)
        BY <1>0, <2>d, <3>0, <3>3, FrameNumbers DEF ParserShape, ShapeOf
      <4>3. q \in Parsers /\ ParserShape(q) /\ q.message = m
        BY <1>0, <2>a, <4>1, <4>2 DEF ParserStates
      <4> QED
        BY <2>0, <4>3 DEF m
    <3> QED
      BY <3>1, <3>2, <3>3
  <2>3. CASE ~ (Len(m) < p.end) /\ p.state = "READING_PAYLOAD"
    <3>0. /\ q = [r EXCEPT !.state = "READING_CHECKSUM", !.end = @ + 1]
          /\ Len(m) = p.end /\ p.end = 4 + m[4] /\ m[4] <= MaxPayload
      <4>1. q = [r EXCEPT !.state = "READING_CHECKSUM", !.end = @ + 1]
        BY <1>2, <2>0, <2>3 DEF Read, r, m
      <4>2. /\ Len(p.message) < p.end /\ p.end = 4 + p.message[4] /\ p.message[4] <= MaxPayload
            /\ Len(p.message) >= 4
        BY <2>3 DEF ParserShape, ShapeOf
      <4>3. m[4] = p.message[4]
        BY <2>d, <4>2
      <4>4. Len(m) = p.end
        BY <1>0, <1>1, <2>3, <4>2
      <4> QED
        BY <4>1, <4>2, <4>3, <4>4
    <3>2. m[4] \in Nat
      BY <2>3, <2>e, <1>0, <1>1 DEF ParserShape, ShapeOf
    <3>1. q = [state |-> "READING_CHECKSUM", message |-> m, end |-> 5 + m[4]]
      <4>1. q = [state |-> "READING_CHECKSUM", message |-> m, end |-> p.end + 1]
        BY <1>2, <3>0
      <4>2. p.end + 1 = 5 + m[4]
        BY <3>0, <3>2
      <4> QED
        BY <4>1, <4>2
    <3>3. ShapeOf("READING_CHECKSUM", m, 5 + m[4])
      <4>1. Len(p.message) >= 4
        BY <2>3 DEF ParserShape, ShapeOf
      <4>2. Len(m) >= 4 /\ Len(m) + 1 = 5 + m[4]
        BY <1>0, <1>1, <3>0, <3>2, <4>1
      <4>3. Len(m) <= MaxMessageLength /\ 5 + m[4] <= MaxMessageLength
        <5>1. MaxMessageLength = 5 + MaxPayload /\ MaxPayload \in Nat
          BY FrameNumbers
        <5>2. Len(m) \in Nat /\ m[4] \in Nat /\ m[4] <= MaxPayload /\ Len(m) + 1 = 5 + m[4]
          BY <1>0, <1>1, <3>0, <3>2, <4>2
        <5> DEFINE n == m[4]
                   l == Len(m)
        <5> HIDE DEF n, l
        <5>3. l <= 5 + MaxPayload /\ 5 + n <= 5 + MaxPayload
          BY <5>1, <5>2 DEF n, l
        <5> QED
          BY <5>1, <5>3, Zenon DEF n, l
      <4> QED
        BY <2>d, <3>0, <4>2, <4>3 DEF ShapeOf
    <3>4. q \in Parsers /\ ParserShape(q) /\ q.message = m
      <4>1. 5 + m[4] \in Nat
        BY <3>2
      <4> QED
        BY <2>a, <3>1, <3>3, <4>1 DEF ParserStates
    <3> QED
      BY <2>0, <3>4 DEF m
  <2>4. CASE ~ (Len(m) < p.end) /\ p.state = "READING_CHECKSUM"
    <3>0. /\ q = EndOfMessage(r)
          /\ Len(m) = p.end /\ p.end = 5 + m[4] /\ m[4] <= MaxPayload
      <4>1. q = EndOfMessage(r)
        BY <1>2, <2>0, <2>4 DEF Read, r, m
      <4> QED
        BY <1>0, <1>1, <2>4, <2>d, <4>1 DEF ParserShape, ShapeOf
    <3>1. CASE Crc(m) = 0
      <4>1. q = [state |-> "DONE", message |-> m, end |-> p.end]
        BY <1>0, <1>2, <3>0, <3>1 DEF EndOfMessage
      <4>2. m[4] \in Nat
        BY <2>4, <2>e, <1>0, <1>1 DEF ParserShape, ShapeOf
      <4>a. FrameShape(m)
        BY <1>1, <2>d, <3>0, <3>1, <4>2 DEF FrameShape, Synced
      <4>3. ShapeOf("DONE", m, p.end)
        BY <1>0, <3>0, <4>a, <4>2, FrameNumbers DEF ParserShape, ShapeOf
      <4>4. q \in Parsers /\ ParserShape(q) /\ q.message = m
        BY <1>0, <2>a, <4>1, <4>3 DEF ParserStates
      <4> QED
        BY <2>0, <4>4 DEF m
    <3>2. CASE Crc(m) # 0
      <4>1. q = Hunting
        BY <1>2, <3>0, <3>2 DEF EndOfMessage
      <4> QED
        BY <2>b, <4>1
    <3> QED
      BY <3>1, <3>2
  <2> QED
    BY <1>6, <2>1, <2>2, <2>3, <2>4
<1> QED
  BY <1>0, <1>4, <1>5, <1>6 DEF ParserStates

---------------------------------------------------------------------------
(* The bytes that were fed last end with the message that is read.         *)
EndsWith(bytes, m) ==
    /\ Len(m) <= Len(bytes)
    /\ \A i \in 1 .. Len(m) : m[i] = bytes[Len(bytes) - Len(m) + i]

ParserInv ==
    /\ parser \in Parsers /\ ParserShape(parser) /\ parser.state # "DONE"
    /\ received \in Seq(Bytes) /\ Len(received) <= MaxMessageLength
    /\ parser.state # "WAITING_SYNC_BYTE_1" => EndsWith(received, parser.message)
    /\ returned \in 0 .. MaxPayload + 1
    /\ returned > 0 => /\ EndsWith(received, parser.message) /\ FrameShape(parser.message)
                       /\ Len(parser.message) = 4 + returned

LEMMA ParserInvInit == ParserInit => ParserInv
<1> SUFFICES ASSUME ParserInit PROVE ParserInv
  OBVIOUS
<1>1. received \in Seq(Bytes) /\ Len(received) = 0
  BY DEF ParserInit
<1> QED
  BY <1>1, HuntingIsShaped, FrameNumbers DEF ParserInit, ParserInv

(* One more byte is kept, and the oldest is dropped. *)
LEMMA ReceivedGoesOn ==
    ASSUME NEW old \in Seq(Bytes), Len(old) <= MaxMessageLength, NEW ch \in Bytes
    PROVE  LET new == IF Len(old) = MaxMessageLength THEN Append(Tail(old), ch) ELSE Append(old, ch)
           IN  /\ new \in Seq(Bytes) /\ Len(new) <= MaxMessageLength
               /\ EndsWith(new, <<ch>>)
               /\ \A m \in Seq(Bytes) : EndsWith(old, m) /\ Len(m) < MaxMessageLength
                                          => EndsWith(new, Append(m, ch))
<1>0. Len(old) \in Nat /\ MaxMessageLength \in Nat /\ MaxMessageLength >= 6
  BY FrameNumbers
<1> DEFINE kept == IF Len(old) = MaxMessageLength THEN Tail(old) ELSE old
           new == Append(kept, ch)
<1>1. /\ kept \in Seq(Bytes) /\ Len(kept) \in Nat /\ Len(kept) < MaxMessageLength /\ Len(kept) <= Len(old)
      /\ \A i \in 1 .. Len(kept) : kept[Len(kept) - i + 1] = old[Len(old) - i + 1]
      /\ Len(kept) + 1 = MaxMessageLength \/ Len(kept) = Len(old)
  <2>1. CASE Len(old) = MaxMessageLength
    <3>1. old # <<>> /\ Len(old) >= 1
      BY <1>0, <2>1
    <3>2. /\ Tail(old) \in Seq(Bytes) /\ Len(Tail(old)) = Len(old) - 1
          /\ \A i \in 1 .. Len(Tail(old)) : Tail(old)[i] = old[i + 1]
      BY <3>1, HeadTailProperties
    <3> DEFINE t == Tail(old)
    <3> HIDE DEF t
    <3>3. t \in Seq(Bytes) /\ Len(t) = Len(old) - 1 /\ \A i \in 1 .. Len(t) : t[i] = old[i + 1]
      BY <3>2 DEF t
    <3>4. ASSUME NEW i \in 1 .. Len(t) PROVE t[Len(t) - i + 1] = old[Len(old) - i + 1]
      BY <1>0, <3>3, SMTT(30)
    <3>5. kept = t
      BY <2>1 DEF t
    <3>6. Len(t) \in Nat /\ Len(t) < MaxMessageLength /\ Len(t) <= Len(old) /\ Len(t) + 1 = MaxMessageLength
      BY <1>0, <2>1, <3>3
    <3> HIDE DEF kept
    <3> QED
      BY <3>3, <3>4, <3>5, <3>6
  <2>2. CASE Len(old) # MaxMessageLength
    BY <1>0, <2>2
  <2> QED
    BY <2>1, <2>2
<1>a. new = IF Len(old) = MaxMessageLength THEN Append(Tail(old), ch) ELSE Append(old, ch)
  OBVIOUS
<1> HIDE DEF kept
<1>2. /\ new \in Seq(Bytes) /\ Len(new) = Len(kept) + 1 /\ new[Len(kept) + 1] = ch
      /\ \A i \in 1 .. Len(kept) : new[i] = kept[i]
  BY <1>1, AppendProperties
<1> HIDE DEF new
<1>3. EndsWith(new, <<ch>>)
  BY <1>1, <1>2 DEF EndsWith
<1>4. ASSUME NEW m \in Seq(Bytes), EndsWith(old, m), Len(m) < MaxMessageLength
      PROVE  EndsWith(new, Append(m, ch))
  <2> DEFINE n == Append(m, ch)
  <2>1. /\ Len(m) \in Nat /\ Len(n) = Len(m) + 1 /\ n[Len(m) + 1] = ch
        /\ \A i \in 1 .. Len(m) : n[i] = m[i]
    BY AppendProperties
  <2> HIDE DEF n
  <2>2. Len(m) <= Len(kept)
    BY <1>0, <1>1, <1>4, <2>1 DEF EndsWith
  <2>3. ASSUME NEW i \in 1 .. Len(m) PROVE m[i] = kept[Len(kept) - Len(m) + i]
    <3>1. m[i] = old[Len(old) - Len(m) + i]
      BY <1>4 DEF EndsWith
    <3> DEFINE j == Len(m) - i + 1
    <3>2. j \in 1 .. Len(kept)
      BY <1>1, <2>1, <2>2
    <3>3. /\ Len(old) - j + 1 = Len(old) - Len(m) + i
          /\ Len(kept) - j + 1 = Len(kept) - Len(m) + i
      BY <1>0, <1>1, <2>1
    <3> HIDE DEF j
    <3>4. kept[Len(kept) - j + 1] = old[Len(old) - j + 1]
      BY <1>1, <3>2
    <3> QED
      BY <3>1, <3>3, <3>4
  <2>4. ASSUME NEW i \in 1 .. Len(n) PROVE n[i] = new[Len(new) - Len(n) + i]
    <3>0. Len(new) - Len(n) + i = Len(kept) - Len(m) + i
      BY <1>1, <1>2, <2>1
    <3>1. CASE i = Len(m) + 1
      <4>1. Len(kept) - Len(m) + i = Len(kept) + 1
        BY <1>1, <2>1, <3>1
      <4> QED
        BY <1>2, <2>1, <3>0, <3>1, <4>1
    <3>2. CASE i # Len(m) + 1
      <4>1. i \in 1 .. Len(m) /\ Len(kept) - Len(m) + i \in 1 .. Len(kept)
        BY <1>1, <2>1, <2>2, <3>2
      <4> QED
        BY <1>2, <2>1, <2>3, <3>0, <4>1
    <3> QED
      BY <3>1, <3>2
  <2>5. Len(n) <= Len(new)
    BY <1>1, <1>2, <2>1, <2>2
  <2> QED
    BY <2>4, <2>5 DEF EndsWith, n
<1> QED
  BY <1>1, <1>2, <1>3, <1>4, <1>a, <1>0

LEMMA ParserInvNext == ParserInv /\ [ParserNext]_parserVars => ParserInv'
<1> SUFFICES ASSUME ParserInv, [ParserNext]_parserVars PROVE ParserInv'
  OBVIOUS
<1>1. CASE UNCHANGED parserVars
  BY <1>1 DEF parserVars, ParserInv, ParserShape
<1>2. CASE ParserNext
  <2>1. PICK ch \in Bytes : FeedByte(ch)
    BY <1>2 DEF ParserNext
  <2> DEFINE q == Fed(parser, ch)
  <2>2. /\ q \in Parsers /\ ParserShape(q)
        /\ q.state # "WAITING_SYNC_BYTE_1" =>
              \/ q.message = <<ch>>
              \/ parser.state # "WAITING_SYNC_BYTE_1" /\ q.message = Append(parser.message, ch)
    BY FedKeepsShape DEF ParserInv
  <2>3. returned' = LengthPlusOne(q) /\ parser' = Settled(q)
    BY <2>1 DEF FeedByte
  <2>4. /\ received' \in Seq(Bytes) /\ Len(received') <= MaxMessageLength
        /\ EndsWith(received', <<ch>>)
        /\ \A m \in Seq(Bytes) : EndsWith(received, m) /\ Len(m) < MaxMessageLength
                                   => EndsWith(received', Append(m, ch))
    <3>1. received' = IF Len(received) = MaxMessageLength THEN Append(Tail(received), ch) ELSE Append(received, ch)
      BY <2>1 DEF FeedByte
    <3> QED
      BY <3>1, ReceivedGoesOn DEF ParserInv
  <2> HIDE DEF q
  <2>5. q.state # "WAITING_SYNC_BYTE_1" => EndsWith(received', q.message)
    <3>1. CASE q.message = <<ch>>
      BY <2>4, <3>1
    <3>2. CASE parser.state # "WAITING_SYNC_BYTE_1" /\ q.message = Append(parser.message, ch)
      <4>1. parser.message \in Seq(Bytes) /\ Len(parser.message) \in Nat
        BY DEF ParserInv, Parsers
      <4>2. Len(parser.message) < MaxMessageLength
        <5>1. q.message \in Seq(Bytes) /\ Len(q.message) = Len(parser.message) + 1
          BY <3>2, <4>1, AppendProperties
        <5>2. Len(q.message) <= MaxMessageLength
          BY <2>2 DEF ParserShape, ShapeOf
        <5> QED
          BY <4>1, <5>1, <5>2, FrameNumbers
      <4> QED
        BY <2>4, <3>2, <4>1, <4>2 DEF ParserInv
    <3> QED
      BY <2>2, <3>1, <3>2
  <2>6. CASE q.state = "DONE"
    <3>1. /\ FrameShape(q.message) /\ q.end = Len(q.message) /\ q.end <= MaxMessageLength
          /\ q.message \in Seq(Bytes)
      BY <2>2, <2>6 DEF ParserShape, ShapeOf, Parsers
    <3>2. parser' = [state |-> "WAITING_SYNC_BYTE_1", message |-> q.message, end |-> 0]
      BY <2>3, <2>6 DEF Settled, Hunting
    <3>3. returned' = q.end - 4
      BY <2>3, <2>6, FrameNumbers DEF LengthPlusOne
    <3>4. q.end \in Nat /\ q.end >= 5
      BY <3>1 DEF FrameShape
    <3>5. returned' \in 0 .. MaxPayload + 1 /\ Len(q.message) = 4 + returned'
      BY <3>1, <3>3, <3>4, FrameNumbers
    <3>6. EndsWith(received', q.message)
      BY <2>5, <2>6
    <3>7. /\ parser' \in Parsers /\ parser'.message = q.message /\ parser'.end = 0
          /\ parser'.state = "WAITING_SYNC_BYTE_1"
      BY <3>1, <3>2 DEF Parsers, ParserStates
    <3>8. ParserShape(parser')
      BY <3>1, <3>7, FrameNumbers DEF ParserShape, ShapeOf
    <3> QED
      BY <2>4, <3>1, <3>5, <3>6, <3>7, <3>8 DEF ParserInv, ParserShape
  <2>7. CASE q.state # "DONE"
    <3>1. parser' = q /\ returned' = 0
      BY <2>3, <2>7 DEF Settled, LengthPlusOne
    <3> QED
      BY <2>2, <2>4, <2>5, <2>7, <3>1, FrameNumbers DEF ParserInv, ParserShape
  <2> QED
    BY <2>6, <2>7
<1> QED
  BY <1>1, <1>2

LEMMA EndsWithIsSuffix ==
    ASSUME NEW bytes \in Seq(Bytes), NEW m \in Seq(Bytes), EndsWith(bytes, m)
    PROVE  IsSuffix(m, bytes)
<1> DEFINE rm == Reverse(m)
           rb == Reverse(bytes)
<1>0. Len(m) \in Nat /\ Len(bytes) \in Nat /\ Len(m) <= Len(bytes)
  BY DEF EndsWith
<1>1. rm \in Seq(Bytes) /\ Len(rm) = Len(m) /\ \A i \in 1 .. Len(m) : rm[i] = m[(Len(m) - i) + 1]
  <2>1. \A i \in 1 .. Len(m) : m[(Len(m) - i) + 1] \in Bytes
    BY <1>0, ElementOfSeq
  <2>2. rm \in [1 .. Len(m) -> Bytes] /\ \A i \in 1 .. Len(m) : rm[i] = m[(Len(m) - i) + 1]
    BY <2>1 DEF Reverse
  <2> HIDE DEF rm
  <2> QED
    BY <1>0, <2>2, SequenceOf
<1>2. rb \in Seq(Bytes) /\ Len(rb) = Len(bytes) /\ \A i \in 1 .. Len(bytes) : rb[i] = bytes[(Len(bytes) - i) + 1]
  <2>1. \A i \in 1 .. Len(bytes) : bytes[(Len(bytes) - i) + 1] \in Bytes
    BY <1>0, ElementOfSeq
  <2>2. rb \in [1 .. Len(bytes) -> Bytes] /\ \A i \in 1 .. Len(bytes) : rb[i] = bytes[(Len(bytes) - i) + 1]
    BY <2>1 DEF Reverse
  <2> HIDE DEF rb
  <2> QED
    BY <1>0, <2>2, SequenceOf
<1> HIDE DEF rm, rb
<1>3. ASSUME NEW i \in 1 .. Len(m) PROVE rm[i] = rb[i]
  <2> DEFINE j == (Len(m) - i) + 1
  <2>1. j \in 1 .. Len(m) /\ Len(bytes) - Len(m) + j = (Len(bytes) - i) + 1 /\ i \in 1 .. Len(bytes)
    BY <1>0
  <2>2. m[j] = bytes[Len(bytes) - Len(m) + j]
    BY <2>1 DEF EndsWith
  <2> QED
    BY <1>1, <1>2, <2>1, <2>2
<1> DEFINE sm == SubSeq(rm, 1, Len(rm))
           sb == SubSeq(rb, 1, Len(rm))
<1>4. /\ sm \in Seq(Bytes) /\ Len(sm) = Len(m) /\ \A i \in 1 .. Len(m) : sm[i] = rm[i]
  BY <1>0, <1>1, SubSeqProperties
<1>5. /\ sb \in Seq(Bytes) /\ Len(sb) = Len(m) /\ \A i \in 1 .. Len(m) : sb[i] = rb[i]
  BY <1>0, <1>1, <1>2, SubSeqProperties
<1> HIDE DEF sm, sb
<1>6. sm = sb
  BY <1>3, <1>4, <1>5, SeqEqual
<1> QED
  BY <1>0, <1>1, <1>2, <1>6 DEF IsSuffix, IsPrefix, rm, rb, sm, sb

---------------------------------------------------------------------------
(* A frame from its first byte on: the parser after k of its bytes.        *)
Begin(frame, k) == SubSeq(frame, 1, k)

AfterBytes(frame, k) ==
    [state |-> IF k = 1 THEN "WAITING_SYNC_BYTE_2" ELSE IF k < 4 THEN "READING_HEADER"
               ELSE IF k = Len(frame) - 1 THEN "READING_CHECKSUM" ELSE "READING_PAYLOAD",
     message |-> Begin(frame, k),
     end |-> IF k = 1 THEN 0 ELSE IF k < 4 THEN 4
             ELSE IF k = Len(frame) - 1 THEN Len(frame) ELSE Len(frame) - 1]

LEMMA BeginOfFrame ==
    ASSUME NEW frame \in Seq(Bytes), NEW k \in 1 .. Len(frame)
    PROVE  /\ Begin(frame, k) \in Seq(Bytes) /\ Len(Begin(frame, k)) = k
           /\ \A i \in 1 .. k : Begin(frame, k)[i] = frame[i]
<1>1. k \in Nat /\ k >= 1 /\ \A i \in 1 .. k : frame[i] \in Bytes
  BY LenProperties, ElementOfSeq
<1> DEFINE b == SubSeq(frame, 1, k)
<1>2. /\ b \in Seq(Bytes) /\ Len(b) = IF 1 <= k THEN k - 1 + 1 ELSE 0
      /\ \A i \in 1 .. k - 1 + 1 : b[i] = frame[1 + i - 1]
  BY <1>1, SubSeqProperties
<1> HIDE DEF b
<1>3. /\ b \in Seq(Bytes) /\ Len(b) = k /\ \A i \in 1 .. k : b[i] = frame[i]
  BY <1>1, <1>2
<1> QED
  BY <1>3 DEF b, Begin

LEMMA BeginGoesOn ==
    ASSUME NEW frame \in Seq(Bytes), NEW k \in 1 .. Len(frame) - 1, Len(frame) \in Nat
    PROVE  Append(Begin(frame, k), frame[k + 1]) = Begin(frame, k + 1)
<1> DEFINE b == Begin(frame, k)
           c == Begin(frame, k + 1)
           a == Append(b, frame[k + 1])
<1>0. k \in 1 .. Len(frame) /\ k + 1 \in 1 .. Len(frame)
  OBVIOUS
<1>1. b \in Seq(Bytes) /\ Len(b) = k /\ \A i \in 1 .. k : b[i] = frame[i]
  BY <1>0, BeginOfFrame
<1>2. c \in Seq(Bytes) /\ Len(c) = k + 1 /\ \A i \in 1 .. k + 1 : c[i] = frame[i]
  BY <1>0, BeginOfFrame
<1>3. frame[k + 1] \in Bytes
  BY <1>0, ElementOfSeq
<1> HIDE DEF b, c
<1>4. a \in Seq(Bytes) /\ Len(a) = k + 1 /\ a[k + 1] = frame[k + 1] /\ \A i \in 1 .. k : a[i] = b[i]
  BY <1>1, <1>3, AppendProperties
<1> HIDE DEF a
<1>5. \A i \in 1 .. k + 1 : a[i] = c[i]
  BY <1>0, <1>1, <1>2, <1>4
<1>6. a = c
  BY <1>2, <1>4, <1>5, SeqEqual
<1> QED
  BY <1>6 DEF a, b, c

LEMMA WholeFrame ==
    ASSUME NEW frame \in Seq(Bytes), Len(frame) >= 1
    PROVE  Begin(frame, Len(frame)) = frame /\ Begin(frame, 1) = <<frame[1]>>
<1>0. Len(frame) \in 1 .. Len(frame) /\ 1 \in 1 .. Len(frame)
  BY LenProperties
<1> DEFINE b == Begin(frame, Len(frame))
           c == Begin(frame, 1)
           d == <<frame[1]>>
<1>1. b \in Seq(Bytes) /\ Len(b) = Len(frame) /\ \A i \in 1 .. Len(frame) : b[i] = frame[i]
  BY <1>0, BeginOfFrame
<1>2. c \in Seq(Bytes) /\ Len(c) = 1 /\ c[1] = frame[1]
  <2>1. c \in Seq(Bytes) /\ Len(c) = 1 /\ \A i \in 1 .. 1 : c[i] = frame[i]
    BY <1>0, BeginOfFrame
  <2> QED
    BY <2>1
<1>3. frame[1] \in Bytes
  BY <1>0, ElementOfSeq
<1>4. d \in Seq(Bytes) /\ Len(d) = 1 /\ d[1] = frame[1]
  BY <1>3
<1> HIDE DEF b, c, d
<1>5. b = frame
  BY <1>1, SeqEqual
<1>6. \A i \in 1 .. Len(c) : c[i] = d[i]
  BY <1>2, <1>4
<1>7. c = d
  BY <1>2, <1>4, <1>6, SeqEqual
<1> QED
  BY <1>5, <1>7 DEF b, c, d

LEMMA FrameGoesOn ==
    ASSUME NEW frame \in Seq(Bytes), FrameShape(frame)
    PROVE  /\ \A p : p.state = "WAITING_SYNC_BYTE_1" => Fed(p, frame[1]) = AfterBytes(frame, 1)
           /\ \A k \in 1 .. Len(frame) - 2 : Fed(AfterBytes(frame, k), frame[k + 1]) = AfterBytes(frame, k + 1)
           /\ Fed(AfterBytes(frame, Len(frame) - 1), frame[Len(frame)])
                = [state |-> "DONE", message |-> frame, end |-> Len(frame)]
<1> DEFINE L == Len(frame)
<1>0. /\ L \in Nat /\ L >= 5 /\ L = 5 + frame[4] /\ frame[4] \in Nat /\ frame[4] <= MaxPayload
      /\ frame[1] = SyncWord[1] /\ frame[2] = SyncWord[2] /\ Crc(frame) = 0
  <2>1. L \in Nat /\ L >= 5 /\ 4 \in 1 .. Len(frame)
    BY LenProperties DEF FrameShape
  <2>2. frame[4] \in Bytes
    BY <2>1, ElementOfSeq
  <2> QED
    BY <2>1, <2>2, FrameNumbers DEF FrameShape, Bytes
<1> DEFINE m(k) == Begin(frame, k)
<1>1. \A k \in 1 .. L : Len(m(k)) = k
  BY BeginOfFrame
<1>2. \A k \in 1 .. L - 1 : Append(m(k), frame[k + 1]) = m(k + 1)
  BY <1>0, BeginGoesOn
<1>3. m(L) = frame /\ m(1) = <<frame[1]>>
  BY <1>0, WholeFrame
<1> HIDE DEF m
<1>a. \A k : AfterBytes(frame, k) =
         [state |-> IF k = 1 THEN "WAITING_SYNC_BYTE_2" ELSE IF k < 4 THEN "READING_HEADER"
                    ELSE IF k = L - 1 THEN "READING_CHECKSUM" ELSE "READING_PAYLOAD",
          message |-> m(k),
          end |-> IF k = 1 THEN 0 ELSE IF k < 4 THEN 4 ELSE IF k = L - 1 THEN L ELSE L - 1]
  BY DEF AfterBytes, m
<1> HIDE DEF L
<1>4. ASSUME NEW p, p.state = "WAITING_SYNC_BYTE_1" PROVE Fed(p, frame[1]) = AfterBytes(frame, 1)
  <2>1. Fed(p, frame[1]) = [state |-> "WAITING_SYNC_BYTE_2", message |-> <<frame[1]>>, end |-> 0]
    BY <1>0, <1>4 DEF Fed, HuntSync
  <2> QED
    BY <2>1, <1>3, <1>a
<1>b. ASSUME NEW s, NEW e, NEW k \in 1 .. L - 1, NEW p, p = [state |-> s, message |-> m(k), end |-> e]
      PROVE  /\ [p EXCEPT !.message = Append(@, frame[k + 1])] = [state |-> s, message |-> m(k + 1), end |-> e]
             /\ Len(m(k + 1)) = k + 1
  <2>1. Append(m(k), frame[k + 1]) = m(k + 1)
    BY <1>2
  <2>2. k + 1 \in 1 .. L
    BY <1>0, SMTT(30)
  <2>3. [p EXCEPT !.message = Append(@, frame[k + 1])] = [state |-> s, message |-> m(k + 1), end |-> e]
    <3>1. p.message = m(k)
      BY <1>b
    <3>2. [p EXCEPT !.message = Append(@, frame[k + 1])] = [p EXCEPT !.message = m(k + 1)]
      BY <2>1, <3>1
    <3> QED
      BY <1>b, <3>2
  <2> QED
    BY <1>1, <2>2, <2>3
<1>5. ASSUME NEW k \in 1 .. L - 2 PROVE Fed(AfterBytes(frame, k), frame[k + 1]) = AfterBytes(frame, k + 1)
  <2>0. k \in 1 .. L - 1 /\ k + 1 \in Nat /\ k \in Nat /\ k <= L - 2
    BY <1>0, <1>5, SMTT(30)
  <2> DEFINE p == AfterBytes(frame, k)
             q == [p EXCEPT !.message = Append(@, frame[k + 1])]
  <2>1. CASE k = 1
    <3>1. p = [state |-> "WAITING_SYNC_BYTE_2", message |-> m(1), end |-> 0]
      BY <1>a, <2>1
    <3>2. Fed(p, frame[2]) = [state |-> "READING_HEADER", message |-> Append(m(1), frame[2]), end |-> 4]
      <4> HIDE DEF p
      <4> QED
        BY <1>0, <3>1, FrameNumbers DEF Fed, SecondSync
    <3>3. Append(m(1), frame[1 + 1]) = m(1 + 1)
      BY <1>2, <2>0, <2>1
    <3>4. AfterBytes(frame, 2) = [state |-> "READING_HEADER", message |-> m(2), end |-> 4]
      BY <1>a
    <3>5. k + 1 = 2 /\ 1 + 1 = 2
      BY <2>1
    <3> QED
      BY <3>2, <3>3, <3>4, <3>5
  <2>2. CASE k = 2
    <3>1. p = [state |-> "READING_HEADER", message |-> m(2), end |-> 4]
      BY <1>a, <2>2
    <3> HIDE DEF p
    <3>2. q = [state |-> "READING_HEADER", message |-> m(3), end |-> 4] /\ Len(m(3)) = 3
      <4>1. q = [state |-> "READING_HEADER", message |-> m(k + 1), end |-> 4] /\ Len(m(k + 1)) = k + 1
        <5>1. p = [state |-> "READING_HEADER", message |-> m(k), end |-> 4]
          BY <2>2, <3>1
        <5> QED
          BY <1>b, <2>0, <5>1
      <4> QED
        BY <2>2, <4>1
    <3> HIDE DEF q
    <3>3. Fed(p, frame[k + 1]) = q
      BY <3>1, <3>2 DEF Fed, Read, q
    <3>4. AfterBytes(frame, 3) = [state |-> "READING_HEADER", message |-> m(3), end |-> 4]
      BY <1>a
    <3> QED
      BY <2>2, <3>2, <3>3, <3>4 DEF p
  <2>3. CASE k = 3
    <3>1. p = [state |-> "READING_HEADER", message |-> m(3), end |-> 4]
      BY <1>a, <2>3
    <3> HIDE DEF p
    <3>2. q = [state |-> "READING_HEADER", message |-> m(4), end |-> 4] /\ Len(m(4)) = 4
      <4>1. q = [state |-> "READING_HEADER", message |-> m(k + 1), end |-> 4] /\ Len(m(k + 1)) = k + 1
        <5>1. p = [state |-> "READING_HEADER", message |-> m(k), end |-> 4]
          BY <2>3, <3>1
        <5> QED
          BY <1>b, <2>0, <5>1
      <4> QED
        BY <2>3, <4>1
    <3> HIDE DEF q
    <3>3. Fed(p, frame[k + 1]) = EndOfHeader(q, frame[4])
      <4>1. frame[k + 1] = frame[4]
        BY <2>3
      <4>2. Fed(p, frame[k + 1]) = EndOfHeader(q, frame[k + 1])
        <5>1. Fed(p, frame[k + 1]) = Read(p, frame[k + 1])
          BY <3>1 DEF Fed
        <5>2. q.state = "READING_HEADER" /\ ~ (Len(q.message) < q.end)
          BY <3>2, SMTT(30)
        <5>3. Read(p, frame[k + 1]) = EndOfHeader(q, frame[k + 1])
          BY <5>2 DEF Read, q
        <5> QED
          BY <5>1, <5>3
      <4> QED
        BY <4>1, <4>2
    <3>4. CASE frame[4] = 0
      <4>1. EndOfHeader(q, frame[4]) = [q EXCEPT !.state = "READING_CHECKSUM", !.end = @ + 1]
        BY <3>4, FrameNumbers DEF EndOfHeader
      <4>2. EndOfHeader(q, frame[4]) = [state |-> "READING_CHECKSUM", message |-> m(4), end |-> 5]
        <5>1. EndOfHeader(q, frame[4]) = [state |-> "READING_CHECKSUM", message |-> m(4), end |-> q.end + 1]
          BY <3>2, <4>1
        <5>2. q.end + 1 = 5
          BY <3>2
        <5> QED
          BY <5>1, <5>2
      <4>3. AfterBytes(frame, 4) = [state |-> "READING_CHECKSUM", message |-> m(4), end |-> 5]
        BY <1>0, <1>a, <3>4
      <4> QED
        BY <2>3, <3>3, <4>2, <4>3 DEF p
    <3>5. CASE frame[4] # 0
      <4>1. EndOfHeader(q, frame[4]) = [q EXCEPT !.state = "READING_PAYLOAD", !.end = @ + frame[4]]
        <5>1. ~ (frame[4] > MaxPayload)
          BY <1>0, FrameNumbers
        <5> QED
          BY <3>5, <5>1, Zenon DEF EndOfHeader
      <4>2. EndOfHeader(q, frame[4]) = [state |-> "READING_PAYLOAD", message |-> m(4), end |-> 4 + frame[4]]
        BY <3>2, <4>1
      <4>3. L - 1 = 4 + frame[4] /\ 4 # L - 1
        BY <1>0, <3>5, SMTT(30)
      <4>4. AfterBytes(frame, 4) = [state |-> "READING_PAYLOAD", message |-> m(4), end |-> L - 1]
        <5>1. 4 # 1 /\ ~ (4 < 4)
          OBVIOUS
        <5> QED
          BY <1>a, <4>3, <5>1
      <4> QED
        BY <2>3, <3>3, <4>2, <4>3, <4>4 DEF p
    <3> QED
      BY <3>4, <3>5
  <2>4. CASE k >= 4
    <3>0. /\ k # L - 1 /\ k # 1 /\ ~ (k < 4)
          /\ k + 1 <= L - 1 /\ k + 1 # 1 /\ ~ (k + 1 < 4)
      <4>1. k \in Nat /\ L \in Nat /\ k <= L - 2 /\ k >= 4
        BY <1>0, <2>0, <2>4
      <4> QED
        BY <4>1
    <3>1. p = [state |-> "READING_PAYLOAD", message |-> m(k), end |-> L - 1]
      BY <1>a, <3>0
    <3> HIDE DEF p
    <3>2. q = [state |-> "READING_PAYLOAD", message |-> m(k + 1), end |-> L - 1] /\ Len(m(k + 1)) = k + 1
      BY <1>b, <2>0, <3>1
    <3> HIDE DEF q
    <3>3. CASE k + 1 < L - 1
      <4>1. Fed(p, frame[k + 1]) = q
        BY <3>1, <3>2, <3>3 DEF Fed, Read, q
      <4>2. AfterBytes(frame, k + 1) = [state |-> "READING_PAYLOAD", message |-> m(k + 1), end |-> L - 1]
        <5>1. k + 1 # L - 1
          BY <1>0, <2>0, <3>3
        <5> QED
          BY <1>a, <3>0, <5>1
      <4> QED
        BY <3>2, <4>1, <4>2 DEF p
    <3>4. CASE k + 1 = L - 1
      <4>1. Fed(p, frame[k + 1]) = [q EXCEPT !.state = "READING_CHECKSUM", !.end = @ + 1]
        BY <1>0, <3>1, <3>2, <3>4 DEF Fed, Read, q
      <4>2. Fed(p, frame[k + 1]) = [state |-> "READING_CHECKSUM", message |-> m(k + 1), end |-> (L - 1) + 1]
        BY <3>2, <4>1
      <4>3. (L - 1) + 1 = L
        BY <1>0
      <4>4. AfterBytes(frame, k + 1) = [state |-> "READING_CHECKSUM", message |-> m(k + 1), end |-> L]
        BY <1>a, <3>0, <3>4
      <4> QED
        BY <4>2, <4>3, <4>4 DEF p
    <3> QED
      BY <1>0, <2>0, <3>0, <3>3, <3>4, SMTT(30)
  <2> QED
    BY <2>0, <2>1, <2>2, <2>3, <2>4
<1>6. Fed(AfterBytes(frame, L - 1), frame[L]) = [state |-> "DONE", message |-> frame, end |-> L]
  <2> DEFINE p == AfterBytes(frame, L - 1)
             q == [p EXCEPT !.message = Append(@, frame[L])]
  <2>0. L - 1 \in 1 .. L - 1 /\ (L - 1) + 1 = L /\ L - 1 # 1 /\ ~ (L - 1 < 4)
    BY <1>0
  <2>1. p = [state |-> "READING_CHECKSUM", message |-> m(L - 1), end |-> L]
    BY <1>a, <2>0
  <2> HIDE DEF p
  <2>2. q = [state |-> "READING_CHECKSUM", message |-> frame, end |-> L] /\ Len(frame) = L
    <3>1. L - 1 \in 1 .. L - 1 /\ (L - 1) + 1 = L
      BY <2>0
    <3>2. [p EXCEPT !.message = Append(@, frame[(L - 1) + 1])]
             = [state |-> "READING_CHECKSUM", message |-> m((L - 1) + 1), end |-> L]
      BY <1>b, <2>1, <3>1
    <3>3. q = [state |-> "READING_CHECKSUM", message |-> m(L), end |-> L]
      BY <3>1, <3>2
    <3> QED
      BY <1>3, <3>3 DEF L
  <2> HIDE DEF q
  <2>3. Fed(p, frame[L]) = EndOfMessage(q)
    BY <1>0, <2>1, <2>2 DEF Fed, Read, q
  <2>4. EndOfMessage(q) = [q EXCEPT !.state = "DONE"]
    BY <1>0, <2>2 DEF EndOfMessage
  <2> QED
    BY <2>2, <2>3, <2>4 DEF p
<1> QED
  BY <1>4, <1>5, <1>6 DEF L

(* The parser after each byte, and what it returned for it. *)
RunOver(bytes, r) ==
    r = [n \in 0 .. Len(bytes) |-> IF n = 0 THEN parser ELSE Settled(Fed(r[n - 1], bytes[n]))]

LEMMA ReportsOfRun ==
    ASSUME NEW bytes, NEW r, RunOver(bytes, r)
    PROVE  \E s : /\ RunOver(bytes, s)
                  /\ Reports(bytes) = [n \in 1 .. Len(bytes) |-> LengthPlusOne(Fed(s[n - 1], bytes[n]))]
<1> DEFINE s == CHOOSE f : RunOver(bytes, f)
<1>1. RunOver(bytes, s)
  OBVIOUS
<1>2. Reports(bytes) = [n \in 1 .. Len(bytes) |-> LengthPlusOne(Fed(s[n - 1], bytes[n]))]
  BY DEF Reports, RunOver
<1> QED
  BY <1>1, <1>2

LEMMA FrameIsReported ==
    ASSUME parser.state = "WAITING_SYNC_BYTE_1", NEW frame \in Seq(Bytes), FrameShape(frame)
    PROVE  Reports(frame) = [n \in 1 .. Len(frame) |-> IF n = Len(frame) THEN n - HeaderLength ELSE 0]
<1> DEFINE L == Len(frame)
           done == [state |-> "DONE", message |-> frame, end |-> L]
           over == [state |-> "WAITING_SYNC_BYTE_1", message |-> frame, end |-> 0]
           r == [k \in 0 .. L |-> IF k = 0 THEN parser ELSE IF k < L THEN AfterBytes(frame, k) ELSE over]
<1>0. L \in Nat /\ L >= 5
  BY LenProperties DEF FrameShape
<1>1. \A k \in 1 .. L - 1 : AfterBytes(frame, k).state # "DONE"
  BY DEF AfterBytes
<1>2. Settled(done) = over /\ LengthPlusOne(done) = L - HeaderLength
  BY DEF Settled, Hunting, LengthPlusOne
<1>3. /\ Fed(parser, frame[1]) = AfterBytes(frame, 1)
      /\ \A k \in 1 .. L - 2 : Fed(AfterBytes(frame, k), frame[k + 1]) = AfterBytes(frame, k + 1)
      /\ Fed(AfterBytes(frame, L - 1), frame[L]) = done
  BY FrameGoesOn
<1> HIDE DEF L, done, over
<1>4. ASSUME NEW n \in 1 .. L
      PROVE  Fed(r[n - 1], frame[n]) = IF n = L THEN done ELSE AfterBytes(frame, n)
  <2>1. CASE n = 1
    BY <1>0, <1>3, <2>1
  <2>2. CASE n # 1 /\ n # L
    <3>1. n - 1 \in 1 .. L - 2 /\ (n - 1) + 1 = n /\ r[n - 1] = AfterBytes(frame, n - 1)
      BY <1>0, <2>2
    <3>2. Fed(AfterBytes(frame, n - 1), frame[(n - 1) + 1]) = AfterBytes(frame, (n - 1) + 1)
      BY <1>3, <3>1
    <3> QED
      BY <2>2, <3>1, <3>2
  <2>3. CASE n = L
    <3>1. r[L - 1] = AfterBytes(frame, L - 1)
      BY <1>0
    <3> QED
      BY <1>3, <2>3, <3>1
  <2> QED
    BY <1>0, <2>1, <2>2, <2>3
<1>5. ASSUME NEW n \in 1 .. L PROVE Settled(Fed(r[n - 1], frame[n])) = r[n]
  <2>1. CASE n = L
    BY <1>0, <1>2, <1>4, <2>1
  <2>2. CASE n # L
    <3>1. Fed(r[n - 1], frame[n]) = AfterBytes(frame, n) /\ AfterBytes(frame, n).state # "DONE"
      BY <1>0, <1>1, <1>4, <2>2
    <3>2. r[n] = AfterBytes(frame, n)
      BY <1>0, <2>2
    <3> QED
      BY <3>1, <3>2 DEF Settled
  <2> QED
    BY <2>1, <2>2
<1>6. r[0] = parser
  BY <1>0
<1>7. RunOver(frame, r)
  <2>1. r = [k \in 0 .. L |-> r[k]]
    OBVIOUS
  <2>2. \A k \in 0 .. L : k # 0 => k \in 1 .. L
    BY <1>0
  <2> DEFINE next(k) == Settled(Fed(r[k - 1], frame[k]))
  <2>3. \A k \in 1 .. L : next(k) = r[k]
    BY <1>5
  <2> HIDE DEF r, next
  <2>4. \A k \in 0 .. L : r[k] = IF k = 0 THEN parser ELSE next(k)
    BY <1>6, <2>2, <2>3
  <2>5. r = [k \in 0 .. L |-> IF k = 0 THEN parser ELSE next(k)]
    BY <2>1, <2>4
  <2> QED
    BY <2>5 DEF RunOver, L, next
<1>8. PICK s : /\ RunOver(frame, s)
               /\ Reports(frame) = [n \in 1 .. L |-> LengthPlusOne(Fed(s[n - 1], frame[n]))]
  BY <1>7, ReportsOfRun DEF L
<1>9. ASSUME NEW n \in 0 .. L PROVE s[n] = r[n]
  <2> HIDE DEF r
  <2> DEFINE T == {k \in Nat : k <= L => s[k] = r[k]}
  <2>1. 0 \in T
    BY <1>0, <1>6, <1>8 DEF RunOver, L
  <2>2. ASSUME NEW k \in T PROVE k + 1 \in T
    <3> SUFFICES ASSUME k + 1 <= L PROVE s[k + 1] = r[k + 1]
      OBVIOUS
    <3>1. s[k] = r[k] /\ k + 1 \in 1 .. L /\ k + 1 # 0 /\ (k + 1) - 1 = k
      BY <1>0
    <3>2. s[k + 1] = Settled(Fed(s[(k + 1) - 1], frame[k + 1]))
      BY <1>8, <3>1, SMTT(30) DEF RunOver, L
    <3>3. Settled(Fed(r[(k + 1) - 1], frame[k + 1])) = r[k + 1]
      BY <1>5, <3>1
    <3> QED
      BY <3>1, <3>2, <3>3
  <2>3. T \subseteq Nat
    OBVIOUS
  <2>4. n \in T
    <3> HIDE DEF T
    <3>1. T = Nat
      BY <2>1, <2>2, <2>3, AllNumbers
    <3> QED
      BY <3>1
  <2> QED
    BY <2>4
<1>10. ASSUME NEW n \in 1 .. L
       PROVE  LengthPlusOne(Fed(s[n - 1], frame[n])) = IF n = L THEN n - HeaderLength ELSE 0
  <2>1. s[n - 1] = r[n - 1]
    BY <1>0, <1>9
  <2> HIDE DEF r
  <2>2. Fed(s[n - 1], frame[n]) = IF n = L THEN done ELSE AfterBytes(frame, n)
    BY <1>4, <2>1
  <2>3. CASE n = L
    BY <1>2, <2>2, <2>3
  <2>4. CASE n # L
    <3>1. AfterBytes(frame, n).state # "DONE"
      BY <1>0, <1>1, <2>4
    <3> QED
      BY <2>2, <2>4, <3>1 DEF LengthPlusOne
  <2> QED
    BY <2>3, <2>4
<1> QED
  BY <1>8, <1>10 DEF L

LEMMA ParserInvImplies == ParserInv => ParserTypeOK /\ ReportedWasSent /\ HuntingFindsNext
<1> SUFFICES ASSUME ParserInv PROVE ParserTypeOK /\ ReportedWasSent /\ HuntingFindsNext
  OBVIOUS
<1>0. parser.message \in Seq(Bytes) /\ parser.end \in Nat /\ parser.state \in ParserStates
  BY DEF ParserInv, Parsers
<1>1. ParserTypeOK
  <2>1. ASSUME NEW m \in Seq(Bytes), Len(m) <= MaxMessageLength PROVE m \in BoundedSeq(Bytes, MaxMessageLength)
    <3>1. Len(m) \in 0 .. MaxMessageLength /\ m \in [1 .. Len(m) -> Bytes]
      BY <2>1, LenProperties, FrameNumbers
    <3> QED
      BY <3>1 DEF BoundedSeq, SeqOf
  <2> QED
    BY <1>0, <2>1, FrameNumbers DEF ParserInv, ParserShape, ShapeOf, ParserStates, ParserTypeOK
<1>2. ReportedWasSent
  BY <1>0, FramesAre, EndsWithIsSuffix, FrameNumbers DEF ParserInv, ReportedWasSent
<1>3. HuntingFindsNext
  BY FramesAre, FrameIsReported DEF HuntingFindsNext
<1> QED
  BY <1>1, <1>2, <1>3

LEMMA ParserPartNext == [ModulesNext]_modulesVars => [ParserNext]_parserVars
BY DEF ModulesNext, modulesVars, Only, Flash, Sd, Imu, Mag, Adc

---------------------------------------------------------------------------
(* The sentences of the GMM.  While the parser is inside a message, that   *)
(* started with the character whose time is kept; and of a sentence that   *)
(* came in one piece so far, the message is what was sent.                 *)
GmmChars == {Character(s, i) : s \in 1 .. MaxSentences, i \in 1 .. SentenceLength} \cup {Garbage}
NmeaStates == {"WAITING_SYNC_BYTE_START", "WAITING_SYNC_BYTE_END", "WAITING_NEWLINE"}
NmeaPast == {"WAITING_SYNC_BYTE_END", "WAITING_NEWLINE", "DONE"}

SentSoFar == [j \in 1 .. wire.i |-> Character(wire.s, j)]

GmmTyped ==
    /\ wire \in [s : 1 .. MaxSentences, i : 0 .. SentenceLength] /\ unbroken \in BOOLEAN
    /\ nmea \in [state : NmeaStates, message : Seq(GmmChars)]
    /\ Len(nmea.message) <= MaxSentenceLength + 1
    /\ gmm \in [startedAt : 0 .. MaxSentences, received : BOOLEAN, counts : 0 .. MaxSentences,
                stamp : 0 .. MaxSentences, status : {"OK", "WARNING", "ERROR"}]

StartIsKept ==
    nmea.state # "WAITING_SYNC_BYTE_START" =>
        nmea.message # <<>> /\ Head(nmea.message).s = gmm.startedAt

SentenceComesIn ==
    unbroken /\ wire.i \in 1 .. SentenceLength - 1 =>
        /\ nmea.message = SentSoFar
        /\ nmea.state = IF wire.i < SentenceLength - 2 THEN "WAITING_SYNC_BYTE_END" ELSE "WAITING_NEWLINE"

GmmInv == GmmTyped /\ StartIsKept /\ CountsHaveTheirTime /\ SentenceComesIn /\ WholeSentencesReported

LEMMA GmmNumbers ==
    /\ MaxSentences \in Nat /\ MaxSentences >= 1 /\ SentenceLength \in Nat /\ SentenceLength >= 4
    /\ MaxSentenceLength \in Nat /\ MaxSentenceLength >= SentenceLength - 2
BY GmmAssumption

LEMMA CharactersAre ==
    ASSUME NEW ch \in GmmChars
    PROVE  /\ ch.s \in 0 .. MaxSentences
           /\ ch.ch \in {"$", "text", "*", "newline", "unprintable"}
           /\ ch.ch = "$" => ch.s \in 1 .. MaxSentences
BY GmmNumbers DEF GmmChars, Character, CharAt, Garbage

(* One character: the message stays within its limit, and keeps its first  *)
(* character unless a new one starts.                                      *)
LEMMA NmeaStep ==
    ASSUME NEW p \in [state : NmeaStates, message : Seq(GmmChars)], NEW ch \in GmmChars,
           Len(p.message) <= MaxSentenceLength + 1,
           p.state # "WAITING_SYNC_BYTE_START" => p.message # <<>>
    PROVE  LET q == NmeaFed(p, ch) IN
           /\ q \in [state : NmeaStates \cup {"DONE", "ERROR"}, message : Seq(GmmChars)]
           /\ Len(q.message) <= MaxSentenceLength + 1
           /\ q.state \in NmeaPast =>
                /\ q.message # <<>>
                /\ ch.ch = "$" => Head(q.message) = ch
                /\ ch.ch # "$" => p.state # "WAITING_SYNC_BYTE_START" /\ Head(q.message) = Head(p.message)
           /\ q.state = "DONE" => ch.ch = "newline"
<1> DEFINE q == NmeaFed(p, ch)
<1>0. /\ p.state \in NmeaStates /\ p.message \in Seq(GmmChars) /\ Len(p.message) \in Nat
      /\ MaxSentenceLength \in Nat
  BY GmmNumbers
<1>1. ASSUME NEW m \in Seq(GmmChars), Len(m) <= MaxSentenceLength + 1, NEW st \in {"WAITING_SYNC_BYTE_END", "WAITING_NEWLINE"}
      PROVE  /\ NmeaStored(st, m, ch) \in [state : NmeaStates, message : Seq(GmmChars)]
             /\ Len(NmeaStored(st, m, ch).message) <= MaxSentenceLength + 1
             /\ NmeaStored(st, m, ch).state # "WAITING_SYNC_BYTE_START" =>
                  /\ NmeaStored(st, m, ch).message = Append(m, ch)
                  /\ NmeaStored(st, m, ch).message # <<>>
                  /\ m = <<>> => Head(NmeaStored(st, m, ch).message) = ch
                  /\ m # <<>> => Head(NmeaStored(st, m, ch).message) = Head(m)
             /\ NmeaStored(st, m, ch).state \in NmeaStates
  <2>0. Append(m, ch) \in Seq(GmmChars) /\ Len(Append(m, ch)) = Len(m) + 1 /\ Len(m) \in Nat
    OBVIOUS
  <2>1. Append(m, ch) # <<>> /\ (m = <<>> => Head(Append(m, ch)) = ch) /\ (m # <<>> => Head(Append(m, ch)) = Head(m))
    <3>1. /\ \A j \in 1 .. Len(m) : Append(m, ch)[j] = m[j]
          /\ Append(m, ch)[Len(m) + 1] = ch
      BY AppendProperties
    <3>2. Append(m, ch) # <<>> /\ Head(Append(m, ch)) = Append(m, ch)[1]
      BY <2>0
    <3>3. CASE m = <<>>
      BY <3>1, <3>2, <3>3
    <3>4. CASE m # <<>>
      <4>1. Len(m) >= 1 /\ Head(m) = m[1]
        BY <2>0, <3>4
      <4> QED
        BY <2>0, <3>1, <3>2, <3>4, <4>1
    <3> QED
      BY <3>2, <3>3, <3>4
  <2>2. CASE Len(m) <= MaxSentenceLength
    <3>1. NmeaStored(st, m, ch) = [state |-> st, message |-> Append(m, ch)]
      BY <2>2 DEF NmeaStored, Stores
    <3> QED
      BY <1>0, <2>0, <2>1, <2>2, <3>1 DEF NmeaStates
  <2>3. CASE ~(Len(m) <= MaxSentenceLength)
    <3>1. NmeaStored(st, m, ch) = [state |-> "WAITING_SYNC_BYTE_START", message |-> m]
      BY <2>3 DEF NmeaStored, Stores
    <3> QED
      BY <1>1, <3>1 DEF NmeaStates
  <2> QED
    BY <2>2, <2>3
<1>2. CASE ch.ch = "unprintable"
  <2>1. q = [state |-> "ERROR", message |-> p.message]
    BY <1>2 DEF NmeaFed
  <2> QED
    BY <1>0, <2>1 DEF NmeaPast
<1>3. CASE ch.ch = "$"
  <2>1. q = NmeaStored("WAITING_SYNC_BYTE_END", <<>>, ch)
    BY <1>3 DEF NmeaFed
  <2>2. <<>> \in Seq(GmmChars) /\ Len(<<>>) <= MaxSentenceLength + 1
    BY <1>0
  <2> HIDE DEF q
  <2>3. /\ q \in [state : NmeaStates, message : Seq(GmmChars)]
        /\ Len(q.message) <= MaxSentenceLength + 1
        /\ q.state # "WAITING_SYNC_BYTE_START" => q.message # <<>> /\ Head(q.message) = ch
    BY <1>1, <2>1, <2>2
  <2> QED
    BY <1>3, <2>3 DEF NmeaPast, NmeaStates, q
<1>4. CASE ch.ch \notin {"unprintable", "$"} /\ p.state = "WAITING_SYNC_BYTE_START"
  <2>1. q = [p EXCEPT !.state = "WAITING_SYNC_BYTE_START"]
    BY <1>4 DEF NmeaFed
  <2> QED
    BY <1>0, <2>1 DEF NmeaPast, NmeaStates
<1>5. CASE ch.ch = "newline" /\ p.state = "WAITING_NEWLINE"
  <2>1. q = [p EXCEPT !.state = "DONE"]
    BY <1>5 DEF NmeaFed
  <2> QED
    BY <1>0, <1>5, <2>1 DEF NmeaPast, NmeaStates
<1>6. CASE ch.ch \notin {"unprintable", "$"} /\ p.state # "WAITING_SYNC_BYTE_START" /\ ~(ch.ch = "newline" /\ p.state = "WAITING_NEWLINE")
  <2>1. \E st \in {"WAITING_SYNC_BYTE_END", "WAITING_NEWLINE"} : q = NmeaStored(st, p.message, ch)
    BY <1>0, <1>6 DEF NmeaFed, NmeaStates
  <2> HIDE DEF q
  <2>2. /\ q \in [state : NmeaStates, message : Seq(GmmChars)]
        /\ Len(q.message) <= MaxSentenceLength + 1
        /\ q.state # "WAITING_SYNC_BYTE_START" => q.message # <<>> /\ Head(q.message) = Head(p.message)
    BY <1>0, <1>1, <1>6, <2>1
  <2> QED
    BY <1>6, <2>2 DEF NmeaPast, NmeaStates, q
<1> QED
  BY <1>2, <1>3, <1>4, <1>5, <1>6

(* What the task makes of a character, whatever sentence it is of. *)
LEMMA GmmFedInv ==
    ASSUME GmmTyped, StartIsKept, CountsHaveTheirTime, NEW ch \in GmmChars, GmmFed(ch)
    PROVE  /\ nmea' \in [state : NmeaStates, message : Seq(GmmChars)]
           /\ Len(nmea'.message) <= MaxSentenceLength + 1
           /\ gmm' \in [startedAt : 0 .. MaxSentences, received : BOOLEAN, counts : 0 .. MaxSentences,
                        stamp : 0 .. MaxSentences, status : {"OK", "WARNING", "ERROR"}]
           /\ StartIsKept' /\ CountsHaveTheirTime'
<1> DEFINE p == NmeaFed(nmea, ch)
           startedAt == IF ch.ch = "$" THEN ch.s ELSE gmm.startedAt
           whole == p.state = "DONE" /\ NmeaChecks(p.message)
<1>0. /\ nmea \in [state : NmeaStates, message : Seq(GmmChars)] /\ Len(nmea.message) <= MaxSentenceLength + 1
      /\ gmm \in [startedAt : 0 .. MaxSentences, received : BOOLEAN, counts : 0 .. MaxSentences,
                  stamp : 0 .. MaxSentences, status : {"OK", "WARNING", "ERROR"}]
  BY DEF GmmTyped
<1>1. /\ p \in [state : NmeaStates \cup {"DONE", "ERROR"}, message : Seq(GmmChars)]
      /\ Len(p.message) <= MaxSentenceLength + 1
      /\ p.state \in NmeaPast =>
           /\ p.message # <<>>
           /\ ch.ch = "$" => Head(p.message) = ch
           /\ ch.ch # "$" => nmea.state # "WAITING_SYNC_BYTE_START" /\ Head(p.message) = Head(nmea.message)
      /\ p.state = "DONE" => ch.ch = "newline"
  BY <1>0, NmeaStep DEF StartIsKept
<1>2. startedAt \in 0 .. MaxSentences
  BY <1>0, CharactersAre
<1>3. p.state \in NmeaPast => p.message # <<>> /\ Head(p.message).s = startedAt
  BY <1>1 DEF StartIsKept
<1>4. nmea' = NmeaReset(p)
  BY DEF GmmFed
<1>5. gmm' = IF whole THEN [startedAt |-> startedAt, received |-> TRUE, counts |-> Head(p.message).s,
                            stamp |-> startedAt, status |-> "OK"]
             ELSE [gmm EXCEPT !.startedAt = startedAt]
  BY DEF GmmFed
<1> HIDE DEF p, startedAt
<1>6. /\ nmea' \in [state : NmeaStates, message : Seq(GmmChars)] /\ nmea'.message = p.message
      /\ nmea'.state # "WAITING_SYNC_BYTE_START" => nmea'.state = p.state /\ p.state \in NmeaPast
  BY <1>1, <1>4 DEF NmeaReset, NmeaStates, NmeaPast
<1>7. whole => Head(p.message).s = startedAt
  BY <1>3 DEF NmeaPast
<1>8. /\ gmm' \in [startedAt : 0 .. MaxSentences, received : BOOLEAN, counts : 0 .. MaxSentences,
                   stamp : 0 .. MaxSentences, status : {"OK", "WARNING", "ERROR"}]
      /\ gmm'.startedAt = startedAt
  BY <1>0, <1>2, <1>5, <1>7
<1>9. CountsHaveTheirTime'
  BY <1>0, <1>5, <1>7 DEF CountsHaveTheirTime
<1>10. StartIsKept'
  BY <1>3, <1>6, <1>8 DEF StartIsKept
<1> QED
  BY <1>1, <1>6, <1>8, <1>9, <1>10

(* The next character of a sentence that came in one piece so far. *)
LEMMA SentenceGoesOn ==
    ASSUME GmmInv, CharacterArrives, unbroken'
    PROVE  SentenceComesIn' /\ WholeSentencesReported'
<1> DEFINE i == wire'.i
           s == wire'.s
           ch == Character(s, i)
           sent == [j \in 1 .. i - 1 |-> Character(s, j)]
           p == NmeaFed(nmea, ch)
<1>0. /\ wire \in [s : 1 .. MaxSentences, i : 0 .. SentenceLength] /\ unbroken \in BOOLEAN
      /\ nmea \in [state : NmeaStates, message : Seq(GmmChars)]
      /\ SentenceComesIn
  BY DEF GmmInv, GmmTyped
<1>1. /\ s \in 1 .. MaxSentences /\ i \in 1 .. SentenceLength
      /\ i # 1 => unbroken /\ wire.i = i - 1 /\ wire.s = s
  BY <1>0, GmmNumbers, SMTT(30) DEF CharacterArrives, NextOnWire
<1>2. /\ nmea' = NmeaReset(p)
      /\ gmm' = IF p.state = "DONE" /\ NmeaChecks(p.message)
                THEN [startedAt |-> IF ch.ch = "$" THEN ch.s ELSE gmm.startedAt, received |-> TRUE,
                      counts |-> Head(p.message).s, stamp |-> IF ch.ch = "$" THEN ch.s ELSE gmm.startedAt,
                      status |-> "OK"]
                ELSE [gmm EXCEPT !.startedAt = IF ch.ch = "$" THEN ch.s ELSE gmm.startedAt]
  BY DEF CharacterArrives, GmmFed
<1>3. i # 1 => /\ nmea.message = sent
               /\ nmea.state = IF i - 1 < SentenceLength - 2 THEN "WAITING_SYNC_BYTE_END" ELSE "WAITING_NEWLINE"
  BY <1>0, <1>1, GmmNumbers DEF SentenceComesIn, SentSoFar
<1>4. ch.ch = CharAt(i) /\ ch.s = s
  BY DEF Character
<1>5. /\ sent \in Seq(GmmChars) /\ Len(sent) = i - 1
      /\ Append(sent, ch) = [j \in 1 .. i |-> Character(s, j)]
  <2>1. \A j \in 1 .. i : Character(s, j) \in GmmChars
    BY <1>1, GmmNumbers DEF GmmChars
  <2>2. sent \in Seq(GmmChars) /\ Len(sent) = i - 1
    BY <1>1, <2>1, GmmNumbers
  <2>3. Append(sent, ch) = [j \in 1 .. i |-> IF j = i THEN ch ELSE sent[j]]
    BY <1>1, <2>2, GmmNumbers
  <2> QED
    BY <1>1, <2>2, <2>3, GmmNumbers
<1> HIDE DEF ch, p
<1>6. CASE i < SentenceLength
  <2>1. p = [state |-> IF i < SentenceLength - 2 THEN "WAITING_SYNC_BYTE_END" ELSE "WAITING_NEWLINE",
             message |-> Append(sent, ch)]
    <3>1. CASE i = 1
      <4>1. ch.ch = "$"
        BY <1>1, <1>4, <3>1, GmmNumbers DEF CharAt
      <4>2. p = NmeaStored("WAITING_SYNC_BYTE_END", <<>>, ch)
        BY <4>1 DEF p, NmeaFed
      <4>3. sent = <<>>
        <5>1. sent \in Seq(GmmChars) /\ Len(sent) = 0
          BY <1>5, <3>1
        <5> HIDE DEF sent
        <5> QED
          BY <5>1, EmptySeq
      <4>4. Len(<<>>) <= MaxSentenceLength /\ i < SentenceLength - 2
        BY <3>1, GmmNumbers
      <4> HIDE DEF sent
      <4> QED
        BY <4>2, <4>3, <4>4 DEF NmeaStored, Stores
    <3>2. CASE i # 1
      <4>1. ch.ch = IF i = SentenceLength - 2 THEN "*" ELSE "text"
        BY <1>1, <1>4, <1>6, <3>2, GmmNumbers DEF CharAt
      <4>2. Stores(sent)
        BY <1>1, <1>5, <1>6, GmmNumbers DEF Stores
      <4>3. CASE i < SentenceLength - 2
        <5>1. nmea.state = "WAITING_SYNC_BYTE_END" /\ nmea.message = sent /\ ch.ch = "text"
          BY <1>1, <1>3, <3>2, <4>1, <4>3, GmmNumbers
        <5> QED
          BY <4>2, <4>3, <5>1 DEF p, NmeaFed, NmeaStored
      <4>4. CASE i = SentenceLength - 2
        <5>1. nmea.state = "WAITING_SYNC_BYTE_END" /\ nmea.message = sent /\ ch.ch = "*"
          BY <1>1, <1>3, <3>2, <4>1, <4>4, GmmNumbers
        <5>2. ~(i < SentenceLength - 2)
          BY <1>1, <4>4, GmmNumbers
        <5> QED
          BY <4>2, <5>1, <5>2 DEF p, NmeaFed, NmeaStored
      <4>5. CASE i = SentenceLength - 1
        <5>1. nmea.state = "WAITING_NEWLINE" /\ nmea.message = sent /\ ch.ch = "text"
          BY <1>1, <1>3, <3>2, <4>1, <4>5, GmmNumbers
        <5>2. ~(i < SentenceLength - 2)
          BY <1>1, <4>5, GmmNumbers
        <5> QED
          BY <4>2, <5>1, <5>2 DEF p, NmeaFed, NmeaStored
      <4>6. i < SentenceLength - 2 \/ i = SentenceLength - 2 \/ i = SentenceLength - 1
        BY <1>1, <1>6, GmmNumbers
      <4> QED
        BY <4>3, <4>4, <4>5, <4>6
    <3> QED
      BY <3>1, <3>2
  <2>2. nmea' = p
    BY <1>2, <2>1 DEF NmeaReset
  <2>3. SentenceComesIn'
    BY <1>5, <2>1, <2>2 DEF SentenceComesIn, SentSoFar
  <2>4. WholeSentencesReported'
    BY <1>1, <1>6, GmmNumbers DEF WholeSentencesReported
  <2> QED
    BY <2>3, <2>4
<1>7. CASE i = SentenceLength
  <2>1. ch.ch = "newline"
    BY <1>4, <1>7, GmmNumbers DEF CharAt
  <2>2. nmea.state = "WAITING_NEWLINE" /\ nmea.message = sent
    BY <1>1, <1>3, <1>7, GmmNumbers
  <2>3. p = [nmea EXCEPT !.state = "DONE"]
    BY <2>1, <2>2 DEF p, NmeaFed
  <2>4. p.state = "DONE" /\ p.message = sent
    BY <1>0, <2>2, <2>3
  <2>5. NmeaChecks(sent)
    BY <1>1, <1>7 DEF NmeaChecks
  <2>6. Head(sent).s = s
    <3>1. Head(sent) = Character(s, 1)
      BY <1>5, <1>7, GmmNumbers
    <3> QED
      BY <3>1 DEF Character
  <2>7. gmm'.counts = s
    BY <1>2, <2>4, <2>5, <2>6
  <2>8. SentenceComesIn'
    BY <1>7, GmmNumbers DEF SentenceComesIn
  <2> QED
    BY <2>7, <2>8 DEF WholeSentencesReported
<1> QED
  BY <1>1, <1>6, <1>7, GmmNumbers

LEMMA GmmInvNext == GmmInv /\ [GmmNext]_gmmVars => GmmInv'
<1> SUFFICES ASSUME GmmInv, [GmmNext]_gmmVars PROVE GmmInv'
  OBVIOUS
<1>0. GmmTyped /\ StartIsKept /\ CountsHaveTheirTime /\ SentenceComesIn /\ WholeSentencesReported
  BY DEF GmmInv
<1>1. ASSUME NextOnWire.s <= MaxSentences, wire' = NextOnWire
      PROVE  wire' \in [s : 1 .. MaxSentences, i : 0 .. SentenceLength] /\ wire'.i \in 1 .. SentenceLength
  <2>1. CASE wire.i = SentenceLength
    <3>1. wire' = [s |-> wire.s + 1, i |-> 1]
      BY <1>1, <2>1 DEF NextOnWire
    <3>2. wire.s \in 1 .. MaxSentences /\ wire.s + 1 <= MaxSentences
      BY <1>0, <1>1, <2>1 DEF GmmTyped, NextOnWire
    <3> QED
      BY <3>1, <3>2, GmmNumbers
  <2>2. CASE wire.i # SentenceLength
    <3>1. wire' = [wire EXCEPT !.i = @ + 1]
      BY <1>1, <2>2 DEF NextOnWire
    <3>2. wire \in [s : 1 .. MaxSentences, i : 0 .. SentenceLength]
      BY <1>0 DEF GmmTyped
    <3>3. wire.i + 1 \in 1 .. SentenceLength
      BY <2>2, <3>2, GmmNumbers
    <3> QED
      BY <3>1, <3>2, <3>3
  <2> QED
    BY <2>1, <2>2
<1>2. CASE CharacterArrives
  <2>1. wire' \in [s : 1 .. MaxSentences, i : 0 .. SentenceLength] /\ unbroken' \in BOOLEAN
    BY <1>0, <1>1, <1>2 DEF CharacterArrives, GmmTyped
  <2>2. Character(wire'.s, wire'.i) \in GmmChars
    BY <1>1, <1>2 DEF CharacterArrives, GmmChars
  <2>3. GmmTyped' /\ StartIsKept' /\ CountsHaveTheirTime'
    BY <1>0, <1>2, <2>1, <2>2, GmmFedInv DEF CharacterArrives, GmmTyped
  <2>4. SentenceComesIn' /\ WholeSentencesReported'
    BY <1>2, SentenceGoesOn DEF SentenceComesIn, WholeSentencesReported
  <2> QED
    BY <2>3, <2>4 DEF GmmInv
<1>3. CASE CharacterLost
  <2>1. wire' \in [s : 1 .. MaxSentences, i : 0 .. SentenceLength] /\ ~unbroken'
    BY <1>1, <1>3 DEF CharacterLost
  <2> QED
    BY <1>0, <1>3, <2>1 DEF CharacterLost, GmmInv, GmmTyped, StartIsKept, CountsHaveTheirTime, SentenceComesIn,
       WholeSentencesReported
<1>4. CASE CharacterGarbled
  <2>1. wire' \in [s : 1 .. MaxSentences, i : 0 .. SentenceLength] /\ ~unbroken'
    BY <1>1, <1>4 DEF CharacterGarbled
  <2>2. GmmTyped' /\ StartIsKept' /\ CountsHaveTheirTime'
    <3>1. Garbage \in GmmChars
      BY DEF GmmChars
    <3> QED
      BY <1>0, <1>4, <2>1, <3>1, GmmFedInv DEF CharacterGarbled, GmmTyped
  <2> QED
    BY <2>1, <2>2 DEF GmmInv, SentenceComesIn, WholeSentencesReported
<1>5. CASE GmmWaits
  <2>1. /\ gmm' \in [startedAt : 0 .. MaxSentences, received : BOOLEAN, counts : 0 .. MaxSentences,
                     stamp : 0 .. MaxSentences, status : {"OK", "WARNING", "ERROR"}]
        /\ gmm'.startedAt = gmm.startedAt /\ gmm'.counts = gmm.counts /\ gmm'.stamp = gmm.stamp
    BY <1>0, <1>5 DEF GmmWaits, GmmTyped
  <2> QED
    BY <1>0, <1>5, <2>1 DEF GmmWaits, GmmInv, GmmTyped, StartIsKept, CountsHaveTheirTime, SentenceComesIn,
       SentSoFar, WholeSentencesReported
<1>6. CASE UNCHANGED gmmVars
  BY <1>0, <1>6 DEF gmmVars, GmmInv, GmmTyped, StartIsKept, CountsHaveTheirTime, SentenceComesIn,
     SentSoFar, WholeSentencesReported
<1> QED
  BY <1>2, <1>3, <1>4, <1>5, <1>6 DEF GmmNext

LEMMA GmmInvInit == GmmInit => GmmInv
<1> SUFFICES ASSUME GmmInit PROVE GmmInv
  OBVIOUS
<1>1. GmmTyped
  BY GmmNumbers DEF GmmInit, GmmTyped, NmeaStates
<1> QED
  BY <1>1, GmmNumbers DEF GmmInit, GmmInv, StartIsKept, CountsHaveTheirTime, SentenceComesIn, WholeSentencesReported

LEMMA GmmInvImplies == GmmInv => GmmTypeOK /\ CountsHaveTheirTime /\ WholeSentencesReported
BY DEF GmmInv, GmmTyped, GmmTypeOK, NmeaStates

LEMMA GmmPartNext == [ModulesNext]_modulesVars => [GmmNext]_gmmVars
BY DEF ModulesNext, modulesVars, Only, Flash, Sd, Imu, Mag, Adc

(* For any number of values of a byte, any lengths and whatever bytes come:*)
(* a frame that is reported is, byte for byte, the one that was received   *)
(* last, and a parser that hunts for a frame reports the next one with its *)
(* last byte and nothing before.  The counts of the GMM come with the time *)
(* of their own sentence, and one that came in one piece is reported.      *)
THEOREM StreamsCorrect == ModulesSpec => []StreamsParsed
<1> DEFINE Inv == ParserInv /\ GmmInv
<1>1. ModulesInit => Inv
  BY ParserInvInit, GmmInvInit DEF ModulesInit
<1>2. Inv /\ [ModulesNext]_modulesVars => Inv'
  BY ParserInvNext, ParserPartNext, GmmInvNext, GmmPartNext
<1>3. Inv => StreamsParsed
  BY ParserInvImplies, GmmInvImplies DEF StreamsParsed
<1> QED
  BY <1>1, <1>2, <1>3, PTL DEF ModulesSpec
=============================================================================
