----------------------------- MODULE SensorChips ----------------------------
(***************************************************************************)
(* The tasks that run a sensor over SPI, and the registers of their chips. *)
(* The IMU is configured register by register, on a chip whose registers   *)
(* may be spread over banks, and set up again when it failed.  The magne-  *)
(* tometer is configured by changing fields of words, and given up when it *)
(* failed.  The ADC is set up again after many failures, and reports the   *)
(* values of one scan.  A transfer may fail, before or after the chip has  *)
(* seen it, or garble what is read back.                                   *)
(***************************************************************************)
EXTENDS Naturals, Sequences, FiniteSetsExt

CONSTANTS
    ImuConfigs,     \* config[] of each chip: for each entry its bank; one without banks has bank 0 only
    MagFields,      \* configure(): the fields that are set in order, each with its word
    Channels,       \* NUM_CHANNELS
    MagTries,       \* bound: tries of an update of the magnetometer, 20
    AdcTries,       \* bound: failures before the ADC is set up again, 30
    MaxSpiFaults,   \* bound: transfers that fail
    MaxScans        \* bound: scans of the ADC

ASSUME SensorAssumption ==
    /\ ImuConfigs \subseteq Seq(0 .. 3) \ {<<>>}   \* USER_BANK has two bits
    /\ MagFields \in Seq([word : Nat])
    /\ {MagTries, AdcTries, MaxSpiFaults, MaxScans, Channels} \subseteq Nat \ {0}

VARIABLES
    fitted,       \* the config[] of the chip on the board
    imu,          \* the IMU task: where it is, the entry, the bank its driver believes in
    imuChip,      \* the selected bank and the entries that the registers hold
    magTask,      \* the magnetometer task: where it is, the field, tries that failed
    magChip,      \* the fields that are set, and whether it measures
    adcTask,      \* the ADC task: where it is, tries that failed, the scan
    rawValues,    \* for each channel the scan it is from
    scaledValues,
    spiFaults

imuVars == <<imu, imuChip>>
magVars == <<magTask, magChip>>
adcVars == <<adcTask, rawValues, scaledValues>>
sensorVars == <<fitted, imuVars, magVars, adcVars, spiFaults>>

NoBank == 255

ImuInit ==
    /\ imu = [at |-> "who", entry |-> 1, bank |-> NoBank]
    /\ imuChip = [bank |-> 0, holds |-> {}]
MagInit ==
    /\ magTask = [at |-> "exit", field |-> 1, failed |-> 0]
    /\ magChip = [set |-> {}, measures |-> FALSE]
AdcInit ==
    /\ adcTask = [at |-> "reset", failed |-> 0, scan |-> 0]
    /\ rawValues = [c \in 1 .. Channels |-> 0] /\ scaledValues = [c \in 1 .. Channels |-> 0]

SensorInit == fitted \in ImuConfigs /\ ImuInit /\ MagInit /\ AdcInit /\ spiFaults = 0

SpiFault == spiFaults < MaxSpiFaults /\ spiFaults' = spiFaults + 1
NoSpiFault == UNCHANGED spiFaults

---------------------------------------------------------------------------
(* setup() reads WHO_AM_I, which is a register of bank 0. *)
ImuIdentify ==
    /\ imu.at = "who"
    /\ imu' = IF imuChip.bank = 0 THEN [at |-> "configure", entry |-> 1, bank |-> NoBank]
              ELSE [imu EXCEPT !.at = "waits"]
    /\ NoSpiFault
    /\ UNCHANGED imuChip

(* configure() of the chip with banks: each write is read back. *)
ImuSwitches(bank) ==
    /\ imuChip' = [imuChip EXCEPT !.bank = bank]
    /\ imu' = [imu EXCEPT !.bank = bank]

ImuSelectBank ==
    /\ imu.at = "configure" /\ imu.entry <= Len(fitted)
    /\ fitted[imu.entry] # imu.bank
    /\ ImuSwitches(fitted[imu.entry])
    /\ NoSpiFault

(* The chip writes to the register of the bank that is selected. *)
HeldAfterWrite == IF imuChip.bank = fitted[imu.entry] THEN {imu.entry} ELSE {}

ImuWriteRegister ==
    /\ imu.at = "configure" /\ imu.entry <= Len(fitted)
    /\ fitted[imu.entry] = imu.bank
    /\ imuChip' = [imuChip EXCEPT !.holds = @ \cup HeldAfterWrite]
    /\ imu' = [imu EXCEPT !.entry = @ + 1]
    /\ NoSpiFault

ImuConfigured ==
    /\ imu.at = "configure" /\ imu.entry > Len(fitted)
    /\ IF imu.bank # 0 THEN imuChip' = [imuChip EXCEPT !.bank = 0] ELSE UNCHANGED imuChip
    /\ imu' = [imu EXCEPT !.at = "runs", !.bank = 0]
    /\ NoSpiFault

ImuUpdate == imu.at = "runs" /\ NoSpiFault /\ UNCHANGED imuVars

(* A transfer fails: what it writes is written, or not. *)
ImuWritten ==
    CASE imu.at = "configure" /\ imu.entry > Len(fitted) -> [imuChip EXCEPT !.bank = 0]
      [] imu.at = "configure" /\ imu.entry <= Len(fitted) ->
             IF fitted[imu.entry] # imu.bank THEN [imuChip EXCEPT !.bank = fitted[imu.entry]]
             ELSE [imuChip EXCEPT !.holds = @ \cup HeldAfterWrite]
      [] OTHER -> imuChip

ImuAfterFault == [imu EXCEPT !.at = "waits"]

ImuFault ==
    /\ imu.at \in {"who", "configure", "runs"}
    /\ SpiFault
    /\ imuChip' \in {imuChip, ImuWritten}
    /\ imu' = ImuAfterFault

(* imuTask(): a second later it tries again. *)
ImuRetry ==
    /\ imu.at = "waits"
    /\ imu' = [imu EXCEPT !.at = "who"]
    /\ NoSpiFault
    /\ UNCHANGED imuChip

ImuStep == ImuIdentify \/ ImuSelectBank \/ ImuWriteRegister \/ ImuConfigured \/ ImuUpdate \/ ImuRetry

---------------------------------------------------------------------------
(* configure() of the magnetometer: its mode is left, and it is reset. *)
MagExit ==
    /\ magTask.at = "exit"
    /\ magChip' = [set |-> {}, measures |-> FALSE]
    /\ magTask' = [magTask EXCEPT !.at = "update", !.field = 1]
    /\ NoSpiFault

(* updateRegister(): the word is read, the field is changed, the word is   *)
(* written and read back.                                                  *)
WordOf(f) == MagFields[f].word
FieldsOfWord(w) == {f \in DOMAIN MagFields : WordOf(f) = w}

(* Mutant: the field overwrites the word it is in. *)
MergedUnmasked(word, f) == {f}
Merged(word, f) == word \cup {f}

MagWrites(f) ==
    [magChip EXCEPT !.set = (@ \ FieldsOfWord(WordOf(f))) \cup Merged(@ \cap FieldsOfWord(WordOf(f)), f)]

MagUpdateRegister ==
    /\ magTask.at = "update" /\ magTask.field <= Len(MagFields)
    /\ magChip' = MagWrites(magTask.field)
    /\ magTask' = [magTask EXCEPT !.field = @ + 1]
    /\ NoSpiFault

MagStartBurst ==
    /\ magTask.at = "update" /\ magTask.field > Len(MagFields)
    /\ magChip' = [magChip EXCEPT !.measures = TRUE]
    /\ magTask' = [magTask EXCEPT !.at = "runs"]
    /\ NoSpiFault

MagRead ==
    /\ magTask.at = "runs"
    /\ magTask' = [magTask EXCEPT !.failed = 0]
    /\ NoSpiFault
    /\ UNCHANGED magChip

(* A measurement that fails is tried again; magTask() sleeps for ever when *)
(* the setup failed, or the last try of an update.                         *)
MagFault ==
    /\ magTask.at \in {"exit", "update", "runs"}
    /\ SpiFault
    /\ magChip' \in {magChip} \cup (IF magTask.at = "update" /\ magTask.field <= Len(MagFields)
                                    THEN {MagWrites(magTask.field)} ELSE {})
    /\ magTask' = IF magTask.at = "runs" /\ magTask.failed + 1 < MagTries
                  THEN [magTask EXCEPT !.failed = @ + 1]
                  ELSE [magTask EXCEPT !.at = "sleeps"]

MagStep == MagExit \/ MagUpdateRegister \/ MagStartBurst \/ MagRead

---------------------------------------------------------------------------
(* The ADC: three transfers set it up, three make a scan, and the end of   *)
(* the conversion is waited for.                                           *)
AdcSetupStages == <<"reset", "setup", "averaging", "clear", "convert", "ready", "read">>
AdcAfter(at) == AdcSetupStages[CHOOSE i \in 2 .. 7 : AdcSetupStages[i - 1] = at]

AdcTransfer ==
    /\ adcTask.at \in {"reset", "setup", "averaging", "clear", "convert", "ready"}
    /\ adcTask.at # "clear" \/ adcTask.scan < MaxScans
    /\ adcTask' = [adcTask EXCEPT !.at = AdcAfter(@), !.scan = IF adcTask.at = "convert" THEN @ + 1 ELSE @]
    /\ NoSpiFault
    /\ UNCHANGED <<rawValues, scaledValues>>

AdcReads ==
    /\ adcTask.at = "read"
    /\ rawValues' = [c \in 1 .. Channels |-> adcTask.scan]
    /\ adcTask' = [adcTask EXCEPT !.at = "scale"]
    /\ NoSpiFault
    /\ UNCHANGED scaledValues

(* A transfer fails, the conversion does not end, or a bit that should be  *)
(* zero is not, in a channel after which nothing is stored.  Only a scan   *)
(* that was read as a whole is scaled.                                     *)
AdcScales ==
    /\ adcTask.at = "scale"
    /\ scaledValues' = rawValues
    /\ adcTask' = [adcTask EXCEPT !.at = "clear", !.failed = 0]
    /\ NoSpiFault
    /\ UNCHANGED rawValues

AdcStored(before) ==
    /\ rawValues' = [c \in 1 .. Channels |-> IF c <= before THEN adcTask.scan ELSE rawValues[c]]
    /\ UNCHANGED scaledValues

AdcSetUpAgain == adcTask.at \in {"reset", "setup", "averaging"} \/ adcTask.failed + 1 = AdcTries

AdcFault ==
    /\ adcTask.at # "scale"
    /\ SpiFault
    /\ \E before \in IF adcTask.at = "read" THEN 0 .. Channels - 1 ELSE {0} : AdcStored(before)
    /\ adcTask' = IF AdcSetUpAgain THEN [adcTask EXCEPT !.at = "reset", !.failed = 0]
                  ELSE [adcTask EXCEPT !.at = "clear", !.failed = @ + 1]

AdcStep == AdcTransfer \/ AdcReads \/ AdcScales

---------------------------------------------------------------------------
SensorNext ==
    \/ (ImuStep \/ ImuFault) /\ UNCHANGED <<fitted, magVars, adcVars>>
    \/ (MagStep \/ MagFault) /\ UNCHANGED <<fitted, imuVars, adcVars>>
    \/ (AdcStep \/ AdcFault) /\ UNCHANGED <<fitted, imuVars, magVars>>

SensorSpec ==
    /\ SensorInit /\ [][SensorNext]_sensorVars
    /\ WF_sensorVars(ImuStep /\ UNCHANGED <<fitted, magVars, adcVars>>)
    /\ WF_sensorVars(AdcStep /\ UNCHANGED <<fitted, imuVars, magVars>>)

---------------------------------------------------------------------------
SensorTypeOK ==
    /\ imu.at \in {"who", "configure", "runs", "waits"} /\ imu.entry \in 1 .. Len(fitted) + 1
    /\ magTask.at \in {"exit", "update", "runs", "sleeps"} /\ magTask.failed \in 0 .. MagTries - 1
    /\ adcTask.at \in {AdcSetupStages[i] : i \in 1 .. 7} \cup {"scale"} /\ adcTask.failed \in 0 .. AdcTries - 1
    /\ spiFaults \in 0 .. MaxSpiFaults

(* A sensor whose task runs is configured in every register and field,     *)
(* whatever failed before.                                                 *)
RunningIsConfigured ==
    /\ imu.at = "runs" => imuChip = [bank |-> 0, holds |-> 1 .. Len(fitted)]
    /\ magTask.at = "runs" => magChip = [set |-> DOMAIN MagFields, measures |-> TRUE]

(* Values that are reported together were measured by one scan. *)
ScansAreWhole == \A c, d \in 1 .. Channels : scaledValues[c] = scaledValues[d]

(* An IMU that failed is set up again in the end, when its transfers work; *)
(* with no more faults than the bound, its task runs again and again.      *)
ImuIsRetried == []<>(imu.at = "runs")

(* This is so for the chip without banks. *)
OneBankIsRetried == (\A i \in DOMAIN fitted : fitted[i] = 0) => ImuIsRetried
=============================================================================
