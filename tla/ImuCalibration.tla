--------------------------- MODULE ImuCalibration ---------------------------
(***************************************************************************)
(* The calibrations of the IMU, which the command task starts and the IMU  *)
(* task feeds.  A mean is how many samples it is of, and of which sides of *)
(* the device; a sample shows the side that the device lies on, or none.   *)
(* Whether a second has passed is left open.                               *)
(***************************************************************************)
EXTENDS Naturals

CONSTANTS
    MinSamples,     \* 50
    AllSides,       \* the sides of the device
    NoSide,         \* Side::NONE
    Racing          \* whether a calibration may start while a sample is being fed

ASSUME CalibrationAssumption == MinSamples \in Nat \ {0} /\ NoSide \notin AllSides /\ Racing \in BOOLEAN

VARIABLES
    gyro,          \* whether it runs, the samples of its mean, where the IMU task is
    gyroOffset,    \* how many samples the stored offset is the mean of
    accel,         \* state, mean, expectedSide, finishedSides
    extrema        \* for each side the mean it was stored from

calVars == <<gyro, gyroOffset, accel, extrema>>

NoMean == [n |-> 0, sides |-> {}]
Added(mean, side) == [n |-> IF mean.n < MinSamples THEN mean.n + 1 ELSE MinSamples, sides |-> mean.sides \cup {side}]

CalInit ==
    /\ gyro = [running |-> FALSE, samples |-> 0, at |-> "idle"]
    /\ gyroOffset = MinSamples
    /\ accel = [state |-> "NOT_RUNNING", mean |-> NoMean, expectedSide |-> NoSide, finishedSides |-> {}]
    /\ extrema = [s \in AllSides |-> NoMean]

---------------------------------------------------------------------------
(* The command task: startGyroCalibration(). *)
GyroStart ==
    /\ Racing \/ gyro.at = "idle"
    /\ gyro' = [gyro EXCEPT !.running = TRUE, !.samples = 0]
    /\ UNCHANGED <<gyroOffset, accel, extrema>>

(* The IMU task: update() with a sample while the calibration runs; the    *)
(* calibration ends, and its offset is stored.                             *)
Counted(n) == IF n < MinSamples THEN n + 1 ELSE MinSamples
Enough(n) == n >= MinSamples

GyroFeed(secondPassed) ==
    /\ gyro.at = "idle" /\ gyro.running
    /\ gyro' = [gyro EXCEPT !.samples = Counted(@),
                            !.at = IF Enough(Counted(gyro.samples)) /\ secondPassed THEN "ends" ELSE "idle"]
    /\ UNCHANGED <<gyroOffset, accel, extrema>>

GyroEnds ==
    /\ gyro.at = "ends"
    /\ gyro' = [gyro EXCEPT !.running = FALSE, !.at = "stores"]
    /\ UNCHANGED <<gyroOffset, accel, extrema>>

GyroStores ==
    /\ gyro.at = "stores"
    /\ gyroOffset' = gyro.samples
    /\ gyro' = [gyro EXCEPT !.at = "idle"]
    /\ UNCHANGED <<accel, extrema>>

---------------------------------------------------------------------------
(* setState() of the accelerometer's calibration *)
InState(state) ==
    IF accel.state = state THEN accel
    ELSE CASE state = "NOT_RUNNING" -> [accel EXCEPT !.state = state, !.mean = NoMean, !.finishedSides = {}]
           [] state \in {"STARTED", "WAITING_FOR_REST"} ->
                  [accel EXCEPT !.state = state, !.mean = NoMean, !.expectedSide = NoSide]
           [] state = "SAMPLING" -> [accel EXCEPT !.state = state, !.mean = NoMean]
           [] state = "FINISHED" -> [accel EXCEPT !.state = state, !.expectedSide = NoSide]

AccelStart ==
    /\ accel' = InState("STARTED")
    /\ UNCHANGED <<gyro, gyroOffset, extrema>>

AccelDropsFirst(side) ==
    /\ accel.state = "STARTED"
    /\ accel' = InState("WAITING_FOR_REST")
    /\ UNCHANGED extrema

(* WAITING_FOR_REST: the first side is expected to stay. *)
AccelWaits(side, secondPassed) ==
    /\ accel.state = "WAITING_FOR_REST"
    /\ LET mean == Added(accel.mean, side)
       IN  accel' = CASE accel.expectedSide = NoSide -> [accel EXCEPT !.expectedSide = side]
                      [] accel.expectedSide # NoSide /\ accel.expectedSide # side -> InState("STARTED")
                      [] OTHER -> IF Enough(mean.n) /\ secondPassed THEN InState("SAMPLING")
                                  ELSE [accel EXCEPT !.mean = mean]
    /\ UNCHANGED extrema

(* SAMPLING: enough samples of the expected side finish it. *)
AccelSamples(side, secondPassed) ==
    /\ accel.state = "SAMPLING"
    /\ LET mean == Added(accel.mean, side)
           finished == accel.finishedSides \cup {side}
       IN  CASE side # accel.expectedSide -> accel' = InState("STARTED") /\ UNCHANGED extrema
             [] side = accel.expectedSide /\ ~(Enough(mean.n) /\ secondPassed) ->
                    accel' = [accel EXCEPT !.mean = mean] /\ UNCHANGED extrema
             [] OTHER -> /\ extrema' = [extrema EXCEPT ![side] = mean]
                         /\ accel' = [InState(IF finished = AllSides THEN "FINISHED" ELSE "STARTED")
                                      EXCEPT !.finishedSides = finished]

AccelFeed(side, secondPassed) ==
    /\ AccelDropsFirst(side) \/ AccelWaits(side, secondPassed) \/ AccelSamples(side, secondPassed)
    /\ UNCHANGED <<gyro, gyroOffset>>

---------------------------------------------------------------------------
CalNext ==
    \/ GyroStart \/ GyroEnds \/ GyroStores \/ AccelStart
    \/ \E secondPassed \in BOOLEAN : GyroFeed(secondPassed)
    \/ \E secondPassed \in BOOLEAN, side \in AllSides \cup {NoSide} : AccelFeed(side, secondPassed)

CalSpec == CalInit /\ [][CalNext]_calVars

---------------------------------------------------------------------------
Means == [n : 0 .. MinSamples, sides : SUBSET (AllSides \cup {NoSide})]

CalTypeOK ==
    /\ gyro \in [running : BOOLEAN, samples : 0 .. MinSamples, at : {"idle", "ends", "stores"}]
    /\ gyroOffset \in 0 .. MinSamples
    /\ accel \in [state : {"NOT_RUNNING", "STARTED", "WAITING_FOR_REST", "SAMPLING", "FINISHED"}, mean : Means,
                  expectedSide : AllSides \cup {NoSide}, finishedSides : SUBSET AllSides]
    /\ extrema \in [AllSides -> Means]

(* The stored offset of the gyroscope is the mean of enough samples.  Only *)
(* if no calibration starts while another one is about to end.             *)
OffsetOfEnoughSamples == gyroOffset >= MinSamples

(* The extremum of a side that counts as finished is the mean of enough    *)
(* samples, all of which show this side and no other.                      *)
ExtremaOfTheirSide ==
    \A s \in AllSides : s \in accel.finishedSides => extrema[s] = [n |-> MinSamples, sides |-> {s}]
=============================================================================
