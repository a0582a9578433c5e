---------------------------- MODULE RxsmSignals ----------------------------
(***************************************************************************)
(* The signals of the REXUS service module as the pins task sees them:     *)
(* 50 times a second rxsm::update() feeds a sample of each signal to its   *)
(* majority-of-five voter and remembers when the vote last became true.    *)
(* Other tasks read the votes and time stamps between any two steps.       *)
(***************************************************************************)
EXTENDS Integers, Sequences, FiniteSets

CONSTANTS
    Order,         \* the signals, in the order in which update() handles them
    Window,        \* 3000: how long after boot a signal counts as "since boot"
    MaxSampleTime  \* bound: when time ends

Signals == {Order[i] : i \in DOMAIN Order}

ASSUME OrderAssumption == Order \in Seq({"LO", "SODS", "SOE"}) /\ {"LO", "SODS"} \subseteq Signals
ASSUME SignalBoundsAssumption == Window \in Nat /\ MaxSampleTime \in Nat

VARIABLES
    sampleTime,    \* getTimeSinceBootMsec(), in sample periods
    voterHistory,  \* MajorityVoter::history of each signal
    edgeAt,        \* last...SignalRisingEdgeTimestamp of each signal; 0 is never
    signalPlace,   \* how far update() has got in Order; 0 between two updates
    stamp,         \* whether the time stamp of Order[signalPlace] comes next
    samples        \* history: the last five samples of each signal, oldest first

rxsmVars == <<sampleTime, voterHistory, edgeAt, signalPlace, stamp, samples>>

(* MAJORITY_TABLE is 4276676736: its high half word, then its low one. *)
MajorityTable == <<65256, 59520>>

(* 1 << i, for the bits of half a word. *)
BitMask == <<1, 2, 4, 8, 16, 32, 64, 128, 256, 512, 1024, 2048, 4096, 8192, 16384, 32768>>

Bit(word, i) == (word \div BitMask[i + 1]) % 2

(* MajorityVoter::get() *)
Majority(h) ==
    IF h < 16 THEN Bit(MajorityTable[2], h) = 1 ELSE Bit(MajorityTable[1], h - 16) = 1

Vote(s) == Majority(voterHistory[s])

(* Mutant: the mask is one bit short. *)
ShiftFour(h, bit) == (2 * h + (IF bit THEN 1 ELSE 0)) % 16

(* MajorityVoter::feed() *)
Shift(h, bit) == (2 * h + (IF bit THEN 1 ELSE 0)) % 32

(* wasBootedAfterLiftoff() *)
BootedAfterLiftoff ==
    \A s \in {"LO", "SODS"} : edgeAt[s] > 0 /\ edgeAt[s] < Window

---------------------------------------------------------------------------
RxsmInit ==
    /\ sampleTime = 0
    /\ voterHistory = [s \in Signals |-> 0]
    /\ edgeAt = [s \in Signals |-> 0]
    /\ signalPlace = 0
    /\ stamp = FALSE
    /\ samples = [s \in Signals |-> [i \in 1..5 |-> FALSE]]

(* The next update: a sample period has passed. *)
NextUpdate ==
    /\ signalPlace = 0
    /\ sampleTime < MaxSampleTime
    /\ sampleTime' = sampleTime + 1
    /\ signalPlace' = 1
    /\ UNCHANGED <<voterHistory, edgeAt, stamp, samples>>

(* The last five samples once another one is in. *)
Slid(window, bit) == [i \in 1..5 |-> IF i = 5 THEN bit ELSE window[i + 1]]

Feed(bit) ==
    /\ signalPlace # 0 /\ ~stamp
    /\ LET s == Order[signalPlace] IN
         /\ voterHistory' = [voterHistory EXCEPT ![s] = Shift(@, bit)]
         /\ samples' = [samples EXCEPT ![s] = Slid(@, bit)]
         /\ stamp' = (Majority(Shift(voterHistory[s], bit)) /\ ~Vote(s))
    /\ signalPlace' = IF stamp' THEN signalPlace ELSE (signalPlace + 1) % (Len(Order) + 1)
    /\ UNCHANGED <<sampleTime, edgeAt>>

RisingEdge ==
    /\ signalPlace # 0 /\ stamp
    /\ edgeAt' = [edgeAt EXCEPT ![Order[signalPlace]] = sampleTime]
    /\ stamp' = FALSE
    /\ signalPlace' = (signalPlace + 1) % (Len(Order) + 1)
    /\ UNCHANGED <<sampleTime, voterHistory, samples>>

RxsmNext == NextUpdate \/ (\E bit \in BOOLEAN : Feed(bit)) \/ RisingEdge

RxsmSpec == RxsmInit /\ [][RxsmNext]_rxsmVars

---------------------------------------------------------------------------
(* Every variable has its type. *)
RxsmTypeOK ==
    /\ sampleTime \in 0..MaxSampleTime
    /\ voterHistory \in [Signals -> 0..31]
    /\ edgeAt \in [Signals -> 0..MaxSampleTime]
    /\ signalPlace \in 0..Len(Order)
    /\ stamp \in BOOLEAN
    /\ samples \in [Signals -> [1..5 -> BOOLEAN]]

(* The vote read from the magic number is what most of the last five       *)
(* samples say, at every moment of an update.                              *)
VoteIsMajority ==
    \A s \in Signals : Vote(s) = (Cardinality({i \in 1..5 : samples[s][i]}) >= 3)

(* The time stamp of a signal that is on is the time of the latest change  *)
(* of its vote to on: at least three of the five samples up to then were   *)
(* on, and the vote has not been off since.                                *)
EdgesMoveOnChange ==
    [][\A s \in Signals : edgeAt'[s] # edgeAt[s] =>
         /\ samples[s][5] /\ Vote(s)
         /\ Cardinality({i \in 1..4 : samples[s][i]}) = 2]_rxsmVars

(* A boot in flight is recognised early or never: once the window has      *)
(* passed, nothing the signals do makes the answer turn to yes, so that an *)
(* event that ran after liftoff was not one to be ignored.                 *)
RecognisedEarly ==
    [][sampleTime >= Window /\ BootedAfterLiftoff' => BootedAfterLiftoff]_rxsmVars
=============================================================================
