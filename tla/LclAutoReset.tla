---------------------------- MODULE LclAutoReset ----------------------------
(***************************************************************************)
(* The latching current limiters (LCLs).  Between liftoff and its end the  *)
(* mission task looks at each of them ten times a second and resets one    *)
(* that has triggered, up to MaxResetCount times; the cmd task resets the  *)
(* ones ground control asks for.  A reset holds the pin of the LCL active  *)
(* for the length of a pulse, in which the task sleeps.                    *)
(*                                                                         *)
(* A tick is 100 ms: the period of the mission task and the pulse.  A time *)
(* stamp of the code is the time that has passed since then, counted up to *)
(* the largest delay it is compared with; `now` of the code, read once per *)
(* update, is nowAge ticks ago.  A task whose delay is over runs before    *)
(* time goes on.                                                           *)
(***************************************************************************)
EXTENDS Integers, FiniteSets

CONSTANTS
    NumLcls,        \* NUM_LCLS
    DelayBefore,    \* DELAY_BEFORE_AUTO_RESET_MSEC
    DelayAfter,     \* DELAY_AFTER_AUTO_RESET_MSEC
    RecoveryPeriod, \* RECOVERY_PERIOD_MSEC
    MaxResetCount,  \* MAX_RESET_COUNT
    Masks,          \* the sets of LCLs ground control resets at once
    Broken,         \* LCLs that trigger again after each reset,
    TripTime,       \* at the latest so many ticks after an automatic one
    LiftoffEnds     \* whether LO may fall, and rise again

Lcls == 1..NumLcls

ASSUME NumLclsAssumption == NumLcls \in Nat \ {0}
ASSUME DelaysAssumption ==
    {DelayBefore, DelayAfter, RecoveryPeriod, MaxResetCount, TripTime} \subseteq Nat
ASSUME MasksAssumption == Masks \subseteq SUBSET Lcls /\ Broken \subseteq Lcls
ASSUME LiftoffEndsAssumption == LiftoffEnds \in BOOLEAN

(* Times are counted up to here, and "never" is the time stamp 0. *)
Long == DelayBefore + DelayAfter + RecoveryPeriod + NumLcls
Never == Long + 1

VARIABLES
    lo, bootedInFlight,      \* rxsm: the LO vote and wasBootedAfterLiftoff()
    triggered,       \* the query pin of each LCL
    active,          \* the reset pin of each LCL
    tracking,        \* whether lastLiftoffStartedAtMsec is set
    state, sinceTrigger, sinceReset, resetCounter,  \* autoReset
    lclPlace,           \* where the mission task is
    lcl,             \* i of updateAutoResetLogicAfterTakeoff()
    nowAge,          \* ticks since that function read `now`
    mask,            \* the LCLs the cmd task resets
    cmdPlace,        \* where the cmd task is
    timer,           \* ticks each task still sleeps
    autoResets       \* history: automatic resets of each LCL since liftoff

inputs == <<lo, bootedInFlight, triggered>>
logic == <<tracking, state, sinceTrigger, sinceReset, resetCounter, autoResets>>
mission == <<lclPlace, lcl, nowAge>>
command == <<mask, cmdPlace>>
lclVars == <<triggered, active, logic, mission, command, timer>>
lclSystemVars == <<lo, bootedInFlight, lclVars>>

---------------------------------------------------------------------------
(* resetMultiple(): the pulse begins, and ends.  An LCL that is reset      *)
(* supplies its load again.                                                *)

PulseBegins(t, lcls) ==
    /\ active' = [l \in Lcls |-> active[l] \/ l \in lcls]
    /\ triggered' = [l \in Lcls |-> triggered[l] /\ (l \notin lcls \/ active[l])]
    /\ timer' = [timer EXCEPT ![t] = 1]

PulseEnds(lcls) == active' = [l \in Lcls |-> active[l] /\ l \notin lcls]

---------------------------------------------------------------------------
(* updateAutoResetLogic(), in the mission task *)

ClearLogic ==
    /\ tracking' = FALSE
    /\ state' = [l \in Lcls |-> "DISABLED"]
    /\ resetCounter' = [l \in Lcls |-> 0]
    /\ sinceReset' = [l \in Lcls |-> Never]
    /\ sinceTrigger' = [l \in Lcls |-> Never]
    /\ autoResets' = [l \in Lcls |-> 0]

Sleep ==
    /\ lclPlace' = "sleep"
    /\ timer' = [timer EXCEPT !["mission"] = 1]

(* Without LO: before liftoff, or when it is over. *)
BeforeTakeoff ==
    /\ lclPlace = "sleep" /\ timer["mission"] = 0
    /\ ~lo
    /\ IF tracking THEN ClearLogic ELSE UNCHANGED logic
    /\ Sleep
    /\ UNCHANGED <<inputs, active, lcl, nowAge, command>>

(* The first update with LO: an LCL that is off now is meant to be off. *)
Takeoff ==
    /\ lclPlace = "sleep" /\ timer["mission"] = 0
    /\ lo /\ ~tracking
    /\ tracking' = TRUE
    /\ state' = [l \in Lcls |-> IF triggered[l] /\ ~bootedInFlight THEN "OFF" ELSE "ON"]
    /\ resetCounter' = [l \in Lcls |-> 0]
    /\ sinceReset' = [l \in Lcls |-> Never]
    /\ sinceTrigger' = [l \in Lcls |-> Never]
    /\ Sleep
    /\ UNCHANGED <<inputs, active, lcl, nowAge, command, autoResets>>

(* The next updates look at one LCL after the other. *)
UpdateStart ==
    /\ lclPlace = "sleep" /\ timer["mission"] = 0
    /\ lo /\ tracking
    /\ lclPlace' = "update" /\ lcl' = 1 /\ nowAge' = 0
    /\ UNCHANGED <<inputs, active, logic, command, timer>>

(* The next LCL, or the end of the update. *)
Proceed ==
    IF lcl < NumLcls
    THEN /\ lclPlace' = "update" /\ lcl' = lcl + 1
         /\ UNCHANGED timer
    ELSE Sleep /\ UNCHANGED lcl

Looks(s) == lclPlace = "update" /\ state[lcl] = s

Trigger ==
    /\ Looks("ON") /\ triggered[lcl]
    /\ IF resetCounter[lcl] >= MaxResetCount
       THEN /\ state' = [state EXCEPT ![lcl] = "GIVEN_UP"]
            /\ resetCounter' = [resetCounter EXCEPT ![lcl] = 0]
            /\ UNCHANGED sinceTrigger
       ELSE /\ state' = [state EXCEPT ![lcl] = "WAITING"]
            /\ sinceTrigger' = [sinceTrigger EXCEPT ![lcl] = nowAge]
            /\ UNCHANGED resetCounter
    /\ Proceed
    /\ UNCHANGED <<inputs, active, tracking, sinceReset, autoResets, nowAge, command>>

Nominal ==
    /\ Looks("ON") /\ ~triggered[lcl]
    /\ IF sinceReset[lcl] # Never /\ sinceReset[lcl] - nowAge >= RecoveryPeriod
       THEN /\ resetCounter' = [resetCounter EXCEPT ![lcl] = 0]
            /\ sinceReset' = [sinceReset EXCEPT ![lcl] = Never]
            /\ sinceTrigger' = [sinceTrigger EXCEPT ![lcl] = Never]
       ELSE UNCHANGED <<resetCounter, sinceReset, sinceTrigger>>
    /\ Proceed
    /\ UNCHANGED <<inputs, active, tracking, state, autoResets, nowAge, command>>

Wait ==
    /\ Looks("WAITING")
    /\ ~triggered[lcl] \/ sinceTrigger[lcl] - nowAge < DelayBefore
    /\ state' = [state EXCEPT ![lcl] = IF triggered[lcl] THEN "WAITING" ELSE "ON"]
    /\ Proceed
    /\ UNCHANGED <<inputs, active, tracking, sinceTrigger, sinceReset, resetCounter,
                   autoResets, nowAge, command>>

AutoReset ==
    /\ Looks("WAITING") /\ triggered[lcl] /\ sinceTrigger[lcl] - nowAge >= DelayBefore
    /\ PulseBegins("mission", {lcl})
    /\ lclPlace' = "pulse"
    /\ autoResets' = [autoResets EXCEPT ![lcl] = IF @ > MaxResetCount THEN @ ELSE @ + 1]
    /\ UNCHANGED <<lo, bootedInFlight, tracking, state, sinceTrigger, sinceReset, resetCounter,
                   lcl, nowAge, command>>

(* Mutant: a reset is counted twice. *)
AutoResetDoneTwice ==
    /\ lclPlace = "pulse" /\ timer["mission"] = 0
    /\ PulseEnds({lcl})
    /\ sinceReset' = [sinceReset EXCEPT ![lcl] = nowAge]
    /\ state' = [state EXCEPT ![lcl] = "TRIED_RECENTLY"]
    /\ resetCounter' = [resetCounter EXCEPT ![lcl] = @ + 2]
    /\ Proceed
    /\ UNCHANGED <<inputs, tracking, sinceTrigger, autoResets, nowAge, command>>

AutoResetDone ==
    /\ lclPlace = "pulse" /\ timer["mission"] = 0
    /\ PulseEnds({lcl})
    /\ sinceReset' = [sinceReset EXCEPT ![lcl] = nowAge]
    /\ state' = [state EXCEPT ![lcl] = "TRIED_RECENTLY"]
    /\ resetCounter' = [resetCounter EXCEPT ![lcl] = @ + 1]
    /\ Proceed
    /\ UNCHANGED <<inputs, tracking, sinceTrigger, autoResets, nowAge, command>>

(* Mutant: the delay after a reset does not end. *)
TriedForEver ==
    /\ Looks("TRIED_RECENTLY")
    /\ Proceed
    /\ UNCHANGED <<inputs, active, logic, nowAge, command>>

Tried ==
    /\ Looks("TRIED_RECENTLY")
    /\ state' = [state EXCEPT ![lcl] =
                   IF sinceReset[lcl] - nowAge >= DelayAfter THEN "ON" ELSE @]
    /\ Proceed
    /\ UNCHANGED <<inputs, active, tracking, sinceTrigger, sinceReset, resetCounter,
                   autoResets, nowAge, command>>

Skip ==
    /\ lclPlace = "update" /\ state[lcl] \in {"DISABLED", "OFF", "GIVEN_UP"}
    /\ Proceed
    /\ UNCHANGED <<inputs, active, logic, nowAge, command>>

LclMissionTask ==
    \/ BeforeTakeoff \/ Takeoff \/ UpdateStart
    \/ Trigger \/ Nominal \/ Wait \/ AutoReset \/ AutoResetDone \/ Tried \/ Skip

---------------------------------------------------------------------------
(* The LCL_RESET command *)

ResetCommand(m) ==
    /\ cmdPlace = "idle"
    /\ mask' = m
    /\ IF m # {}
       THEN PulseBegins("cmd", m) /\ cmdPlace' = "pulse"
       ELSE UNCHANGED <<active, triggered, timer, cmdPlace>>
    /\ UNCHANGED <<lo, bootedInFlight, logic, mission>>

ResetCommandDone ==
    /\ cmdPlace = "pulse" /\ timer["cmd"] = 0
    /\ PulseEnds(mask)
    /\ cmdPlace' = "idle"
    /\ UNCHANGED <<inputs, logic, mission, mask, timer>>

---------------------------------------------------------------------------
(* The surroundings *)

(* A load draws too much; an LCL stays off until it is reset. *)
Overcurrent(l) ==
    /\ ~triggered[l]
    /\ triggered' = [triggered EXCEPT ![l] = TRUE]
    /\ UNCHANGED <<lo, bootedInFlight, active, logic, mission, command, timer>>

LoChange ==
    /\ lo => LiftoffEnds
    /\ lo' = ~lo
    /\ bootedInFlight' \in IF lo THEN {bootedInFlight} ELSE BOOLEAN
    /\ UNCHANGED lclVars

Aged(age) == IF age < Long THEN age + 1 ELSE age

LclTick ==
    /\ timer["mission"] = 1
    /\ cmdPlace = "pulse" => timer["cmd"] = 1
    /\ \A l \in Broken : triggered[l] \/ active[l] \/ sinceReset[l] < TripTime
    /\ timer' = [t \in {"mission", "cmd"} |-> 0]
    /\ sinceTrigger' = [l \in Lcls |-> Aged(sinceTrigger[l])]
    /\ sinceReset' = [l \in Lcls |-> Aged(sinceReset[l])]
    /\ nowAge' = IF lclPlace = "pulse" THEN nowAge + 1 ELSE nowAge
    /\ UNCHANGED <<inputs, active, tracking, state, resetCounter, autoResets, lclPlace, lcl,
                   command>>

(* At boot every LCL is off, and the reset pins are idle. *)
LclInit ==
    /\ triggered = [l \in Lcls |-> TRUE]
    /\ active = [l \in Lcls |-> FALSE]
    /\ tracking = FALSE
    /\ state = [l \in Lcls |-> "DISABLED"]
    /\ sinceTrigger = [l \in Lcls |-> Never]
    /\ sinceReset = [l \in Lcls |-> Never]
    /\ resetCounter = [l \in Lcls |-> 0]
    /\ autoResets = [l \in Lcls |-> 0]
    /\ lclPlace = "sleep" /\ lcl = 1 /\ nowAge = 0
    /\ mask = {} /\ cmdPlace = "idle"
    /\ timer = [t \in {"mission", "cmd"} |-> 0]

LclSystemInit == lo = FALSE /\ bootedInFlight = FALSE /\ LclInit

LclNext ==
    \/ LclMissionTask
    \/ \E m \in Masks : ResetCommand(m)
    \/ ResetCommandDone
    \/ \E l \in Lcls : Overcurrent(l)
    \/ LclTick

LclSystemNext == (LclNext /\ UNCHANGED <<lo, bootedInFlight>>) \/ LoChange

(* Time passes, and the tasks run when their delay is over. *)
LclFairness ==
    /\ WF_lclSystemVars(LclMissionTask) /\ WF_lclSystemVars(ResetCommandDone) /\ WF_lclSystemVars(LclTick)
    /\ \A l \in Broken : WF_lclSystemVars(Overcurrent(l))

LclSpec == LclSystemInit /\ [][LclSystemNext]_lclSystemVars
LclFairSpec == LclSpec /\ LclFairness
---------------------------------------------------------------------------
States == {"DISABLED", "OFF", "ON", "TRIED_RECENTLY", "WAITING", "GIVEN_UP"}

(* Every variable has its type; no counter passes the limit. *)
LclTypeOK ==
    /\ lo \in BOOLEAN /\ bootedInFlight \in BOOLEAN /\ tracking \in BOOLEAN
    /\ triggered \in [Lcls -> BOOLEAN]
    /\ active \in [Lcls -> BOOLEAN]
    /\ state \in [Lcls -> States]
    /\ sinceTrigger \in [Lcls -> 0..Never]
    /\ sinceReset \in [Lcls -> 0..Never]
    /\ resetCounter \in [Lcls -> 0..MaxResetCount]
    /\ autoResets \in [Lcls -> 0..(MaxResetCount + 1)]
    /\ lclPlace \in {"sleep", "update", "pulse"}
    /\ lcl \in Lcls
    /\ nowAge \in 0..NumLcls
    /\ mask \subseteq Lcls
    /\ cmdPlace \in {"idle", "pulse"}
    /\ timer \in [{"mission", "cmd"} -> 0..1]

(* A reset pin is active only while a task is in a pulse for it, although  *)
(* the pulses of the two tasks overlap: no LCL is held off.                *)
PinsReleased ==
    \A l \in Lcls : active[l] =>
        \/ lclPlace = "pulse" /\ lcl = l
        \/ cmdPlace = "pulse" /\ l \in mask

(* The logic gives up on an LCL only after the allowed number of automatic *)
(* resets since liftoff.                                                   *)
NoEarlyGiveUp ==
    \A l \in Lcls :
        /\ resetCounter[l] <= autoResets[l]
        /\ state[l] = "GIVEN_UP" => autoResets[l] >= MaxResetCount

(* "Maximum number of resets allowed": an LCL that triggers again within   *)
(* the recovery period after each reset is not reset more often than that  *)
(* in a liftoff.                                                           *)
ResetsLimited ==
    \A l \in Broken : autoResets[l] <= MaxResetCount

(* After liftoff an LCL that is followed and triggers is reset, unless the *)
(* logic has given up on it or the liftoff ends.                           *)
TriggeredIsReset ==
    \A l \in Lcls :
        triggered[l] /\ tracking /\ state[l] \in {"ON", "WAITING", "TRIED_RECENTLY"}
            ~> ~triggered[l] \/ state[l] = "GIVEN_UP" \/ ~lo

(* In a liftoff that does not end, a broken LCL that is followed is given  *)
(* up in the end.                                                          *)
BrokenGivenUp ==
    \A l \in Broken :
        <>[](lo /\ tracking /\ state[l] # "OFF") => <>(state[l] = "GIVEN_UP")
=============================================================================
