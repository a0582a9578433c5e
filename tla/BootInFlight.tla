---------------------------- MODULE BootInFlight ----------------------------
(***************************************************************************)
(* A boot in flight, end to end: LO and SODS are on from the start, the    *)
(* pins task votes on their samples, and the mission task reads the votes  *)
(* and the verdict of wasBootedAfterLiftoff() between any two of its       *)
(* steps.  The LCL logic is the one of LclAutoReset, with its inputs taken *)
(* from RxsmSignals.                                                       *)
(***************************************************************************)
EXTENDS RxsmSignals

(* The two signals that wasBootedAfterLiftoff() looks at. *)
MCOrder == <<"LO", "SODS">>

CONSTANTS NumLcls, DelayBefore, DelayAfter, RecoveryPeriod, MaxResetCount,
          Masks, Broken, TripTime, LiftoffEnds

VARIABLES triggered, active, tracking, state, sinceTrigger, sinceReset, resetCounter,
          mission, lcl, nowAge, mask, cmdPlace, timer, autoResets

Lcl == INSTANCE LclAutoReset WITH
         lo <- Vote("LO"), bootedInFlight <- BootedAfterLiftoff, lclPlace <- mission

lclVars == <<triggered, active, tracking, state, sinceTrigger, sinceReset, resetCounter,
             mission, lcl, nowAge, mask, cmdPlace, timer, autoResets>>

allVars == <<rxsmVars, lclVars>>

Init == RxsmInit /\ Lcl!LclInit

(* The samples of a boot in flight. *)
Pins == NextUpdate \/ Feed(TRUE) \/ RisingEdge

Next ==
    \/ Pins /\ UNCHANGED lclVars
    \/ UNCHANGED rxsmVars /\ Lcl!LclNext

Spec == Init /\ [][Next]_allVars

(* wasBootedAfterLiftoff() is for the LCLs that are off because of the     *)
(* boot: after a boot in flight the logic follows every LCL, also the ones *)
(* that are off at the first update with LO.                               *)
BootFollowed == \A l \in Lcl!Lcls : state[l] # "OFF"
=============================================================================
