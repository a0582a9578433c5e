-------------------------- MODULE TelemetryReports --------------------------
(***************************************************************************)
(* The reports that the telemetry task sends on its own (modules/telem,    *)
(* modules/messages): a table of reports with a counter each, counted up   *)
(* in every pass of the task, while other tasks may ask for the status of  *)
(* the clocks by a store to its counter.                                   *)
(***************************************************************************)
EXTENDS Naturals, Sequences

CONSTANTS
    Reports,       \* the table: a sequence of names, "heartbeat" and "clock" among them
    Period,        \* per report, the passes from one to the next
    MaxLclChanges, \* bound: how often an LCL triggers or is reset
    MaxAsked       \* bound: how often the status of the clocks is asked for

Kind(i) == Reports[i]
ReportKinds == {Kind(i) : i \in DOMAIN Reports}

(* Each line of the table has a counter of its own. *)
ASSUME ReportsAssumption ==
    /\ Reports \in Seq(ReportKinds) /\ \A i, j \in DOMAIN Reports : Kind(i) = Kind(j) => i = j
    /\ {"heartbeat", "clock"} \subseteq ReportKinds
    /\ Period \in [ReportKinds -> Nat \ {0}]
    /\ MaxLclChanges \in Nat /\ MaxAsked \in Nat

VARIABLES
    counter,    \* per report
    pass,       \* where the task is in the table, and the counter it has loaded
    lclTriggered,  \* whether an LCL has triggered
    previous,   \* previousHeartbeat.lclStatusBits
    recorded,   \* history: the status in the last record that was not dropped
    dropped,    \* history: the last record of a change was dropped
    wanted,     \* history: the status of the clocks was asked for, or the request was lost
    passes,        \* history: per report, the passes that began since it was last due
    lclChanges,
    asked

reportVars == <<counter, pass, lclTriggered, previous, recorded, dropped, wanted, passes, lclChanges, asked>>

Asleep == [at |-> "sleep", i |-> 0, loaded |-> 0, lcl |-> FALSE]

ReportsInit ==
    /\ counter = [k \in ReportKinds |-> 0]
    /\ pass = Asleep
    /\ lclTriggered = FALSE /\ previous = FALSE /\ recorded = FALSE /\ dropped = FALSE
    /\ wanted = "no"
    /\ passes = [k \in ReportKinds |-> 0]
    /\ lclChanges = 0 /\ asked = 0

Entry == Kind(pass.i)
(* The next line of the table, or the end of the pass.                     *)
NextEntry ==
    pass' = IF pass.i = Len(Reports) THEN Asleep
            ELSE [Asleep EXCEPT !.at = "load", !.i = pass.i + 1]
---------------------------------------------------------------------------
(* telemetryTask(): a pass every 20 ms.                                    *)
StartPass ==
    /\ pass.at = "sleep"
    /\ pass' = [Asleep EXCEPT !.at = "load", !.i = 1]
    /\ passes' = [k \in ReportKinds |-> passes[k] + 1]
    /\ UNCHANGED <<counter, lclTriggered, previous, recorded, dropped, wanted, lclChanges, asked>>

(* counter++ is a load and a store.                                        *)
LoadCounter ==
    /\ pass.at = "load"
    /\ pass' = [pass EXCEPT !.at = "store", !.loaded = counter[Entry]]
    /\ UNCHANGED <<counter, lclTriggered, previous, recorded, dropped, wanted, passes, lclChanges, asked>>

StoreCounter ==
    /\ pass.at = "store"
    /\ counter' = [counter EXCEPT ![Entry] = pass.loaded + 1]
    /\ pass' = [pass EXCEPT !.at = "check", !.loaded = 0]
    /\ UNCHANGED <<lclTriggered, previous, recorded, dropped, wanted, passes, lclChanges, asked>>

(* Mutant: one pass more than the period. *)
CheckStrictly ==
    /\ pass.at = "check"
    /\ IF counter[Entry] > Period[Entry]
       THEN /\ counter' = [counter EXCEPT ![Entry] = 0]
            /\ passes' = [passes EXCEPT ![Entry] = 0]
            /\ pass' = [pass EXCEPT !.at = "collect"]
       ELSE NextEntry /\ UNCHANGED <<counter, passes>>
    /\ UNCHANGED <<lclTriggered, previous, recorded, dropped, wanted, lclChanges, asked>>

CheckCounter ==
    /\ pass.at = "check"
    /\ IF counter[Entry] >= Period[Entry]
       THEN /\ counter' = [counter EXCEPT ![Entry] = 0]
            /\ passes' = [passes EXCEPT ![Entry] = 0]
            /\ pass' = [pass EXCEPT !.at = "collect"]
       ELSE NextEntry /\ UNCHANGED <<counter, passes>>
    /\ UNCHANGED <<lclTriggered, previous, recorded, dropped, wanted, lclChanges, asked>>

(* The functions of the table.  sendHeartbeat() collects the status and    *)
(* sends it before it looks at the status of the one before; the status of *)
(* the clocks is what was asked for.                                       *)
Collect ==
    /\ pass.at = "collect"
    /\ IF Entry = "heartbeat" THEN pass' = [pass EXCEPT !.at = "record", !.lcl = lclTriggered]
       ELSE NextEntry
    /\ wanted' = IF Entry = "clock" THEN "no" ELSE wanted
    /\ UNCHANGED <<counter, lclTriggered, previous, recorded, dropped, passes, lclChanges, asked>>

(* A record of the LCLs is written if their status changed, and a recorder *)
(* that does not run drops it; the status counts as recorded.              *)
RecordLcls ==
    /\ pass.at = "record"
    /\ IF pass.lcl = previous THEN UNCHANGED <<recorded, dropped>>
       ELSE \/ recorded' = pass.lcl /\ dropped' = FALSE
            \/ dropped' = TRUE /\ UNCHANGED recorded
    /\ previous' = pass.lcl
    /\ NextEntry
    /\ UNCHANGED <<counter, lclTriggered, wanted, passes, lclChanges, asked>>
---------------------------------------------------------------------------
(* sendClockStatusSoon(), from the tasks cmd and mission.  The store is    *)
(* lost if the telemetry task has loaded the counter and not stored it.    *)
SendClockStatusSoon ==
    /\ asked < MaxAsked /\ asked' = asked + 1
    /\ counter' = [counter EXCEPT !["clock"] = Period["clock"]]
    /\ wanted' = IF pass.at = "store" /\ Entry = "clock" /\ wanted # "soon" THEN "lost" ELSE "soon"
    /\ UNCHANGED <<pass, lclTriggered, previous, recorded, dropped, passes, lclChanges>>

LclChanges ==
    /\ lclChanges < MaxLclChanges /\ lclChanges' = lclChanges + 1
    /\ lclTriggered' = ~lclTriggered
    /\ UNCHANGED <<counter, pass, previous, recorded, dropped, wanted, passes, asked>>

RunPass == StartPass \/ LoadCounter \/ StoreCounter \/ CheckCounter \/ Collect \/ RecordLcls

ReportsNext == RunPass \/ SendClockStatusSoon \/ LclChanges
ReportsFairness == WF_reportVars(RunPass)
ReportsSpec == ReportsInit /\ [][ReportsNext]_reportVars /\ ReportsFairness
---------------------------------------------------------------------------
ReportsTypeOK ==
    /\ \A k \in ReportKinds : counter[k] \in 0..(Period[k] + 1) /\ passes[k] \in Nat
    /\ pass.i \in 0..Len(Reports)
    /\ wanted \in {"no", "soon", "lost"}

(* No report is later than its period, whatever other tasks store.         *)
OnTime == \A k \in ReportKinds : passes[k] <= Period[k]

(* A status of the clocks that was asked for is sent when the next pass    *)
(* comes to its line; only a store that hits the increment is lost.        *)
SoonIsSent ==
    [][pass.at = "check" /\ Entry = "clock" /\ wanted = "soon" => pass'.at # "sleep" /\ pass'.i = pass.i]_pass

(* The records of the LCLs end with the status of the last heartbeat, if   *)
(* the record of the last change was not dropped.                          *)
LclsRecorded == dropped \/ recorded = previous

(* The reports: none is late, a status of the clocks that is asked for     *)
(* comes with the next pass, and the status of the LCLs is recorded        *)
(* whenever it changes.                                                    *)
ReportsInTime == [](ReportsTypeOK /\ OnTime /\ LclsRecorded) /\ SoonIsSent

(* An LCL that stays as it is shows in a heartbeat at last.                *)
HeartbeatFollows == \A b \in BOOLEAN : <>[](lclTriggered = b) => <>[](previous = b)
=============================================================================
