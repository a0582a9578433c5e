----------------------------- MODULE FlashMemory ----------------------------
(***************************************************************************)
(* The driver of the flash memory and the chip itself.  The chip takes one *)
(* command per SPI transfer and ignores all but status reads while it is   *)
(* busy with a program or an erase.  Two tasks use the driver: one on      *)
(* behalf of littlefs, whose lock keeps its calls apart, and the storage   *)
(* task, which reads raw data past that lock.  One sector is modelled.     *)
(***************************************************************************)
EXTENDS Naturals

CONSTANTS
    Pages,       \* the pages of the sector
    Contents,    \* what can be written to a page
    MaxRetries   \* MAX_RETRIES

ASSUME FlashAssumption ==
    /\ MaxRetries \in Nat \ {0} /\ Pages # {}
    /\ {"erased", "spoilt"} \cap Contents = {}

FlashTasks == {"fs", "raw"}
(* A page is erased, has contents, or was programmed twice; what is read   *)
(* from a busy chip is noise.                                              *)
PageStates == Contents \cup {"erased", "spoilt"}

VARIABLES
    flashCfg,          \* the configuration that identify() found
    page, busy, wel,   \* the chip: its pages, the bits BUSY and WEL
    currentOperation,  \* what getCurrentOperation() tells
    flashTask,         \* for each task, where its call is
    overlapped         \* two calls have been in progress at a time

flashChip == <<page, busy, wel>>
flashVars == <<flashCfg, flashChip, currentOperation, flashTask, overlapped>>

NotCalled == [at |-> "idle", op |-> "OP_IDLE", page |-> CHOOSE p \in Pages : TRUE, data |-> "erased", old |-> "OP_IDLE",
               retries |-> 0, enabled |-> FALSE, success |-> FALSE]

FlashInit ==
    /\ flashCfg = "unknown"
    /\ page = [p \in Pages |-> "erased"] /\ busy = FALSE /\ wel = FALSE
    /\ currentOperation = "OP_IDLE" /\ overlapped = FALSE
    /\ flashTask = [t \in FlashTasks |-> NotCalled]

(* identify() at boot: a large chip needs four-byte addresses.  The answer *)
(* -1 of a status read that failed counts as a success.                    *)
Identify(known, large, entered) ==
    /\ flashCfg = "unknown"
    /\ flashCfg' = IF known /\ (large => entered) THEN "found" ELSE "none"
    /\ UNCHANGED <<flashChip, currentOperation, flashTask, overlapped>>

---------------------------------------------------------------------------
(* What becomes of a command: with "ok" the transfer is done, with "lost"  *)
(* and "late" it failed, without the chip or although the chip had it all. *)
Transfers == {"ok", "lost", "late"}
Reaches(x) == x # "lost" /\ ~busy

Becomes(t, call) == flashTask' = [flashTask EXCEPT ![t] = call]
At(t, place) == flashTask[t].at = place
Writes(t) == flashTask[t].op # "OP_READ"

(* eraseSector(), readIntoBuffer() and programFromBuffer(), entered with an*)
(* OperationContext.  littlefs programs only pages that are erased.        *)
FlashCall(t, op, p, data) ==
    /\ flashCfg = "found"
    /\ At(t, "idle")
    /\ t = "raw" => op = "OP_READ"
    /\ op = "OP_WRITE" => page[p] = "erased"
    /\ Becomes(t, [NotCalled EXCEPT !.at = "ready", !.op = op, !.page = p, !.data = data, !.old = currentOperation])
    /\ currentOperation' = op
    /\ overlapped' = (overlapped \/ \E u \in FlashTasks \ {t} : ~At(u, "idle"))
    /\ UNCHANGED <<flashCfg, flashChip>>

(* waitWhileBusy() has no timeout of its own: it asks until the chip is    *)
(* ready or a transfer fails.                                              *)
WaitReady(t, x) ==
    /\ At(t, "ready")
    /\ x = "ok" => ~busy
    /\ Becomes(t, [flashTask[t] EXCEPT !.at = IF x # "ok" THEN "again"
                                              ELSE IF Writes(t) THEN "enable" ELSE "command"])
    /\ UNCHANGED <<flashCfg, flashChip, currentOperation, overlapped>>

(* WriteEnabledContext::enable(), first its command, then its look at WEL. *)
(* eraseSector() waits for the chip also when that failed.                 *)
AfterRefusal(t) == IF flashTask[t].op = "OP_ERASE" THEN "finish" ELSE "again"

WriteEnable(t, x) ==
    /\ At(t, "enable")
    /\ wel' = (wel \/ Reaches(x))
    /\ Becomes(t, [flashTask[t] EXCEPT !.at = IF x = "ok" THEN "check" ELSE AfterRefusal(t)])
    /\ UNCHANGED <<flashCfg, page, busy, currentOperation, overlapped>>

CheckWel(t, x) ==
    /\ At(t, "check")
    /\ Becomes(t, IF x = "ok" /\ wel THEN [flashTask[t] EXCEPT !.at = "command", !.enabled = TRUE]
                  ELSE [flashTask[t] EXCEPT !.at = AfterRefusal(t)])
    /\ UNCHANGED <<flashCfg, flashChip, currentOperation, overlapped>>

(* The commands proper.  The chip drops WEL when it is done. *)
Programmed(old, data) == IF old \in {"erased", data} THEN data ELSE "spoilt"

ReadPage(t, x) ==
    /\ At(t, "command") /\ ~Writes(t)
    /\ Becomes(t, IF x = "ok"
                  THEN [flashTask[t] EXCEPT !.at = "leave", !.success = TRUE,
                                            !.data = IF busy THEN "spoilt" ELSE page[flashTask[t].page]]
                  ELSE [flashTask[t] EXCEPT !.at = "again"])
    /\ UNCHANGED <<flashCfg, flashChip, currentOperation, overlapped>>

WritePage(t, x) ==
    /\ At(t, "command") /\ Writes(t)
    /\ IF Reaches(x) /\ wel
       THEN /\ page' = [p \in Pages |->
                          IF flashTask[t].op = "OP_ERASE" THEN "erased"
                          ELSE IF p = flashTask[t].page THEN Programmed(page[p], flashTask[t].data)
                          ELSE page[p]]
            /\ busy' = TRUE
       ELSE UNCHANGED <<page, busy>>
    /\ Becomes(t, [flashTask[t] EXCEPT !.at = "finish", !.success = (x = "ok")])
    /\ UNCHANGED <<flashCfg, wel, currentOperation, overlapped>>

WaitFinished(t, x) ==
    /\ At(t, "finish")
    /\ x = "ok" => ~busy
    /\ Becomes(t, [flashTask[t] EXCEPT !.at = IF flashTask[t].enabled THEN "disable" ELSE "again",
                                       !.success = @ /\ x = "ok"])
    /\ UNCHANGED <<flashCfg, flashChip, currentOperation, overlapped>>

(* The destructor of WriteEnabledContext, whatever becomes of its command. *)
WriteDisable(t, x) ==
    /\ At(t, "disable")
    /\ wel' = (wel /\ ~Reaches(x))
    /\ Becomes(t, [flashTask[t] EXCEPT !.at = IF flashTask[t].success THEN "leave" ELSE "again", !.enabled = FALSE])
    /\ UNCHANGED <<flashCfg, page, busy, currentOperation, overlapped>>

TryAgain(t) ==
    /\ At(t, "again")
    /\ Becomes(t, [flashTask[t] EXCEPT !.at = IF flashTask[t].retries + 1 < MaxRetries THEN "ready" ELSE "leave",
                                       !.retries = @ + 1, !.success = FALSE])
    /\ UNCHANGED <<flashCfg, flashChip, currentOperation, overlapped>>

(* The end of the OperationContext *)
LeaveFlash(t) ==
    /\ At(t, "leave")
    /\ currentOperation' = flashTask[t].old
    /\ Becomes(t, NotCalled)
    /\ UNCHANGED <<flashCfg, flashChip, overlapped>>

ChipReady ==
    /\ busy
    /\ busy' = FALSE /\ wel' = FALSE
    /\ UNCHANGED <<flashCfg, page, currentOperation, flashTask, overlapped>>

---------------------------------------------------------------------------
FlashTaskStep(t) ==
    \/ \E x \in Transfers : \/ WaitReady(t, x) \/ WriteEnable(t, x) \/ CheckWel(t, x)
                            \/ ReadPage(t, x) \/ WritePage(t, x)
                            \/ WaitFinished(t, x) \/ WriteDisable(t, x)
    \/ TryAgain(t) \/ LeaveFlash(t)

FlashNext ==
    \/ \E known, large, entered \in BOOLEAN : Identify(known, large, entered)
    \/ \E t \in FlashTasks, op \in {"OP_READ", "OP_WRITE", "OP_ERASE"}, p \in Pages, data \in Contents :
         FlashCall(t, op, p, data)
    \/ \E t \in FlashTasks : FlashTaskStep(t)
    \/ ChipReady

FlashSpec == FlashInit /\ [][FlashNext]_flashVars
             /\ WF_flashVars(ChipReady) /\ \A t \in FlashTasks : SF_flashVars(FlashTaskStep(t))

---------------------------------------------------------------------------
FlashTypeOK ==
    /\ flashCfg \in {"unknown", "found", "none"}
    /\ page \in [Pages -> PageStates] /\ {busy, wel} \subseteq BOOLEAN
    /\ currentOperation \in {"OP_IDLE", "OP_READ", "OP_WRITE", "OP_ERASE"}
    /\ overlapped \in BOOLEAN
    /\ flashTask \in [FlashTasks ->
          [at : {"idle", "ready", "enable", "check", "command", "finish", "disable", "again", "leave"},
           op : {"OP_IDLE", "OP_READ", "OP_WRITE", "OP_ERASE"}, page : Pages, data : PageStates,
           old : {"OP_IDLE", "OP_READ", "OP_WRITE", "OP_ERASE"},
           retries : 0 .. MaxRetries, enabled : BOOLEAN, success : BOOLEAN]]

(* What littlefs is told was written, erased or read is what the pages     *)
(* hold, over any failed transfers and retries; a page that was programmed *)
(* twice, because its first transfer only seemed to fail, is not spoilt.   *)
FlashDoesAsTold ==
    LET c == flashTask["fs"] IN
    c.at = "leave" /\ c.success =>
        page[c.page] = IF c.op = "OP_ERASE" THEN "erased" ELSE c.data

(* A raw read gets no noise as long as calls have not overlapped: when they*)
(* do it may meet a busy chip and report success.  Likewise, as long as    *)
(* calls do not overlap getCurrentOperation() is idle again after them.    *)
LoneCallsAreClean ==
    ~overlapped =>
        /\ \A t \in FlashTasks : At(t, "leave") /\ flashTask[t].op = "OP_READ" /\ flashTask[t].success =>
             flashTask[t].data # "spoilt"
        /\ (\A t \in FlashTasks : At(t, "idle")) => currentOperation = "OP_IDLE"

(* Every call ends as long as the chip gets ready again. *)
FlashCallsEnd == \A t \in FlashTasks : flashTask[t].at # "idle" ~> flashTask[t].at = "idle"
=============================================================================
