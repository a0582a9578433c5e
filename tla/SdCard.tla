------------------------------- MODULE SdCard -------------------------------
(***************************************************************************)
(* The driver of the SD card: how it finds out whether there is a usable   *)
(* card, and how it reads, programs and erases blocks.  All reads go       *)
(* through a cache of one block, whose memory is also the buffer to read   *)
(* into.  Two tasks use the driver: one on behalf of littlefs, whose lock  *)
(* keeps its calls apart, and the storage task, which reads raw data past  *)
(* that lock.  One sector is modelled.                                     *)
(***************************************************************************)
EXTENDS Naturals

CONSTANTS
    NumBlocks,      \* SECTORS_IN_BLOCK, the blocks of a sector
    BlockContents,  \* what can be written to a block
    MaxSdRetries,   \* MAX_RETRIES
    MaxTries,       \* how often each step of the initialization is tried
    MaxRestarts     \* how often the initialization is started over

ASSUME SdAssumption ==
    /\ {NumBlocks, MaxSdRetries, MaxRestarts} \subseteq Nat \ {0}
    /\ MaxTries \in [{"reset", "if_cond", "op_cond", "ocr", "csd"} -> Nat \ {0}]

Blocks == 0 .. NumBlocks - 1
SdTasks == {"fs", "raw"}
CardStates == BlockContents \cup {"erased", "spoilt"}

VARIABLES
    cardKind,    \* what is in the slot
    sdInit,      \* where tryInitialization() is
    card,        \* the blocks of the card
    cache,       \* the block cache; its memory, and the block that was read into it
    sdTask,      \* for each task, where its call is
    sdOverlap    \* two calls have been in progress at a time

sdProbe == <<cardKind, sdInit>>
sdVars == <<sdProbe, card, cache, sdTask, sdOverlap>>

---------------------------------------------------------------------------
(* tryInitialization(), one turn of one of its loops at a time.  A card    *)
(* may answer anything, but only SD cards of the second version know CMD8, *)
(* and only those that hold much call themselves so in the CSD register.   *)
SdStep(step) == [at |-> step, tries |-> 0,
                 restarts |-> IF step \in {"none", "ready"} THEN 0 ELSE sdInit.restarts]
SdRetry(step) == IF sdInit.tries + 1 < MaxTries[step] THEN [sdInit EXCEPT !.tries = @ + 1]
                 ELSE SdStep("none")

SdSkip == UNCHANGED <<cardKind, card, cache, sdTask, sdOverlap>>

(* Any transfer may fail, and so may setting the speed of the clock. *)
SdGiveUp ==
    /\ sdInit.at \notin {"none", "ready"}
    /\ sdInit' = SdStep("none")
    /\ SdSkip

SdReset(response) ==
    /\ sdInit.at = "reset"
    /\ response = "IDLE" => cardKind # "empty"
    /\ sdInit' = IF response = "IDLE" THEN SdStep("if_cond") ELSE SdRetry("reset")
    /\ SdSkip

SdIfCond(response) ==
    /\ sdInit.at = "if_cond"
    /\ response \in {"IDLE", "OK"} => cardKind \in {"sdsc", "sdhc"}
    /\ sdInit' = IF response \in {"IDLE", "OK"} THEN SdStep("op_cond") ELSE SdRetry("if_cond")
    /\ SdSkip

(* A card that is idle 20 times is taken to the next step nevertheless. *)
SdOpCond(response) ==
    /\ sdInit.at = "op_cond"
    /\ sdInit' = IF response \notin {"OK", "IDLE"} THEN SdStep("none")
                 ELSE IF response = "IDLE" /\ sdInit.tries + 1 < MaxTries["op_cond"]
                 THEN [sdInit EXCEPT !.tries = @ + 1]
                 ELSE SdStep("ocr")
    /\ SdSkip

(* A card that finds the command illegal while idle counts as one that has *)
(* shown the bit for a high capacity.                                      *)
SdOcr(response, high) ==
    /\ sdInit.at = "ocr"
    /\ response = "OK" /\ high => cardKind = "sdhc"
    /\ sdInit' = CASE response = "IDLE_ILLEGAL" -> SdStep("csd")
                   [] response = "OK" -> SdStep(IF high THEN "csd" ELSE "none")
                   [] OTHER -> SdRetry("ocr")
    /\ SdSkip

SdCsd(response, large) ==
    /\ sdInit.at = "csd"
    /\ large => cardKind = "sdhc"
    /\ sdInit' = CASE response = "OK" -> SdStep(IF large THEN "ready" ELSE "none")
                   [] response = "IDLE_ILLEGAL" /\ sdInit.restarts + 1 < MaxRestarts ->
                        [at |-> "reset", tries |-> 0, restarts |-> sdInit.restarts + 1]
                   [] OTHER -> [SdRetry("csd") EXCEPT !.restarts =
                                  IF response = "IDLE_ILLEGAL" THEN MaxRestarts ELSE @]
    /\ SdSkip

SdProbeStep ==
    \/ SdGiveUp
    \/ \E response \in {"OK", "IDLE", "IDLE_ILLEGAL", "BUSY"} :
         \/ SdReset(response) \/ SdIfCond(response) \/ SdOpCond(response)
         \/ \E b \in BOOLEAN : SdOcr(response, b) \/ SdCsd(response, b)

---------------------------------------------------------------------------
NoSdCall == [at |-> "idle", op |-> "OP_IDLE", block |-> 0, left |-> 0, data |-> "erased",
             sends |-> FALSE, retries |-> 0, success |-> FALSE]

SdAt(t, place) == sdTask[t].at = place
SdBecomes(t, call) == sdTask' = [sdTask EXCEPT ![t] = call]

(* The chip select of a call stays low over its transfers without a lock   *)
(* of the bus.  The transfers of another call disturb it.                  *)
Selected(t) == sdTask[t].at \in {"command", "receive", "send", "respond", "finish"}
Disturbed(t) == \E u \in SdTasks \ {t} : Selected(u)

(* littlefs reads what it has programmed, and programs what is erased. *)
SdCall(t, op, b, n, data) ==
    /\ sdInit.at = "ready"
    /\ SdAt(t, "idle")
    /\ b + n <= NumBlocks
    /\ IF t = "raw" THEN op = "OP_READ"
       ELSE CASE op = "OP_READ" -> \A i \in b .. b + n - 1 : card[i] # "erased"
              [] op = "OP_WRITE" -> n = 1 /\ card[b] = "erased"
              [] OTHER -> n = 1 /\ b = 0
    /\ SdBecomes(t, [NoSdCall EXCEPT !.at = IF op = "OP_READ" THEN "lookup" ELSE "evict",
                                     !.op = op, !.block = b, !.left = n,
                                     !.data = IF op = "OP_WRITE" THEN data ELSE @])
    /\ sdOverlap' = (sdOverlap \/ \E u \in SdTasks \ {t} : ~SdAt(u, "idle"))
    /\ UNCHANGED <<sdProbe, card, cache>>

Reply(t, ok) == [sdTask[t] EXCEPT !.at = "done", !.success = ok, !.retries = 0, !.sends = FALSE]
Again(t) == IF sdTask[t].retries + 1 < MaxSdRetries
            THEN [sdTask[t] EXCEPT !.at = "command", !.retries = @ + 1]
            ELSE [sdTask[t] EXCEPT !.at = "done", !.retries = 0, !.success = FALSE]

(* ensureBlockIsCached() and readBlockIntoBuffer().  The block is received *)
(* once per command; a second attempt only succeeds if the first was too   *)
(* early.  The CRC keeps a disturbed block out.                            *)
Lookup(t) ==
    /\ SdAt(t, "lookup")
    /\ IF cache.isValid /\ cache.blockIndex = sdTask[t].block
       THEN SdBecomes(t, [sdTask[t] EXCEPT !.at = "copy"]) /\ UNCHANGED cache
       ELSE SdBecomes(t, [sdTask[t] EXCEPT !.at = "command"]) /\ cache' = [cache EXCEPT !.isValid = FALSE]
    /\ UNCHANGED <<sdProbe, card, sdOverlap>>

ReadCommand(t, accepted) ==
    /\ SdAt(t, "command") /\ sdTask[t].op = "OP_READ"
    /\ SdBecomes(t, IF accepted THEN [sdTask[t] EXCEPT !.at = "receive", !.sends = TRUE] ELSE Reply(t, FALSE))
    /\ UNCHANGED <<sdProbe, card, cache, sdOverlap>>

Receive(t, outcome) ==
    /\ SdAt(t, "receive")
    /\ outcome = "ok" => sdTask[t].sends
    /\ cache' = CASE outcome = "ok" -> [cache EXCEPT !.holds = sdTask[t].block, !.block = card[sdTask[t].block]]
                  [] outcome = "lost" -> [cache EXCEPT !.holds = NumBlocks, !.block = "spoilt"]
                  [] OTHER -> cache
    /\ SdBecomes(t, IF outcome = "ok" THEN [sdTask[t] EXCEPT !.at = "commit"]
                    ELSE IF sdTask[t].retries + 1 = MaxSdRetries THEN Reply(t, FALSE)
                    ELSE [sdTask[t] EXCEPT !.retries = @ + 1, !.sends = @ /\ outcome = "early"])
    /\ UNCHANGED <<sdProbe, card, sdOverlap>>

Commit(t) ==
    /\ SdAt(t, "commit")
    /\ cache' = [cache EXCEPT !.blockIndex = sdTask[t].block, !.isValid = TRUE]
    /\ SdBecomes(t, [sdTask[t] EXCEPT !.at = "copy", !.retries = 0, !.sends = FALSE])
    /\ UNCHANGED <<sdProbe, card, sdOverlap>>

(* readData() copies and goes on to the next block. *)
CopyOut(t) ==
    /\ SdAt(t, "copy")
    /\ LET last == sdTask[t].left = 1 IN
       SdBecomes(t, [sdTask[t] EXCEPT !.at = IF last THEN "done" ELSE "lookup", !.block = IF last THEN @ ELSE @ + 1,
                                      !.left = @ - 1, !.data = cache.block, !.success = TRUE])
    /\ UNCHANGED <<sdProbe, card, cache, sdOverlap>>

(* Mutant: the block stays in the cache while the card is written. *)
EvictNothing(t) ==
    /\ SdAt(t, "evict")
    /\ SdBecomes(t, [sdTask[t] EXCEPT !.at = "command"])
    /\ UNCHANGED <<sdProbe, card, cache, sdOverlap>>

(* programBlockFromBuffer() and eraseSectorFromBlock() evict the block they*)
(* are called for.                                                         *)
Evict(t) ==
    /\ SdAt(t, "evict")
    /\ cache' = [cache EXCEPT !.isValid = @ /\ cache.blockIndex # sdTask[t].block]
    /\ SdBecomes(t, [sdTask[t] EXCEPT !.at = "command"])
    /\ UNCHANGED <<sdProbe, card, sdOverlap>>

WriteCommand(t, accepted) ==
    /\ SdAt(t, "command") /\ sdTask[t].op # "OP_READ"
    /\ SdBecomes(t, IF ~accepted THEN Again(t)
                    ELSE [sdTask[t] EXCEPT !.at = IF sdTask[t].op = "OP_WRITE" THEN "send" ELSE "finish",
                                           !.success = sdTask[t].op = "OP_ERASE"])
    /\ card' = IF accepted /\ sdTask[t].op = "OP_ERASE" THEN [b \in Blocks |-> "erased"] ELSE card
    /\ UNCHANGED <<sdProbe, cache, sdOverlap>>

(* The data and the answer to them.  The card was not told to check the    *)
(* CRC, so that it takes a block that was disturbed.                       *)
SendBlock(t, sent, response) ==
    /\ SdAt(t, "send")
    /\ IF sent /\ response = "OK"
       THEN \E d \in {sdTask[t].data} \cup (IF Disturbed(t) THEN {"spoilt"} ELSE {}) :
              card' = [card EXCEPT ![sdTask[t].block] = d]
       ELSE UNCHANGED card
    /\ SdBecomes(t, IF ~sent \/ response = "CRC_ERROR" THEN Again(t)
                    ELSE [sdTask[t] EXCEPT !.at = IF response = "OK" THEN "finish" ELSE "done"])
    /\ UNCHANGED <<sdProbe, cache, sdOverlap>>

(* waitWhileBusy(): an erase counts as done whatever it returns. *)
FinishWrite(t, ready) ==
    /\ SdAt(t, "finish")
    /\ SdBecomes(t, Reply(t, ready \/ sdTask[t].op = "OP_ERASE"))
    /\ UNCHANGED <<sdProbe, card, cache, sdOverlap>>

SdReturn(t) ==
    /\ SdAt(t, "done")
    /\ SdBecomes(t, NoSdCall)
    /\ UNCHANGED <<sdProbe, card, cache, sdOverlap>>

---------------------------------------------------------------------------
SdCardInit ==
    /\ cardKind \in {"empty", "old", "sdsc", "sdhc"}
    /\ sdInit = [at |-> "reset", tries |-> 0, restarts |-> 0]
    /\ card = [b \in Blocks |-> "erased"]
    /\ cache = [isValid |-> FALSE, blockIndex |-> 0, block |-> "erased", holds |-> NumBlocks]
    /\ sdOverlap = FALSE
    /\ sdTask = [t \in SdTasks |-> NoSdCall]

SdTaskStep(t) ==
    \/ Lookup(t) \/ Commit(t) \/ CopyOut(t) \/ Evict(t) \/ SdReturn(t)
    \/ \E ok \in BOOLEAN : ReadCommand(t, ok) \/ WriteCommand(t, ok) \/ FinishWrite(t, ok)
    \/ \E outcome \in {"ok", "lost", "early"} : Receive(t, outcome)
    \/ \E sent \in BOOLEAN, response \in {"OK", "CRC_ERROR", "other"} : SendBlock(t, sent, response)

SdNext ==
    \/ SdProbeStep
    \/ \E t \in SdTasks, op \in {"OP_READ", "OP_WRITE", "OP_ERASE"},
          b \in Blocks, n \in 1 .. NumBlocks, data \in BlockContents : SdCall(t, op, b, n, data)
    \/ \E t \in SdTasks : SdTaskStep(t)

SdSpec == SdCardInit /\ [][SdNext]_sdVars
          /\ WF_sdVars(SdProbeStep) /\ \A t \in SdTasks : WF_sdVars(SdTaskStep(t))

---------------------------------------------------------------------------
Operations == {"OP_IDLE", "OP_READ", "OP_WRITE", "OP_ERASE"}

SdTypeOK ==
    /\ cardKind \in {"empty", "old", "sdsc", "sdhc"}
    /\ sdInit.at \in DOMAIN MaxTries \cup {"none", "ready"}
    /\ sdInit.restarts \in 0 .. MaxRestarts /\ sdInit.tries \in Nat
    /\ card \in [Blocks -> CardStates]
    /\ cache \in [isValid : BOOLEAN, blockIndex : Blocks, block : CardStates, holds : 0 .. NumBlocks]
    /\ sdOverlap \in BOOLEAN
    /\ sdTask \in [SdTasks ->
          [at : {"idle", "lookup", "evict", "command", "receive", "commit", "copy", "send", "finish", "done"},
           op : Operations, block : Blocks, left : 0 .. NumBlocks, data : CardStates, sends : BOOLEAN,
           retries : 0 .. MaxSdRetries, success : BOOLEAN]]

(* Only a card with a high capacity is used, although the check of the OCR *)
(* register is skipped for a card that stays idle.                         *)
OnlyLargeCards == sdInit.at = "ready" => cardKind = "sdhc"

(* As long as the calls of the tasks do not overlap, what littlefs is told *)
(* was read or written is what the card holds, whatever stayed in the cache*)
(* when a sector was erased under it.                                      *)
SdDoesAsTold ==
    ~sdOverlap =>
        LET c == sdTask["fs"] IN
        SdAt("fs", "done") /\ c.success /\ c.op # "OP_ERASE" => card[c.block] = c.data

(* Looking for a card ends, and so does every call. *)
SdCallsEnd ==
    /\ <>(sdInit.at \in {"none", "ready"})
    /\ \A t \in SdTasks : sdTask[t].at # "idle" ~> sdTask[t].at = "idle"

=============================================================================
