------------------------------- MODULE SpiBus ------------------------------
(***************************************************************************)
(* One SPI bus of the STM32 builds, with several devices on it and a task  *)
(* for each of them.  A task locks the bus, selects its chip, starts the   *)
(* transfers one by one and waits for the event flag of the interrupt      *)
(* handler, for 100 ms each; a transfer that takes longer is aborted.      *)
(***************************************************************************)
EXTENDS Naturals, FiniteSetsExt

CONSTANTS
    SpiDevices,    \* the devices on the bus, each used by a task of its own
    NoDevice,      \* none of them
    MaxTransfers,  \* bound: the transfers of a sequence
    PeripheralClock, ClockSpeeds   \* bound: the clock, the speeds asked for

ASSUME SpiAssumption == NoDevice \notin SpiDevices /\ MaxTransfers \in Nat \ {0} /\ PeripheralClock \in Nat /\ ClockSpeeds \subseteq Nat

VARIABLES
    spiState,      \* what init() made of the bus
    spiKernel,     \* whether the scheduler runs; before, init() is the only task
    in_use,        \* the task that holds the lock of the bus
    selected,      \* the chips whose select line is low
    inFlight,      \* the device the controller is exchanging bytes with
    spiEvents,
    spiTask,       \* for each device, where transfer() is
    last_hal_status,
    lateDone       \* a transfer ended between its timeout and its abort

spiBus == <<spiState, spiKernel>>
spiVars == <<spiBus, in_use, selected, inFlight, spiEvents, spiTask, last_hal_status, lateDone>>

---------------------------------------------------------------------------
(* setClockSpeed() halves the clock once, twice, ... and up to eight times,*)
(* until it is not above the speed.                                        *)
ClockSet(speed) == \E i \in 1 .. 8 : PeripheralClock \div 2 ^ i <= speed

(* HAL_SPI_MspInit() gives up when a clock or a DMA stream fails, with the *)
(* clock, the pins and the interrupt set up; nobody takes those back.      *)
MspInit == {"unfinished", "initialized"}

(* HAL_SPI_MspDeInit() takes back a bus that was set up. *)
MspDeInit == "failed"

(* configure_spi_bus(): the bus may lack its event flags, or the speed be  *)
(* too low.                                                                *)
ConfigureSpi(speed) ==
    /\ spiState = "new" /\ ~spiKernel
    /\ \E set \in MspInit, event \in BOOLEAN :
         spiState' = IF set = "initialized" /\ (~event \/ (speed # 0 /\ ~ClockSet(speed)))
                     THEN MspDeInit ELSE set
    /\ UNCHANGED <<spiKernel, in_use, selected, inFlight, spiEvents, spiTask, last_hal_status, lateDone>>

StartKernel ==
    /\ spiState # "new"
    /\ spiKernel' = TRUE
    /\ UNCHANGED <<spiState, in_use, selected, inFlight, spiEvents, spiTask, last_hal_status, lateDone>>

(* transfer() before the scheduler runs, with the chip selected meanwhile. *)
PollingTransfer(d, status) ==
    /\ spiState = "initialized" /\ ~spiKernel
    /\ spiTask' = [spiTask EXCEPT ![d].success = (status = "HAL_OK")]
    /\ last_hal_status' = status
    /\ UNCHANGED <<spiBus, in_use, selected, inFlight, spiEvents, lateDone>>

---------------------------------------------------------------------------
NoTransfer == [at |-> "idle", left |-> 0, success |-> FALSE, status |-> "HAL_OK"]

Goto(d, at) == [spiTask EXCEPT ![d].at = at]

(* transfer() of n pieces, one after the other, with the chip selected     *)
(* throughout.                                                             *)
Transfer(d, n) ==
    /\ spiState = "initialized" /\ spiKernel
    /\ spiTask[d].at = "idle"
    /\ spiTask' = [spiTask EXCEPT ![d] = [NoTransfer EXCEPT !.at = "lock", !.left = n]]
    /\ UNCHANGED <<spiBus, in_use, selected, inFlight, spiEvents, last_hal_status, lateDone>>

LockBus(d) ==
    /\ spiTask[d].at = "lock"
    /\ in_use = NoDevice
    /\ in_use' = d
    /\ selected' = selected \cup {d}
    /\ spiTask' = Goto(d, "start")
    /\ UNCHANGED <<spiBus, inFlight, spiEvents, last_hal_status, lateDone>>

(* HAL_SPI_TransmitReceive_IT() and ..._DMA(): refused while the controller*)
(* is busy.                                                                *)
StartTransfer(d) ==
    /\ spiTask[d].at = "start"
    /\ IF inFlight = NoDevice
       THEN /\ inFlight' = d
            /\ spiTask' = Goto(d, "wait")
       ELSE /\ spiTask' = [spiTask EXCEPT ![d].at = "release", ![d].status = "HAL_BUSY"]
            /\ UNCHANGED inFlight
    /\ UNCHANGED <<spiBus, in_use, selected, spiEvents, last_hal_status, lateDone>>

(* The wait clears both flags; an error counts more than an end. *)
TransferAnswered(d) ==
    /\ spiTask[d].at = "wait"
    /\ spiEvents # {}
    /\ spiEvents' = {}
    /\ spiTask' = IF "ERROR" \in spiEvents THEN Goto(d, "abort")
                  ELSE IF spiTask[d].left > 1
                  THEN [spiTask EXCEPT ![d].at = "start", ![d].left = @ - 1]
                  ELSE [spiTask EXCEPT ![d].at = "release", ![d].success = TRUE]
    /\ UNCHANGED <<spiBus, in_use, selected, inFlight, last_hal_status, lateDone>>

TransferTimesOut(d) ==
    /\ spiTask[d].at = "wait"
    /\ spiEvents = {}
    /\ spiTask' = Goto(d, "abort")
    /\ UNCHANGED <<spiBus, in_use, selected, inFlight, spiEvents, last_hal_status, lateDone>>

(* Mutant: a transfer that failed is not aborted. *)
AbortForgotten(d) ==
    /\ spiTask[d].at = "abort"
    /\ spiTask' = Goto(d, "release")
    /\ UNCHANGED <<spiBus, in_use, selected, inFlight, spiEvents, last_hal_status, lateDone>>

AbortTransfer(d) ==
    /\ spiTask[d].at = "abort"
    /\ inFlight' = NoDevice
    /\ spiTask' = Goto(d, "release")
    /\ UNCHANGED <<spiBus, in_use, selected, spiEvents, last_hal_status, lateDone>>

ReleaseChip(d) ==
    /\ spiTask[d].at = "release"
    /\ selected' = selected \ {d}
    /\ spiTask' = Goto(d, "unlock")
    /\ UNCHANGED <<spiBus, in_use, inFlight, spiEvents, last_hal_status, lateDone>>

UnlockBus(d) ==
    /\ spiTask[d].at = "unlock"
    /\ in_use' = NoDevice
    /\ spiTask' = Goto(d, "report")
    /\ UNCHANGED <<spiBus, selected, inFlight, spiEvents, last_hal_status, lateDone>>

(* The status of the bus is stored without its lock. *)
ReportStatus(d) ==
    /\ spiTask[d].at = "report"
    /\ last_hal_status' = spiTask[d].status
    /\ spiTask' = Goto(d, "idle")
    /\ UNCHANGED <<spiBus, in_use, selected, inFlight, spiEvents, lateDone>>

(* An interrupt of the bus, or of one of its DMA streams, reaches the bus  *)
(* through the table in which HAL_SPI_MspInit() enters it.                 *)
Entered == spiState = "initialized"

(* HAL_SPI_TxRxCpltCallback() and HAL_SPI_ErrorCallback() *)
SpiIrq(event) ==
    /\ Entered
    /\ inFlight # NoDevice
    /\ lateDone' = (lateDone \/ spiTask[inFlight].at # "wait")
    /\ inFlight' = NoDevice
    /\ spiEvents' = spiEvents \cup {event}
    /\ UNCHANGED <<spiBus, in_use, selected, spiTask, last_hal_status>>

---------------------------------------------------------------------------
SpiInit ==
    /\ spiState = "new" /\ spiKernel = FALSE
    /\ in_use = NoDevice /\ selected = {} /\ inFlight = NoDevice
    /\ spiEvents = {} /\ lateDone = FALSE /\ last_hal_status = "HAL_OK"
    /\ spiTask = [d \in SpiDevices |-> NoTransfer]

SpiTaskStep(d) ==
    \/ LockBus(d) \/ StartTransfer(d) \/ TransferAnswered(d) \/ TransferTimesOut(d)
    \/ AbortTransfer(d) \/ ReleaseChip(d) \/ UnlockBus(d) \/ ReportStatus(d)

SpiNext ==
    \/ \E speed \in ClockSpeeds : ConfigureSpi(speed)
    \/ StartKernel
    \/ \E d \in SpiDevices, status \in {"HAL_OK", "HAL_ERROR"} : PollingTransfer(d, status)
    \/ \E d \in SpiDevices, n \in 1 .. MaxTransfers : Transfer(d, n)
    \/ \E d \in SpiDevices : SpiTaskStep(d)
    \/ \E event \in {"DONE", "ERROR"} : SpiIrq(event)

(* The mutex makes a task wait in line, so that each one gets its turn. *)
SpiFairness == \A d \in SpiDevices : WF_spiVars(SpiTaskStep(d)) /\ SF_spiVars(LockBus(d))

SpiSpec == SpiInit /\ [][SpiNext]_spiVars /\ SpiFairness

---------------------------------------------------------------------------
SpiTypeOK ==
    /\ spiState \in {"new", "unfinished", "failed", "initialized"} /\ spiKernel \in BOOLEAN
    /\ {in_use, inFlight} \subseteq SpiDevices \cup {NoDevice}
    /\ selected \subseteq SpiDevices
    /\ spiEvents \subseteq {"DONE", "ERROR"} /\ lateDone \in BOOLEAN
    /\ last_hal_status \in {"HAL_OK", "HAL_BUSY", "HAL_ERROR"}
    /\ spiTask \in [SpiDevices -> [at : {"idle", "lock", "start", "wait", "abort", "release", "unlock", "report"},
                                   left : 0 .. MaxTransfers, success : BOOLEAN, status : {"HAL_OK", "HAL_BUSY"}]]

(* Two chips never listen at the same time, and the one that bytes are     *)
(* exchanged with is selected all the while, unless an end that came too   *)
(* late for one transfer was taken for that of the next.                   *)
OneChipListens ==
    /\ Cardinality(selected) <= 1
    /\ inFlight # NoDevice /\ ~lateDone => selected = {inFlight}

(* What transfer() reports as done is done, under the same condition. *)
DoneMeansDone ==
    ~lateDone => \A d \in SpiDevices :
                    spiTask[d].at = "release" /\ spiTask[d].success => inFlight = NoDevice

(* Every transfer() returns, also without any answer from the device. *)
TransfersReturn == \A d \in SpiDevices : spiTask[d].at # "idle" ~> spiTask[d].at = "idle"
=============================================================================
