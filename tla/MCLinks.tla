------------------------------ MODULE MCLinks ------------------------------
(***************************************************************************)
(* What carries data between tasks and to the outside: the queue between   *)
(* tasks, the ring buffer, a UART, the USB device with its serial port,    *)
(* and the SPI bus.  A behaviour is about one of them; the others stand    *)
(* still.  The two directions of the serial port share nothing but the     *)
(* device and have a session each.                                         *)
(***************************************************************************)
EXTENDS BlockingQueue, RingBuffer, UartPort, UsbPort, SpiBus

VARIABLE link

portVars == <<usbRx, rxRefused, usbReading, usbWriting>>
linksVars == <<link, vars, ringVars, uartVars, usbPortVars, spiVars>>

Only(l) ==
    /\ link = l /\ UNCHANGED link
    /\ l # "queue" => UNCHANGED vars
    /\ l # "ring" => UNCHANGED ringVars
    /\ l # "uart" => UNCHANGED uartVars
    /\ l \notin {"usbIn", "usbOut", "usbControl"} => UNCHANGED usbDeviceVars
    /\ l \notin {"usbIn", "usbOut"} => UNCHANGED portVars
    /\ l # "spi" => UNCHANGED spiVars

(* Bound: each sender sends messages of its own. *)
OwnMessages == \A s, t \in Senders : s # t => message[s] # message[t]

(* What a session does not look at has one value. *)
LinksInit ==
    /\ link \in {"queue", "ring", "uart", "usbIn", "usbOut", "usbControl", "spi"}
    /\ Init /\ RingInit /\ UartsInit /\ UsbPortInit /\ SpiInit
    /\ message = CHOOSE f \in [Senders -> Messages] : \A s, t \in Senders : s # t => f[s] # f[t]

LinksNext ==
    \/ Only("queue") /\ Next /\ OwnMessages'
    \/ Only("ring") /\ RingNext
    \/ Only("uart") /\ UartNext
    \/ Only("usbIn") /\ UsbPortNext /\ usbWriter' = "idle"
    \/ Only("usbOut") /\ UsbPortNext /\ usbReader'.at = "idle" /\ UNCHANGED usbRx
    \/ Only("usbControl") /\ UsbDeviceNext
    \/ Only("spi") /\ SpiNext

(* The fairness of the modules, each in its own session. *)
LinksFairness ==
    /\ \A t \in Callers : SF_vars(link = "queue" /\ Step(t))
    /\ WF_uartVars(link = "uart" /\ UartWriterStep)
    /\ WF_uartVars(link = "uart" /\ UartReaderStep)
    /\ WF_uartVars(link = "uart" /\ UartIrq)
    /\ WF_uartVars(link = "uart" /\ ShiftOut)
    /\ \A d \in SpiDevices : /\ WF_spiVars(link = "spi" /\ SpiTaskStep(d))
                             /\ SF_spiVars(link = "spi" /\ LockBus(d))

LinksSpec == LinksInit /\ [][LinksNext]_linksVars /\ LinksFairness
---------------------------------------------------------------------------
(* The queue is within its limit, the two sides of a ring keep out of each *)
(* other's bytes, no byte of a UART waits for an interrupt that is off or  *)
(* beside a task that sleeps, a packet of the USB host is taken or refused *)
(* as a whole, and a transfer on the SPI bus is with the one chip selected.*)
PortsRight ==
    /\ link = "queue" => TypeOK
    /\ link = "ring" => RingTypeOK /\ SidesApart /\ QueriesAgree
    /\ link = "uart" => UartTypeOK /\ NothingStranded /\ NoSleepBesideBytes
    /\ link \in {"usbIn", "usbOut"} => UsbPortTypeOK /\ WholePackets /\ SilencedOnlyByRefusal
    /\ link \in {"usbIn", "usbOut", "usbControl"} => ClassFollowsConfiguration /\ ControlTransfersEnd
    /\ link = "spi" => SpiTypeOK /\ OneChipListens /\ DoneMeansDone

(* The links move: a queue goes on while there is something to do, and     *)
(* every write() of a UART and every transfer() of a bus comes back, also  *)
(* if no interrupt ever ends it.                                           *)
PortCallsEnd == QueueMoves /\ WritesReturn /\ TransfersReturn
=============================================================================
