------------------------------ MODULE UsbPort ------------------------------
(***************************************************************************)
(* The USB port as the tasks see it, on top of UsbDevice: the receive      *)
(* buffer, which the interrupt handler fills and a task empties, and the   *)
(* write(), which hands its buffer to the controller and waits for an event*)
(* flag, but not for longer than 500 ms.                                   *)
(***************************************************************************)
EXTENDS UsbDevice, Sequences

CONSTANTS
    RxSize,      \* HL_RX_BUFFER_SIZE, in bytes
    MaxOut       \* bound: the longest packet from the host

ASSUME UsbPortAssumption == RxSize \in Nat \ {0, 1} /\ MaxOut \in Nat \ {0}

VARIABLES
    rxBuffer, rxBufferHeadPos, rxBufferTailPos,
    lastRead,      \* the byte that was read last
    rxRefused,     \* a packet did not fit since the class was set up
    usbEvents, usbWriter, usbReader,
    lateAnswer     \* a write() stopped waiting for a transfer that went on

usbRx == <<rxBuffer, rxBufferHeadPos>>
usbReading == <<rxBufferTailPos, lastRead, usbReader>>
usbWriting == <<usbEvents, usbWriter, lateAnswer>>
usbPortVars == <<usbDeviceVars, usbRx, rxRefused, usbReading, usbWriting>>

---------------------------------------------------------------------------
After(p, n) == (p + n) % RxSize
BytesAvailable(head, tail) == (head + RxSize - tail) % RxSize
Unread == [i \in 1 .. BytesAvailable(rxBufferHeadPos, rxBufferTailPos) |->
             rxBuffer[After(rxBufferTailPos, i - 1)]]

(* A byte stands for how many bytes of its packet are left with it. *)
Packet(n) == [i \in 1 .. n |-> n - i + 1]

(* CDC_Receive_FS(): the bytes are written one by one, and the last one    *)
(* that can be is the one after which the buffer looks empty; then the head*)
(* stays where it is, and the endpoint is not armed again.                 *)
Fits(n) == n < RxSize - BytesAvailable(rxBufferHeadPos, rxBufferTailPos)
Stored(n) == LET room == RxSize - BytesAvailable(rxBufferHeadPos, rxBufferTailPos)
             IN  {i \in 1 .. n : i <= room}
HeadAfter(n) == IF Fits(n) THEN After(rxBufferHeadPos, n) ELSE rxBufferHeadPos

UsbDataOut(n) ==
    /\ dev.state = "CONFIGURED" /\ dev.armed
    /\ rxBuffer' = [p \in 0 .. RxSize - 1 |->
                      LET i == BytesAvailable(p, rxBufferHeadPos) + 1
                      IN  IF i \in Stored(n) THEN Packet(n)[i] ELSE rxBuffer[p]]
    /\ rxBufferHeadPos' = HeadAfter(n)
    /\ dev' = [dev EXCEPT !.armed = Fits(n)]
    /\ rxRefused' = (rxRefused \/ ~Fits(n))
    /\ UNCHANGED <<usbSetup, ep0, usbReading, usbWriting>>

(* Mutant: a transfer counts as complete before its empty packet. *)
UsbDataInEarly(full) ==
    /\ dev.state = "CONFIGURED"
    /\ dev.sending # "nothing"
    /\ dev' = IF dev.sending = "data" /\ full THEN [dev EXCEPT !.sending = "empty"]
              ELSE [dev EXCEPT !.sending = "nothing", !.TxState = 0]
    /\ usbEvents' = IF dev.sending = "data" THEN usbEvents \cup {"WRITTEN"} ELSE usbEvents
    /\ UNCHANGED <<usbSetup, ep0, usbRx, rxRefused, usbReading, usbWriter, lateAnswer>>

(* USBD_CDC_DataIn(): data that end with a full packet are followed by an  *)
(* empty one; only after it is the transfer complete.                      *)
UsbDataIn(full) ==
    /\ dev.state = "CONFIGURED"
    /\ dev.sending # "nothing"
    /\ IF dev.sending = "data" /\ full
       THEN /\ dev' = [dev EXCEPT !.sending = "empty"]
            /\ UNCHANGED usbEvents
       ELSE /\ dev' = [dev EXCEPT !.sending = "nothing", !.TxState = 0]
            /\ usbEvents' = usbEvents \cup {"WRITTEN"}
    /\ UNCHANGED <<usbSetup, ep0, usbRx, rxRefused, usbReading, usbWriter, lateAnswer>>

---------------------------------------------------------------------------
(* read(): without a connection it returns; then it looks every 50 ms, and *)
(* does so for as long as it takes, connected or not.                      *)
UsbRead ==
    /\ usbReader.at = "idle" /\ dev.connected
    /\ usbReader' = [at |-> "poll", left |-> 0]
    /\ UNCHANGED <<usbDeviceVars, usbRx, rxRefused, rxBufferTailPos, lastRead, usbWriting>>

UsbPoll ==
    /\ usbReader.at = "poll"
    /\ Unread # <<>>
    /\ usbReader' = [at |-> "copy", left |-> Len(Unread)]
    /\ UNCHANGED <<usbDeviceVars, usbRx, rxRefused, rxBufferTailPos, lastRead, usbWriting>>

(* CDC_ReadRxBuffer_FS(), one turn of its loop *)
UsbReadByte ==
    /\ usbReader.at = "copy"
    /\ lastRead' = rxBuffer[rxBufferTailPos]
    /\ rxBufferTailPos' = After(rxBufferTailPos, 1)
    /\ usbReader' = IF usbReader.left = 1 THEN [at |-> "idle", left |-> 0]
                    ELSE [usbReader EXCEPT !.left = @ - 1]
    /\ UNCHANGED <<usbDeviceVars, usbRx, rxRefused, usbWriting>>

---------------------------------------------------------------------------
(* write() *)
UsbWrite ==
    /\ usbWriter = "idle" /\ dev.connected
    /\ usbWriter' = "submit"
    /\ UNCHANGED <<usbDeviceVars, usbRx, rxRefused, usbReading, usbEvents, lateAnswer>>

(* CDC_Transmit_FS(): the interrupt handler may have taken the class down  *)
(* since; then, and while a transfer goes on, write() returns false.       *)
UsbSubmit ==
    /\ usbWriter = "submit"
    /\ IF dev.classData /\ dev.TxState = 0
       THEN /\ dev' = [dev EXCEPT !.TxState = 1, !.sending = "data"]
            /\ usbWriter' = "wait"
       ELSE /\ usbWriter' = "idle"
            /\ UNCHANGED dev
    /\ UNCHANGED <<usbSetup, ep0, usbRx, rxRefused, usbReading, usbEvents, lateAnswer>>

UsbWritten ==
    /\ usbWriter = "wait" /\ "WRITTEN" \in usbEvents
    /\ usbEvents' = {}
    /\ usbWriter' = "idle"
    /\ UNCHANGED <<usbDeviceVars, usbRx, rxRefused, usbReading, lateAnswer>>

UsbWriteTimesOut ==
    /\ usbWriter = "wait" /\ "WRITTEN" \notin usbEvents
    /\ usbWriter' = "idle"
    /\ lateAnswer' = (lateAnswer \/ dev.sending # "nothing")
    /\ UNCHANGED <<usbDeviceVars, usbRx, rxRefused, usbReading, usbEvents>>

---------------------------------------------------------------------------
UsbPortInit ==
    /\ UsbDeviceInit
    /\ rxBuffer = [p \in 0 .. RxSize - 1 |-> 1]
    /\ rxBufferHeadPos = 0 /\ rxBufferTailPos = 0 /\ lastRead = 1
    /\ usbEvents = {} /\ rxRefused = FALSE /\ lateAnswer = FALSE
    /\ usbWriter = "idle"
    /\ usbReader = [at |-> "idle", left |-> 0]

(* The requests that matter to the port, with what they do to the device.  *)
(* No other request changes what it reads, and it does not see the control *)
(* endpoint.                                                               *)
PortRequests == {r \in Requests : r.name \in {"SET_ADDRESS", "SET_CONFIGURATION", "SET_CONTROL_LINE_STATE"}}

HostRequest(r) ==
    /\ usbSetup = "ready" /\ dev.state # "SUSPENDED"
    /\ dev' = Handled(dev, r).dev
    /\ UNCHANGED <<usbSetup, ep0>>

(* A step of the device alone.  Setting up the class arms the endpoint. *)
DeviceStep ==
    /\ \/ SetupStep
       \/ \E r \in PortRequests : HostRequest(r)
       \/ BusReset \/ Suspend \/ Resume \/ Disconnected
    /\ rxRefused' = (rxRefused /\ ~(dev'.armed /\ ~dev.armed))
    /\ UNCHANGED <<usbRx, usbReading, usbWriting>>

UsbTaskStep == UsbPoll \/ UsbReadByte \/ UsbSubmit \/ UsbWritten \/ UsbWriteTimesOut

UsbPortNext ==
    \/ DeviceStep
    \/ \E n \in 1 .. MaxOut : UsbDataOut(n)
    \/ \E full \in BOOLEAN : UsbDataIn(full)
    \/ UsbRead \/ UsbWrite \/ UsbTaskStep

UsbPortSpec == UsbPortInit /\ [][UsbPortNext]_usbPortVars

---------------------------------------------------------------------------
UsbPortTypeOK ==
    /\ UsbDeviceTypeOK
    /\ rxBuffer \in [0 .. RxSize - 1 -> 1 .. MaxOut]
    /\ {rxBufferHeadPos, rxBufferTailPos} \subseteq 0 .. RxSize - 1
    /\ lastRead \in 1 .. MaxOut /\ {rxRefused, lateAnswer} \subseteq BOOLEAN
    /\ usbEvents \subseteq {"WRITTEN"}
    /\ usbWriter \in {"idle", "submit", "wait"}
    /\ usbReader \in [at : {"idle", "poll", "copy"}, left : 0 .. RxSize - 1]

(* The task reads whole packets, in order: a packet is refused as a whole, *)
(* and none overtakes the task that is reading.                            *)
WholePackets ==
    LET stream == <<lastRead>> \o Unread
    IN  \A i \in 1 .. Len(stream) :
          stream[i] > 1 => i < Len(stream) /\ stream[i + 1] = stream[i] - 1

(* As long as the host has configured the device it can send, unless one of*)
(* its packets did not fit: then it is silenced until it configures the    *)
(* device anew, even if the task makes room.                               *)
SilencedOnlyByRefusal == dev.state = "CONFIGURED" => (dev.armed <=> ~rxRefused)

(* If write() returns true, the controller is done with its buffer, unless *)
(* an earlier write() left a transfer behind.                              *)
WrittenIsSent ==
    [][UsbWritten => dev.TxState = 0 \/ lateAnswer]_usbPortVars

=============================================================================
