----------------------------- MODULE UsbDevice -----------------------------
(***************************************************************************)
(* The USB device of the STM32 builds: the state machine of the device     *)
(* library, its control endpoint, and the CDC class that makes the device a*)
(* serial port.  All of it runs in the interrupt handler of the controller.*)
(* Which host drives it is of no concern here, except that it sends no     *)
(* request to a suspended device: the controller reports a wake-up first.  *)
(***************************************************************************)
EXTENDS Naturals, FiniteSetsExt

CONSTANTS
    MaxPacket,     \* USB_MAX_EP0_SIZE, in bytes
    Descriptors,   \* bound: the lengths of descriptors; 0 is one we do not have
    Lengths        \* bound: values of wLength

ASSUME UsbAssumption == MaxPacket \in Nat \ {0} /\ Descriptors \subseteq Nat /\ Lengths \subseteq Nat

VARIABLES
    usbSetup,   \* how far setup() is
    dev,        \* the device handle and that of its class
    ep0         \* the control endpoint

usbDeviceVars == <<usbSetup, dev, ep0>>

---------------------------------------------------------------------------
(* Requests, with what their handlers tell apart.  A request for a         *)
(* descriptor carries the length of that descriptor as its value.          *)
Request(to, type, names, values, lengths) ==
    [to : {to}, type : {type}, name : names, value : values, len : lengths]

Requests ==
    UNION { Request("device", "standard", {"GET_DESCRIPTOR"}, Descriptors, Lengths),
            Request("device", "standard", {"SET_ADDRESS", "SET_CONFIGURATION"}, 0 .. 2, {0}),
            Request("device", "standard", {"GET_CONFIGURATION", "GET_STATUS"}, {0}, {1, 2}),
            Request("device", "standard", {"SET_FEATURE", "CLEAR_FEATURE"}, {"wakeup", "test", "other"}, {0}),
            Request("device", "standard", {"other"}, {0}, {0}),
            Request("interface", "standard", {"GET_STATUS", "GET_INTERFACE"}, {0}, {2}),
            Request("interface", "standard", {"SET_INTERFACE", "other"}, {0}, {0}),
            Request("interface", "class", {"SET_CONTROL_LINE_STATE"}, {0, 1}, {0}),
            Request("interface", "class", {"SET_LINE_CODING", "GET_LINE_CODING"}, {0}, Lengths \ {0}),
            Request("endpoint", "standard", {"SET_FEATURE", "CLEAR_FEATURE"}, {"control", "data"}, {0}),
            Request("endpoint", "standard", {"GET_STATUS"}, {"control", "data"}, {2}),
            Request("other", "standard", {"other"}, {0}, {0}) }

(* What a handler leaves behind: the device, and what the control endpoint *)
(* does next.                                                              *)
Outcome(d, answer, n) == [dev |-> d, answer |-> answer, len |-> n]
CtlError(d) == Outcome(d, "stall", 0)
CtlSendStatus(d) == Outcome(d, "STATUS_IN", 0)
CtlSendData(d, n) == Outcome(d, "DATA_IN", n)
CtlPrepareRx(d, n) == Outcome(d, "DATA_OUT", n)
Unanswered(d) == Outcome(d, "none", 0)

---------------------------------------------------------------------------
(* The CDC class.  Its data lie in static memory; they count from Init to  *)
(* DeInit, and so do its endpoints.                                        *)
ClassInit(d) == [d EXCEPT !.classData = TRUE, !.cmdOp = "other", !.TxState = 0, !.sending = "nothing",
                          !.armed = TRUE]

(* CDC_DeInit_FS() is called only if there are class data. *)
ClassDeInit(d) == [d EXCEPT !.classData = FALSE, !.connected = d.connected /\ ~d.classData,
                            !.sending = "nothing", !.armed = FALSE]

CdcSetup(d, r) ==
    IF ~d.classData THEN Unanswered(d)
    ELSE CASE r.name = "SET_CONTROL_LINE_STATE" -> Unanswered([d EXCEPT !.connected = (r.value = 1)])
           [] r.name = "GET_LINE_CODING" -> CtlSendData(d, Min({7, r.len}))
           [] r.name = "SET_LINE_CODING" -> CtlPrepareRx([d EXCEPT !.cmdOp = "other"], Min({r.len, MaxPacket}))
           [] r.name \in {"GET_STATUS", "GET_INTERFACE"} ->
                IF d.state = "CONFIGURED" THEN CtlSendData(d, IF r.name = "GET_STATUS" THEN 2 ELSE 1)
                ELSE CtlError(d)
           [] r.name = "SET_INTERFACE" -> IF d.state = "CONFIGURED" THEN Unanswered(d) ELSE CtlError(d)
           [] r.name = "CLEAR_FEATURE" -> Unanswered(d)
           [] OTHER -> CtlError(d)

---------------------------------------------------------------------------
(* Standard requests to the device *)
GetDescriptor(d, r) == IF r.value = 0 THEN CtlError(d)
                       ELSE IF r.len = 0 THEN CtlSendStatus(d)
                       ELSE CtlSendData(d, Min({r.value, r.len}))

SetAddress(d, r) ==
    IF d.state = "CONFIGURED" THEN CtlError(d)
    ELSE CtlSendStatus([d EXCEPT !.state = IF r.value = 0 THEN "DEFAULT" ELSE "ADDRESSED"])

(* USBD_MAX_NUM_CONFIGURATION is 1. *)
SetConfig(d, r) ==
    IF r.value > 1 THEN CtlError(d)
    ELSE CASE d.state = "ADDRESSED" ->
                CtlSendStatus(IF r.value = 0 THEN d
                              ELSE [ClassInit(d) EXCEPT !.config = 1, !.state = "CONFIGURED"])
           [] d.state = "CONFIGURED" ->
                CtlSendStatus(IF r.value = 1 THEN d
                              ELSE [ClassDeInit(d) EXCEPT !.config = 0, !.state = "ADDRESSED"])
           [] OTHER -> CtlError(ClassDeInit(d))

GetConfig(d, r) == IF r.len # 1 \/ d.state = "SUSPENDED" THEN CtlError(d) ELSE CtlSendData(d, 1)
GetStatus(d, r) == IF r.len # 2 \/ d.state = "SUSPENDED" THEN CtlError(d) ELSE CtlSendData(d, 2)

SetFeature(d, r) == IF r.value = "other" THEN CtlError(d)
                    ELSE CtlSendStatus([d EXCEPT !.wakeup = (d.wakeup \/ r.value = "wakeup")])
ClrFeature(d, r) == IF d.state = "SUSPENDED" THEN CtlError(d)
                    ELSE IF r.value = "wakeup" THEN CtlSendStatus([d EXCEPT !.wakeup = FALSE])
                    ELSE Unanswered(d)

StdDevReq(d, r) ==
    CASE r.name = "GET_DESCRIPTOR" -> GetDescriptor(d, r)
      [] r.name = "SET_ADDRESS" -> SetAddress(d, r)
      [] r.name = "SET_CONFIGURATION" -> SetConfig(d, r)
      [] r.name = "GET_CONFIGURATION" -> GetConfig(d, r)
      [] r.name = "GET_STATUS" -> GetStatus(d, r)
      [] r.name = "SET_FEATURE" -> SetFeature(d, r)
      [] r.name = "CLEAR_FEATURE" -> ClrFeature(d, r)
      [] OTHER -> CtlError(d)

(* A request without data that the class accepts is answered here. *)
StdItfReq(d, r) ==
    LET o == CdcSetup(d, r) IN
    IF d.state = "SUSPENDED" THEN CtlError(d)
    ELSE IF r.len = 0 /\ d.classData /\ o.answer # "stall" THEN CtlSendStatus(o.dev)
    ELSE o

(* Whether an endpoint is halted is kept by the controller. *)
StdEPReq(d, r) ==
    CASE d.state = "CONFIGURED" /\ r.name \in {"SET_FEATURE", "CLEAR_FEATURE"} -> CtlSendStatus(d)
      [] d.state = "CONFIGURED" /\ r.name = "GET_STATUS" -> CtlSendData(d, 2)
      [] d.state = "ADDRESSED" /\ r.name = "GET_STATUS" /\ r.value = "control" -> CtlSendData(d, 2)
      [] OTHER -> CtlError(d)

---------------------------------------------------------------------------
(* USBD_LL_SetupStage() *)
Handled(d, r) == CASE r.to = "device" -> StdDevReq(d, r)
                   [] r.to = "interface" -> StdItfReq(d, r)
                   [] r.to = "endpoint" -> StdEPReq(d, r)
                   [] OTHER -> CtlError(d)

Idle == [state |-> "IDLE", stalled |-> FALSE, total |-> 0, rem |-> 0, want |-> 0,
         asked |-> 0, sent |-> 0, last |-> 0]

(* A transfer starts with its first packet.  asked, sent and last record   *)
(* what the host has asked for and got, and the length of the last packet. *)
Answered(o, r) ==
    [Idle EXCEPT !.state = IF o.answer \in {"stall", "none"} THEN "SETUP" ELSE o.answer,
                 !.stalled = (o.answer = "stall"),
                 !.total = o.len, !.rem = o.len, !.want = r.len, !.asked = r.len,
                 !.sent = IF o.answer = "DATA_IN" THEN Min({o.len, MaxPacket}) ELSE 0,
                 !.last = IF o.answer = "DATA_IN" THEN Min({o.len, MaxPacket}) ELSE 0]

SetupStage(r) ==
    /\ usbSetup = "ready"
    /\ dev.state # "SUSPENDED"
    /\ dev' = Handled(dev, r).dev
    /\ ep0' = Answered(Handled(dev, r), r)
    /\ UNCHANGED usbSetup

(* USBD_LL_DataInStage() for the control endpoint: the host took a packet. *)
(* After a full last packet, fewer bytes than the host wants need an empty *)
(* packet to tell it that this was all.                                    *)
MorePackets(e) == e.rem > MaxPacket
EmptyPacket(e) == e.rem = MaxPacket /\ e.total >= MaxPacket /\ e.total < e.want
AfterPacket(e) ==
    IF MorePackets(e)
    THEN LET left == e.rem - MaxPacket IN
         [e EXCEPT !.rem = left, !.sent = @ + Min({left, MaxPacket}), !.last = Min({left, MaxPacket})]
    ELSE IF EmptyPacket(e) THEN [e EXCEPT !.want = 0, !.last = 0]
    ELSE [e EXCEPT !.state = "STATUS_OUT"]

ControlDataIn ==
    /\ ep0.state = "DATA_IN"
    /\ dev.state # "SUSPENDED"
    /\ ep0' = AfterPacket(ep0)
    /\ UNCHANGED <<usbSetup, dev>>

(* USBD_LL_DataOutStage() for the control endpoint: what the class asked to*)
(* receive is never longer than a packet.                                  *)
ControlDataOut ==
    /\ ep0.state = "DATA_OUT"
    /\ dev.state # "SUSPENDED"
    /\ dev' = IF dev.state = "CONFIGURED" THEN [dev EXCEPT !.cmdOp = "none"] ELSE dev
    /\ ep0' = [ep0 EXCEPT !.state = "STATUS_IN"]
    /\ UNCHANGED usbSetup

---------------------------------------------------------------------------
(* Events of the bus *)
BusReset ==
    /\ usbSetup = "ready"
    /\ dev' = [ClassDeInit(dev) EXCEPT !.state = "DEFAULT", !.config = 0, !.wakeup = FALSE]
    /\ ep0' = Idle
    /\ UNCHANGED usbSetup

Suspend ==
    /\ usbSetup = "ready"
    /\ dev' = [dev EXCEPT !.state = "SUSPENDED",
                          !.old = IF dev.state = "SUSPENDED" THEN dev.old ELSE dev.state]
    /\ UNCHANGED <<usbSetup, ep0>>

Resume ==
    /\ dev.state = "SUSPENDED"
    /\ dev' = [dev EXCEPT !.state = dev.old]
    /\ UNCHANGED <<usbSetup, ep0>>

(* USBD_LL_DevDisconnected() leaves the number of the configuration. *)
Disconnected ==
    /\ usbSetup = "ready"
    /\ dev' = [ClassDeInit(dev) EXCEPT !.state = "DEFAULT"]
    /\ UNCHANGED <<usbSetup, ep0>>

---------------------------------------------------------------------------
NewDevice == [state |-> "DEFAULT", old |-> "DEFAULT", config |-> 0, wakeup |-> FALSE,
              classData |-> FALSE, cmdOp |-> "none", connected |-> FALSE,
              TxState |-> 0, sending |-> "nothing", armed |-> FALSE]

UsbDeviceInit == usbSetup = "off" /\ dev = NewDevice /\ ep0 = Idle

(* USBD_Init(), USBD_RegisterClass(), USBD_CDC_RegisterInterface() and     *)
(* USBD_Start(), of which the low level driver may fail the first and the  *)
(* last.  The bus is not seen before the device is started.                *)
SetupStep ==
    /\ usbSetup = "off"
    /\ usbSetup' \in {"ready", "failed"}
    /\ UNCHANGED <<dev, ep0>>

UsbDeviceNext == \/ SetupStep
                 \/ \E r \in Requests : SetupStage(r)
                 \/ ControlDataIn \/ ControlDataOut
                 \/ BusReset \/ Suspend \/ Resume \/ Disconnected

UsbDeviceTypeOK ==
    /\ usbSetup \in {"off", "ready", "failed"}
    /\ dev \in [state : {"DEFAULT", "ADDRESSED", "CONFIGURED", "SUSPENDED"},
                old : {"DEFAULT", "ADDRESSED", "CONFIGURED"}, config : {0, 1}, wakeup : BOOLEAN,
                classData : BOOLEAN, cmdOp : {"none", "other"}, connected : BOOLEAN,
                TxState : {0, 1}, sending : {"nothing", "data", "empty"}, armed : BOOLEAN]
    /\ ep0 \in [state : {"IDLE", "SETUP", "DATA_IN", "DATA_OUT", "STATUS_IN", "STATUS_OUT"},
                stalled : BOOLEAN, total : Nat, rem : Nat, want : Nat, asked : Nat, sent : Nat, last : Nat]

(* The class is set up exactly as long as the host has configured the      *)
(* device, over suspensions, resets and configurations in any order, and   *)
(* nobody counts as connected without it.                                  *)
ClassFollowsConfiguration ==
    /\ dev.classData <=> dev.state = "CONFIGURED" \/ (dev.state = "SUSPENDED" /\ dev.old = "CONFIGURED")
    /\ dev.connected => dev.classData

(* Once the host has all of a control transfer, it got as many bytes as it *)
(* was to get, and if these are fewer than it asked for it can tell so from*)
(* a last packet that is not full.                                         *)
ControlTransfersEnd ==
    ep0.state = "STATUS_OUT" =>
        /\ ep0.sent = ep0.total
        /\ ep0.total < ep0.asked => ep0.last < MaxPacket
=============================================================================
