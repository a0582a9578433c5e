------------------------------ MODULE DebugPort ------------------------------
(***************************************************************************)
(* The debug connection of the simulator: a TCP socket that two receivers  *)
(* and the debug task wait for, the telemetry that is sent to it, and the  *)
(* mode of operation, which follows it (hal/posix/uart.cpp, tasks/debug,   *)
(* uart_rx, mode; modules/mode.cpp).                                       *)
(***************************************************************************)
EXTENDS Naturals, FiniteSets

(* The debug task, and the receivers of the debug port and of the          *)
(* telemetry link: those that call waitUntilConnected().                   *)
Waiters == {"debug", "rxDbg", "rxTel"}
NoWaiter == "nobody"

VARIABLES
    knocking,          \* a client waits for the server to accept it
    debugClientSocket, \* "null", or the client is "there" or "gone"
    connectionLock,    \* who holds the mutex of waitUntilConnected()
    waiterAt,          \* where each waiter is
    channelOn,         \* the DEBUG bit of telemetry_channel_mask
    outbound,          \* a message for DEBUG is in out_queue
    modeChangeReasons, \* the event flags
    modeStep,          \* where updateMode() is, with the mode it has chosen
    currentMode,
    missed             \* history: a client came or went unnoticed by the debug task

connectionVars == <<knocking, debugClientSocket, connectionLock, waiterAt, missed>>
modeVars == <<modeChangeReasons, modeStep, currentMode>>
debugVars == <<connectionVars, channelOn, outbound, modeVars>>

Connected == debugClientSocket # "null"

(* The lock is static in waitUntilConnected(): one for all UARTs.          *)
IsConnected(w) == w = "rxTel" \/ Connected

DebugPortTypeOK ==
    /\ knocking \in BOOLEAN /\ channelOn \in BOOLEAN /\ outbound \in BOOLEAN /\ missed \in BOOLEAN
    /\ debugClientSocket \in {"null", "there", "gone"}
    /\ connectionLock \in Waiters \cup {NoWaiter}
    /\ waiterAt \in [Waiters -> {"wait", "accept", "read", "notify", "request",
                                 "watch", "notifyGone", "stop"}]
    /\ modeChangeReasons \subseteq {"other", "debugUart"}
    /\ modeStep \in {"wait", "look", "setMission", "setTesting"}
    /\ currentMode \in {"mission", "testing"}

DebugPortInit ==
    /\ knocking = FALSE /\ debugClientSocket = "null"
    /\ connectionLock = NoWaiter
    /\ waiterAt = [w \in Waiters |-> "wait"]
    /\ channelOn = FALSE /\ outbound = FALSE
    /\ modeChangeReasons = {"other"} /\ modeStep = "wait" /\ currentMode = "mission"
    /\ missed = FALSE

MoveTo(w, place) == waiterAt' = [waiterAt EXCEPT ![w] = place]
---------------------------------------------------------------------------
(* The client.                                                             *)
ClientKnocks ==
    /\ ~knocking
    /\ knocking' = TRUE
    /\ UNCHANGED <<debugClientSocket, connectionLock, waiterAt, channelOn, outbound, modeVars, missed>>

ClientLeaves ==
    /\ debugClientSocket = "there"
    /\ debugClientSocket' = "gone"
    /\ UNCHANGED <<knocking, connectionLock, waiterAt, channelOn, outbound, modeVars, missed>>
---------------------------------------------------------------------------
(* waitUntilConnected(): with the lock, accept() clients until connected.  *)
Lock(w) ==
    /\ waiterAt[w] = "wait" /\ connectionLock = NoWaiter
    /\ connectionLock' = w
    /\ MoveTo(w, "accept")
    /\ UNCHANGED <<knocking, debugClientSocket, channelOn, outbound, modeVars, missed>>

Accept(w) ==
    /\ waiterAt[w] = "accept" /\ ~IsConnected(w)
    /\ knocking
    /\ knocking' = FALSE /\ debugClientSocket' = "there"
    /\ missed' = (missed \/ waiterAt["debug"] \notin {"wait", "accept"})
    /\ UNCHANGED <<connectionLock, waiterAt, channelOn, outbound, modeVars>>

Unlock(w) ==
    /\ waiterAt[w] = "accept" /\ IsConnected(w)
    /\ connectionLock' = NoWaiter
    /\ MoveTo(w, IF w = "debug" THEN "notify" ELSE "read")
    /\ UNCHANGED <<knocking, debugClientSocket, channelOn, outbound, modeVars, missed>>

(* uartRxTask(): read while connected.  A client that left is no reason    *)
(* for read() to close the socket.                                         *)
StopReading ==
    /\ waiterAt["rxDbg"] = "read" /\ ~Connected
    /\ MoveTo("rxDbg", "wait")
    /\ UNCHANGED <<knocking, debugClientSocket, connectionLock, channelOn, outbound, modeVars, missed>>
---------------------------------------------------------------------------
(* debugTask().                                                            *)
Notify ==
    /\ waiterAt["debug"] \in {"notify", "notifyGone"}
    /\ modeChangeReasons' = modeChangeReasons \cup {"debugUart"}
    /\ MoveTo("debug", IF waiterAt["debug"] = "notify" THEN "request" ELSE "stop")
    /\ UNCHANGED <<knocking, debugClientSocket, connectionLock, channelOn, outbound,
                   modeStep, currentMode, missed>>

RequestTelemetry ==
    /\ waiterAt["debug"] = "request"
    /\ channelOn' = TRUE
    /\ MoveTo("debug", "watch")
    /\ UNCHANGED <<knocking, debugClientSocket, connectionLock, outbound, modeVars, missed>>

(* waitUntilDisconnected() looks every 200 ms.                             *)
NoticeGone ==
    /\ waiterAt["debug"] = "watch" /\ ~Connected
    /\ MoveTo("debug", "notifyGone")
    /\ UNCHANGED <<knocking, debugClientSocket, connectionLock, channelOn, outbound, modeVars, missed>>

(* Mutant: telemetry goes on for a client that is gone. *)
StopNothing ==
    /\ waiterAt["debug"] = "stop"
    /\ MoveTo("debug", "wait")
    /\ UNCHANGED <<knocking, debugClientSocket, connectionLock, channelOn, outbound, modeVars, missed>>

StopTelemetry ==
    /\ waiterAt["debug"] = "stop"
    /\ channelOn' = FALSE
    /\ MoveTo("debug", "wait")
    /\ UNCHANGED <<knocking, debugClientSocket, connectionLock, outbound, modeVars, missed>>
---------------------------------------------------------------------------
(* send() queues a message for the channels that are on; the uartTx task   *)
(* writes it to whatever socket there is then.                             *)
QueueReport ==
    /\ channelOn /\ ~outbound
    /\ outbound' = TRUE
    /\ UNCHANGED <<connectionVars, channelOn, modeVars>>

WriteReport ==
    /\ outbound
    /\ outbound' = FALSE
    /\ UNCHANGED <<connectionVars, channelOn, modeVars>>

(* A write to a client that has left fails sooner or later, and write()    *)
(* closes the socket.                                                      *)
WriteToGone ==
    /\ outbound /\ debugClientSocket = "gone"
    /\ outbound' = FALSE /\ debugClientSocket' = "null"
    /\ missed' = (missed \/ waiterAt["debug"] # "watch")
    /\ UNCHANGED <<knocking, connectionLock, waiterAt, channelOn, modeVars>>
---------------------------------------------------------------------------
(* updateMode(): waitAny() clears the flags it returns.  Nothing raises    *)
(* the flags for a test that the ground station asks for.                  *)
TakeReasons ==
    /\ modeStep = "wait" /\ modeChangeReasons # {}
    /\ modeChangeReasons' = {}
    /\ modeStep' = "look"
    /\ UNCHANGED <<connectionVars, channelOn, outbound, currentMode>>

ChooseMode ==
    /\ modeStep = "look"
    /\ modeStep' = IF Connected THEN "setTesting" ELSE "setMission"
    /\ UNCHANGED <<connectionVars, channelOn, outbound, modeChangeReasons, currentMode>>

SetMode ==
    /\ modeStep \in {"setTesting", "setMission"}
    /\ currentMode' = IF modeStep = "setTesting" THEN "testing" ELSE "mission"
    /\ modeStep' = "wait"
    /\ UNCHANGED <<connectionVars, channelOn, outbound, modeChangeReasons>>
---------------------------------------------------------------------------
DebugTask == Notify \/ RequestTelemetry \/ NoticeGone \/ StopTelemetry
UpdateMode == TakeReasons \/ ChooseMode \/ SetMode

DebugPortNext ==
    \/ ClientKnocks \/ ClientLeaves
    \/ \E w \in Waiters : Lock(w) \/ Accept(w) \/ Unlock(w)
    \/ StopReading \/ DebugTask
    \/ QueueReport \/ WriteReport \/ WriteToGone
    \/ UpdateMode

(* Every task gets on.  The lock is taken from tasks that leave and come   *)
(* back, so a waiter needs more than a lock that is free now and then, or  *)
(* than a connection that is there now and then when it looks; and a write *)
(* to a client that has left does not succeed for ever.                    *)
DebugPortFairness ==
    /\ \A w \in Waiters : /\ SF_debugVars(Lock(w))
                          /\ WF_debugVars(Accept(w))
                          /\ SF_debugVars(Unlock(w))
    /\ WF_debugVars(StopReading)
    /\ WF_debugVars(DebugTask)
    /\ WF_debugVars(QueueReport)
    /\ WF_debugVars(WriteReport)
    /\ SF_debugVars(WriteToGone)
    /\ WF_debugVars(UpdateMode)

DebugPortSpec == DebugPortInit /\ [][DebugPortNext]_debugVars /\ DebugPortFairness
---------------------------------------------------------------------------
(* The debug task has seen the last client come or go, and there is no     *)
(* reason left to change the mode.                                         *)
DebugIdle == IF Connected THEN waiterAt["debug"] = "watch" ELSE waiterAt["debug"] \in {"wait", "accept"}
ModeIdle == modeChangeReasons = {} /\ modeStep = "wait"

(* One task at a time is inside accept(); at rest, telemetry is sent if and*)
(* only if there is a client; and the mode is that of the connection, if no*)
(* client came or went unnoticed.                                          *)
PortAgrees ==
    /\ \A v, w \in Waiters : waiterAt[v] = "accept" /\ waiterAt[w] = "accept" => v = w
    /\ DebugIdle => (channelOn <=> Connected)
    /\ DebugIdle /\ ModeIdle /\ ~missed => currentMode = (IF Connected THEN "testing" ELSE "mission")

(* Telemetry follows the connection: a client that stays gets it, and for  *)
(* a port that stays closed nothing is sent, however often clients came    *)
(* and went before.                                                        *)
ChannelFollows ==
    /\ <>[]Connected => <>[]channelOn
    /\ <>[]~Connected => <>[]~channelOn

(* The mode follows it, too, if the debug task has noticed every client    *)
(* that came and went; the receiver of the port may accept the next client *)
(* within the 200 ms between two looks.                                    *)
ModeFollows ==
    \/ <>missed
    \/ /\ <>[]Connected => <>[](currentMode = "testing")
       /\ <>[]~Connected => <>[](currentMode = "mission")

(* A socket that its client has left does not keep the next client out.    *)
NextClientAccepted == knocking ~> (~knocking \/ debugClientSocket = "there")

(* The telemetry link is read at last, if debug clients keep coming: the   *)
(* lock is held inside accept(), so without any client whoever waits for   *)
(* one may keep the receiver of the telemetry link from its first byte.    *)
TelemetryLinkRead == []<>knocking => <>(waiterAt["rxTel"] = "read")
=============================================================================
