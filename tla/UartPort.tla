------------------------------ MODULE UartPort ------------------------------
(***************************************************************************)
(* The UARTs of the STM32 builds: their configuration at boot, and one     *)
(* port with the task that writes to it, the task that reads from it and   *)
(* the interrupt handler, which no task can interrupt.  The handler and    *)
(* the tasks share the ring buffers of RingBuffer, here as the numbers of  *)
(* bytes in them, one flag of the control register, and two event flags    *)
(* that a wait clears.                                                     *)
(***************************************************************************)
EXTENDS Naturals, FiniteSetsExt

CONSTANTS
    NumPhys,    \* NUM_PHY_UARTS; the traffic is on the first of them
    RingSize,   \* DMA_BUFFER_SIZE, in bytes
    MaxWrite,   \* bound: the longest message that is written at once
    ReadSize    \* the size of the buffer of the reading task

ASSUME UartAssumption ==
    /\ NumPhys \in Nat \ {0} /\ RingSize \in Nat \ {0, 1}
    /\ MaxWrite \in Nat \ {0} /\ ReadSize \in Nat \ {0}

Room == RingSize - 1
Phys == 1 .. NumPhys

VARIABLES
    phy,          \* what configure_uart_phy() has set up of each UART
    numPhys,      \* how many UARTs are configured
    uartInit,     \* init() runs, or what it returned
    txRing, rxRing,              \* bytes in tx_buffer and rx_buffer
    txeie,                       \* interrupt enable of the empty data register
    uartEvents,
    tdrFull, rdrFull, overrun,   \* the data registers and ORE
    uartWriter,   \* where the writing task is, and how much is left
    uartReader    \* where the reading task is

setUp == <<phy, numPhys, uartInit>>
registers == <<txeie, tdrFull, rdrFull, overrun>>
uartTasks == <<uartWriter, uartReader>>
uartVars == <<setUp, txRing, rxRing, registers, uartEvents, uartTasks>>

---------------------------------------------------------------------------
(* What a UART has after configure_uart_phy().  HAL_UART_MspInit() gives up*)
(* early when it knows no clock, ring or DMA stream for the UART, and      *)
(* leaves what it has; whatever fails after it is followed by              *)
(* HAL_UART_MspDeInit(), which takes everything back.                      *)
NoPhy == [initialized |-> FALSE, rings |-> FALSE, irq |-> FALSE, event |-> FALSE, handle |-> FALSE]
Configured == [part \in DOMAIN NoPhy |-> TRUE]
LeftByMspInit == [NoPhy EXCEPT !.rings = TRUE, !.irq = TRUE]

UartsInit ==
    /\ phy = [p \in Phys |-> NoPhy]
    /\ numPhys = 0
    /\ uartInit = "running"
    /\ txRing = 0 /\ rxRing = 0
    /\ txeie = FALSE /\ tdrFull = FALSE /\ rdrFull = FALSE /\ overrun = FALSE
    /\ uartEvents = {}
    /\ uartWriter = [at |-> "idle", left |-> 0]
    /\ uartReader = "idle"

(* init() configures one UART after the other and stops at the first that  *)
(* fails; then no UART is assigned to an index, not even those that work.  *)
ConfigureUart ==
    /\ uartInit = "running"
    /\ \/ /\ numPhys' = numPhys + 1
          /\ phy' = [phy EXCEPT ![numPhys'] = Configured]
          /\ uartInit' = IF numPhys' = NumPhys THEN "mapped" ELSE "running"
       \/ /\ \E left \in {NoPhy, LeftByMspInit} : phy' = [phy EXCEPT ![numPhys + 1] = left]
          /\ uartInit' = "failed"
          /\ UNCHANGED numPhys
    /\ UNCHANGED <<txRing, rxRing, registers, uartEvents, uartTasks>>

---------------------------------------------------------------------------
(* write(): a task that writes to a UART that is not assigned returns.     *)
WriteUart(size) ==
    /\ uartInit = "mapped"
    /\ uartWriter.at = "idle"
    /\ uartWriter' = [at |-> "push", left |-> size]
    /\ UNCHANGED <<setUp, txRing, rxRing, registers, uartEvents, uartReader>>

PushBytes ==
    /\ uartWriter.at = "push"
    /\ LET written == Min({Room - txRing, uartWriter.left}) IN
         /\ txRing' = txRing + written
         /\ uartWriter' = [at |-> "enable", left |-> uartWriter.left - written]
    /\ UNCHANGED <<setUp, rxRing, registers, uartEvents, uartReader>>

(* Mutant: the interrupt is enabled only while nothing is being sent. *)
EnableTxeWhenIdle ==
    /\ uartWriter.at = "enable"
    /\ txeie' = (txeie \/ ~tdrFull)
    /\ uartWriter' = [uartWriter EXCEPT !.at = "wait"]
    /\ UNCHANGED <<setUp, txRing, rxRing, tdrFull, rdrFull, overrun, uartEvents, uartReader>>

EnableTxe ==
    /\ uartWriter.at = "enable"
    /\ txeie' = TRUE
    /\ uartWriter' = [uartWriter EXCEPT !.at = "wait"]
    /\ UNCHANGED <<setUp, txRing, rxRing, tdrFull, rdrFull, overrun, uartEvents, uartReader>>

AfterWait == [uartWriter EXCEPT !.at = IF uartWriter.left = 0 THEN "idle" ELSE "push"]

WaitWritten ==
    /\ uartWriter.at = "wait"
    /\ "WRITTEN" \in uartEvents
    /\ uartEvents' = uartEvents \ {"WRITTEN"}
    /\ uartWriter' = AfterWait
    /\ UNCHANGED <<setUp, txRing, rxRing, registers, uartReader>>

(* 100 ms are over. *)
WaitTimesOut ==
    /\ uartWriter.at = "wait"
    /\ uartWriter' = AfterWait
    /\ UNCHANGED <<setUp, txRing, rxRing, registers, uartEvents, uartReader>>

---------------------------------------------------------------------------
(* read() *)
ReadUart ==
    /\ uartInit = "mapped"
    /\ uartReader = "idle"
    /\ uartReader' = "wait"
    /\ UNCHANGED <<setUp, txRing, rxRing, registers, uartEvents, uartWriter>>

WaitRead ==
    /\ uartReader = "wait"
    /\ "READ" \in uartEvents
    /\ uartEvents' = uartEvents \ {"READ"}
    /\ uartReader' = "take"
    /\ UNCHANGED <<setUp, txRing, rxRing, registers, uartWriter>>

TakeBytes ==
    /\ uartReader = "take"
    /\ rxRing' = rxRing - Min({rxRing, ReadSize})
    /\ uartReader' = IF rxRing = 0 THEN "wait" ELSE "idle"
    /\ UNCHANGED <<setUp, txRing, registers, uartEvents, uartWriter>>

---------------------------------------------------------------------------
(* uart_irq_handler() reads the status once.  It looks at TXE also when    *)
(* that interrupt is disabled and a byte was received.                     *)
UartIrq ==
    /\ (txeie /\ ~tdrFull) \/ rdrFull \/ overrun
    /\ LET sends == ~tdrFull /\ txRing > 0
           empty == ~tdrFull /\ txRing = 0
       IN  /\ txRing' = IF sends THEN txRing - 1 ELSE txRing
           /\ tdrFull' = (tdrFull \/ sends)
           /\ txeie' = (txeie /\ ~empty)
           /\ uartEvents' = uartEvents \cup (IF empty THEN {"WRITTEN"} ELSE {})
                                       \cup (IF rdrFull THEN {"READ"} ELSE {})
    /\ rxRing' = IF rdrFull /\ rxRing < Room THEN rxRing + 1 ELSE rxRing
    /\ rdrFull' = FALSE
    /\ overrun' = FALSE
    /\ UNCHANGED <<setUp, uartTasks>>

(* The UART itself: a byte is on its way, a byte has arrived, which may    *)
(* happen as soon as this UART is configured.                              *)
ShiftOut ==
    /\ tdrFull
    /\ tdrFull' = FALSE
    /\ UNCHANGED <<setUp, txRing, rxRing, txeie, rdrFull, overrun, uartEvents, uartTasks>>

ByteArrives ==
    /\ phy[1] = Configured
    /\ rdrFull' = TRUE
    /\ overrun' = rdrFull
    /\ UNCHANGED <<setUp, txRing, rxRing, txeie, tdrFull, uartEvents, uartTasks>>

---------------------------------------------------------------------------
UartWriterStep == PushBytes \/ EnableTxe \/ WaitWritten
UartReaderStep == ReadUart \/ WaitRead \/ TakeBytes

UartNext ==
    \/ ConfigureUart
    \/ \E size \in 1 .. MaxWrite : WriteUart(size)
    \/ UartWriterStep \/ WaitTimesOut
    \/ UartReaderStep
    \/ UartIrq \/ ShiftOut \/ ByteArrives

(* A task that can run does so, an interrupt is taken and a byte is sent;  *)
(* nothing is expected of the other end of the line or of the timeout.     *)
UartFairness ==
    /\ WF_uartVars(UartWriterStep) /\ WF_uartVars(UartReaderStep)
    /\ WF_uartVars(UartIrq) /\ WF_uartVars(ShiftOut)

UartSpec == UartsInit /\ [][UartNext]_uartVars /\ UartFairness

---------------------------------------------------------------------------
UartTypeOK ==
    /\ phy \in [Phys -> [DOMAIN NoPhy -> BOOLEAN]]
    /\ numPhys \in 0 .. NumPhys
    /\ uartInit \in {"running", "mapped", "failed"}
    /\ txRing \in 0 .. Room /\ rxRing \in 0 .. Room
    /\ {txeie, tdrFull, rdrFull, overrun} \subseteq BOOLEAN
    /\ uartEvents \subseteq {"WRITTEN", "READ"}
    /\ uartWriter \in [at : {"idle", "push", "enable", "wait"}, left : 0 .. MaxWrite]
    /\ uartReader \in {"idle", "wait", "take"}

(* Bytes never stay in the transmit ring with the interrupt off that would *)
(* take them out, but for the moment before the writer turns it on, even   *)
(* though every received byte makes the handler look at the transmitter.   *)
NothingStranded == txRing > 0 /\ ~txeie => uartWriter.at = "enable"

(* A task never sleeps in read() beside bytes it could have, as read()     *)
(* promises.  This needs a buffer as large as the ring, as uart_rx has it. *)
NoSleepBesideBytes == uartReader = "wait" /\ rxRing > 0 => "READ" \in uartEvents

(* Every write() returns, also if its wait never timed out: the reason for *)
(* that timeout, a stalled queue, is not to be found here.                 *)
WritesReturn == uartWriter.at # "idle" ~> uartWriter.at = "idle"
=============================================================================
