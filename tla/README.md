# Formal model of the TELLER on-board computer

This directory holds TLA+ models of the on-board computer software in `src/`, the TLC configurations
that check them, and proofs for TLAPS. Paths below are relative to `src/src/` unless they start with
`test/`. `PROJECT.json` maps every definition to the lines it stands for.

## 1. The system

The firmware runs on a sounding rocket (STM32 with CMSIS-RTOS) or as a simulator (POSIX threads).
`main.cpp` creates about twenty tasks that run for ever. They share objects at file scope; some are
guarded by a mutex, many are not. On STM32 the tasks have priorities and time slices, on POSIX none, so
the models let any task that can run take the next step. A step is what happens between two places where
another task can make a difference: a load or a store of a shared variable, a call that blocks, a call
to LittleFS, which is atomic because `littlefs-cpp` holds a mutex for each call.

| Component | State | Operations | Used by | Correct when |
|---|---|---|---|---|
| Storage areas, `modules/storage.cpp` (`FilesystemState`, `Filesystems`) | one byte of flags, the LittleFS object, two event flags | setup, mount, unmount, erase, mark errored, wait | EDR tasks, cmd, storage | flags tell the truth, no mount of a mounted area, no format under a mounted area, waiters wake |
| Experiment data recorder (EDR), `modules/edr.*` | recorder state, request queue, open log, remount counter | `manage()`, `record()`, stop, simulated error | EDR tasks; any task that logs | a running recorder has a filesystem, a stop unmounts, remounting ends |
| Storage access, `modules/storage.cpp` from line 507 | the installed operation and its position | start a raw read, a download, a listing; iterate | cmd starts, storage iterates | frames without holes, last frame marked, one operation at a time, each ends |
| Mission clock, `modules/scheduler.cpp` | two time stamps, running flag, index of next event | restart, start, stop, reset, execute pending events | pins, cmd, mission | no event forgotten or repeated, clock shows the right time |
| RXSM signals, `modules/rxsm.cpp` | voters, time stamps of edges | update at 50 Hz, vote, boot verdict | pins feeds; mission and others read | the vote is the majority, a boot in flight is recognised |
| LCLs, `modules/lcl.cpp` | pins, state machine and counters of the automatic reset | update, manual reset | mission, cmd | a triggered LCL is reset, a broken one given up, no pin held |
| Queues, `hal/queue.hpp` | items, closed flag, condition variables | send, send with timeout, send or drop, receive, clear, close | all | bounded FIFO, no lost wakeup |
| Telemetry, `modules/telem.cpp` | sequence number and its mutex, out queue, buffers, channel mask, level | `sendTo()`, `processNext()` | any task sends; uartTx writes | written in the order of sequence numbers, no buffer leaked |
| Commands, `modules/cmd.cpp` | inbound queue | receive, dispatch, answer | UART receivers, cmd | every command is answered, buffers freed |
| Errors, `modules/errors.cpp` | set of codes, the single code shown | set, clear, get | any | the code shown depends on the set only |
| Supervisor, `modules/supervisor.cpp` | registry of tasks and queues | register, nudge, check | any; supervisor at 1 Hz | stalled tasks and full queues are reported |
| Watchdog and crash reports, `modules/debug.cpp`, `system` | stage of the boot, memory that survives a reset | boot, fatal errors, feeding, the report | supervisor, debug task, handlers | a hanging board is reset, a living one spared, the right crash reported |
| Mode and debug connection, `modules/mode.cpp`, `tasks/debug.cpp`, `hal/posix/uart.cpp` | socket, its mutex, mode | accept, disconnect, update | two receivers and the debug task | a new client gets in, telemetry and mode follow |
| UART receivers, parser and codecs, `modules/uart_rx.cpp`, `core/telem` | parser state, buffer | feed, serialize, validate | receiver tasks | only messages that were sent get through, and mean what was meant |
| Core utilities, `core/utils`, `core/math` | block cache, histogram, running mean | pure functions mostly | drivers, SCM, sensors | agree with their definitions |
| GMM, SCM, sensors | parser, last measurement, configuration of the chips | read, calibrate, log, send | one task each | what is reported was measured, a sensor that runs is configured |
| Log, `modules/log.*` | a buffer for each logger, one shared payload | write | any | messages are not mixed |
| Memories, `drivers/flashmem`, `drivers/sdcard` | chip or card, block cache | read, write, erase, probe | littlefs, storage task | what littlefs is told is what the chip holds |
| Buses and ports, `hal/stm32/{spi,uart,usb}`, `lib/lwrb`, `lib/usb-cdc` | ring buffers, locks, flags of interrupts, USB state | write, read, transfer, interrupt handlers | the tasks of their device | nothing lost, reordered or stranded; calls come back |

They interact by calls into each other's shared state (cmd and pins into the scheduler; mission into the
LCLs), by queues (every task to uartTx and to the recorders), by event flags (storage area to EDR task),
and by callbacks (the recorder calls the task that manages it when it starts).

The hard parts are interleavings of tasks on unguarded state, time stamps that are read once and used
later, a device that fails at any of several steps, queues that are full, and a boot in the middle of the
flight. `PROJECT.json` lists each hazard at its line, also those no property covers yet, with the reason.

## 2. Modules

Modules that are small share a run: `MCFlight`, `MCLinks`, `MCModules` and `MCGround` each have a
variable that says which session a behaviour is about; what the session does not look at stands still.
The properties of a session are those of its module, and each module keeps its own specification
(`...Spec`, with the variables prefixed) for reading and for proofs.

### Storage area and recorder: `FilesystemState`, `StorageArea`, `StorageAreaProofs`, `LogFiles`

`FilesystemState` is one area. `flags` is the byte `_flags`; each `|=` and `&=` is a load into `tmp` and
a store. `lfs` and `formatted` say what LittleFS and the device really are. `StorageArea` EXTENDS it with
the tasks: the EDR task (`manage()` and `_run()`: `recState`, `queue`, `maybeError`, `hasIoError`,
`remountCounter`), the cmd task (MOUNT, UNMOUNT, ERASE, SIMULATE_ERROR), the storage task, which
sets the area up at boot, and producers of log records. `pc[t]` is the place of a task, `call[t]` the
storage function it is in. `Careful` is an assumption on the operator: MOUNT and ERASE are sent only
after boot and when the area says that it is unmounted. The models without it show that the code relies on
it (see the hazards at `storage.cpp`). `LogFiles` is what a recorder leaves on the medium: the numbered
logs, LASTLOG.TXT, the periodic sync, operations that fail and a power that may fail between any two.

### Mission clock: `MissionClock`, `MissionStopwatch`

Every store of a method of `Scheduler` is a step. The pins task restarts and stops the clock with the
vote on SOE, cmd starts, stops and resets it, the mission task executes what is due; `elapsedTime` is its
local copy of the time and `reg` holds the index between load and store of `nextEventIndex++`.
`executed` and `picked` are history variables. `MCEvents` is a table of the shape of `eventsRelativeToSOE`. `MissionStopwatch` runs an ideal stopwatch beside it.

### Signals and LCLs: `RxsmSignals`, `LclAutoReset`, `BootInFlight`, `MCFlight`, `FlightProofs`

`RxsmSignals` keeps the five-bit history of each voter and evaluates the magic number of
`majority_voter.h` bit by bit; `samples` is what was fed, for the reference definition of a majority.
`FlightProofs` holds the proofs of all sessions of `MCFlight`, the mission clock and the logs among them.
`LclAutoReset` is the state machine of every LCL with a tick of 100 ms, the period of the mission task
and the length of a pulse; time stamps are ages that stop at the longest delay, `nowAge` is how stale
`now` is. `BootInFlight` composes both: the inputs of the LCL logic are the votes and the verdict, read
between any two steps of the pins task.

### Links: `BoundedFifo`, `BlockingQueue`, `ByteFifo`, `RingBuffer`, `UartPort`, `UsbDevice`, `UsbPort`, `SpiBus`, `MCLinks`, `LinksProofs`

`BoundedFifo` and `ByteFifo` say what a queue of messages and a ring of bytes promise. `BlockingQueue` is
the POSIX class with its mutex, two condition variables, spurious wakeups, timeouts and `close()` that
takes no mutex; `RingBuffer` is lwrb, with the loads and stores of its two pointers interleaved. Both are
shown to implement their promise through a refinement mapping. On STM32 the queue is one of CMSIS-RTOS.
`UartPort` has the writer, the reader and the interrupt handler of a UART, which share the rings (as
numbers of bytes), one interrupt enable and two event flags, besides the set-up at boot that may fail
half way. `UsbDevice` is the device library and the CDC class under any host (configurations, resets,
suspensions, control transfers packet by packet); `UsbPort` is the serial port on top of it. `SpiBus` is a
bus with the lock, the chip selects and the transfers of several devices, their timeouts, aborts and
interrupts.

### Modules above the links: `FlashMemory`, `SdCard`, `SensorChips`, `ImuCalibration`, `Scintillators`, `Varuint`, `GeigerCounters`, `FrameParser`, `CommandIntake`, `ErrorFlags`, `Supervisor`, `Watchdog`, `MCModules`, `ModulesProofs`, `DriverProofs`

`FlashMemory` and `SdCard` are a driver with its chip: a transfer may fail after the chip has obeyed, and
two tasks call the driver past each other's locks. `SensorChips` configures IMU, magnetometer and ADC
register by register with transfers that fail; `ImuCalibration` is the calibration with the cmd task that
starts it. `Scintillators` packs histograms byte by byte with `Varuint` and cuts them into fragments;
`GeigerCounters` parses NMEA sentences from broken streams. `FrameParser` feeds any bytes to the parser;
`CommandIntake` takes it from the parsed frame to the answer, with the copies of payloads on the heap and
the cases of `processPacket()` that fall through. `ErrorFlags` has the loads and stores of the set of
codes under its mutex, and the readers without it; `Supervisor` the nudges and checks, also without a
lock. `Watchdog` is the board from power on through boot, crash and reset to the report of the crash.

### What ground control sees: `Telemetry`, `TelemetryReports`, `StorageReader`, `MCStorageReader`, `StorageReaderProofs`, `FrameCodecs`, `LogMessages`, `DebugPort`, `MCGround`, `GroundProofs`

`Telemetry` is `sendTo()` step by step: allocate, draw a number under the mutex, enqueue or time out,
free. `sending[t]` is the place of each sender, `buffers` counts the allocations, `order` is the history
of who drew a number. `StorageReader` EXTENDS it with the cmd task that starts operations and the storage
task that runs them. `heap[r]` is the object of request `r`, `_operation` the pointer of the manager.
Every load and store of that pointer is a step. What deleted objects hold: the cmd task may read any
answer from one; the storage task, whose last look follows within a few instructions, still finds it
cancelled. A listing whose object was deleted while its last frame was sent goes on or takes the task
down (`"crashed"`), as the builds do. `unique_ptr::reset()` is one step.

`TelemetryReports` is the table of periodic reports with one counter each, to which other tasks store
between the load and the store of the increment. `LogMessages` is what several tasks log through several
loggers. `FrameCodecs` has the layout of every payload as the sender writes it, the check of the receiver
and what the receiver reads; a word is the sequence of its bytes. Which data a frame may carry is said by
`AckData`, `AdcData` and so on; the constant `FrameData` picks the data that are sent, for TLC those of
`MCFrameData`: what is at the limit of a field, just beyond it, or not in an enumeration. `DebugPort` is the TCP connection of the
simulator, the tasks that wait for it under one mutex, and the mode that follows it.

## 3. What the runs check

Each property has a mutant: a definition of the model changed as a plausible bug would, under which the
run finds the property violated. Mutants stand beside the definitions they replace.

| Run | Question | Result |
|---|---|---|
| `storage_area_faults` | device failures in any operation, in flight, with stop and simulated errors: flags, recorder, events, remounting | holds |
| `storage_area_operator` | an operator who is careful mounts, unmounts and erases, with a device that may fail: formats, stops, remounts, commands return | holds |
| `storage_area_remount_retry` | does every automatic remount ask the device? | **violated**: after one failure the area is marked errored and the other attempts return at once |
| `mission_clock_races` | votes that change at any time, commands, slow events: no event forgotten or out of order | holds |
| `mission_clock_restart` | does a restart execute the whole table? | **violated**: `nextEventIndex++` after a blocking event skips the first event of the new run |
| `boot_in_flight_race` | is a boot in flight recognised for every LCL? | **violated**: mission may look between LO and SODS |
| `storage_reader` | downloads and listings that share the out queue with others, with refused frames and failing reads | holds |
| `storage_listing` | is there one operation at a time? | **violated**: a listing counts as ended while its last frame is still sent, and a new request deletes it |
| `flight` | without the SOE signal the clock is a stopwatch; every sequence of samples of two signals; a broken LCL and one that triggers at will, manual resets, liftoffs that end; log files under failures of filesystem and power | holds |
| `links` | queue and ring buffer implement their promises; UART, USB and SPI with interrupts at any time, timeouts, aborts and resets of the bus | holds |
| `modules` | memories, sensors, calibration, detectors, parser, commands, error flags, supervisor and watchdog, each with the faults it meets | holds |
| `ground` | every kind of frame, cut off or not; texts of two tasks; periodic reports with requests from other tasks; clients of the debug port that come and go | holds |

Properties that hold only in part say so: `ParsedAsReceived` has one UART, because two receiver tasks
share a buffer (`uart_rx.cpp:29`); `TextsIntact` promises a text as telemetry only if no other logger is
used meanwhile, because all loggers share one payload, although `log.h:38` calls them thread-safe;
`PayloadsAccounted` counts the copies that `cmd.cpp:154` leaks when the inbound queue is full;
`OneChipListens` and `DoneMeansDone` exclude a transfer that ends between its timeout and its abort
(`lateDone`); `LogsKept` excludes a failed `stat()` of LASTLOG.TXT, after which the code numbers from the
start. `FrameCodecs` shows that `validateEncodedBinaryDataFrame()` refuses the short last fragments could take. `voltageLogRecord` in `telem.cpp:112` lists 14 labels for 8
values; layouts of log records are not modelled.

Bounds, and why they are enough:

- *Storage area*: one producer, a queue of two, two remounts. Two entries are the least with a full queue
  and something in front of a sentinel; two remounts are the least with a first and a later attempt;
  producers are alike, and one plus the recorder's own callbacks already fills the queue.
- *Mission clock*: three events (one at zero, a flagged one, two at the same time), two or three changes of SOE, clock
  words of 2 to 8 values, so that they wrap in the races run. Time stops at `MaxTime`; `Word` stands for 2^32.
- *Voters*: all histories of five samples occur; times up to 8 sample periods with a window of 5.
- *LCLs*: two LCLs, delays that keep the order of the real ones (recovery > delay before > delay after),
  two automatic resets instead of ten. Ages stop at the sum of all delays, beyond which nothing changes.
- *Log files*: two logs and three records with a sync after one: a log is opened over an earlier one, and
  records before and after a sync exist at a power failure.
- *Links*: two tasks on each side of the queue, two messages, a limit of two, so that a woken task can be
  overtaken and both ends have sleepers; a ring of three cells (it wraps, is full and is empty); a UART ring
  of four bytes with writes longer than it; USB packets of two bytes, so that lengths below, at and above a
  whole packet occur; two SPI devices and sequences of two transfers.
- *Modules*: one page or two blocks, as many retries as distinguish a first, a later and a last attempt; SPI
  faults and scans up to two; histograms of three values in fragments of two bytes, with values that need
  one to three bytes; sentences one longer than the buffer; frames with one byte of payload; an inbound queue of one
  with a heap of two. A watchdog of three seconds against a lag of one: the order of the real values.
- *Ground*: two reports with periods 2 and 3; two tasks and two loggers; a payload of 32 bytes instead of
  63, in which all frames of a fixed size fit (`CodecAssumption`).
- *Storage reader*: two requests (one can overlap the end of the other), operations of two frames, an out
  queue of one and one mishap. `MaxMishaps` bounds refused frames, failed reads and failed allocations
  together. `IndexWord` with `ReaderAssumption` keeps lengths below 256 fragments: the code does not
  check this, and longer transfers wrap the index (a hazard in the list).

`CHECK_DEADLOCK FALSE` is set only where a model ends: when time or the records of a session end, when
both requests of the reader are answered or the storage task crashed, and in sessions about a component
that a failed set-up leaves unused.

Fairness: weak fairness of each task, because every task loops for ever and the schedulers run every task
that can run (those of higher priority wait for time or input in each round). It is strong only where a
task competes for a mutex or a chip: a step of `BlockingQueue`, `DrawNumber` in the telemetry, `LockBus`, the flash
driver and the mutex of the debug port, because mutexes hand over to waiting tasks in the end. Interrupts
that are pending are taken, a UART sends, a busy chip becomes ready. Nothing is assumed of ground control, of the producers of records,
of the USB host or of faults, but for `Broken` LCLs, which trigger again. `EveryOperationEnds` rests on the bound on
mishaps: with a device that fails for ever a raw read is repeated for ever. `WritesReturn` assumes no timeout, so it shows that
the timeout of `write()` is not needed; `TransfersReturn` assumes no interrupt, so it shows that its timeout is enough.

## 4. What is proved

TLAPS proves these for every value of the constants that meets the named assumptions: the ASSUMEs of the
modules, which TLC evaluates in each run, and the hypotheses of the theorems named below. Assumptions
type the constants and say what the code's own tables satisfy: the registers and fields of the chips are
finite, `Order` names the signals of `update()`, the replies of `ReaderAssumption` fit the byte that
numbers their frames.

- `StorageAreaProofs`: `TypeCorrect`. `FlightFlagAgrees`, `FlightRecorderSafe`, `FlightWakeupsKept`,
  `FlightMountsUnmounted` and `FlightErroredNotMounted`, in flight (NORMAL boot, no MOUNT or ERASE command)
  and for any number of producers and any faults: the flag agrees with LittleFS, a recorder has its
  filesystem, no wakeup is lost, `lfs_mount()` meets an unmounted area, and never one marked as errored.
  The properties are not inductive: that the flag survives needs that only one task at a time is
  between a load and a store. `FlagWriters` says that the storage task writes the
  flags only until it has stored MOUNTED, while the EDR task waits; `EdrAgrees` says for each place of the
  EDR task what it finds. `IInv` is their conjunction with `TypeOK` and `NoLostWakeup`; the proof has a
  lemma per task and a step per place.
  `CarefulFormatsUnmounted`, `CarefulMountsUnmounted` and `CarefulSafe` are of the other setting, the one of run
  `storage_area_operator`: MOUNT, UNMOUNT and ERASE under `Careful`, any boot mode, and a device that may fail to be set
  up, to mount and to format. There the storage task and then the cmd task mount (`InTurn`), the EDR task only
  unmounts (`EdrUnmounts`), and a task that is about to format or mount knows that the flag is not set, and hence
  that LittleFS is not mounted (`OwnsArea`, `LfsAgrees`). If writes fail too, the EDR task mounts again at any
  moment and this is lost.
- `FlightProofs`, on the session specification `FlightSpec` or, for the first, the clock's own:
  - `TypeCorrect`, `NoEventForgotten`, `EventsTakenInOrder`, for any table sorted by time. The
    strengthening `Cursor` relates the index, the event in the mission task's register and what was
    executed, place by place; while the mission task is busy, others can only move the index back.
  - `ClockCorrect` (`MaxChanges = 0`: SOE stays off, ground control is the only caller, the setting
    of the property): scheduler and stopwatch agree between commands; the invariant says at each store of a
    command what of the new setting is already stored.
  - `SignalsCorrect`, for any samples: the history of a voter is the number whose binary digits are the
    last five samples, so the bit of the magic number is found among 32 cases. That the boot verdict comes early or never
    follows from time stamps that are set once per edge.
  - `LclsCorrect`, for any number of LCLs, delays and limits, if a broken LCL triggers again
    within the recovery period, that period is longer than an update of all LCLs, and ground control does not
    reset the broken ones. `UpdateAges` bounds how stale `now` gets in an update; `Counted` relates the
    counter to the history for every LCL; `Followed` says that for a broken one they are equal until the
    logic gives up, as its recovery period never ends.
  - `LogsCorrect`, for any files, records and sync interval, with a failure of any operation and of the
    power: `LogsInv` says at each place of the recorder which file is open under which number
    (`DescriptorsOK`, `NumbersOK`), that what is queued, buffered and on the medium is one ascending
    sequence (`RequestsOK`), and how old an unsynced record can be (`AgesOK`).
- `LinksProofs`: of the queue, `TypeCorrect`; `Implements`, that every step of the POSIX queue is a step of
  the abstract one or stutters (`IInv` ties the method a task is in to its place); `WakeupsKept`, by
  counting woken tasks against messages and free places, with lemmas on the cardinality of sets that lose a task.
  `RingImplements`, that the ring buffer is the buffer of `ByteFifo`: each side works within the room, or the
  bytes, it saw first, which the other side only makes larger, and what it has copied so far is what the memory holds
  (`WithinRoom`, `WithinBytes`, `WrittenThere`, `CopiedThere`).
  `LinksCorrect`, all of `PortsRight`, for any sizes as long
  as a UART's reader takes at least what the ring holds, as `uart_rx` does. `ReadFlagged` extends
  `NoSleepBesideBytes` to all places outside of `read()`; `OneHolder` and `InTime` say that the task with
  the lock is the one with its chip selected, and that before the first late end an event flag is for the
  transfer this task waits for. For USB, `Follows` ties the class, its endpoint and the connection to the
  configuration, `InTransfer` and `Ended` count the bytes of a control transfer, and `PacketsGoOn` says
  that in the receive buffer each byte but the last of a packet has the next one behind it.
  `WritesSent`, that a USB `write()` that returns true is over: interrupts end transfers but never start one
  (`OnlyEnds`), so until a `write()` gives up, the event flag is of the transfer it waits for (`Announced`).
- `ModulesProofs`: `ErrorsCorrect`, for any tasks and codes from 1 to 64 (the bits of the set), by what
  the holder of the mutex has loaded; `SupervisionCorrect`, if the watchdog waits more than a second longer than
  tasks of low priority are held up, by what each stage of the boot knows of the crash before it;
  `CommandsCorrect` for one UART, by counting the payloads that are queued, executed or leaked.
  `PackedUnpacks`: any histogram of 16-bit cells, packed and unpacked again, is itself. It rests on the
  integers of `Varuint` (`Decodes`: what is encoded is decoded, for values below 2^30 with up to two extra
  bytes) and goes through the codes of the histogram from the last to the first. `MeasurementsCorrect`, for any
  scintillators, cells, fragments and measurements. The invariant `ScmInv` says where in a packet the task
  is: unless a byte of the last packet was harmed, what is left of it starts within one of its integers
  (`AtInteger`), the decoder holds the bytes before (`DecoderAfter`), and the histogram and its index are
  those of the cells before that integer (`ScmBefore`), across the runs of zeros and the cells
  that saturate. The last histogram of a packet waits for the next packet (`LastWasWhole`), which is why a
  harmed byte can spoil two reports.
- `DriverProofs`:
  - `SensorsCorrect`, for any registers, fields and tries; its part about the calibration under
    `Racing = FALSE`, as the property has it. A chip's registers are right up to the one being written; a scan is whole
    because a failed transfer ends it.
  - `MemoriesCorrect`, for any pages, blocks, contents and retries: at each place of a driver's call what the
    chip and the caller's buffer hold, and, for the SD card, what the one block in the cache is of. Calls
    that the raw reads of another task cut into keep only the parts that `FlashDoesAsTold` names.
  - `StreamsCorrect`. For frames, any bytes: the state of the parser is a function of the bytes since its last
    start. The proof follows a frame byte by byte through the header, the payload and the two bytes of the
    checksum, and shows that `Reports`, which replays the parser on bytes, does what the actions do. For the
    GMM, any sentences with characters lost and added: inside a message the time kept is that of its first
    character (`StartIsKept`), and of a sentence that came in one piece so far, the message is what was sent
    (`SentenceComesIn`).
- `StorageReaderProofs`, both by one invariant over the tasks of `Telemetry` and `StorageReader`:
  `TelemetryCorrect` (the messages under way, in the queue and in the hands of the holder of the mutex, are those that
  were numbered, in order; buffers are counted against them), and `RepliesCorrect`: `Chained` says that what
  the ground station has, what is in the queue and what the running operation will send next form one
  stream of frames without a hole, across requests, refused frames and operations that are cancelled.
  `OneOperation` is violated by listings; of downloads, the part that matters is proved
  (`DownloadsUndisturbed`): no other task touches their object while a frame of theirs is sent.
- `GroundProofs`:
  - `MessagesCorrect`, all of `MessagesRight`, from `CodecAssumption` (a payload of 32 to 255 bytes, reads
    of less than 2^16) and `FrameDataAssumption` (what is sent is within the ranges of the code's structures),
    for any data in these ranges. A lemma per kind of frame (`AckRight` to `HeartbeatRight`)
    says how many bytes the encoder writes, that they fit, and, for any buffer that holds what arrived of them,
    what the validator accepts and how the decoded data agree with those sent. These rest on lemmas
    about the pieces of a frame: a half word, a word or a vector is read where it was written, flags, quarters,
    signed numbers and rounded values come back, and what lies behind the received bytes is not looked at.
    The invariant `MessagesKept` has `CodecInv` (the buffer is `Buffered` of the encoded data) and `MessagesInv`
    (the holder of a logger's mutex owns its buffer; the shared payload is of the task that is alone in a
    logger). `FramesCorrect` and `MessagesIntact` are the two halves, on the specifications of
    `FrameCodecs` and `LogMessages`.
  - `DebugPortCorrect`, the safety that the liveness of the debug port rests on (`PortAgrees`): the lock, whether
    telemetry is on, and, while no client came or went unnoticed, what the debug task knows of the
    connection and the mode that will follow (`LockHeld`, `ChannelOfDebugTask`, `ModeOfDebugTask`).
  - `ReportsSafe`, for any table of `TelemetryReports` in which each line has its own counter.

Sequences are compared by length and position (`SeqEqual`). Where a proof needs the least of a set of numbers,
it takes it from the well-founded order of the naturals (`LeastNumber`), because an induction over a
predicate would need an operator as a parameter. An induction is then one over a set of numbers
(`AllNumbers`). `FrameParser` and `Varuint` write their recursions as functions, so that a lemma can unfold one
of them for a given argument; that a function which looks at its value at a later place exists at
all is `UpwardRecursion`.

Only model-checked: all liveness, the debug port's among it, as the prover has neither fairness nor ENABLED.
Every invariant of a passing run is a theorem. No module here declares a RECURSIVE operator.

## 5. What is not modelled

- Registers, pins, clocks, the RTC and the LEDs: calls of the vendor's library without state of their own.
- Priorities, except in `Watchdog`, where the order of the tasks matters: any interleaving is allowed instead.
- LittleFS, CMSIS-RTOS, HAL and the C++ library: external, they appear as what the code relies on. Of the
  vendored libraries lwrb and usb-cdc are modelled, because the ports are made of them; unused parts of
  usb-cdc (composite classes, isochronous endpoints, test modes) are not.
- Scaling of sensor values, texts, absolute times except as delays.
- The camera, the temperature sensor, the layouts of log records, the task of the logger and the files that stand for devices and
  detectors in the simulator.
- The statistics that commands print, and the rest of the components listed with their reasons in
  `PROJECT.json`. Nobody raises the reasons `MODE_CHANGE_REASON_GND_TEST_*` of the mode; the restart of
  the simulator after SIGUSR1 starts a new process and is not modelled.

## 6. What could come next

Two UARTs in `CommandIntake` with what the code then promises; the careless operator of `StorageArea`
(MOUNT or ERASE during an automatic remount); `DownloadsUndisturbed` of listings too, once the code keeps
their object until the last frame is sent.
