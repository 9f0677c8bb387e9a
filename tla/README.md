# A TLA+ model of mDetectRobot

mDetectRobot is a four-wheeled robot: an Arduino Uno drives the motors
(`arduino/turtlebot3_arduino`), a ROS 2 node in Python talks to it over a serial
line (`turtlebot3_ws/src/arduino_bridge`), and a ROS 2 node in C++ runs the LiDAR
(`turtlebot3_ws/src/cspc_lidar`). This directory models the parts whose
correctness depends on the order of events: the motion controller's safety state
machine, the wheel encoders and the motor shield below it, the bridge's connection
life cycle, the packet parsers of the LiDAR driver, its serial port and its two
planes, data and control. Paths below are relative to `src/`; `.ino`, `.py`,
`node_lidar.cpp`, `locker.h` and `node_lidar_ros.cpp` stand for the only files of
those names that matter here. `README.md:n` is the repository's README.

## 1. The system

| part | state it keeps | operations | interacts with |
|---|---|---|---|
| motion controller (`.ino`) | targets, `commandSeen`, `brakeActive`, `estopLatched`, `stateCode`, `faultCode`, four `millis()` stamps; each motor's run mode | lines O V B S E C R P Q X; watchdog; brake timer; 50 Hz control and telemetry; `setup` | bridge, by lines; motor shield |
| bridge, connection (`.py` 96-286, 393-479) | `_connected`, `_running`, `_ser` (locked), `_recv_q`, `_last_cmd_time` | manager thread: open, handshake, read, close, retry; executor: `cmd_vel`, watchdog, queue; `destroy_node` | Arduino by lines; LiDAR by `/lidar_status` |
| bridge, odometry (`.py` 292-391) | pose, last encoder counts | one telemetry line to odometry, IMU, joint states | ROS |
| LiDAR data plane (`node_lidar.cpp` 141-377, `locker.h`) | `local_scan`, `scan_node_buf`, `scan_node_count`, `_lock`, `_dataEvent` | reader: collect, hand over; main: wait, grab, copy, publish | reader and main threads |
| LiDAR control plane (`node_lidar.cpp` 60-176, 380-480, `node_lidar_ros.cpp`) | `lidar_status_t`: `lidar_ready`, `lidar_last_status`, `close_lidar`, `lidar_trap_restart`, `lidar_abnormal_state`, ... | reader: judge, start, restart; main: report, stop; topic thread: start, stop, clear | the three threads, without a lock |
| LiDAR packets (`lidar_data_processing.cpp`) | parser position, check sum, previous angle | bytes to nodes, by version | data plane |
| LiDAR serial port (`serial_port.cpp`) and start reply | the port's two queues, the reply's automaton | `waitForData`, `read_data`, `write_data`, `wait_start_reply` | reader, topic and main threads |
| LiDAR filters (`point_cloud_optimize.cpp`, `calibration.cpp`) | - | nodes to points | data plane |
| wheel encoders (`QGPMaker_Encoder.h`, `PinChangeInterrupt*`) | two pins' last values and a 32-bit count each; the ports' last values, masks, callbacks | attach; interrupt routines; read and zero | motion controller |
| motor shield (`QGPMaker_MotorShield.cpp`, `Adafruit_MS_PWMServoDriver.cpp`) | speed and direction; the chip's outputs and mode | `begin`, `setSpeed`, `run` | motion controller, by I2C |
| timers, launch files, parameters | - | wrappers, configuration | - |

The hard behaviours, each with its line, are in `PROJECT.json` under `hazards`.
In short:

- **Motion controller.** Two timers (watchdog, brake) and a latch own the same
  motors; any line may arrive between any two steps; `millis()` wraps; the
  microcontroller may reset while the shield goes on driving. What makes it
  correct: a latched e-stop holds, nothing moves unsupervised, silence stops the
  robot in bounded time, a brake lasts exactly as long as asked, telemetry tells
  the truth.
- **Encoders.** Interrupt routines run between any two instructions of the sketch,
  one routine serves all pins of a port, the pins move on while it runs, a count is
  four bytes that the processor moves one at a time. Correct: a count is the wheel's
  travel, no edge is overlooked, no count is read torn, zeroing makes no speed.
- **Motor shield.** A command is several I2C transactions whose results nobody
  reads; the chip outlives a reset of the microcontroller. Correct: the pins are what
  the last command asked for, no motor brakes unasked, the chip is awake when written.
- **Bridge.** A daemon thread and the executor share a port they both may close,
  flags without a lock, and a queue that outlives the connection; the Arduino may
  reboot or vanish at any step. Correct: a port in service is closed once and after
  X, a session begins with a reset Arduino and O comes first on its line, shutdown
  leaves the wheels without a target, silence of `/cmd_vel` is forwarded, the manager
  ends.
- **LiDAR packets.** The line loses and alters bytes, samples may look like a head,
  calls time out in the middle of a package, and the parser's state outlives them.
  Correct: points come in order and once, a scan is one whole revolution with its
  own times, and the search for a head resynchronises.
- **LiDAR data plane.** The publisher tests and copies in two critical sections,
  the event carries no count, an early return keeps the lock. Correct: no wake-up
  lost, no revolution torn or delivered in the wrong order, indices in range.
- **LiDAR serial port.** Three threads write commands without a lock, a write may be
  cut short, the reply comes in parts or not at all. Correct: `wait_start_reply` takes nothing
  but a reply for one and reads over none it could recognise; commands do not mix.
- **LiDAR control plane.** Three threads write the same flags, word by word.
  Correct: a stop is noticed, the reader ends where it was told to, an abnormal
  state keeps the LiDAR still, a stall is answered by a restart first.

## 2. The modules

| module | what it is |
|---|---|
| `MillisClock` | unsigned stamps modulo the clock's range: `Elapsed`, `After`, `TimeReached` |
| `Firmware` | the sketch, one action per command handler and per step of `loop()` |
| `FirmwareProofs` | TLAPS proofs about `Firmware` |
| `Encoders`, `EncodersProofs` | pins, pin-change interrupts, quadrature table, the sketch's reads; proofs |
| `MotorShield`, `MotorShieldProofs` | the PWM chip, the DC motors and the calls of the sketch; proofs |
| `Bridge`, `BridgeProofs` | `arduino_bridge_node.py`: two threads, the Arduino and the cable; proofs |
| `ScanMailbox` | abstract: a mailbox of one scan |
| `ScanHandoff`, `ScanHandoffProofs` | the LiDAR data plane, which implements `ScanMailbox`; proofs |
| `PackageStream` | the LiDAR's bytes to packages, nodes and scans |
| `CoinStream` | `PackageStream` and the parser of the M1CT_Coin_Plus, chosen by the version |
| `StreamProofs` | TLAPS proofs about `PackageStream` |
| `StartReply` | the serial port's reads and writes, and the start reply's automaton |
| `ParserProofs` | TLAPS proofs about `CoinStream`, from those of `StreamProofs`, and about `StartReply` |
| `LidarControl`, `LidarControlProofs` | the LiDAR control plane; proofs |
| `MC*` | instances for TLC; all bounds are in their `.cfg` |

### Firmware

`pc` says which statement of `loop()` is next: `serial`, `watchdog`, `brake`,
`control`, `telemetry`, with `setup` after a reset. `HandleLine` has one disjunct
per letter (`AcceptVelocity`, `RejectVelocity`, `MalformedLine`, `Open`, `Close`,
`Brake`, `Stop`, `EStop`, `ClearEStop`, `ResetSensors`, `Query`, `RefuseLine`;
`P` changes gains only and is among the lines that touch nothing modelled), and
any number of lines may be handled in one pass. Of the framing in
`readSerialCommands` remains what it hands on: any line at any time, which includes
the tail of a line that overflowed the buffer, and the fault of the overflow itself. `updateBrakeState`,
`checkWatchdog`, `runSpeedControl` keep their names. `Tick` advances `millis()`
between any two steps, at most `MAX_LOOP` times between two readings of `now`.
`Reset` puts the globals to their initial values and leaves the motors as they
are, because the shield has its own PWM chip: until `setup` releases them they
may still be driven, which is why several invariants say `pc # "setup"`.

Abstracted: a speed is a member of a small set, and the PWM is "DRIVE" or
"RELEASE": a wheel without a target is released, one with a target is driven
unless the PID's trim happens to cancel the feed-forward. Acks are left out. `since`,
`owed` and `last` are history variables: true time, against which the stamps the
code computes with are judged.

### Encoders

A wheel is its angle in edges; the two pins of an encoder follow it in a Gray code
and change at any moment, also inside a routine. `IsrEnter` is the routine of a port
up to the saving of `oldPorts`; what it then calls is in `calls`, served in the order
of `PCINT_CALLBACK`; `update()` reads its two pins in two steps, `ReadFirstPin` and
`Update`, since they may move in between. A routine is not interrupted, and the main
program stands still meanwhile. `Construct` is the constructors' attaching of pins,
before `main()` enables interrupts. `Mask`, `ReadPart`, `WritePart`, `Unmask` are the
sketch's four uses of `noInterrupts()`; the four bytes of a count are two halves of
16 bits. Which PCINTs the library is compiled for is an initial choice (`SETTINGS`),
because the arrays are laid out by it (`ArrayPos`).

`wheel` and `edges` belong to the world; `seen`, `fast`, `zeroed`, `measured`,
`atMask` are history. `fast` marks an encoder of which an edge came before the last
one was served, or whose angle was not known when it was zeroed:
`CountFollowsWheel` promises nothing for it, `CountKeepsPhase` does.

### MotorShield

A step is one I2C transaction: `writes` holds those of the call under way, `calls`
the calls of `setSpeed` and `run` the sketch has still to make. `Begin` and
`SetFrequency` are `AFMS.begin` and the release in `setup`. `Reset` may come in the
middle of all this and leaves the chip alone; `LoseTransaction` drops a write to an
output, which the library cannot notice. `damaged` is history: the motors of whose
last `run` something was lost. `NoAccidentalBrake` makes one exception of them
(`LowWriteMayBeLost`): a motor told to drive, since a reversal that loses the write that
lowers the old pin does brake (section 5). A released motor gets no exception.

### Bridge

The manager's position is `mgr`, the executor's and `destroy_node`'s `main`.
Only `_ser` is locked, so a check of `_connected` and the write behind it are two
steps (`CheckConnected`, `SerialWrite`). A Serial object is a number: `ser` is the
shared reference, `mgrSer` the one `_read_loop` holds, `mgrTook` and `mainTook`
the ones a thread took in `_close_port` and has not closed yet. `GiveUp` and
`CloseGivenUp` are the end of `_open_port` after a failed handshake: it clears `_ser`
under the lock and then closes its own object, without a look at whether
`destroy_node` has taken the same one; `gaveUp` remembers these objects, and
`ClosedByOne` says what such a double close can and cannot hit. `WaitRaises` is a read
that fails because `destroy_node` closed the port under it. The Arduino
boots, reads lines, answers O with READY and may reboot; opening the port may
reboot it, which is what a Uno does; the cable may be unplugged. Timers fire at
any moment. One timing assumption is built in: `Retry` waits for a callback of the
executor that was under way when the manager went to sleep, because the sleep
lasts at least two seconds. Without it a callback that stalls that long between
its check and its write would put a velocity in front of the next session's O,
and `LineOrder` would not hold. `Exit` ends the interpreter, with it the daemon thread, wherever it
is.

### ScanHandoff and ScanMailbox

A node is a ring start or not; a revolution is its number and its length. The
reader appends, saturates one below the end of `local_scan` (`Filled`), and at a
ring start takes `_lock`, copies, counts and signals, and restarts the buffer.
Main waits for the event (signal, timeout or spurious wake-up), then runs the two
critical sections of `grabScanData` and `send_lidar_data`. `ImplementsMailbox`
states that all this is a one-place mailbox under `latest <- countOf`,
`delivered <- delivered.scan`: it may skip a scan, it never goes back, and the
newest is delivered in the end unless the process aborts.

### PackageStream

The LiDAR sends packages of a kind in `KINDS`, byte by byte; `ByteHarmed` loses or
alters one. `ReadHeader` is one `waitForData` for what the header lacks,
`ParseHeader` one turn of the loop over the bytes read (`HeaderByte`), `ReadPayload` the samples
and the check sum, `EmitNode` the rest of `waitPackage`, one node per call, and
`waitScanData`'s decision to return. `Collect` is `read_forever`'s loop over the
nodes, up to the hand-over that `ScanHandoff` goes on with; `Listen` and `Flush`
are the two outcomes of `lidar_state_judgment`. `package_Sample_Index`,
`CheckSumResult`, `has_package_error` and `local_scan` live across calls as they do
in the code, so what a timeout or a flush leaves in them is in the model.

A byte is its value and its origin; the properties read the origin, the actions
only the value, but for one: `CheckSumFits`. The XOR of the code is replaced by
what it is for, accepting the bytes of one package as sent and nothing else. That
is exact for one altered byte; that no other string of bytes passes by chance is
assumed, and so is (`StreamAssumption`) that a package has a sample and a ring start
exactly one: the code makes a node of a package without samples too, from the
samples of an earlier one. Angles, distances and intensities are left out.
`getTime()` is the byte's place in the stream (`Stamp`). `harmed`, `searched`,
`got` are history.

### CoinStream

`version` picks the parser, as in `waitScanData`. A coin package has no ring-start
byte: `CoinSync` makes one of the angle that goes past zero, from `angle_bak`, which
outlives packages and calls. The struct has 36 bytes, the parser reads 38
(`PackagePaidBytes` is the other version's), so `ReadCoinPayload` takes the first two
bytes of the next package along; it also writes them past the end of
`package_coin`, which nothing in the model reads. Angles are whole units. The
driver never starts this version (section 5), so this is the parser on its own.

### StartReply

A byte is a set of bits, so that the XOR of the check is computed as it is (`Xor`);
the properties say which bits an odd number of bytes have (`CheckOf`). `DataReady`,
`DataShort`, `ReplyTimesOut` are `waitForData`'s look at the queue and its `select`;
`ReadData` is one `read_data` into `recvBuffer`, `ParseReply` one turn of the loop over
it, with `ParseByte` the switch, and `JudgeReply` the verdict behind it. `WriteSelect`, `Write`, `WriteReturns` are
`write_data`: its timeout is 0, so that a command that does not fit is cut short
and nobody hears of it. What the LiDAR sends is any bytes.

### LidarControl

Every access to a shared flag is a step: `Judge` ... `WriteStart` is
`lidar_state_judgment`, `WaitData`, `WaitFails`, `WaitFailsLate` the escalation in
`read_forever`; `|=` on `lidar_abnormal_state` is a load and a store
(`ReaderLoads`, `ReaderStores`, and the same for main), so a bit cleared in
between comes back. `CreatePort` ... `NodeReady` is `node_start` in main, whose
last step sets `lidar_ready`; the subscription thread is already running.
`spinning`, whether the LiDAR rotates, is external: it is in `SPINNING` before the node
runs and follows the start and end commands written to an open port. `STARTED` are the
versions the switch of `lidar_state_judgment` has a case for; only a TOF's rotation is watched. Messages 3, 4,
6 and 7 send the LiDAR a command and set bounds nothing reads (`Command("idle")`). A
stall is any wait that fails.

## 3. The runs

| run | instance | states | shows |
|---|---|---|---|
| `firmware` | 2 motors, speeds clamped/zero/smallest moving, holds below and above the clamp, clock of 10 ticks, watchdog 1, brakes 0 to 2 | 2.4 M | 5 invariants, 2 action properties, 1 liveness property |
| `encoder` | 3 encoders on 2 ports, library with and without port 1, 2 start angles, 3 edges | 5.1 M | `CountKeepsPhase`, `CountFollowsWheel`, `CountsNotTorn`, `SpeedIsTravel` |
| `motor_shield` | 2 motors, 2 speeds each way, 1 reset, 2 lost transactions | 0.24 M | `PinsMatchCommand`, `ChipReady`, `NoAccidentalBrake` |
| `bridge` | 2 opens, 2 reboots, 3 lines each way | 6.0 M | `ClosedByOne`, `FreshWhenConnected`, `ShutdownStops`, `LineOrder` |
| `bridge_live` | 2 opens, 1 reboot, 1 line | 1.1 M | `ManagerEnds`, `SilenceIsForwarded` |
| `scan_handoff` | buffer 4, publisher 3, batches to 2, 5 scans | 9.5 k | `LockReturned`, `ScanNotTorn`, `NoScanOverlooked`, `ImplementsMailbox` |
| `package_stream` | either version; 4 packages of 2 kinds or 4 coin packages of 2, 1 mishap, batches of 2, `local_scan` of 5 | 4.8 M | `PointsInOrder`, `ScanIsOneRevolution`, `ScanTimesFit`, `IndexMeansNoDamage`, `SearchFindsHead`, `RingStartIsPastZero`, `EverySecondArrives` |
| `start_reply` | bytes of 2 bits, 8 of them, head 2, reply 4, two threads' commands of 3, port of 2 | 16.2 M | `AnswerIsRight`, `CommandsNotMixed` |
| `lidar_control` | a TOF and a Coin, rotating or at rest, 3 commands | 7.7 M | `StopIsNoticed`, `RestartBeforeTrapped` |
| `lidar_live` | a TOF and a Coin, rotating or at rest, 1 command | 0.5 M | `ReaderFollows`, `AbnormalStopsLidar` |
| `bridge_lidar` | as small as shows it | - | a counterexample, section 5 |
| `lidar_stop` | a TOF at rest, 1 command | - | a counterexample, section 5 |

Why the bounds are enough. *Firmware*: the timers only enter through differences of
stamps, and the constants keep the order the real ones have (hold and watchdog of the
same length, both far less than half the clock's range, at most one tick per pass);
the clock wraps within every long behaviour. *Encoders*: one encoder alone on its port
and two that share one is every constellation of the board's four; three edges are one
that is pending, one that comes while it is served, and a third that comes in between
for another encoder or undoes the first. *MotorShield*: the motors share the bus and
nothing else; two losses can hit both pins of one motor or one of each. These results
do not rest on the instances anyway: but for the liveness they are proved for all
constants, as are those of *Bridge*, *ScanHandoff*, *LidarControl* and *PackageStream*. *Bridge*: two
opens of the port let two sessions overlap in every way the code can tell apart, since
it never keeps more than the current and the previous handle; a second line in each
direction is what a reordering takes; two reboots put one READY before and one behind
O in the same session. *ScanHandoff*: a buffer of 4 with a publisher of 3 and batches
of 2 has a scan that fits, one that fits only the reader and one that saturates.
*PackageStream*: four packages are a damaged one, a ring start, a package and the ring
start that closes the scan; the kinds have a package that contains a head and ends
like one, and a loss in any place shifts the search to any offset. A sample number
that damage makes large asks for more than the model's stream holds, so that such a
read always ends in a timeout; that it may swallow several packages instead is not
explored. *CoinStream*: four packages are two overlooked and two delivered; zero is
passed at a package's first angle and inside one. *StartReply*: eight bytes hold a
stray byte, a refused reply's head and a whole reply, or two replies; the bits are
few, so that chance agreements of the check happen; no command
fits the port whole. *LidarControl*: three commands are
a start, a stop and the start behind it; a TOF does all the other versions do that are
started.

Fairness. Firmware: `loop()` goes on, the clock ticks, and `readSerialCommands` finds
the port empty sooner or later (`ReadNow`, a `LoopStep`), since 500 kbaud is slower
than parsing. Bridge: each thread runs on, as its waits all have timeouts; the timers
of the executor fire; the Arduino reads. `Exit` and everything the world does
(unplugging, rebooting, `/cmd_vel`) is not fair. ScanHandoff: both threads run and a
mutex is not withheld for ever from a waiter (strong fairness on the three lock
operations, an assumption about the scheduler: pthread mutexes do not promise it, but
both threads sleep between their critical sections). Nothing makes the LiDAR send
nodes. LidarControl: all three threads run; strong fairness of `StartDue` says that
the second after a status change passes, though the reader looks at its clock only
from time to time. The other modules state safety only.

`CHECK_DEADLOCK FALSE` is set for the bridge, which stops after shutdown, and for
the start reply, which is one call.

## 4. What is proved

All by TLAPS, for any constants within the named assumptions.

*Firmware* (`FirmwareAssumption`, `TimerRangeAssumption`, `HalfRangeAssumption`:
natural numbers, clamp bounds in order, timers with two passes of `loop()` to
spare within half the clock's range):

- `TypeCorrect`: `Spec => []TypeOK`, which includes that hold and targets stay
  within their clamps.
- `EStopSafety`, `Supervision`, `TruthfulState` follow from `MotionInv`. The
  properties are not inductive: that a driven motor is supervised needs that a
  target is (`TargetsSupervised`: a target is only set when the watchdog is armed
  and no brake or watchdog fault is pending), as `runSpeedControl` drives what it
  finds in the targets; that the state code is true needs what `setup` finds
  after a reset (`FreshAtSetup`).
- `SilenceSafety`, `BrakePunctuality`, `WatchdogPatience`, `BrakePersistence`
  follow from `TimeInv`, which ties the stamps, modulo the range, to true time:
  `Elapsed(clock, now)` is `loopTime`; the age of `lastValidCommandMs` is the
  silence and is bounded by where `loop()` is; `brakeUntilMs` lies `owed` ticks
  ahead. The lemmas about `MillisClock` carry the modular arithmetic, of which
  `ReachedMeansDue` is the heart: the signed comparison is right as long as the
  deadline is within half a range.

*ScanHandoff* (`HandoffAssumption`): `HandoffTypeCorrect` (indices within both
buffers, for all sizes), `LockSafety`, `WholeScans`, `NoLostWakeup` and
`MailboxSafety` (every step is a step of the mailbox or a stutter) from
`HandoffInv`. The strengthening says that a counted scan is never empty, hence
that `grabScanData`'s early return with the lock held is dead code; and that the
event is set only by a scan that is there.

*Encoders* (`EncodersAssumption`: up to four encoders, whose pins the library is
compiled for): `EncoderTypes`; `AtomicCounts` (`CountsNotTorn`) and `PhaseSafety`
(`CountKeepsPhase`), for any number of edges. The strengthening says that no routine
runs while interrupts are off (`Exclusion`), that the counts then stand still and
what has been copied so far is theirs, half by half (`CopyIsTrue`), and that a count
fits its phase but for the moment between the two halves of its zeroing, when its
lower half is 0 (`PhaseKept`). `TableCounts` is the one fact about `update()`'s table.
`FollowsWheel` (`CountFollowsWheel`) and `SpeedSafety` (`SpeedIsTravel`) rest on
`FInv`. An encoder whose edges come one by one is `Settled`, `Pending` (an edge waits
for the port's routine) or `Serving` (the routine has seen it and has one call left to
make), whatever else its port's routine does; the port's copy, the decoder's state and
the calls left then tell the wheel's angle. What links them is the library's wiring
(`Wiring`: the ports in use have places of their own in its arrays, an attached pin calls
the routine of its encoder) and that the routine reads all pins of a port at once.

*MotorShield* (`ShieldAssumption`): `ShieldTypes`, `PinsSafety`, `ChipSafety`,
`BrakeSafety`, for any motors and speeds and any number of resets and losses. The
invariant reads the transactions still to be made: an output is as asked for or the
call under way will make it so, unless the motor's last `run` lost a transaction
(`PinsDue`), a write that makes a motor drive is the last of its call (`LowFirst`),
the writes of `AFMS.begin` come in their order and before any other (`ModeOrder`).
`BrakeSafety` is about every motor that is released, whatever is lost, and about one
that drives unless its last `run` lost something.

*Bridge* (`BridgeAssumption`): `BridgeTypes`, `CloseSafety`, `FreshSafety`,
`OrderSafety`, `ShutdownSafety`, for any number of sessions, reboots and lines under
way. `PortInv` says which thread holds the port and that it holds it alone;
`UpInv` that the connection is up only between READY and the `finally` clause and that
no callback that found it up lives on to the next pass, which is where `Retry`'s timing
assumption enters; `OrderInv` that the port in service was told O, unless its line is
dead, and not X; `GiveUpInv` that a port given up on was told nothing else, and
`CloseInv` that every other is closed by the one thread that took it; `MoveInv` that
as long as no line has died a wheel target goes with a port that is connected or still
to be told X. `FreshSafety` rests on the input being
thrown away when a port is opened: every READY to be read then came after it.
`CloseSafety` speaks of closings, those of `_open_port` included: a port in service is
closed once and after X, one that was given up on may be closed by both threads.
`ShutdownSafety` leaves two cases to the firmware's watchdog: a line that died, and a
manager thread that holds a port it has not written X to when the process ends.

*LidarControl* (`ControlAssumption`): `ControlTypes`; `StopSafety` (`StopIsNoticed`)
for any number of commands; `RestartSafety` (`RestartBeforeTrapped`). `StopInv` says
that once a stop has raised `close_lidar` the reader's reset has happened or is ahead
of it and no start comes behind that (`StopPending`, `StopDone`), and that `node_start`
overtakes no stop but one that came before its end (`StopStands`); `RestartInv` that a
decision to restart is carried out before the reader waits for data again.

*StartReply* (`StartReplyAssumption`): `CommandSafety` (`CommandsNotMixed`), for any
number of threads that send commands of any length: a thread has nothing on the line
before its one `::write` (`NothingYet`), which is why a mix would take a second one.
`AnswerSafety` (`AnswerIsRight`), for any bytes, any head and any length of a reply,
however they are split into reads: the parser stands `pos` bytes behind a head it has
read (`HeadRead`); `checkvalue` is the check of what it passed since, unless something
like a head spoilt it (`CheckRead`); and the first place where a head may lie is not
given up for a later one (`HeadKept`). What the theorem promises of an undamaged reply
ends at a byte like the first of a head: behind a stray one the code misses a whole
reply (section 5), and the theorem, like the property, says nothing of it. Turn by turn the XOR becomes the parity of
`CheckOf` (`CheckOfMore`).

*PackageStream* (`StreamAssumption`: what a package is, sizes and bounds natural
numbers), for packages of any kinds, any number of them and of mishaps, any size of
batch and of `local_scan`: `StreamTypes` (`TypeOK`), `ReportedInOrder`
(`PointsInOrder`), `ScansAreRevolutions` (`ScanIsOneRevolution`), `StampsFitScans`
(`ScanTimesFit`), `IndexTellsNoDamage` (`IndexMeansNoDamage`), `SearchResynchronises`
(`SearchFindsHead`). None of them is inductive: they speak of nodes and points, and
what decides is where in the stream the parser stands. `StreamInv` therefore speaks of
`Stream`, the bytes in `header`, `globalRecvBuffer` and `line` one behind the other, of
which the reader only ever drops some at the front and to which the line adds at the
end. `Origins` says that they lie in the order they were sent, `NoGaps` that those of a
package nothing happened to lie next to each other and next to those of its
neighbours, looking from any byte in both directions, and from the LiDAR backwards.
`WholePackage`, `PointsBehind` and `LastPoint` say what was read: a check sum that fits
means a whole package, of which nothing is left in the stream, and points are reported
to a package's end. `Aligned` joins the two: if nothing happened to the package behind
the last that fit, its first byte is where the parser looks, so that its header is kept
byte by byte (`AlignedParse`) and its check sum fits (`AlignedPayload`). `OpenScan` and
`ClosedScan` carry this to the nodes in `local_scan` and `local_buf`, `ErrorTold` what
`has_package_error` remembers, `Stamps` and `FirstStamp` the times that a ring start's CT
byte sets long before its check sum is known. `Searched` follows a head the search meets
behind a quiet package: no byte before it can have been taken for a beginning
(`HeadOfQuiet`). `OtherVersionsReadPackages` brings `CoinStream` under these results for
every version but the coin's.

*CoinStream* (`CoinAssumption`: a package has at least three samples and no more than
make a whole turn, and `NEAR` is at most half of one; the code's 8 samples, 10 and 360
degrees satisfy it), for packages of any size, any angle the LiDAR begins at and any
mishaps: `BothParsersTypes` (`TypeOK`), `BothReportInOrder` (`PointsInOrder`),
`RingStartsArePastZero` (`RingStartIsPastZero`), `OneOfTwoIsDelivered`
(`EverySecondArrives`), each for both parsers. `CoinInv` says of `Stream` what lies
ahead of and behind every byte of a package nothing happened to (`CoinForward`,
`CoinBackward`, `CoinEnd`), which is enough because the parser may begin anywhere. Of a
package that arrived as sent behind a quiet one that did, `OneOfTwo` says that its
first byte lies where a header begins or still ahead, or that it is being read or was
reported, or that the one before it is or was. A step keeps that because the search
cannot have taken bytes before it for a head it would run into (`SearchMeetsFirst`), and
because bytes read as a package that contain its first byte are those of the package
before, from the first to the last (`OverlooksOne`). The ring start is arithmetic:
`AngleKept` ties `angle_bak` to how far the LiDAR has turned, `AngleOfSample` does so
for the next sample, with a zero shown as 360 when it is not a package's first angle,
and of two such angles less than `NEAR` apart the comparison is right (`PastZero`). The
other four invariants of the run say nothing of the coin version: `CoinStream` does not
follow its nodes into `local_scan`.

Only model-checked: everything that needs fairness, that is `SilentHostIsReleased`, the
liveness half of `ImplementsMailbox`, `ManagerEnds`, `SilenceIsForwarded`,
`ReaderFollows`, `AbnormalStopsLidar`. Liveness under fairness is out of this prover's
reach.

## 5. Where code and documents disagree

Shown by runs that end in a counterexample:

- `bridge_lidar`: `_read_loop` clears `_connected` (`.py:248`) before the
  `finally` clause reads it (`.py:143`), so the LiDAR's stop (`README.md:133`) is not
  published after a lost connection.
- `lidar_stop`: a stop handled while `node_start` runs is undone by its last
  assignment (`node_lidar.cpp:476`). The port is open and the LiDAR at rest; the stop
  writes `lidar_ready = false`, raises `close_lidar` and sends the end command;
  `node_start` sets `lidar_ready`; the reader finds the LiDAR wanted, sends the start
  command a second later, and the LiDAR rotates from then on, though the stop was the
  last command there was.

Seen in the code while modelling, without a run of their own.

- *Motion controller.* After S the watchdog, as long as the hold, starts a second
  brake, so "brake 1 s, then release" (`.ino:17`, `README.md:97`) takes about two and
  ends in WATCHDOG. The watchdog is 1000 ms (`.ino:47`), not 250 (`README.md:121`); X
  with a watchdog fault pending ends in WATCHDOG rather than RELEASED (`.ino:227-235`,
  `README.md:103`).
- *Encoders.* The constructor sets `state` to 0 though its comment
  (`QGPMaker_Encoder.h:137-139`) speaks of reading the initial state: the first edge
  after a boot may count by up to 2 too many or too few. `attachPinChangeInterrupt`
  reads the whole port again for every pin (`PinChangeInterrupt.cpp`), so that an edge of
  another encoder during the boot may be overlooked. Two edges of a wheel within one
  service are 2 or, later, 4 counts off.
- *Motor shield.* `setSpeed` drives the old direction at the new speed until `run`
  follows. A brake ends pin by pin: its release is full reverse, and driving forward
  from it full forward, for the length of one transaction. `run` lowers one pin and then
  raises the other without a look at the result (`QGPMaker_MotorShield.cpp:214-215`): a
  reversal that loses the first of the two writes has both pins high and brakes until
  the next `run`. A lost release
  after a brake in ESTOP or WATCHDOG leaves a motor as it was, since
  `endTransmission` is ignored and nothing repeats the release. `getMotor(0)` indexes
  before the array.
- *Bridge.* A late boot READY passes for the answer to O; O's own READY is then taken
  for a reboot (`.py:272`) and ends a healthy connection. `_ser` is "set / cleared only by
  connection manager" (`.py:107`), but `destroy_node` clears it too, on the main thread
  (`.py:199-201`, `:466`): when the handshake fails at that moment both threads close the
  same object (`.py:190`, `:215`). The manager is a daemon thread (`.py:119`): if the process
  ends while it holds the port and has not written X, the wheels keep their target until
  the firmware's watchdog.
- *LiDAR data.* `Event::wait` asserts after one `pthread_cond_timedwait`
  (`locker.h:332`), which may return without a signal. A round of 800 points or more is
  published as an empty scan (`node_lidar.cpp:283`). A head right behind a byte like
  its first is overlooked (`lidar_data_processing.cpp:541`), so that packages which all
  end in `AA` keep the parser from resynchronising; a damaged first ring start leaves
  its time in `tim_scan_start` and makes the first scan look longer than it was; the
  rest of a package and of a scan from before a stop go into the first scan after the
  next start; the nodes of a package that fails its check sum are not dropped but
  enter the scan at angle and distance 0.
- *Coin version.* `lidar_state_judgment` has no case for it (`node_lidar.cpp:103-131`): a
  Coin LiDAR is never sent a start command and the driver flushes what it sends.
  `CoinStream` is therefore about the parser as it stands, which `waitScanData` offers
  and the driver does not get to yet. The struct is 36 bytes long, the parser reads 38
  (`lidar_data_processing.cpp:888`, `:981`): of packages back to back every second one
  is overlooked, and two bytes are written beyond `package_coin`. `tim_scan_start` and
  `tim_scan_end` are never set, `has_package_error` is never cleared. A package that
  fails its check sum behind an angle past 350 degrees makes a ring start of its zeros.
- *Serial port and start reply.* The write timeout is 0, so `write_data` calls
  `::write` once and a short write cuts the command silently. A byte that does not
  match is not looked at again as a beginning; `checkvalue` keeps what a mismatch had
  put into it, so that a stray `A5` spoils the check of the reply behind it, and the
  function then spins with nothing to read until its timeout. A time that is over
  becomes a `select` of 49 days, as a negative rest is read as unsigned.
  `open`'s later failures leak the descriptor (`serial_port.cpp:635`, `:647`, `:650`);
  `setCustomBaudRate` (`:551-571`) lacks a return. The caller ignores the verdict.
- *LiDAR control.* Main's own stop does not raise `close_lidar`, so a start right behind
  it can be lost on the reader; main's abnormal path (`node_lidar_ros.cpp:130-131`)
  between the two assignments of a start (`:29-30`) loses it for good. A stop between the
  reader's decision to start and its `write_data` of `start_lidar` is followed by that start,
  and the LiDAR rotates unwanted. A stop that comes after the port object exists and before
  it is open sends its end command nowhere, so that a LiDAR that rotated before goes on. `lidar_restart_try` survives a stop: after the
  next start the first late failure may be called a trap at once.

## 6. What is not modelled, and why

- PID, Kalman filter, feed-forward, yaw, odometry, point-cloud filters: floating
  point; the models keep when they run, what resets them and what they are fed.
- Serial port: `open`, `close` and the setters, a sequence of termios calls on one
  thread. Timers, `lidar_information.cpp`: wrappers and tables. `sdk/main.cpp` is not
  part of the program; the only call of `calibration.cpp` is commented out, and
  `waitSpeedRight`, `waitResponseHeader` are not called.
- Encoders: what nothing calls (`enable`, `disable`, `detach`, `readAndReset`, `getRPM`)
  and processors other than the Uno's; a count's wrap at 2^31. Motor shield: steppers
  and servos, which the sketch does not use, and a lost write to the chip's mode
  register, after which nothing would be right.
- Sequence numbers and acks: no decision reads them.
- Launch files, parameters, generated trees.

Assumed rather than checked: a pass of `loop()` takes bounded time (`MAX_LOOP`),
although `readSerialCommands` reads until the port is empty; one Serial object's
line does not deliver to another; the LiDAR obeys start and end commands, which in
`LidarControl` go out whole.

## 7. Plan

Done: `Firmware`, `Encoders`, `MotorShield`, `Bridge`, `ScanHandoff`, `LidarControl`,
`PackageStream`, `CoinStream` and `StartReply` with proofs. Next, in this order:

1. `PackageStream` as an implementation of `ScanHandoff`'s reader.
2. `RobotLink`: `Bridge` and `Firmware` composed over lossy lines: end to end, a
   host that dies, a cable that is pulled, a reboot, all stop the wheels.
3. `LidarNode`: `ScanHandoff` and `LidarControl` composed: nodes from before a
   stop in the first scan after it.
4. `LineBuffer`: how `readSerialCommands` cuts bytes into lines, against a reference
   definition of framing.
