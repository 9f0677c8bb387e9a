------------------------------ MODULE Firmware ------------------------------
(***************************************************************************)
(* The motion core of the sketch turtlebot3_arduino.ino: the serial        *)
(* command handlers, the command watchdog, the timed brake, the latched    *)
(* emergency stop and the 50 Hz control step, as one pass of loop() after  *)
(* another.  The host is unconstrained: any line may arrive whenever the   *)
(* sketch reads its serial port.                                           *)
(*                                                                         *)
(* Time is a tick of the millis() clock, which may fall between any two    *)
(* steps; one pass of loop(), measured between two readings of `now', lasts *)
(* at most MAX_LOOP ticks.                                                 *)
(***************************************************************************)
EXTENDS MillisClock

CONSTANTS
    Motors,                 \* the wheels, MOTOR_COUNT of them
    Speeds,                 \* wheel targets the host may send, in units of 0.5 mm/s
    MAX_TARGET_SPEED,       \* MAX_TARGET_SPEED_MM_S in the same unit
    Holds,                  \* hold_ms values the host may send with B
    MIN_BRAKE_HOLD,         \* 50 ms   } the clamp of B's argument
    MAX_BRAKE_HOLD,         \* 5000 ms }
    DEFAULT_BRAKE_HOLD,     \* DEFAULT_BRAKE_HOLD_MS
    COMMAND_WATCHDOG,       \* COMMAND_WATCHDOG_MS
    CONTROL_PERIOD,         \* CONTROL_PERIOD_MS
    TELEMETRY_PERIOD,       \* TELEMETRY_PERIOD_MS
    MAX_LOOP                \* bound on the ticks of one pass of loop()

ASSUME FirmwareAssumption ==
    /\ Speeds \subseteq Int
    /\ MAX_TARGET_SPEED \in Nat
    /\ Holds \subseteq Int
    /\ MIN_BRAKE_HOLD \in Nat /\ MAX_BRAKE_HOLD \in Nat
    /\ DEFAULT_BRAKE_HOLD \in Nat
    /\ MIN_BRAKE_HOLD <= DEFAULT_BRAKE_HOLD /\ DEFAULT_BRAKE_HOLD <= MAX_BRAKE_HOLD
    /\ COMMAND_WATCHDOG \in Nat
    /\ CONTROL_PERIOD \in Nat /\ TELEMETRY_PERIOD \in Nat
    /\ MAX_LOOP \in Nat

\* The timers are shorter than half the clock's range, with room for two
\* passes of loop(): 5000 ms and 1000 ms against 2^31 ms.
ASSUME TimerRangeAssumption ==
    /\ MAX_BRAKE_HOLD + 2 * MAX_LOOP < HALF_RANGE
    /\ COMMAND_WATCHDOG + 2 * MAX_LOOP < HALF_RANGE

VARIABLES
    pc,             \* what loop() does next
    clock,          \* millis()
    now,            \* loop()'s local `now'
    loopTime,       \* ticks since `now' was read
    motor,          \* what each motor of the shield was last told to do
    target,         \* targetSpeedMMs
    commandSeen, brakeActive, estopLatched,
    stateCode, faultCode,
    lastValidCommandMs, brakeUntilMs, lastControlMs, lastTelemetryMs,
    last,           \* history: the last line that commands the motors
    since,          \* history: ticks since `last', at most SINCE_CAP
    owed            \* history: ticks the requested brake is still owed

fwVars == <<commandSeen, brakeActive, estopLatched, stateCode, faultCode,
            lastValidCommandMs, brakeUntilMs>>
loopVars == <<pc, clock, now, loopTime, lastControlMs, lastTelemetryMs>>
vars == <<fwVars, loopVars, motor, target, last, since, owed>>

-----------------------------------------------------------------------------
MotorModes == {"RELEASE", "BRAKE", "DRIVE"}     \* DRIVE: FORWARD or BACKWARD
StateCodes == {"RELEASED", "RUNNING", "BRAKING", "ESTOP", "WATCHDOG", "FAULT"}
FaultBits == {"WATCHDOG", "ESTOP", "PARSE"}
Pcs == {"setup", "serial", "watchdog", "brake", "control", "telemetry"}

Clamp(v, lo, hi) == IF v < lo THEN lo ELSE IF v > hi THEN hi ELSE v
Abs(v) == IF v < 0 THEN -v ELSE v
Targets == -MAX_TARGET_SPEED .. MAX_TARGET_SPEED

\* fabs(targetSpeedMMs[i]) > 0.5f for some wheel
Moves(t) == \E m \in Motors : Abs(t[m]) > 1
targetsAreZero == ~Moves(target)

AllMotors(mode) == [m \in Motors |-> mode]
ZeroTargets == [m \in Motors |-> 0]

\* A line of the host, parsed: `valid' says that the sequence number (for V,
\* every field) parses; `args' that P's other fields do.  `overlong' is what
\* fills the line buffer without an end; what follows of it is a line of its own.
Lines ==
    [cmd : {"V"}, valid : BOOLEAN, vel : [Motors -> Speeds]]
        \cup [cmd : {"B"}, valid : BOOLEAN, hold : Holds]
        \cup [cmd : {"P"}, valid : BOOLEAN, args : BOOLEAN]
        \cup [cmd : {"O", "X", "S", "E", "C", "R", "Q", "unknown"}, valid : BOOLEAN]
        \cup [cmd : {"overlong"}, valid : {FALSE}]

\* Long enough to tell every silence a property speaks about.
SINCE_CAP ==
    (IF COMMAND_WATCHDOG > DEFAULT_BRAKE_HOLD THEN COMMAND_WATCHDOG
                                              ELSE DEFAULT_BRAKE_HOLD)
    + 2 * MAX_LOOP + 1
OWED_FLOOR == -(2 * MAX_LOOP + 1)

-----------------------------------------------------------------------------
(* The helpers that stop the robot.                                        *)

\* setTargetsZero, resetControllers, applyBrake and the brake's timer
beginBrake(hold, stopState) ==
    /\ target' = ZeroTargets
    /\ motor' = AllMotors("BRAKE")
    /\ brakeActive' = TRUE
    /\ brakeUntilMs' = After(clock, hold)
    /\ stateCode' = stopState
    /\ owed' = hold

\* The history variables when the line `cmd' takes command of the motors.
Commanded(cmd) == last' = cmd /\ since' = 0

-----------------------------------------------------------------------------
(* handleLine, one action per command.  Each runs inside                   *)
(* readSerialCommands, with the control flow of loop() standing still.     *)

ParseFault ==
    /\ faultCode' = faultCode \cup {"PARSE"}
    /\ UNCHANGED <<commandSeen, brakeActive, estopLatched, stateCode,
                   lastValidCommandMs, brakeUntilMs, motor, target,
                   last, since, owed>>

\* A field that does not parse, or a full buffer, which readSerialCommands
\* empties: the fault is set and nothing is acknowledged.
MalformedLine(line) ==
    /\ ~line.valid
    /\ ParseFault

\* V while the emergency stop is latched: refused, yet it counts as a command.
RejectVelocity(line) ==
    /\ line.cmd = "V" /\ line.valid /\ estopLatched
    /\ commandSeen' = TRUE
    /\ lastValidCommandMs' = clock
    /\ Commanded("V")
    /\ UNCHANGED <<brakeActive, estopLatched, stateCode, faultCode,
                   brakeUntilMs, motor, target, owed>>

\* Mutant: the latch is not looked at before the targets are taken.
AcceptVelocity_IgnoresLatch(line) ==
    LET vel == [m \in Motors |->
                  Clamp(line.vel[m], -MAX_TARGET_SPEED, MAX_TARGET_SPEED)]
    IN  /\ line.cmd = "V" /\ line.valid
        /\ commandSeen' = TRUE
        /\ lastValidCommandMs' = clock
        /\ faultCode' = faultCode \ {"WATCHDOG", "PARSE"}
        /\ target' = vel
        /\ brakeActive' = (brakeActive /\ ~Moves(vel))
        /\ owed' = IF Moves(vel) THEN 0 ELSE owed
        /\ Commanded("V")
        /\ UNCHANGED <<estopLatched, stateCode, brakeUntilMs, motor>>

AcceptVelocity(line) ==
    LET vel == [m \in Motors |->
                  Clamp(line.vel[m], -MAX_TARGET_SPEED, MAX_TARGET_SPEED)]
    IN  /\ line.cmd = "V" /\ line.valid /\ ~estopLatched
        /\ commandSeen' = TRUE
        /\ lastValidCommandMs' = clock
        /\ faultCode' = faultCode \ {"WATCHDOG", "PARSE"}
        /\ target' = vel
        /\ brakeActive' = (brakeActive /\ ~Moves(vel))
        /\ owed' = IF Moves(vel) THEN 0 ELSE owed
        /\ Commanded("V")
        /\ UNCHANGED <<estopLatched, stateCode, brakeUntilMs, motor>>

\* O: fullStateReset, then READY
Open(line) ==
    /\ line.cmd = "O" /\ line.valid
    /\ target' = ZeroTargets
    /\ motor' = AllMotors("RELEASE")
    /\ estopLatched' = FALSE
    /\ faultCode' = {}
    /\ commandSeen' = FALSE
    /\ brakeActive' = FALSE
    /\ stateCode' = "RELEASED"
    /\ lastValidCommandMs' = clock
    /\ owed' = 0
    /\ Commanded("O")
    /\ UNCHANGED brakeUntilMs

Close(line) ==
    /\ line.cmd = "X" /\ line.valid
    /\ beginBrake(DEFAULT_BRAKE_HOLD, "BRAKING")
    /\ commandSeen' = FALSE
    /\ Commanded("X")
    /\ UNCHANGED <<estopLatched, faultCode, lastValidCommandMs>>

\* Mutant: hold_ms is used as the host sent it.
Brake_NoClamp(line) ==
    /\ line.cmd = "B" /\ line.valid
    /\ beginBrake(line.hold, "BRAKING")
    /\ lastValidCommandMs' = clock
    /\ commandSeen' = TRUE
    /\ Commanded("B")
    /\ UNCHANGED <<estopLatched, faultCode>>

Brake(line) ==
    /\ line.cmd = "B" /\ line.valid
    /\ beginBrake(Clamp(line.hold, MIN_BRAKE_HOLD, MAX_BRAKE_HOLD), "BRAKING")
    /\ lastValidCommandMs' = clock
    /\ commandSeen' = TRUE
    /\ Commanded("B")
    /\ UNCHANGED <<estopLatched, faultCode>>

Stop(line) ==
    /\ line.cmd = "S" /\ line.valid
    /\ beginBrake(DEFAULT_BRAKE_HOLD, "BRAKING")
    /\ lastValidCommandMs' = clock
    /\ commandSeen' = TRUE
    /\ Commanded("S")
    /\ UNCHANGED <<estopLatched, faultCode>>

EStop(line) ==
    /\ line.cmd = "E" /\ line.valid
    /\ estopLatched' = TRUE
    /\ faultCode' = faultCode \cup {"ESTOP"}
    /\ beginBrake(DEFAULT_BRAKE_HOLD, "ESTOP")
    /\ Commanded("E")
    /\ UNCHANGED <<commandSeen, lastValidCommandMs>>

\* Mutant: the latch is cleared, its fault bit is not.
ClearEStop_KeepsFault(line) ==
    /\ line.cmd = "C" /\ line.valid
    /\ target' = ZeroTargets
    /\ estopLatched' = FALSE
    /\ faultCode' = faultCode \ {"WATCHDOG"}
    /\ brakeActive' = FALSE
    /\ motor' = AllMotors("RELEASE")
    /\ stateCode' = "RELEASED"
    /\ commandSeen' = FALSE
    /\ owed' = 0
    /\ Commanded("C")
    /\ UNCHANGED <<lastValidCommandMs, brakeUntilMs>>

ClearEStop(line) ==
    /\ line.cmd = "C" /\ line.valid
    /\ target' = ZeroTargets
    /\ estopLatched' = FALSE
    /\ faultCode' = faultCode \ {"ESTOP", "WATCHDOG"}
    /\ brakeActive' = FALSE
    /\ motor' = AllMotors("RELEASE")
    /\ stateCode' = "RELEASED"
    /\ commandSeen' = FALSE
    /\ owed' = 0
    /\ Commanded("C")
    /\ UNCHANGED <<lastValidCommandMs, brakeUntilMs>>

\* Mutant: the sensors are reset, the targets and the motors left as they are.
ResetSensors_KeepsMoving(line) ==
    /\ line.cmd = "R" /\ line.valid
    /\ faultCode' = faultCode \ {"WATCHDOG"}
    /\ commandSeen' = FALSE
    /\ Commanded("R")
    /\ UNCHANGED <<brakeActive, estopLatched, stateCode, lastValidCommandMs,
                   brakeUntilMs, motor, target, owed>>

\* R leaves brakeActive and its deadline alone although it frees the motors.
ResetSensors(line) ==
    /\ line.cmd = "R" /\ line.valid
    /\ target' = ZeroTargets
    /\ motor' = AllMotors("RELEASE")
    /\ faultCode' = faultCode \ {"WATCHDOG"}
    /\ commandSeen' = FALSE
    /\ stateCode' = IF estopLatched THEN "ESTOP" ELSE "RELEASED"
    /\ owed' = 0
    /\ Commanded("R")
    /\ UNCHANGED <<brakeActive, estopLatched, lastValidCommandMs, brakeUntilMs>>

\* Mutant: a query counts as a command and feeds the watchdog.
Query_FeedsWatchdog(line) ==
    /\ line.valid
    /\ line.cmd = "Q" \/ (line.cmd = "P" /\ line.args)
    /\ lastValidCommandMs' = clock
    /\ UNCHANGED <<commandSeen, brakeActive, estopLatched, stateCode, faultCode,
                   brakeUntilMs, motor, target, last, since, owed>>

\* P with good arguments, and Q, leave the motion state alone.
Query(line) ==
    /\ line.valid
    /\ line.cmd = "Q" \/ (line.cmd = "P" /\ line.args)
    /\ UNCHANGED <<fwVars, motor, target, last, since, owed>>

\* P with bad arguments, or a command the sketch does not know.
RefuseLine(line) ==
    /\ line.valid
    /\ line.cmd = "unknown" \/ (line.cmd = "P" /\ ~line.args)
    /\ ParseFault

HandleLine(line) ==
    /\ pc = "serial"
    /\ \/ MalformedLine(line)
       \/ RejectVelocity(line) \/ AcceptVelocity(line)
       \/ Open(line) \/ Close(line)
       \/ Brake(line) \/ Stop(line)
       \/ EStop(line) \/ ClearEStop(line)
       \/ ResetSensors(line)
       \/ Query(line) \/ RefuseLine(line)
    /\ UNCHANGED loopVars

-----------------------------------------------------------------------------
(* The rest of loop().                                                     *)

\* readSerialCommands finds no more input; `now' is read.
ReadNow ==
    /\ pc = "serial"
    /\ pc' = "watchdog"
    /\ now' = clock
    /\ loopTime' = 0
    /\ UNCHANGED <<clock, lastControlMs, lastTelemetryMs, fwVars, motor, target,
                   last, since, owed>>

Silent ==
    /\ commandSeen /\ ~estopLatched
    /\ Elapsed(now, lastValidCommandMs) > COMMAND_WATCHDOG

\* Mutant: the fault is raised, the motors are left to runSpeedControl.
checkWatchdog_OnlyFault ==
    /\ pc = "watchdog"
    /\ pc' = "brake"
    /\ IF Silent
       THEN commandSeen' = FALSE /\ faultCode' = faultCode \cup {"WATCHDOG"}
       ELSE UNCHANGED <<commandSeen, faultCode>>
    /\ UNCHANGED <<clock, now, loopTime, lastControlMs, lastTelemetryMs, brakeActive,
                   estopLatched, stateCode, lastValidCommandMs, brakeUntilMs, motor,
                   target, last, since, owed>>

checkWatchdog ==
    /\ pc = "watchdog"
    /\ pc' = "brake"
    /\ IF Silent
       THEN /\ commandSeen' = FALSE
            /\ faultCode' = faultCode \cup {"WATCHDOG"}
            /\ beginBrake(DEFAULT_BRAKE_HOLD, "WATCHDOG")
            /\ UNCHANGED <<estopLatched, lastValidCommandMs>>
       ELSE UNCHANGED <<fwVars, motor, target, owed>>
    /\ UNCHANGED <<clock, now, loopTime, lastControlMs, lastTelemetryMs, last, since>>

\* Mutant: the brake is not released while the emergency stop is latched.
updateBrakeState_HoldsEStop ==
    /\ pc = "brake"
    /\ pc' = "control"
    /\ IF brakeActive /\ ~estopLatched /\ TimeReached(now, brakeUntilMs)
       THEN /\ brakeActive' = FALSE
            /\ motor' = AllMotors("RELEASE")
            /\ stateCode' = IF "WATCHDOG" \in faultCode THEN "WATCHDOG" ELSE "RELEASED"
            /\ UNCHANGED <<commandSeen, estopLatched, faultCode,
                           lastValidCommandMs, brakeUntilMs>>
       ELSE UNCHANGED <<fwVars, motor>>
    /\ UNCHANGED <<clock, now, loopTime, lastControlMs, lastTelemetryMs, target,
                   last, since, owed>>

updateBrakeState ==
    /\ pc = "brake"
    /\ pc' = "control"
    /\ IF brakeActive /\ TimeReached(now, brakeUntilMs)
       THEN /\ brakeActive' = FALSE
            /\ motor' = AllMotors("RELEASE")
            /\ stateCode' = IF estopLatched THEN "ESTOP"
                            ELSE IF "WATCHDOG" \in faultCode THEN "WATCHDOG"
                            ELSE "RELEASED"
            /\ UNCHANGED <<commandSeen, estopLatched, faultCode,
                           lastValidCommandMs, brakeUntilMs>>
       ELSE UNCHANGED <<fwVars, motor>>
    /\ UNCHANGED <<clock, now, loopTime, lastControlMs, lastTelemetryMs, target,
                   last, since, owed>>

\* A wheel is released when its target is below 0.5 mm/s, and also when the
\* PID's trim happens to cancel the feed-forward (pwm 0).
Driven(t, mode) == \A m \in Motors : mode[m] = "DRIVE" => Abs(t[m]) >= 1

runSpeedControl ==
    IF brakeActive \/ estopLatched \/ "WATCHDOG" \in faultCode
    THEN UNCHANGED <<motor, stateCode>>
    ELSE IF targetsAreZero
    THEN motor' = AllMotors("RELEASE") /\ stateCode' = "RELEASED"
    ELSE /\ motor' \in [Motors -> {"RELEASE", "DRIVE"}]
         /\ Driven(target, motor')
         /\ stateCode' = "RUNNING"

ControlStep ==
    /\ pc = "control"
    /\ pc' = "telemetry"
    /\ IF Elapsed(now, lastControlMs) >= CONTROL_PERIOD
       THEN lastControlMs' = now /\ runSpeedControl
       ELSE UNCHANGED <<lastControlMs, motor, stateCode>>
    /\ UNCHANGED <<clock, now, loopTime, lastTelemetryMs, commandSeen, brakeActive,
                   estopLatched, faultCode, lastValidCommandMs, brakeUntilMs,
                   target, last, since, owed>>

TelemetryStep ==
    /\ pc = "telemetry"
    /\ pc' = "serial"
    /\ IF Elapsed(now, lastTelemetryMs) >= TELEMETRY_PERIOD
       THEN lastTelemetryMs' = now
       ELSE UNCHANGED lastTelemetryMs
    /\ UNCHANGED <<clock, now, loopTime, lastControlMs, fwVars, motor, target,
                   last, since, owed>>

-----------------------------------------------------------------------------
(* Time, power-up and reset.                                               *)

Tick ==
    /\ pc # "setup"
    /\ loopTime < MAX_LOOP
    /\ loopTime' = loopTime + 1
    /\ clock' = After(clock, 1)
    /\ since' = IF since < SINCE_CAP THEN since + 1 ELSE since
    /\ owed' = IF brakeActive /\ owed > OWED_FLOOR THEN owed - 1 ELSE owed
    /\ UNCHANGED <<pc, now, lastControlMs, lastTelemetryMs, fwVars, motor, target,
                   last>>

\* setup(): the motors are freed and READY is sent.
Setup ==
    /\ pc = "setup"
    /\ pc' = "serial"
    /\ motor' = AllMotors("RELEASE")
    /\ lastControlMs' = clock
    /\ lastTelemetryMs' = clock
    /\ now' = clock
    /\ loopTime' = 0
    /\ UNCHANGED <<clock, fwVars, target, last, since, owed>>

\* The Uno restarts (opening its port does it).  The motor shield's own
\* controller keeps driving the pins until setup() runs.
Reset ==
    /\ pc # "setup"
    /\ pc' = "setup"
    /\ clock' = 0 /\ now' = 0 /\ loopTime' = 0
    /\ target' = ZeroTargets
    /\ commandSeen' = FALSE /\ brakeActive' = FALSE /\ estopLatched' = FALSE
    /\ stateCode' = "RELEASED" /\ faultCode' = {}
    /\ lastValidCommandMs' = 0 /\ brakeUntilMs' = 0
    /\ lastControlMs' = 0 /\ lastTelemetryMs' = 0
    /\ Commanded("reset")
    /\ owed' = 0
    /\ UNCHANGED motor

Init ==
    /\ pc = "setup"
    /\ clock = 0 /\ now = 0 /\ loopTime = 0
    /\ motor \in [Motors -> MotorModes]
    /\ target = ZeroTargets
    /\ commandSeen = FALSE /\ brakeActive = FALSE /\ estopLatched = FALSE
    /\ stateCode = "RELEASED" /\ faultCode = {}
    /\ lastValidCommandMs = 0 /\ brakeUntilMs = 0
    /\ lastControlMs = 0 /\ lastTelemetryMs = 0
    /\ last = "reset" /\ since = 0 /\ owed = 0

LoopStep ==
    ReadNow \/ checkWatchdog \/ updateBrakeState \/ ControlStep \/ TelemetryStep

Next ==
    \/ Setup
    \/ \E line \in Lines : HandleLine(line)
    \/ LoopStep
    \/ Tick
    \/ Reset

Spec == Init /\ [][Next]_vars

\* loop() runs for ever, the clock ticks, and readSerialCommands finds the port
\* empty sooner or later, because the line is slower than the sketch.
FairSpec == Spec /\ WF_vars(Setup) /\ WF_vars(LoopStep) /\ WF_vars(Tick)

-----------------------------------------------------------------------------
(* Properties.                                                             *)

TypeOK ==
    /\ pc \in Pcs
    /\ clock \in Stamp /\ now \in Stamp
    /\ loopTime \in 0 .. MAX_LOOP
    /\ motor \in [Motors -> MotorModes]
    /\ target \in [Motors -> Targets]
    /\ commandSeen \in BOOLEAN /\ brakeActive \in BOOLEAN /\ estopLatched \in BOOLEAN
    /\ stateCode \in StateCodes \ {"FAULT"}
    /\ faultCode \in SUBSET FaultBits
    /\ lastValidCommandMs \in Stamp /\ brakeUntilMs \in Stamp
    /\ lastControlMs \in Stamp /\ lastTelemetryMs \in Stamp
    /\ last \in {"V", "O", "X", "B", "S", "E", "C", "R", "reset"}
    /\ since \in 0 .. SINCE_CAP
    /\ owed \in OWED_FLOOR .. MAX_BRAKE_HOLD

Some(mode) == \E m \in Motors : motor[m] = mode

\* A latched emergency stop holds the robot: whatever lines follow, no wheel
\* has a target and no motor is driven until the latch is cleared.
EStopHoldsMotors ==
    estopLatched => target = ZeroTargets /\ ~Some("DRIVE")

\* Nothing moves, or is asked to move, behind the watchdog's back: while a
\* wheel has a target or a motor is driven, the watchdog is armed
\* (commandSeen), no emergency stop is latched and no timeout is pending.
MotionIsSupervised ==
    pc # "setup" /\ (Some("DRIVE") \/ Moves(target))
        => commandSeen /\ ~estopLatched /\ "WATCHDOG" \notin faultCode

\* The watchdog's promise: a motor still driven has had its last V no longer
\* ago than COMMAND_WATCHDOG_MS and two passes of loop(), although the stamps
\* it is computed from wrap.
SilenceStopsMotors ==
    pc # "setup" /\ Some("DRIVE") => since <= COMMAND_WATCHDOG + 2 * MAX_LOOP

\* The watchdog never fires early: the fault is raised only after more than
\* COMMAND_WATCHDOG_MS without a command.
WatchdogNotEarly ==
    [][ "WATCHDOG" \notin faultCode /\ "WATCHDOG" \in faultCode'
            => since > COMMAND_WATCHDOG ]_vars

\* A brake lasts as long as was asked: a braked motor changes mode only when
\* the hold is over or a line gave it up (a moving V, O, C or R).
BrakeHeld ==
    [][ \A m \in Motors :
            pc # "setup" /\ motor[m] = "BRAKE" /\ motor'[m] # "BRAKE"
                => owed' <= 0 ]_vars

\* ... and no longer: a timed brake is over two passes of loop() after its
\* hold at the latest.
BrakeEndsOnTime ==
    pc # "setup" /\ brakeActive /\ Some("BRAKE") => owed >= -(2 * MAX_LOOP)

\* The state and fault codes that telemetry carries tell the truth about the
\* motors and the latch.
ReportedStateIsTrue ==
    /\ ("ESTOP" \in faultCode) <=> estopLatched
    /\ stateCode = "ESTOP" => estopLatched
    /\ pc # "setup" =>
        /\ stateCode = "RELEASED" => motor = AllMotors("RELEASE")
        /\ stateCode = "RUNNING" => ~Some("BRAKE")
        /\ Some("DRIVE") => stateCode = "RUNNING"

\* A host that falls silent for good ends with every motor released for good.
SilentHostIsReleased ==
    <>[](since = SINCE_CAP) => <>[](motor = AllMotors("RELEASE"))
=============================================================================
