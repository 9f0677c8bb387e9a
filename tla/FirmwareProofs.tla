--------------------------- MODULE FirmwareProofs ---------------------------
(* Theorems of Firmware, for every number of motors, every set of speeds and *)
(* holds, every timer length and every clock range the assumptions admit.    *)
EXTENDS Firmware, TLAPS

-----------------------------------------------------------------------------
(* The clock.                                                               *)

\* Adding a delay shorter than the clock's range stays within the range.
LEMMA AfterIsStamp ==
    ASSUME NEW a \in Stamp, NEW d \in 0 .. CLOCK_RANGE
    PROVE  After(a, d) \in Stamp
BY HalfRangeAssumption DEF After, Stamp, CLOCK_RANGE

-----------------------------------------------------------------------------
(* Type correctness.                                                        *)

\* The globals of the sketch start within their types.
LEMMA InitTypeOK == Init => TypeOK
<1> SUFFICES ASSUME Init PROVE TypeOK
  OBVIOUS
<1>1. 0 \in Stamp
  BY HalfRangeAssumption DEF Stamp, CLOCK_RANGE
<1>2. ZeroTargets \in [Motors -> Targets]
  BY FirmwareAssumption DEF ZeroTargets, Targets
<1>3. 0 \in 0 .. MAX_LOOP /\ 0 \in 0 .. SINCE_CAP /\ 0 \in OWED_FLOOR .. MAX_BRAKE_HOLD
  BY FirmwareAssumption DEF SINCE_CAP, OWED_FLOOR
<1> QED
  BY <1>1, <1>2, <1>3 DEF Init, TypeOK, Pcs, StateCodes, FaultBits

\* What beginBrake leaves behind is well typed.
LEMMA BeginBrakeType ==
    ASSUME TypeOK, NEW hold \in 0 .. MAX_BRAKE_HOLD,
           NEW stopState \in {"BRAKING", "ESTOP", "WATCHDOG"},
           beginBrake(hold, stopState)
    PROVE  /\ target' \in [Motors -> Targets]
           /\ motor' \in [Motors -> MotorModes]
           /\ brakeActive' \in BOOLEAN
           /\ brakeUntilMs' \in Stamp
           /\ stateCode' \in StateCodes \ {"FAULT"}
           /\ owed' \in OWED_FLOOR .. MAX_BRAKE_HOLD
<1>1. hold \in 0 .. CLOCK_RANGE
  BY FirmwareAssumption, TimerRangeAssumption, HalfRangeAssumption DEF CLOCK_RANGE
<1>2. brakeUntilMs' \in Stamp
  BY <1>1, AfterIsStamp DEF beginBrake, TypeOK
<1>3. owed' \in OWED_FLOOR .. MAX_BRAKE_HOLD
  BY FirmwareAssumption DEF beginBrake, OWED_FLOOR
<1>4. target' \in [Motors -> Targets]
  BY FirmwareAssumption DEF beginBrake, ZeroTargets, Targets
<1> QED
  BY <1>2, <1>3, <1>4 DEF beginBrake, AllMotors, MotorModes, StateCodes

\* Every command handler keeps the types.
LEMMA HandleLineType ==
    ASSUME TypeOK, NEW line \in Lines, HandleLine(line)
    PROVE  TypeOK'
<1> USE DEF TypeOK, HandleLine, loopVars, Pcs, Commanded, SINCE_CAP
<1>1. DEFAULT_BRAKE_HOLD \in 0 .. MAX_BRAKE_HOLD
  BY FirmwareAssumption
<1>2. 0 \in 0 .. SINCE_CAP /\ 0 \in OWED_FLOOR .. MAX_BRAKE_HOLD
  BY FirmwareAssumption DEF OWED_FLOOR
<1>3. ZeroTargets \in [Motors -> Targets] /\ AllMotors("RELEASE") \in [Motors -> MotorModes]
  BY FirmwareAssumption DEF ZeroTargets, Targets, AllMotors, MotorModes
<1>4. CASE MalformedLine(line) \/ RefuseLine(line)
  BY <1>4 DEF MalformedLine, RefuseLine, ParseFault, FaultBits
<1>5. CASE RejectVelocity(line)
  BY <1>5, <1>2 DEF RejectVelocity
<1>6. CASE AcceptVelocity(line)
  <2>1. line.vel \in [Motors -> Speeds]
    BY <1>6 DEF AcceptVelocity, Lines
  <2>2. \A m \in Motors :
          Clamp(line.vel[m], -MAX_TARGET_SPEED, MAX_TARGET_SPEED) \in Targets
    <3> SUFFICES ASSUME NEW m \in Motors
                 PROVE  Clamp(line.vel[m], -MAX_TARGET_SPEED, MAX_TARGET_SPEED) \in Targets
      OBVIOUS
    <3>1. line.vel[m] \in Int
      BY <2>1, FirmwareAssumption
    <3>2. -MAX_TARGET_SPEED \in Int /\ MAX_TARGET_SPEED \in Int
          /\ -MAX_TARGET_SPEED <= MAX_TARGET_SPEED
      BY FirmwareAssumption
    <3> HIDE DEF TypeOK, HandleLine
    <3> QED
      BY <3>1, <3>2 DEF Clamp, Targets
  <2>3. target' \in [Motors -> Targets]
    BY <1>6, <2>2 DEF AcceptVelocity
  <2>4. brakeActive' \in BOOLEAN /\ owed' \in OWED_FLOOR .. MAX_BRAKE_HOLD
    BY <1>6, <1>2 DEF AcceptVelocity
  <2> QED
    BY <1>6, <1>2, <2>3, <2>4 DEF AcceptVelocity, FaultBits
<1>7. CASE Open(line)
  BY <1>7, <1>2, <1>3 DEF Open, StateCodes
<1>8. CASE Close(line)
  BY <1>8, <1>1, <1>2, BeginBrakeType DEF Close
<1>9. CASE Brake(line)
  <2>1. line.hold \in Int
    BY <1>9, FirmwareAssumption DEF Brake, Lines
  <2>2. Clamp(line.hold, MIN_BRAKE_HOLD, MAX_BRAKE_HOLD) \in 0 .. MAX_BRAKE_HOLD
    <3>1. /\ MIN_BRAKE_HOLD \in Nat /\ MAX_BRAKE_HOLD \in Nat
          /\ MIN_BRAKE_HOLD <= MAX_BRAKE_HOLD
      BY FirmwareAssumption
    <3> HIDE DEF TypeOK, HandleLine, SINCE_CAP
    <3>2. Clamp(line.hold, MIN_BRAKE_HOLD, MAX_BRAKE_HOLD)
            \in MIN_BRAKE_HOLD .. MAX_BRAKE_HOLD
      BY <2>1, <3>1 DEF Clamp
    <3> QED
      BY <3>1, <3>2
  <2> QED
    BY <1>9, <1>2, <2>2, BeginBrakeType DEF Brake
<1>10. CASE Stop(line)
  BY <1>10, <1>1, <1>2, BeginBrakeType DEF Stop
<1>11. CASE EStop(line)
  BY <1>11, <1>1, <1>2, BeginBrakeType DEF EStop, FaultBits
<1>12. CASE ClearEStop(line)
  BY <1>12, <1>2, <1>3 DEF ClearEStop, StateCodes
<1>13. CASE ResetSensors(line)
  BY <1>13, <1>2, <1>3 DEF ResetSensors, StateCodes
<1>14. CASE Query(line)
  BY <1>14 DEF Query, fwVars
<1> QED
  BY <1>4, <1>5, <1>6, <1>7, <1>8, <1>9, <1>10, <1>11, <1>12, <1>13, <1>14

\* Every step of a pass of loop() keeps the types.
LEMMA LoopStepType == TypeOK /\ LoopStep => TypeOK'
<1> SUFFICES ASSUME TypeOK, LoopStep PROVE TypeOK'
  OBVIOUS
<1> USE DEF TypeOK, Pcs
<1>1. CASE ReadNow
  BY <1>1, FirmwareAssumption DEF ReadNow, fwVars
<1>2. CASE checkWatchdog
  <2>1. DEFAULT_BRAKE_HOLD \in 0 .. MAX_BRAKE_HOLD
    BY FirmwareAssumption
  <2> QED
    BY <1>2, <2>1, BeginBrakeType DEF checkWatchdog, fwVars, FaultBits
<1>3. CASE updateBrakeState
  BY <1>3 DEF updateBrakeState, fwVars, AllMotors, MotorModes, StateCodes
<1>4. CASE ControlStep
  BY <1>4 DEF ControlStep, runSpeedControl, AllMotors, MotorModes, StateCodes
<1>5. CASE TelemetryStep
  BY <1>5 DEF TelemetryStep, fwVars
<1> QED
  BY <1>1, <1>2, <1>3, <1>4, <1>5 DEF LoopStep

\* Every step keeps the types: lines, loop(), ticks and resets.
LEMMA NextTypeOK == TypeOK /\ [Next]_vars => TypeOK'
<1> SUFFICES ASSUME TypeOK, [Next]_vars PROVE TypeOK'
  OBVIOUS
<1>1. CASE Setup
  BY <1>1, FirmwareAssumption
  DEF Setup, TypeOK, fwVars, Pcs, AllMotors, MotorModes
<1>2. CASE \E line \in Lines : HandleLine(line)
  BY <1>2, HandleLineType
<1>3. CASE LoopStep
  BY <1>3, LoopStepType
<1>4. CASE Tick
  <2>1. clock' \in Stamp
    BY <1>4, AfterIsStamp, HalfRangeAssumption DEF Tick, TypeOK, CLOCK_RANGE
  <2>2. /\ loopTime' \in 0 .. MAX_LOOP
        /\ since' \in 0 .. SINCE_CAP
        /\ owed' \in OWED_FLOOR .. MAX_BRAKE_HOLD
    BY <1>4, FirmwareAssumption DEF Tick, TypeOK, SINCE_CAP, OWED_FLOOR
  <2> QED
    BY <1>4, <2>1, <2>2 DEF Tick, TypeOK, fwVars
<1>5. CASE Reset
  <2>2. 0 \in Stamp
    BY HalfRangeAssumption DEF Stamp, CLOCK_RANGE
  <2>3. ZeroTargets \in [Motors -> Targets]
    BY FirmwareAssumption DEF ZeroTargets, Targets
  <2>4. 0 \in 0 .. MAX_LOOP /\ 0 \in 0 .. SINCE_CAP /\ 0 \in OWED_FLOOR .. MAX_BRAKE_HOLD
    BY FirmwareAssumption DEF SINCE_CAP, OWED_FLOOR
  <2> QED
    BY <1>5, <2>2, <2>3, <2>4
    DEF Reset, TypeOK, Pcs, StateCodes, FaultBits, Commanded
<1>6. CASE UNCHANGED vars
  BY <1>6 DEF vars, fwVars, loopVars, TypeOK
<1> QED
  BY <1>1, <1>2, <1>3, <1>4, <1>5, <1>6 DEF Next

\* Every variable keeps its type in every run of the sketch.
THEOREM TypeCorrect == Spec => []TypeOK
<1>1. Init => TypeOK
  BY InitTypeOK
<1>2. TypeOK /\ [Next]_vars => TypeOK'
  BY NextTypeOK
<1> QED
  BY <1>1, <1>2, PTL DEF Spec

-----------------------------------------------------------------------------
(* Supervision of motion.                                                   *)

\* What is true between any two steps; the promises of Firmware follow.
EStopBit == ("ESTOP" \in faultCode) <=> estopLatched

TargetsSupervised ==
    /\ estopLatched => target = ZeroTargets
    /\ "WATCHDOG" \in faultCode \/ brakeActive => ~Moves(target)
    /\ Moves(target) => commandSeen

FreshAtSetup ==
    pc = "setup" =>
        /\ ~commandSeen /\ ~brakeActive /\ ~estopLatched
        /\ target = ZeroTargets /\ stateCode = "RELEASED"

DrivenSupervised ==
    pc # "setup" /\ Some("DRIVE") =>
        /\ commandSeen /\ ~estopLatched /\ ~brakeActive
        /\ "WATCHDOG" \notin faultCode /\ stateCode = "RUNNING"

StateMatchesMotors ==
    /\ stateCode = "ESTOP" => estopLatched
    /\ pc # "setup" =>
        /\ stateCode = "RELEASED" => motor = AllMotors("RELEASE")
        /\ stateCode = "RUNNING" => ~Some("BRAKE")

MotionInv ==
    /\ TypeOK
    /\ EStopBit /\ TargetsSupervised /\ FreshAtSetup
    /\ DrivenSupervised /\ StateMatchesMotors

\* Zero targets move nothing.
LEMMA ZeroMovesNothing == ~Moves(ZeroTargets)
BY DEF Moves, ZeroTargets, Abs

\* The motion invariant holds when the sketch starts.
LEMMA InitMotionInv == Init => MotionInv
<1> SUFFICES ASSUME Init PROVE MotionInv
  OBVIOUS
<1>1. TypeOK
  BY InitTypeOK
<1> QED
  BY <1>1, ZeroMovesNothing
  DEF Init, MotionInv, EStopBit, TargetsSupervised, FreshAtSetup, DrivenSupervised,
      StateMatchesMotors

\* A line that begins a brake re-establishes the invariant.
LEMMA BeginBrakeMotionInv ==
    ASSUME MotionInv, TypeOK', NEW hold, pc' # "setup",
           NEW stopState \in {"BRAKING", "ESTOP", "WATCHDOG"},
           beginBrake(hold, stopState),
           ("ESTOP" \in faultCode') <=> estopLatched',
           stopState = "ESTOP" => estopLatched'
    PROVE  MotionInv'
<1>1. target' = ZeroTargets /\ ~Moves(target')
  BY ZeroMovesNothing DEF beginBrake
<1>2. ~Some("DRIVE")'
  BY DEF beginBrake, AllMotors, Some
<1>3. stateCode' = stopState
  BY DEF beginBrake
<1> QED
  BY <1>1, <1>2, <1>3
  DEF MotionInv, EStopBit, TargetsSupervised, FreshAtSetup, DrivenSupervised,
      StateMatchesMotors

\* Every command handler keeps the motion invariant.
LEMMA HandleLineMotionInv ==
    ASSUME MotionInv, NEW line \in Lines, HandleLine(line)
    PROVE  MotionInv'
<1>0. TypeOK' /\ pc' # "setup" /\ pc # "setup"
  BY HandleLineType DEF MotionInv, HandleLine, loopVars
<1> USE DEF MotionInv, EStopBit, TargetsSupervised, FreshAtSetup, DrivenSupervised,
            StateMatchesMotors
<1>1. CASE MalformedLine(line) \/ RefuseLine(line)
  BY <1>0, <1>1 DEF MalformedLine, RefuseLine, ParseFault, Some
<1>2. CASE RejectVelocity(line)
  BY <1>0, <1>2 DEF RejectVelocity, Some
<1>3. CASE AcceptVelocity(line)
  <2>1. /\ motor' = motor /\ stateCode' = stateCode /\ estopLatched' = estopLatched
        /\ commandSeen' = TRUE /\ ~estopLatched
        /\ faultCode' = faultCode \ {"WATCHDOG", "PARSE"}
    BY <1>3 DEF AcceptVelocity
  <2>2. brakeActive' => brakeActive /\ ~Moves(target')
    BY <1>3 DEF AcceptVelocity
  <2> QED
    BY <1>0, <2>1, <2>2 DEF Some
<1>4. CASE Open(line) \/ ClearEStop(line) \/ ResetSensors(line)
  <2>1. /\ target' = ZeroTargets /\ ~Moves(target')
        /\ motor' = AllMotors("RELEASE") /\ ~Some("DRIVE")' /\ ~Some("BRAKE")'
    BY <1>4, ZeroMovesNothing DEF Open, ClearEStop, ResetSensors, AllMotors, Some
  <2> QED
    BY <1>0, <1>4, <2>1 DEF Open, ClearEStop, ResetSensors
<1>5. CASE Close(line)
  BY <1>0, <1>5, BeginBrakeMotionInv DEF Close
<1>6. CASE Brake(line)
  BY <1>0, <1>6, BeginBrakeMotionInv DEF Brake
<1>7. CASE Stop(line)
  BY <1>0, <1>7, BeginBrakeMotionInv DEF Stop
<1>8. CASE EStop(line)
  BY <1>0, <1>8, BeginBrakeMotionInv DEF EStop
<1>9. CASE Query(line)
  BY <1>0, <1>9 DEF Query, fwVars, Some
<1> QED
  BY <1>1, <1>2, <1>3, <1>4, <1>5, <1>6, <1>7, <1>8, <1>9 DEF HandleLine

\* Every step of a pass of loop() keeps the motion invariant.
LEMMA LoopStepMotionInv == MotionInv /\ LoopStep => MotionInv'
<1> SUFFICES ASSUME MotionInv, LoopStep PROVE MotionInv'
  OBVIOUS
<1>0. TypeOK'
  BY LoopStepType DEF MotionInv
<1> USE DEF MotionInv, EStopBit, TargetsSupervised, FreshAtSetup, DrivenSupervised,
            StateMatchesMotors
<1>1. CASE ReadNow
  BY <1>0, <1>1 DEF ReadNow, fwVars, Some
<1>2. CASE checkWatchdog
  <2>1. CASE Silent
    BY <1>0, <1>2, <2>1, BeginBrakeMotionInv DEF checkWatchdog
  <2>2. CASE ~Silent
    BY <1>0, <1>2, <2>2 DEF checkWatchdog, fwVars, Some
  <2> QED
    BY <2>1, <2>2
<1>3. CASE updateBrakeState
  <2>1. CASE brakeActive /\ TimeReached(now, brakeUntilMs)
    <3>1. motor' = AllMotors("RELEASE") /\ ~Some("DRIVE")' /\ ~Some("BRAKE")'
      BY <1>3, <2>1 DEF updateBrakeState, AllMotors, Some
    <3> QED
      BY <1>0, <1>3, <2>1, <3>1 DEF updateBrakeState
  <2>2. CASE ~(brakeActive /\ TimeReached(now, brakeUntilMs))
    BY <1>0, <1>3, <2>2 DEF updateBrakeState, fwVars, Some
  <2> QED
    BY <2>1, <2>2
<1>4. CASE ControlStep
  <2>0. /\ UNCHANGED <<commandSeen, brakeActive, estopLatched, faultCode, target>>
        /\ pc = "control" /\ pc' = "telemetry"
    BY <1>4 DEF ControlStep
  <2>1. CASE UNCHANGED <<motor, stateCode>>
    BY <1>0, <2>0, <2>1 DEF Some
  <2>2. CASE motor' = AllMotors("RELEASE") /\ stateCode' = "RELEASED"
    <3>1. ~Some("DRIVE")' /\ ~Some("BRAKE")'
      BY <2>2 DEF AllMotors, Some
    <3> QED
      BY <1>0, <2>0, <2>2, <3>1
  <2>3. CASE /\ ~brakeActive /\ ~estopLatched /\ "WATCHDOG" \notin faultCode
             /\ Moves(target)
             /\ motor' \in [Motors -> {"RELEASE", "DRIVE"}] /\ stateCode' = "RUNNING"
    <3>1. ~Some("BRAKE")'
      BY <2>3 DEF Some
    <3> QED
      BY <1>0, <2>0, <2>3, <3>1
  <2> QED
    BY <1>4, <2>1, <2>2, <2>3 DEF ControlStep, runSpeedControl, targetsAreZero
<1>5. CASE TelemetryStep
  BY <1>0, <1>5 DEF TelemetryStep, fwVars, Some
<1> QED
  BY <1>1, <1>2, <1>3, <1>4, <1>5 DEF LoopStep

\* Every step keeps the motion invariant.
LEMMA NextMotionInv == MotionInv /\ [Next]_vars => MotionInv'
<1> SUFFICES ASSUME MotionInv, [Next]_vars PROVE MotionInv'
  OBVIOUS
<1>0. TypeOK'
  BY NextTypeOK DEF MotionInv
<1> USE DEF MotionInv, EStopBit, TargetsSupervised, FreshAtSetup, DrivenSupervised,
            StateMatchesMotors
<1>1. CASE Setup
  <2>1. motor' = AllMotors("RELEASE") /\ ~Some("DRIVE")' /\ ~Some("BRAKE")'
    BY <1>1 DEF Setup, AllMotors, Some
  <2> QED
    BY <1>0, <1>1, <2>1 DEF Setup, fwVars
<1>2. CASE \E line \in Lines : HandleLine(line)
  BY <1>2, HandleLineMotionInv
<1>3. CASE LoopStep
  BY <1>3, LoopStepMotionInv
<1>4. CASE Tick
  BY <1>0, <1>4 DEF Tick, fwVars, Some
<1>5. CASE Reset
  BY <1>0, <1>5, ZeroMovesNothing DEF Reset, Some
<1>6. CASE UNCHANGED vars
  BY <1>0, <1>6 DEF vars, fwVars, loopVars, Some
<1> QED
  BY <1>1, <1>2, <1>3, <1>4, <1>5, <1>6 DEF Next

\* The motion invariant holds in every run of the sketch.
LEMMA MotionInvariant == Spec => []MotionInv
<1>1. Init => MotionInv
  BY InitMotionInv
<1>2. MotionInv /\ [Next]_vars => MotionInv'
  BY NextMotionInv
<1> QED
  BY <1>1, <1>2, PTL DEF Spec

\* Whatever the host sends, a latched emergency stop holds every motor.
THEOREM EStopSafety == Spec => []EStopHoldsMotors
<1>1. MotionInv => EStopHoldsMotors
  BY DEF MotionInv, TargetsSupervised, FreshAtSetup, DrivenSupervised, EStopHoldsMotors
<1> QED
  BY <1>1, MotionInvariant, PTL

\* No motor is driven, and no wheel has a target, unless the watchdog is armed.
THEOREM Supervision == Spec => []MotionIsSupervised
<1>1. MotionInv => MotionIsSupervised
  BY ZeroMovesNothing
  DEF MotionInv, TargetsSupervised, DrivenSupervised, MotionIsSupervised
<1> QED
  BY <1>1, MotionInvariant, PTL

\* Telemetry's state and fault codes agree with the motors and the latch.
THEOREM TruthfulState == Spec => []ReportedStateIsTrue
<1>1. MotionInv => ReportedStateIsTrue
  BY DEF MotionInv, EStopBit, DrivenSupervised, StateMatchesMotors, ReportedStateIsTrue
<1> QED
  BY <1>1, MotionInvariant, PTL

-----------------------------------------------------------------------------
(* Time: the watchdog and the timed brake keep their promises for timers of *)
(* every length and a clock of every range, wrapping included, as long as   *)
(* the timers fit half the range.  First the clock.                         *)

\* One tick adds one to an elapsed time that is short of the clock's range.
LEMMA ElapsedTick ==
    ASSUME NEW a \in Stamp, NEW b \in Stamp, Elapsed(a, b) < CLOCK_RANGE - 1
    PROVE  Elapsed(After(a, 1), b) = Elapsed(a, b) + 1
BY HalfRangeAssumption DEF Elapsed, After, Stamp, CLOCK_RANGE

\* Elapsed times add up: from c to a, and from a to b, make from c to b.
LEMMA ElapsedSplit ==
    ASSUME NEW a \in Stamp, NEW b \in Stamp, NEW c \in Stamp,
           Elapsed(b, a) <= Elapsed(b, c)
    PROVE  Elapsed(a, c) = Elapsed(b, c) - Elapsed(b, a)
BY HalfRangeAssumption DEF Elapsed, Stamp, CLOCK_RANGE

\* The stamp that lies left ticks ahead of t, or -left ticks behind it.
Ahead(t, left) == IF left >= 0 THEN After(t, left) ELSE Elapsed(t, -left)

\* One tick brings a deadline one tick closer.
LEMMA AheadTick ==
    ASSUME NEW t \in Stamp, NEW left \in Int,
           -HALF_RANGE < left, left < HALF_RANGE
    PROVE  Ahead(t, left) = Ahead(After(t, 1), left - 1)
BY HalfRangeAssumption DEF Ahead, Elapsed, After, Stamp, CLOCK_RANGE

\* timeReached decides a deadline seen from a slightly older stamp correctly.
LEMMA ReachedMeansDue ==
    ASSUME NEW t \in Stamp, NEW n \in Stamp, NEW left \in Int,
           -HALF_RANGE < left,
           left + Elapsed(t, n) < HALF_RANGE, -HALF_RANGE < left + Elapsed(t, n),
           Elapsed(t, n) < HALF_RANGE
    PROVE  TimeReached(n, Ahead(t, left)) <=> left + Elapsed(t, n) <= 0
BY HalfRangeAssumption
DEF TimeReached, Ahead, Elapsed, After, Stamp, CLOCK_RANGE
-----------------------------------------------------------------------------
(* What the stamps say of true time.                                        *)

Armed == commandSeen /\ ~estopLatched
Braking == pc # "setup" /\ brakeActive /\ Some("BRAKE")

\* loop()'s `now' is loopTime ticks old.
NowIsRecent == pc # "setup" => Elapsed(clock, now) = loopTime

\* While the watchdog is armed, lastValidCommandMs is as old as the silence,
\* and every pass of loop() bounds it.
SilenceMeasured ==
    Armed =>
        /\ since = Elapsed(clock, lastValidCommandMs)
        /\ pc = "watchdog" => /\ loopTime <= since
                              /\ since <= COMMAND_WATCHDOG + MAX_LOOP + loopTime
        /\ pc # "watchdog" => since <= COMMAND_WATCHDOG + loopTime

\* While a timed brake holds the motors, its deadline lies `owed' ticks ahead.
BrakeMeasured ==
    Braking =>
        /\ brakeUntilMs = Ahead(clock, owed)
        /\ pc \in {"watchdog", "brake"} => owed + loopTime + MAX_LOOP >= 0
        /\ pc \notin {"watchdog", "brake"} => owed + loopTime >= 0

\* Motors braked without a timer owe nothing.
NothingOwed == pc # "setup" /\ ~brakeActive /\ Some("BRAKE") => owed <= 0

TimeInv == MotionInv /\ NowIsRecent /\ SilenceMeasured /\ BrakeMeasured /\ NothingOwed

\* The timing invariant holds when the sketch starts.
LEMMA InitTimeInv == Init => TimeInv
<1> SUFFICES ASSUME Init PROVE TimeInv
  OBVIOUS
<1>1. MotionInv
  BY InitMotionInv
<1> QED
  BY <1>1
  DEF Init, TimeInv, NowIsRecent, SilenceMeasured, Armed, BrakeMeasured, Braking, NothingOwed

\* A brake that begins now is measured from now on.
LEMMA BeginBrakeMeasured ==
    ASSUME TypeOK, NEW hold \in 0 .. MAX_BRAKE_HOLD, NEW stopState,
           beginBrake(hold, stopState), UNCHANGED <<clock, loopTime>>
    PROVE  BrakeMeasured' /\ NothingOwed'
<1>1. hold \in Nat /\ loopTime \in Nat /\ MAX_LOOP \in Nat
  BY FirmwareAssumption DEF TypeOK
<1>2. hold + loopTime + MAX_LOOP >= 0 /\ hold + loopTime >= 0
  BY <1>1
<1>3. /\ owed' = hold /\ loopTime' = loopTime /\ brakeActive' = TRUE
      /\ brakeUntilMs' = Ahead(clock', owed')
  BY <1>1 DEF beginBrake, Ahead
<1> QED
  BY <1>2, <1>3 DEF BrakeMeasured, NothingOwed

\* Every command handler keeps the timing invariant.
LEMMA HandleLineTimeInv ==
    ASSUME TimeInv, NEW line \in Lines, HandleLine(line)
    PROVE  TimeInv'
<1>0. MotionInv' /\ TypeOK /\ TypeOK' /\ MotionInv
  BY HandleLineMotionInv DEF TimeInv, MotionInv
<1>1. /\ UNCHANGED <<clock, now, loopTime, pc>> /\ pc = "serial"
      /\ clock \in Stamp /\ loopTime \in Nat /\ COMMAND_WATCHDOG \in Nat
  BY <1>0, FirmwareAssumption DEF HandleLine, loopVars, TypeOK
<1>2. NowIsRecent'
  BY <1>1 DEF TimeInv, NowIsRecent
<1>3. SilenceMeasured'
  <2>1. CASE UNCHANGED <<commandSeen, estopLatched, lastValidCommandMs, since>>
    BY <1>1, <2>1 DEF TimeInv, SilenceMeasured, Armed
  <2>2. CASE ~Armed'
    BY <2>2 DEF SilenceMeasured
  <2>3. CASE lastValidCommandMs' = clock /\ since' = 0
    <3>1. Elapsed(clock', lastValidCommandMs') = 0
      BY <1>1, <2>3 DEF Elapsed, Stamp
    <3> QED
      BY <1>1, <2>3, <3>1 DEF SilenceMeasured
  <2> QED
    BY <2>1, <2>2, <2>3
    DEF HandleLine, MalformedLine, RefuseLine, ParseFault, RejectVelocity, AcceptVelocity,
        Open, Close, Brake, Stop, EStop, ClearEStop, ResetSensors, Query, fwVars,
        Commanded, Armed
<1>4. BrakeMeasured' /\ NothingOwed'
  <2>1. CASE UNCHANGED <<motor, brakeActive, brakeUntilMs, owed>>
    BY <1>1, <2>1 DEF TimeInv, BrakeMeasured, NothingOwed, Braking, Some
  <2>2. CASE AcceptVelocity(line)
    <3>1. UNCHANGED <<motor, brakeUntilMs>>
      BY <2>2 DEF AcceptVelocity
    <3>2. CASE brakeActive' = FALSE /\ owed' = 0
      BY <3>2 DEF BrakeMeasured, NothingOwed, Braking
    <3>3. CASE UNCHANGED <<brakeActive, owed>>
      BY <2>1, <3>1, <3>3
    <3> QED
      BY <1>0, <2>2, <3>2, <3>3 DEF AcceptVelocity, TypeOK
  <2>3. CASE motor' = AllMotors("RELEASE")
    BY <2>3 DEF BrakeMeasured, NothingOwed, Braking, AllMotors, Some
  <2>4. CASE \E hold \in 0 .. MAX_BRAKE_HOLD, stopState \in StateCodes :
               beginBrake(hold, stopState)
    BY <1>0, <1>1, <2>4, BeginBrakeMeasured
  <2>5. DEFAULT_BRAKE_HOLD \in 0 .. MAX_BRAKE_HOLD /\ {"BRAKING", "ESTOP"} \subseteq StateCodes
    BY FirmwareAssumption DEF StateCodes
  <2>6. CASE Close(line) \/ Stop(line) \/ EStop(line)
    BY <2>4, <2>5, <2>6 DEF Close, Stop, EStop
  <2>7. CASE Brake(line)
    <3>1. line.hold \in Int
      BY <2>7, FirmwareAssumption DEF Brake, Lines
    <3>2. Clamp(line.hold, MIN_BRAKE_HOLD, MAX_BRAKE_HOLD) \in 0 .. MAX_BRAKE_HOLD
      BY <3>1, FirmwareAssumption DEF Clamp
    <3> QED
      BY <2>4, <2>5, <2>7, <3>2 DEF Brake
  <2> QED
    BY <2>1, <2>2, <2>3, <2>6, <2>7
    DEF HandleLine, MalformedLine, RefuseLine, ParseFault, RejectVelocity,
        Open, ClearEStop, ResetSensors, Query, fwVars
<1> QED
  BY <1>0, <1>2, <1>3, <1>4 DEF TimeInv

\* Every step of a pass of loop() keeps the timing invariant.
LEMMA LoopStepTimeInv ==
    ASSUME TimeInv, LoopStep
    PROVE  TimeInv'
<1>0. MotionInv' /\ TypeOK /\ TypeOK' /\ MotionInv
  BY LoopStepMotionInv DEF TimeInv, MotionInv
<1>1. /\ loopTime \in 0 .. MAX_LOOP /\ MAX_LOOP \in Nat /\ COMMAND_WATCHDOG \in Nat
      /\ clock \in Stamp /\ now \in Stamp /\ owed \in Int
      /\ lastValidCommandMs \in Stamp /\ pc # "setup"
  BY <1>0, FirmwareAssumption
  DEF TypeOK, OWED_FLOOR, LoopStep, ReadNow, checkWatchdog, updateBrakeState, ControlStep,
      TelemetryStep
<1>2. CASE ReadNow
  <2>1. /\ pc = "serial" /\ pc' = "watchdog" /\ loopTime' = 0 /\ now' = clock
        /\ UNCHANGED <<clock, fwVars, motor, since, owed>>
    BY <1>2 DEF ReadNow
  <2>2. NowIsRecent'
    BY <1>1, <2>1 DEF NowIsRecent, Elapsed, Stamp
  <2>3. SilenceMeasured'
    <3>1. since \in Nat
      BY <1>0 DEF TypeOK, SINCE_CAP
    <3> QED
      BY <1>1, <2>1, <3>1 DEF TimeInv, SilenceMeasured, Armed, fwVars
  <2>4. BrakeMeasured' /\ NothingOwed'
    BY <1>1, <2>1 DEF TimeInv, BrakeMeasured, NothingOwed, Braking, Some, fwVars
  <2> QED
    BY <1>0, <2>2, <2>3, <2>4 DEF TimeInv
<1>3. CASE checkWatchdog
  <2>1. /\ pc = "watchdog" /\ pc' = "brake"
        /\ UNCHANGED <<clock, now, loopTime, since, lastValidCommandMs, estopLatched>>
    BY <1>3 DEF checkWatchdog, fwVars
  <2>2. NowIsRecent'
    BY <1>1, <2>1 DEF TimeInv, NowIsRecent
  <2>3. CASE Silent
    <3>1. ~Armed'
      BY <1>3, <2>3 DEF checkWatchdog, Armed
    <3>2. BrakeMeasured' /\ NothingOwed'
      BY <1>0, <1>3, <2>1, <2>3, BeginBrakeMeasured, FirmwareAssumption DEF checkWatchdog
    <3> QED
      BY <1>0, <2>2, <3>1, <3>2 DEF TimeInv, SilenceMeasured
  <2>4. CASE ~Silent
    <3>1. UNCHANGED <<fwVars, motor, owed>>
      BY <1>3, <2>4 DEF checkWatchdog
    <3>2. SilenceMeasured'
      <4> SUFFICES ASSUME Armed PROVE SilenceMeasured'
        BY <3>1 DEF SilenceMeasured, Armed, fwVars
      <4>1. /\ Elapsed(now, lastValidCommandMs) <= COMMAND_WATCHDOG
            /\ Elapsed(now, lastValidCommandMs) \in Int
        BY <1>1, <2>4, HalfRangeAssumption DEF Silent, Armed, Elapsed, Stamp, CLOCK_RANGE
      <4>2. /\ since = Elapsed(clock, lastValidCommandMs) /\ loopTime <= since
            /\ Elapsed(clock, now) = loopTime
        BY <1>1, <2>1 DEF TimeInv, SilenceMeasured, NowIsRecent
      <4>3. Elapsed(now, lastValidCommandMs) = since - loopTime
        BY <1>1, <4>2, ElapsedSplit
      <4>4. since \in Nat
        BY <1>0 DEF TypeOK
      <4>5. since <= COMMAND_WATCHDOG + loopTime
        BY <1>1, <4>1, <4>3, <4>4
      <4> QED
        BY <2>1, <3>1, <4>2, <4>5 DEF SilenceMeasured, fwVars
    <3>3. BrakeMeasured' /\ NothingOwed'
      BY <2>1, <3>1 DEF TimeInv, BrakeMeasured, NothingOwed, Braking, Some, fwVars
    <3> QED
      BY <1>0, <2>2, <3>2, <3>3 DEF TimeInv
  <2> QED
    BY <2>3, <2>4
<1>4. CASE updateBrakeState
  <2>1. /\ pc = "brake" /\ pc' = "control"
        /\ UNCHANGED <<clock, now, loopTime, since, owed, lastValidCommandMs, estopLatched,
                       commandSeen, brakeUntilMs>>
    BY <1>4 DEF updateBrakeState, fwVars
  <2>2. NowIsRecent' /\ SilenceMeasured'
    BY <1>1, <2>1 DEF TimeInv, NowIsRecent, SilenceMeasured, Armed
  <2>3. CASE brakeActive /\ TimeReached(now, brakeUntilMs)
    <3>1. ~Some("BRAKE")'
      BY <1>4, <2>3 DEF updateBrakeState, AllMotors, Some
    <3> QED
      BY <1>0, <2>2, <3>1 DEF TimeInv, BrakeMeasured, Braking, NothingOwed
  <2>4. CASE ~(brakeActive /\ TimeReached(now, brakeUntilMs))
    <3>1. UNCHANGED <<fwVars, motor>>
      BY <1>4, <2>4 DEF updateBrakeState
    <3>2. NothingOwed'
      BY <1>1, <2>1, <3>1 DEF TimeInv, NothingOwed, Some, fwVars
    <3>3. BrakeMeasured'
      <4> SUFFICES ASSUME Braking PROVE BrakeMeasured'
        BY <1>1, <3>1 DEF BrakeMeasured, Braking, Some, fwVars
      <4>1. /\ brakeUntilMs = Ahead(clock, owed) /\ owed + loopTime + MAX_LOOP >= 0
            /\ Elapsed(clock, now) = loopTime
        BY <1>1, <2>1 DEF TimeInv, BrakeMeasured, NowIsRecent
      <4>2. owed <= MAX_BRAKE_HOLD /\ MAX_BRAKE_HOLD \in Nat /\ HALF_RANGE \in Nat
            /\ MAX_BRAKE_HOLD + 2 * MAX_LOOP < HALF_RANGE
        BY <1>0, TimerRangeAssumption, FirmwareAssumption, HalfRangeAssumption
        DEF TypeOK, OWED_FLOOR
      <4>3. owed + loopTime > 0
        <5>1. /\ -HALF_RANGE < owed /\ owed + loopTime < HALF_RANGE
              /\ -HALF_RANGE < owed + loopTime /\ loopTime < HALF_RANGE
          BY <1>1, <4>1, <4>2
        <5>2. TimeReached(now, brakeUntilMs) <=> owed + loopTime <= 0
          BY <1>1, <4>1, <5>1, ReachedMeansDue
        <5> QED
          BY <1>1, <2>4, <5>2 DEF Braking
      <4>4. owed + loopTime >= 0
        BY <1>1, <4>3
      <4> QED
        BY <2>1, <3>1, <4>1, <4>4 DEF BrakeMeasured
    <3> QED
      BY <1>0, <2>2, <3>2, <3>3 DEF TimeInv
  <2> QED
    BY <2>3, <2>4
<1>5. CASE ControlStep
  <2>1. /\ pc = "control" /\ pc' = "telemetry"
        /\ UNCHANGED <<clock, now, loopTime, since, owed, lastValidCommandMs, estopLatched,
                       commandSeen, brakeUntilMs, brakeActive>>
    BY <1>5 DEF ControlStep
  <2>2. NowIsRecent' /\ SilenceMeasured'
    BY <1>1, <2>1 DEF TimeInv, NowIsRecent, SilenceMeasured, Armed
  <2>3. Some("BRAKE")' => Some("BRAKE")
    BY <1>5 DEF ControlStep, runSpeedControl, AllMotors, Some
  <2>4. BrakeMeasured' /\ NothingOwed'
    BY <1>1, <2>1, <2>3 DEF TimeInv, BrakeMeasured, NothingOwed, Braking
  <2> QED
    BY <1>0, <2>2, <2>4 DEF TimeInv
<1>6. CASE TelemetryStep
  <2>1. /\ pc = "telemetry" /\ pc' = "serial"
        /\ UNCHANGED <<clock, now, loopTime, since, owed, motor, fwVars>>
    BY <1>6 DEF TelemetryStep
  <2> QED
    BY <1>0, <1>1, <2>1
    DEF TimeInv, NowIsRecent, SilenceMeasured, Armed, BrakeMeasured, NothingOwed, Braking,
        Some, fwVars
<1> QED
  BY <1>2, <1>3, <1>4, <1>5, <1>6 DEF LoopStep

\* A tick of the clock keeps the timing invariant.
LEMMA TickTimeInv ==
    ASSUME TimeInv, Tick
    PROVE  TimeInv'
<1>0. MotionInv' /\ TypeOK /\ TypeOK' /\ MotionInv
  BY NextMotionInv DEF TimeInv, MotionInv, Next
<1>1. /\ loopTime \in 0 .. MAX_LOOP /\ MAX_LOOP \in Nat /\ COMMAND_WATCHDOG \in Nat
      /\ MAX_BRAKE_HOLD \in Nat /\ HALF_RANGE \in Nat /\ CLOCK_RANGE = 2 * HALF_RANGE
      /\ MAX_BRAKE_HOLD + 2 * MAX_LOOP < HALF_RANGE
      /\ COMMAND_WATCHDOG + 2 * MAX_LOOP < HALF_RANGE
      /\ clock \in Stamp /\ now \in Stamp /\ lastValidCommandMs \in Stamp
      /\ since \in Nat /\ owed \in Int /\ owed <= MAX_BRAKE_HOLD
  BY <1>0, FirmwareAssumption, TimerRangeAssumption, HalfRangeAssumption
  DEF TypeOK, OWED_FLOOR, CLOCK_RANGE
<1>2. /\ pc # "setup" /\ loopTime < MAX_LOOP /\ loopTime' = loopTime + 1
      /\ clock' = After(clock, 1)
      /\ since' = (IF since < SINCE_CAP THEN since + 1 ELSE since)
      /\ owed' = (IF brakeActive /\ owed > OWED_FLOOR THEN owed - 1 ELSE owed)
      /\ UNCHANGED <<pc, now, fwVars, motor>>
  BY DEF Tick
<1>3. NowIsRecent'
  <2>1. Elapsed(clock, now) = loopTime /\ loopTime < CLOCK_RANGE - 1
    BY <1>1, <1>2 DEF TimeInv, NowIsRecent
  <2> QED
    BY <1>1, <1>2, <2>1, ElapsedTick DEF NowIsRecent
<1>4. SilenceMeasured'
  <2> SUFFICES ASSUME Armed PROVE SilenceMeasured'
    BY <1>2 DEF SilenceMeasured, Armed, fwVars
  <2>1. /\ since = Elapsed(clock, lastValidCommandMs)
        /\ pc = "watchdog" => /\ loopTime <= since
                              /\ since <= COMMAND_WATCHDOG + MAX_LOOP + loopTime
        /\ pc # "watchdog" => since <= COMMAND_WATCHDOG + loopTime
    BY DEF TimeInv, SilenceMeasured
  <2>2. since < COMMAND_WATCHDOG + 2 * MAX_LOOP
    BY <1>1, <1>2, <2>1
  <2>3. since < SINCE_CAP /\ since < CLOCK_RANGE - 1
    BY <1>1, <2>2, FirmwareAssumption DEF SINCE_CAP
  <2>4. since' = since + 1
    BY <1>2, <2>3
  <2>5. Elapsed(clock', lastValidCommandMs) = since + 1
    BY <1>1, <1>2, <2>1, <2>3, ElapsedTick
  <2> QED
    BY <1>1, <1>2, <2>1, <2>4, <2>5 DEF SilenceMeasured, fwVars
<1>5. BrakeMeasured'
  <2> SUFFICES ASSUME Braking PROVE BrakeMeasured'
    BY <1>2 DEF BrakeMeasured, Braking, Some, fwVars
  <2>1. /\ brakeUntilMs = Ahead(clock, owed)
        /\ pc \in {"watchdog", "brake"} => owed + loopTime + MAX_LOOP >= 0
        /\ pc \notin {"watchdog", "brake"} => owed + loopTime >= 0
    BY DEF TimeInv, BrakeMeasured
  <2>2. owed > OWED_FLOOR /\ -HALF_RANGE < owed /\ owed < HALF_RANGE
    BY <1>1, <1>2, <2>1 DEF OWED_FLOOR
  <2>3. owed' = owed - 1
    BY <1>2, <2>2 DEF Braking
  <2>4. brakeUntilMs' = Ahead(clock', owed')
    BY <1>1, <1>2, <2>1, <2>2, <2>3, AheadTick DEF fwVars
  <2> QED
    BY <1>1, <1>2, <2>1, <2>3, <2>4 DEF BrakeMeasured
<1>6. NothingOwed'
  BY <1>1, <1>2 DEF TimeInv, NothingOwed, Some, fwVars
<1> QED
  BY <1>0, <1>3, <1>4, <1>5, <1>6 DEF TimeInv

\* Every step keeps the timing invariant.
LEMMA NextTimeInv == TimeInv /\ [Next]_vars => TimeInv'
<1> SUFFICES ASSUME TimeInv, [Next]_vars PROVE TimeInv'
  OBVIOUS
<1>0. MotionInv' /\ TypeOK /\ MotionInv
  BY NextMotionInv DEF TimeInv, MotionInv
<1>1. CASE Setup
  <2>1. ~Some("BRAKE")'
    BY <1>1 DEF Setup, AllMotors, Some
  <2>2. NowIsRecent'
    BY <1>0, <1>1 DEF Setup, NowIsRecent, Elapsed, TypeOK, Stamp
  <2>3. ~Armed'
    BY <1>0, <1>1 DEF Setup, fwVars, Armed, MotionInv, FreshAtSetup
  <2> QED
    BY <1>0, <2>1, <2>2, <2>3
    DEF TimeInv, SilenceMeasured, BrakeMeasured, Braking, NothingOwed
<1>2. CASE \E line \in Lines : HandleLine(line)
  BY <1>2, HandleLineTimeInv
<1>3. CASE LoopStep
  BY <1>3, LoopStepTimeInv
<1>4. CASE Tick
  BY <1>4, TickTimeInv
<1>5. CASE Reset
  BY <1>0, <1>5
  DEF Reset, TimeInv, NowIsRecent, SilenceMeasured, Armed, BrakeMeasured, Braking, NothingOwed
<1>6. CASE UNCHANGED vars
  BY <1>0, <1>6
  DEF vars, fwVars, loopVars, TimeInv, NowIsRecent, SilenceMeasured, Armed, BrakeMeasured,
      Braking, NothingOwed, Some
<1> QED
  BY <1>1, <1>2, <1>3, <1>4, <1>5, <1>6 DEF Next
\* The timing invariant holds in every run of the sketch.
LEMMA TimeInvariant == Spec => []TimeInv
<1>1. Init => TimeInv
  BY InitTimeInv
<1>2. TimeInv /\ [Next]_vars => TimeInv'
  BY NextTimeInv
<1> QED
  BY <1>1, <1>2, PTL DEF Spec

-----------------------------------------------------------------------------
(* The promises.                                                            *)

\* A motor still driven has had its last V within COMMAND_WATCHDOG_MS and two
\* passes of loop().
THEOREM SilenceSafety == Spec => []SilenceStopsMotors
<1>1. TimeInv => SilenceStopsMotors
  <2> SUFFICES ASSUME TimeInv, pc # "setup", Some("DRIVE")
               PROVE  since <= COMMAND_WATCHDOG + 2 * MAX_LOOP
    BY DEF SilenceStopsMotors
  <2>1. Armed
    BY DEF TimeInv, MotionInv, DrivenSupervised, Armed
  <2>2. /\ loopTime \in 0 .. MAX_LOOP /\ MAX_LOOP \in Nat /\ COMMAND_WATCHDOG \in Nat
        /\ since \in Nat
    BY FirmwareAssumption DEF TimeInv, MotionInv, TypeOK
  <2>3. \/ since <= COMMAND_WATCHDOG + MAX_LOOP + loopTime
        \/ since <= COMMAND_WATCHDOG + loopTime
    BY <2>1 DEF TimeInv, SilenceMeasured
  <2> QED
    BY <2>2, <2>3
<1> QED
  BY <1>1, TimeInvariant, PTL

\* A timed brake is released no later than two passes of loop() after its hold.
THEOREM BrakePunctuality == Spec => []BrakeEndsOnTime
<1>1. TimeInv => BrakeEndsOnTime
  <2> SUFFICES ASSUME TimeInv, Braking
               PROVE  owed >= -(2 * MAX_LOOP)
    BY DEF BrakeEndsOnTime, Braking
  <2>1. /\ loopTime \in 0 .. MAX_LOOP /\ MAX_LOOP \in Nat /\ owed \in Int
    BY FirmwareAssumption DEF TimeInv, MotionInv, TypeOK, OWED_FLOOR
  <2>2. \/ owed + loopTime + MAX_LOOP >= 0
        \/ owed + loopTime >= 0
    BY DEF TimeInv, BrakeMeasured
  <2> QED
    BY <2>1, <2>2
<1> QED
  BY <1>1, TimeInvariant, PTL

\* The watchdog's fault is raised only after more than COMMAND_WATCHDOG_MS
\* without a command.
THEOREM WatchdogPatience == Spec => WatchdogNotEarly
<1>1. TimeInv /\ [Next]_vars
        => ["WATCHDOG" \notin faultCode /\ "WATCHDOG" \in faultCode'
              => since > COMMAND_WATCHDOG]_vars
  <2> SUFFICES ASSUME TimeInv, Next, "WATCHDOG" \notin faultCode, "WATCHDOG" \in faultCode'
               PROVE  since > COMMAND_WATCHDOG
    OBVIOUS
  <2>1. checkWatchdog /\ Silent
    <3>1. ~\E line \in Lines : HandleLine(line)
      <4> SUFFICES ASSUME NEW line \in Lines, HandleLine(line) PROVE FALSE
        OBVIOUS
      <4>1. \/ faultCode' = faultCode
            \/ faultCode' = {}
            \/ faultCode' = faultCode \cup {"PARSE"}
            \/ faultCode' = faultCode \cup {"ESTOP"}
            \/ faultCode' \subseteq faultCode
        BY DEF HandleLine, MalformedLine, RefuseLine, ParseFault, RejectVelocity,
               AcceptVelocity, Open, Close, Brake, Stop, EStop, ClearEStop, ResetSensors,
               Query, fwVars
      <4> QED
        BY <4>1
    <3>2. ~(ReadNow \/ updateBrakeState \/ ControlStep \/ TelemetryStep)
      BY DEF ReadNow, updateBrakeState, ControlStep, TelemetryStep, fwVars
    <3>3. ~(Setup \/ Tick \/ Reset)
      BY DEF Setup, Tick, Reset, fwVars
    <3>4. checkWatchdog
      BY <3>1, <3>2, <3>3 DEF Next, LoopStep
    <3> QED
      BY <3>4 DEF checkWatchdog, fwVars
  <2>2. /\ loopTime \in Nat /\ since \in Nat /\ COMMAND_WATCHDOG \in Nat
        /\ clock \in Stamp /\ now \in Stamp /\ lastValidCommandMs \in Stamp
        /\ pc = "watchdog"
    BY <2>1, FirmwareAssumption DEF TimeInv, MotionInv, TypeOK, checkWatchdog
  <2>3. /\ since = Elapsed(clock, lastValidCommandMs) /\ loopTime <= since
        /\ Elapsed(clock, now) = loopTime
    BY <2>1, <2>2 DEF TimeInv, SilenceMeasured, NowIsRecent, Silent, Armed
  <2>4. Elapsed(now, lastValidCommandMs) = since - loopTime
    BY <2>2, <2>3, ElapsedSplit
  <2>5. since - loopTime > COMMAND_WATCHDOG
    BY <2>1, <2>4 DEF Silent
  <2> QED
    BY <2>2, <2>5
<1> QED
  BY <1>1, TimeInvariant, PTL DEF Spec, WatchdogNotEarly

\* A braked motor changes mode only when its hold is over or was given up.
THEOREM BrakePersistence == Spec => BrakeHeld
<1> DEFINE Held == \A m \in Motors :
                     pc # "setup" /\ motor[m] = "BRAKE" /\ motor'[m] # "BRAKE"
                         => owed' <= 0
<1>1. TimeInv /\ [Next]_vars => [Held]_vars
  <2> SUFFICES ASSUME TimeInv, Next, NEW m \in Motors, pc # "setup",
                      motor[m] = "BRAKE", motor'[m] # "BRAKE"
               PROVE  owed' <= 0
    OBVIOUS
  <2>0. Some("BRAKE")
    BY DEF Some
  <2>1. CASE \E line \in Lines : HandleLine(line)
    <3>1. owed' = 0
      BY <2>1
      DEF HandleLine, MalformedLine, RefuseLine, ParseFault, RejectVelocity, AcceptVelocity,
          Open, Close, Brake, Stop, EStop, ClearEStop, ResetSensors, Query, beginBrake,
          AllMotors
    <3> QED
      BY <3>1
  <2>2. CASE updateBrakeState
    <3>1. /\ brakeActive /\ TimeReached(now, brakeUntilMs) /\ owed' = owed
          /\ pc = "brake"
      BY <2>2 DEF updateBrakeState
    <3>2. /\ loopTime \in 0 .. MAX_LOOP /\ MAX_LOOP \in Nat /\ owed \in Int
          /\ clock \in Stamp /\ now \in Stamp
          /\ owed <= MAX_BRAKE_HOLD /\ MAX_BRAKE_HOLD \in Nat /\ HALF_RANGE \in Nat
          /\ MAX_BRAKE_HOLD + 2 * MAX_LOOP < HALF_RANGE
      BY FirmwareAssumption, TimerRangeAssumption, HalfRangeAssumption
      DEF TimeInv, MotionInv, TypeOK, OWED_FLOOR
    <3>3. /\ brakeUntilMs = Ahead(clock, owed) /\ Elapsed(clock, now) = loopTime
          /\ owed + loopTime + MAX_LOOP >= 0
      BY <2>0, <3>1 DEF TimeInv, BrakeMeasured, NowIsRecent, Braking
    <3>4. /\ -HALF_RANGE < owed /\ owed + loopTime < HALF_RANGE
          /\ -HALF_RANGE < owed + loopTime /\ loopTime < HALF_RANGE
      BY <3>2, <3>3
    <3>5. owed + loopTime <= 0
      BY <3>1, <3>2, <3>3, <3>4, ReachedMeansDue
    <3>6. owed <= 0
      BY <3>2, <3>5
    <3> QED
      BY <3>1, <3>6
  <2>3. CASE ControlStep
    <3>1. ~brakeActive /\ owed' = owed
      BY <2>3 DEF ControlStep, runSpeedControl
    <3> QED
      BY <2>0, <3>1 DEF TimeInv, NothingOwed
  <2>4. CASE checkWatchdog
    BY <2>4 DEF checkWatchdog, beginBrake, AllMotors
  <2>5. CASE Setup \/ ReadNow \/ TelemetryStep \/ Tick \/ Reset
    BY <2>5 DEF Setup, ReadNow, TelemetryStep, Tick, Reset
  <2> QED
    BY <2>1, <2>2, <2>3, <2>4, <2>5 DEF Next, LoopStep
<1> QED
  BY <1>1, TimeInvariant, PTL DEF Spec, BrakeHeld
=============================================================================
