----------------------------- MODULE MotorShield -----------------------------
(***************************************************************************)
(* The motor shield: the PCA9685 PWM chip, which the microcontroller       *)
(* reaches over I2C (Adafruit_MS_PWMServoDriver.cpp), the DC motors of the *)
(* library on top of it (QGPMaker_MotorShield.cpp), and the sketch's calls *)
(* of them (turtlebot3_arduino.ino).                                       *)
(*                                                                         *)
(* A motor hangs on two of the chip's outputs, IN1 and IN2.  Every call is *)
(* several I2C transactions, each a step of its own.  The chip keeps its   *)
(* registers when the microcontroller resets, the library does not, and    *)
(* nobody reads the result of a transaction, so a lost one goes unnoticed. *)
(***************************************************************************)
EXTENDS Integers, Sequences

CONSTANTS
  Motors,     \* the motors the sketch drives, of 1..4
  SPEEDS,     \* the PWM values driveMotorSigned may compute, of 1..255
  MAX_RESETS, \* model bound: resets of the microcontroller
  MAX_LOST    \* model bound: transactions lost on the bus

ASSUME ShieldAssumption ==
  /\ Motors \subseteq 1..4
  /\ SPEEDS \subseteq 1..255
  /\ MAX_RESETS \in Nat /\ MAX_LOST \in Nat

VARIABLES
  out,     \* the chip's outputs: 0 off, 4096 full on
  mode1,   \* the chip's MODE1 register: asleep, auto-increment
  speed,   \* _speed of a motor
  mdir,    \* MDIR of a motor: the last command of run()
  writes,  \* transactions the call under way has still to make
  calls,   \* calls of setSpeed and run the sketch has still to make
  pc,      \* "begin", "freq" within AFMS.begin, then "loop"
  resets,
  lost,    \* transactions lost so far
  damaged  \* history: motors of whose last run() a transaction was lost

chipVars == <<out, mode1>>
libVars == <<speed, mdir>>
vars == <<chipVars, libVars, writes, calls, pc, resets, lost, damaged>>

Channels == 0..15
FULL == 4096
Commands == {"FORWARD", "BACKWARD", "BRAKE", "RELEASE"}
Directions == Commands \cup {"none"}
Modes == [sleep : BOOLEAN, ai : BOOLEAN]

In1 == <<8, 10, 15, 13>>
In2 == <<9, 11, 14, 12>>

SetPin(num, value)   == [reg |-> "led", num |-> num, value |-> value]
SetMode(sleep, ai)   == [reg |-> "mode1", sleep |-> sleep, ai |-> ai]
SetPrescale          == [reg |-> "prescale"]

PinWrites == [reg : {"led"}, num : Channels, value : 0..FULL]
ModeWrites == [reg : {"mode1"}, sleep : BOOLEAN, ai : BOOLEAN]
Transactions == PinWrites \cup ModeWrites \cup {SetPrescale}

\* A call of setSpeed or run; speed and direction where they apply.
SpeedCall(m, s) == [op |-> "setSpeed", motor |-> m, speed |-> s, dir |-> "none"]
RunCall(m, dir) == [op |-> "run", motor |-> m, speed |-> 0, dir |-> dir]
CallsOfMotors ==
  [op : {"setSpeed"}, motor : Motors, speed : 0..255, dir : {"none"}]
    \cup [op : {"run"}, motor : Motors, speed : {0}, dir : Commands]

Init ==
  /\ out = [c \in Channels |-> 0]
  /\ mode1 = [sleep |-> TRUE, ai |-> FALSE]
  /\ speed = [m \in Motors |-> 0]
  /\ mdir = [m \in Motors |-> "none"]
  /\ writes = <<>> /\ calls = <<>>
  /\ pc = "begin"
  /\ resets = 0 /\ lost = 0
  /\ damaged = {}

-----------------------------------------------------------------------------
(* The chip. *)

\* An LED register is four bytes: without auto-increment all go to the first.
Transaction ==
  /\ writes # <<>>
  /\ LET w == Head(writes)
     IN  /\ out' = IF w.reg = "led" /\ mode1.ai
                   THEN [out EXCEPT ![w.num] = w.value] ELSE out
         /\ mode1' = IF w.reg = "mode1" THEN [sleep |-> w.sleep, ai |-> w.ai]
                     ELSE mode1
  /\ writes' = Tail(writes)
  /\ UNCHANGED <<libVars, calls, pc, resets, lost, damaged>>

OwnerOf(num) == {m \in Motors : num \in {In1[m], In2[m]}}

\* endTransmission's result is not looked at.  Not modelled: a lost
\* write to MODE1, which nothing reads back or repeats.
LoseTransaction ==
  /\ pc = "loop" /\ lost < MAX_LOST
  /\ writes # <<>> /\ Head(writes).reg = "led"
  /\ lost' = lost + 1
  /\ damaged' = damaged \cup OwnerOf(Head(writes).num)
  /\ writes' = Tail(writes)
  /\ UNCHANGED <<chipVars, libVars, calls, pc, resets>>

-----------------------------------------------------------------------------
(* AFMS.begin. *)

Begin_NoReset ==   \* mutant: MODE1 is taken as it is found
  /\ pc = "begin"
  /\ pc' = "freq"
  /\ UNCHANGED <<chipVars, libVars, writes, calls, resets, lost, damaged>>

\* Adafruit_MS_PWMServoDriver::begin, that is reset().
Begin ==
  /\ pc = "begin"
  /\ writes' = <<SetMode(FALSE, FALSE)>>
  /\ pc' = "freq"
  /\ UNCHANGED <<chipVars, libVars, calls, resets, lost, damaged>>

AllOff == [i \in 1..16 |-> SetPin(i - 1, 0)]

Release(m) == <<SpeedCall(m, 0), RunCall(m, "RELEASE")>>
Stop(m)    == <<SpeedCall(m, 0), RunCall(m, "BRAKE")>>

\* The calls of all motors, in their order.
ForAll(Of(_)) ==
  LET CallsOf(m) == IF m \in Motors THEN Of(m) ELSE <<>>
  IN  CallsOf(1) \o CallsOf(2) \o CallsOf(3) \o CallsOf(4)

\* setPWMFreq, which reads MODE1 first, and the outputs off; then setup()'s
\* releaseMotors.
SetFrequency ==
  /\ pc = "freq" /\ writes = <<>>
  /\ writes' = <<SetMode(TRUE, mode1.ai), SetPrescale,
                 SetMode(mode1.sleep, mode1.ai), SetMode(mode1.sleep, TRUE)>>
               \o AllOff
  /\ pc' = "loop"
  /\ calls' = ForAll(Release)
  /\ UNCHANGED <<chipVars, libVars, resets, lost, damaged>>

-----------------------------------------------------------------------------
(* The sketch. *)

Idle == pc = "loop" /\ writes = <<>> /\ calls = <<>>

releaseMotors ==
  /\ Idle
  /\ calls' = ForAll(Release)
  /\ UNCHANGED <<chipVars, libVars, writes, pc, resets, lost, damaged>>

applyBrake ==
  /\ Idle
  /\ calls' = ForAll(Stop)
  /\ UNCHANGED <<chipVars, libVars, writes, pc, resets, lost, damaged>>

driveMotorSigned(m, pwm) ==
  IF pwm = 0 THEN Release(m)
  ELSE <<SpeedCall(m, IF pwm < 0 THEN -pwm ELSE pwm),
         RunCall(m, IF pwm > 0 THEN "FORWARD" ELSE "BACKWARD")>>

\* runSpeedControl's loop.
DriveMotors ==
  /\ Idle
  /\ \E pwm \in [Motors -> {0} \cup SPEEDS \cup {-s : s \in SPEEDS}] :
       LET Drive(m) == driveMotorSigned(m, pwm[m]) IN calls' = ForAll(Drive)
  /\ UNCHANGED <<chipVars, libVars, writes, pc, resets, lost, damaged>>

-----------------------------------------------------------------------------
(* QGPMaker_DCMotor. *)

RunWrites_HighFirst(m, dir, s) ==   \* mutant: the new direction first
  CASE dir = "FORWARD"  -> <<SetPin(In1[m], 16 * s), SetPin(In2[m], 0)>>
    [] dir = "BACKWARD" -> <<SetPin(In2[m], 16 * s), SetPin(In1[m], 0)>>
    [] dir = "RELEASE"  -> <<SetPin(In1[m], 0), SetPin(In2[m], 0)>>
    [] dir = "BRAKE"    -> <<SetPin(In1[m], FULL), SetPin(In2[m], FULL)>>
    [] OTHER            -> <<>>

\* "take low first to avoid 'break'"
RunWrites(m, dir, s) ==
  CASE dir = "FORWARD"  -> <<SetPin(In2[m], 0), SetPin(In1[m], 16 * s)>>
    [] dir = "BACKWARD" -> <<SetPin(In1[m], 0), SetPin(In2[m], 16 * s)>>
    [] dir = "RELEASE"  -> <<SetPin(In1[m], 0), SetPin(In2[m], 0)>>
    [] dir = "BRAKE"    -> <<SetPin(In1[m], FULL), SetPin(In2[m], FULL)>>
    [] OTHER            -> <<>>

\* A run() that writes its pins makes up for what an earlier one lost.
Repaired(m, dir) == IF dir = "none" THEN damaged ELSE damaged \ {m}

\* setSpeed runs the motor at once, in the direction it had.
setSpeed ==
  /\ pc = "loop" /\ writes = <<>> /\ calls # <<>> /\ Head(calls).op = "setSpeed"
  /\ LET m == Head(calls).motor
     IN  /\ speed' = [speed EXCEPT ![m] = Head(calls).speed]
         /\ writes' = RunWrites(m, mdir[m], Head(calls).speed)
         /\ damaged' = Repaired(m, mdir[m])
  /\ calls' = Tail(calls)
  /\ UNCHANGED <<chipVars, mdir, pc, resets, lost>>

\* Mutant: a pin that should already be low is not written.
run_OnlyChanges ==
  /\ pc = "loop" /\ writes = <<>> /\ calls # <<>> /\ Head(calls).op = "run"
  /\ LET m == Head(calls).motor
         new == RunWrites(m, Head(calls).dir, speed[m])
     IN  /\ mdir' = [mdir EXCEPT ![m] = Head(calls).dir]
         /\ writes' = IF mdir[m] = Head(calls).dir THEN <<new[2]>> ELSE new
         /\ damaged' = Repaired(m, Head(calls).dir)
  /\ calls' = Tail(calls)
  /\ UNCHANGED <<chipVars, speed, pc, resets, lost>>

run ==
  /\ pc = "loop" /\ writes = <<>> /\ calls # <<>> /\ Head(calls).op = "run"
  /\ LET m == Head(calls).motor
     IN  /\ mdir' = [mdir EXCEPT ![m] = Head(calls).dir]
         /\ writes' = RunWrites(m, Head(calls).dir, speed[m])
         /\ damaged' = Repaired(m, Head(calls).dir)
  /\ calls' = Tail(calls)
  /\ UNCHANGED <<chipVars, speed, pc, resets, lost>>

\* The microcontroller resets, also in the middle of a call.
Reset ==
  /\ resets < MAX_RESETS
  /\ resets' = resets + 1
  /\ speed' = [m \in Motors |-> 0]
  /\ mdir' = [m \in Motors |-> "none"]
  /\ writes' = <<>> /\ calls' = <<>>
  /\ pc' = "begin"
  /\ damaged' = {}
  /\ UNCHANGED <<chipVars, lost>>

Next == \/ Transaction
        \/ LoseTransaction
        \/ Begin
        \/ SetFrequency
        \/ releaseMotors
        \/ applyBrake
        \/ DriveMotors
        \/ setSpeed
        \/ run
        \/ Reset

Spec == Init /\ [][Next]_vars

-----------------------------------------------------------------------------
(* Properties. *)

TypeOK ==
  /\ out \in [Channels -> 0..FULL]
  /\ mode1 \in Modes
  /\ speed \in [Motors -> 0..255]
  /\ mdir \in [Motors -> Directions]
  /\ writes \in Seq(Transactions)
  /\ calls \in Seq(CallsOfMotors)
  /\ pc \in {"begin", "freq", "loop"}
  /\ resets \in Nat /\ lost \in Nat
  /\ damaged \subseteq Motors

\* What the outputs of a motor are to be.
Pins(m) == <<out[In1[m]], out[In2[m]]>>

Asked(m) ==
  CASE mdir[m] = "FORWARD"  -> <<16 * speed[m], 0>>
    [] mdir[m] = "BACKWARD" -> <<0, 16 * speed[m]>>
    [] mdir[m] = "BRAKE"    -> <<FULL, FULL>>
    [] OTHER                -> <<0, 0>>

\* Between two calls a motor does what its last command and speed ask for,
\* whatever it did before, whatever was going on when the microcontroller was
\* reset, and however the calls of the other motors interleave with its own;
\* it does something else only while a transaction of its last run() is lost,
\* so one more call makes up for any number of losses.
PinsMatchCommand ==
  pc = "loop" /\ writes = <<>> =>
    \A m \in Motors \ damaged : Pins(m) = Asked(m)

\* What the comment "take low first to avoid 'break'" is about: no step
\* makes both pins of a motor drive at once unless it was told to brake, not
\* even between the transactions of a reversal or while a motor that braked
\* starts.  The exception: told to drive, a motor whose last run() lost a
\* transaction may brake, since a reversal that loses its low write does.
LowWriteMayBeLost(m) == m \in damaged /\ mdir[m] \in {"FORWARD", "BACKWARD"}

NoAccidentalBrake ==
  [][\A m \in Motors :
       (0 \in {out[In1[m]], out[In2[m]]} /\ mdir[m] # "BRAKE" /\ ~LowWriteMayBeLost(m))
       => 0 \in {out'[In1[m]], out'[In2[m]]}]_vars

\* The outputs are only written to a chip that is awake and steps through the
\* register's bytes, and the prescaler only to one that is asleep, also after
\* a reset of the microcontroller in the middle of setPWMFreq.
ChipReady ==
  writes # <<>> =>
    /\ Head(writes).reg = "led" => mode1 = [sleep |-> FALSE, ai |-> TRUE]
    /\ Head(writes).reg = "prescale" => mode1.sleep
=============================================================================
