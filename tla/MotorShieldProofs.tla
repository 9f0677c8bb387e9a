------------------------- MODULE MotorShieldProofs -------------------------
(***************************************************************************)
(* Theorems about MotorShield, for any of the four motors, any speeds, any *)
(* number of resets and of lost transactions.                              *)
(***************************************************************************)
EXTENDS MotorShield, TLAPS

LEMMA MotorFacts == \A m \in Motors : m \in 1..4
  BY ShieldAssumption

\* The outputs of the board's motors.
LEMMA PinFacts ==
  ASSUME NEW m \in 1..4, NEW n \in 1..4
  PROVE  /\ In1[m] \in Channels /\ In2[m] \in Channels
         /\ In1[m] # In2[n]
         /\ In1[m] = In1[n] => m = n
         /\ In2[m] = In2[n] => m = n
  BY DEF In1, In2, Channels

\* Concatenations of calls.
LEMMA FourParts ==
  ASSUME NEW S, NEW a \in Seq(S), NEW b \in Seq(S), NEW c \in Seq(S), NEW d \in Seq(S)
  PROVE  a \o b \o c \o d \in Seq(S)
  OBVIOUS

LEMMA Wider ==
  ASSUME NEW S, NEW T, S \subseteq T, NEW s \in Seq(S)
  PROVE  s \in Seq(T)
  OBVIOUS

LEMMA Singleton ==
  ASSUME NEW S, NEW a \in S
  PROVE  <<a>> \in Seq(S) /\ Len(<<a>>) = 1
  OBVIOUS

LEMMA FourOf ==
  ASSUME NEW S, NEW a \in S, NEW b \in S, NEW c \in S, NEW d \in S
  PROVE  <<a, b, c, d>> \in Seq(S)
  OBVIOUS

LEMMA Joined ==
  ASSUME NEW S, NEW s \in Seq(S), NEW t \in Seq(S)
  PROVE  /\ Len(s \o t) = Len(s) + Len(t)
         /\ \A i \in 1..(Len(s) + Len(t)) :
              (s \o t)[i] = IF i <= Len(s) THEN s[i] ELSE t[i - Len(s)]
  OBVIOUS

LEMMA CallTypes ==
  ASSUME NEW m \in Motors, NEW s \in 0..255, NEW dir \in Commands
  PROVE  <<SpeedCall(m, s), RunCall(m, dir)>> \in Seq(CallsOfMotors)
  <1>1. SpeedCall(m, s) \in CallsOfMotors
    BY DEF SpeedCall, CallsOfMotors, Directions
  <1>2. RunCall(m, dir) \in CallsOfMotors
    BY DEF RunCall, CallsOfMotors, Directions
  <1> QED
    BY <1>1, <1>2

LEMMA CallFacts ==
  ASSUME NEW c \in CallsOfMotors
  PROVE  /\ c.motor \in Motors /\ c.speed \in 0..255 /\ c.dir \in Directions
         /\ c.op = "run" => c.dir # "none"
  <1>1. CASE c \in [op : {"setSpeed"}, motor : Motors, speed : 0..255, dir : {"none"}]
    BY <1>1 DEF Directions
  <1>2. CASE c \in [op : {"run"}, motor : Motors, speed : {0}, dir : Commands]
    BY <1>2 DEF Directions, Commands
  <1> QED
    BY <1>1, <1>2 DEF CallsOfMotors

LEMMA ReleaseType == \A m \in Motors : Release(m) \in Seq(CallsOfMotors)
  <1>1. 0 \in 0..255 /\ "RELEASE" \in Commands
    BY DEF Commands
  <1> QED
    BY <1>1, CallTypes DEF Release

LEMMA StopType == \A m \in Motors : Stop(m) \in Seq(CallsOfMotors)
  <1>1. 0 \in 0..255 /\ "BRAKE" \in Commands
    BY DEF Commands
  <1> QED
    BY <1>1, CallTypes DEF Stop

LEMMA DriveType ==
  ASSUME NEW m \in Motors, NEW pwm \in {0} \cup SPEEDS \cup {-s : s \in SPEEDS}
  PROVE  driveMotorSigned(m, pwm) \in Seq(CallsOfMotors)
  <1>1. CASE pwm = 0
    BY <1>1, ReleaseType DEF driveMotorSigned
  <1>2. CASE pwm # 0
    <2> DEFINE s == IF pwm < 0 THEN -pwm ELSE pwm
               dir == IF pwm > 0 THEN "FORWARD" ELSE "BACKWARD"
    <2>1. s \in 0..255 /\ dir \in Commands
      BY ShieldAssumption DEF Commands
    <2>2. driveMotorSigned(m, pwm) = <<SpeedCall(m, s), RunCall(m, dir)>>
      BY <1>2 DEF driveMotorSigned
    <2> HIDE DEF s, dir
    <2> QED
      BY <2>1, <2>2, CallTypes
  <1> QED
    BY <1>1, <1>2

\* The transactions of a call of run().
LEMMA RunTypes ==
  ASSUME NEW m \in Motors, NEW dir \in Directions, NEW s \in 0..255
  PROVE  /\ RunWrites(m, dir, s) \in Seq(PinWrites)
         /\ dir = "none" => RunWrites(m, dir, s) = <<>>
         /\ dir # "none" => Len(RunWrites(m, dir, s)) = 2
  <1>1. \A v \in 0..FULL : SetPin(In1[m], v) \in PinWrites /\ SetPin(In2[m], v) \in PinWrites
    BY MotorFacts, PinFacts DEF SetPin, PinWrites
  <1>2. 16 * s \in 0..FULL /\ 0 \in 0..FULL /\ FULL \in 0..FULL
    BY DEF FULL
  <1>3. \A v, w \in 0..FULL :
          /\ <<SetPin(In1[m], v), SetPin(In2[m], w)>> \in Seq(PinWrites)
          /\ <<SetPin(In2[m], v), SetPin(In1[m], w)>> \in Seq(PinWrites)
    BY <1>1
  <1> QED
    BY <1>2, <1>3 DEF RunWrites, Directions, Commands

LEMMA AllOffType == AllOff \in Seq(PinWrites) /\ Len(AllOff) = 16
  <1>1. \A i \in 1..16 : SetPin(i - 1, 0) \in PinWrites
    BY DEF SetPin, PinWrites, Channels, FULL
  <1> QED
    BY <1>1 DEF AllOff

\* What a transaction is can be told from its register.
LEMMA RegFacts ==
  ASSUME NEW w \in Transactions
  PROVE  /\ w.reg = "led" => w \in PinWrites /\ w.num \in Channels /\ w.value \in 0..FULL
         /\ w.reg = "mode1" => w \in ModeWrites
         /\ w.reg \in {"led", "mode1", "prescale"}
  BY DEF Transactions, PinWrites, ModeWrites, SetPrescale

-----------------------------------------------------------------------------
(* Types. *)

LEMMA TypeInit == Init => TypeOK
  BY DEF Init, TypeOK, Modes, Directions, FULL

LEMMA TypeStep == TypeOK /\ [Next]_vars => TypeOK'
  <1> SUFFICES ASSUME TypeOK, [Next]_vars PROVE TypeOK'
    OBVIOUS
  <1> USE DEF TypeOK
  <1>1. CASE Transaction
    <2>1. Head(writes) \in Transactions /\ writes' \in Seq(Transactions)
      BY <1>1 DEF Transaction
    <2>2. out' \in [Channels -> 0..FULL]
      BY <1>1, <2>1, RegFacts DEF Transaction
    <2>3. mode1' \in Modes
      BY <1>1, <2>1, RegFacts DEF Transaction, Modes, ModeWrites
    <2> QED
      BY <1>1, <2>1, <2>2, <2>3 DEF Transaction, libVars
  <1>2. CASE LoseTransaction
    BY <1>2 DEF LoseTransaction, OwnerOf, chipVars, libVars
  <1>3. CASE Begin
    <2>1. SetMode(FALSE, FALSE) \in Transactions
      BY DEF SetMode, Transactions, ModeWrites
    <2>2. writes' \in Seq(Transactions)
      BY <1>3, <2>1, Singleton DEF Begin
    <2> QED
      BY <1>3, <2>2 DEF Begin, chipVars, libVars
  <1>4. CASE SetFrequency
    <2>1. /\ SetMode(TRUE, mode1.ai) \in Transactions /\ SetPrescale \in Transactions
          /\ SetMode(mode1.sleep, mode1.ai) \in Transactions
          /\ SetMode(mode1.sleep, TRUE) \in Transactions
      BY DEF SetMode, Transactions, ModeWrites, Modes
    <2>2. AllOff \in Seq(Transactions)
      BY AllOffType DEF Transactions
    <2> DEFINE setup == <<SetMode(TRUE, mode1.ai), SetPrescale,
                          SetMode(mode1.sleep, mode1.ai), SetMode(mode1.sleep, TRUE)>>
    <2>5. setup \in Seq(Transactions)
      BY <2>1, FourOf
    <2>6. writes' = setup \o AllOff
      BY <1>4 DEF SetFrequency
    <2> HIDE DEF setup
    <2>3. writes' \in Seq(Transactions)
      BY <2>2, <2>5, <2>6
    <2>4. calls' \in Seq(CallsOfMotors)
      BY <1>4, ReleaseType, FourParts DEF SetFrequency, ForAll
    <2> QED
      BY <1>4, <2>3, <2>4 DEF SetFrequency, chipVars, libVars
  <1>5. CASE releaseMotors
    <2>1. calls' \in Seq(CallsOfMotors)
      BY <1>5, ReleaseType, FourParts DEF releaseMotors, ForAll
    <2> QED
      BY <1>5, <2>1 DEF releaseMotors, chipVars, libVars
  <1>6. CASE applyBrake
    <2>1. calls' \in Seq(CallsOfMotors)
      BY <1>6, StopType, FourParts DEF applyBrake, ForAll
    <2> QED
      BY <1>6, <2>1 DEF applyBrake, chipVars, libVars
  <1>7. CASE DriveMotors
    <2>1. PICK pwm \in [Motors -> {0} \cup SPEEDS \cup {-s : s \in SPEEDS}] :
            LET Drive(m) == driveMotorSigned(m, pwm[m]) IN calls' = ForAll(Drive)
      BY <1>7 DEF DriveMotors
    <2>2. \A m \in Motors : driveMotorSigned(m, pwm[m]) \in Seq(CallsOfMotors)
      BY DriveType
    <2>3. calls' \in Seq(CallsOfMotors)
      BY <2>1, <2>2, FourParts DEF ForAll
    <2> QED
      BY <1>7, <2>3 DEF DriveMotors, chipVars, libVars
  <1>8. CASE setSpeed
    <2>1. Head(calls) \in CallsOfMotors /\ calls' \in Seq(CallsOfMotors)
      BY <1>8 DEF setSpeed
    <2>2. Head(calls).motor \in Motors /\ Head(calls).speed \in 0..255
      BY <2>1, CallFacts
    <2>3. writes' \in Seq(Transactions)
      <3>1. mdir[Head(calls).motor] \in Directions
        BY <2>2
      <3>2. writes' = RunWrites(Head(calls).motor, mdir[Head(calls).motor], Head(calls).speed)
        BY <1>8 DEF setSpeed
      <3>3. writes' \in Seq(PinWrites)
        BY <2>2, <3>1, <3>2, RunTypes
      <3> QED
        BY <3>3, Wider DEF Transactions
    <2> QED
      BY <1>8, <2>1, <2>2, <2>3 DEF setSpeed, Repaired, chipVars
  <1>9. CASE run
    <2>1. Head(calls) \in CallsOfMotors /\ calls' \in Seq(CallsOfMotors)
      BY <1>9 DEF run
    <2>2. Head(calls).motor \in Motors /\ Head(calls).dir \in Directions
      BY <2>1, CallFacts
    <2>3. writes' \in Seq(Transactions)
      <3>1. writes' = RunWrites(Head(calls).motor, Head(calls).dir, speed[Head(calls).motor])
        BY <1>9 DEF run
      <3>2. writes' \in Seq(PinWrites)
        BY <2>2, <3>1, RunTypes
      <3> QED
        BY <3>2, Wider DEF Transactions
    <2> QED
      BY <1>9, <2>1, <2>2, <2>3 DEF run, Repaired, chipVars
  <1>10. CASE Reset
    BY <1>10 DEF Reset, chipVars, Directions
  <1>11. CASE UNCHANGED vars
    BY <1>11 DEF vars, chipVars, libVars
  <1> QED
    BY <1>1, <1>2, <1>3, <1>4, <1>5, <1>6, <1>7, <1>8, <1>9, <1>10, <1>11 DEF Next

\* Whatever the sketch asks for and the bus loses, every write is one the chip
\* has a register for: an output of the sixteen, at most full on.
THEOREM ShieldTypes == Spec => []TypeOK
  BY TypeInit, TypeStep, PTL DEF Spec

-----------------------------------------------------------------------------
(* The outputs. *)

\* Output k of motor m, and what its last command and speed ask of it.
Pin(m, k) == IF k = 1 THEN In1[m] ELSE In2[m]

Writes(i, num) == writes[i].reg = "led" /\ writes[i].num = num

\* An output is as asked for, or the call under way will make it so, or that
\* call lost a transaction; in any case it writes nothing else to the output.
PinDue(m, k) ==
  /\ \A i \in 1..Len(writes) : Writes(i, Pin(m, k)) => writes[i].value = Asked(m)[k]
  /\ \/ out[Pin(m, k)] = Asked(m)[k]
     \/ \E i \in 1..Len(writes) : Writes(i, Pin(m, k))
     \/ m \in damaged

PinsDue == pc = "loop" => \A m \in Motors, k \in {1, 2} : PinDue(m, k)

\* The library knows no direction before the first run().
NoneYet == pc # "loop" => /\ mdir = [m \in Motors |-> "none"]
                          /\ damaged = {}

\* A write that makes a motor drive is the last of its call.
LowFirst ==
  \A i \in 1..(Len(writes) - 1) : writes[i].reg = "led" /\ writes[i].value # 0 =>
    \A m \in Motors : writes[i].num \in {In1[m], In2[m]} => mdir[m] = "BRAKE"

\* Where AFMS.begin is: its four writes to MODE1 and the prescaler come before
\* those to the sixteen outputs, and no call writes more than two of them.
Awake == mode1 = [sleep |-> FALSE, ai |-> TRUE]

BeginAt(j, w) ==
  /\ j = 1 => w = SetMode(TRUE, FALSE)
  /\ j = 2 => w = SetPrescale
  /\ j = 3 => w = SetMode(FALSE, FALSE)
  /\ j = 4 => w = SetMode(FALSE, TRUE)
  /\ j > 4 => w.reg = "led"

ModeOrder ==
  /\ pc = "begin" => writes = <<>>
  /\ pc = "freq" => \/ writes = <<>> /\ mode1 = [sleep |-> FALSE, ai |-> FALSE]
                    \/ writes = <<SetMode(FALSE, FALSE)>>
  /\ pc = "loop" =>
       /\ Len(writes) <= 20
       /\ \A i \in 1..Len(writes) :
            BeginAt(IF Len(writes) > 16 THEN 20 - Len(writes) + i ELSE 5, writes[i])
       /\ Len(writes) <= 16 => Awake
       /\ Len(writes) = 19 => mode1.sleep

IInv == TypeOK /\ PinsDue /\ NoneYet /\ LowFirst /\ ModeOrder

LEMMA TailFacts ==
  ASSUME NEW S, NEW s \in Seq(S), s # <<>>
  PROVE  /\ Len(s) \in Nat /\ Len(s) >= 1 /\ Head(s) = s[1]
         /\ Tail(s) \in Seq(S) /\ Len(Tail(s)) = Len(s) - 1
         /\ \A i \in 1..(Len(s) - 1) : Tail(s)[i] = s[i + 1]
  OBVIOUS

\* Where an output's write is in the call of run() that makes it.
LEMMA RunFacts ==
  ASSUME NEW m \in Motors, NEW dir \in Commands, NEW s \in 0..255
  PROVE  LET w  == RunWrites(m, dir, s)
             v1 == CASE dir = "FORWARD" -> 16 * s [] dir = "BRAKE" -> FULL [] OTHER -> 0
             v2 == CASE dir = "BACKWARD" -> 16 * s [] dir = "BRAKE" -> FULL [] OTHER -> 0
         IN  /\ Len(w) = 2
             /\ \/ w[1] = SetPin(In1[m], v1) /\ w[2] = SetPin(In2[m], v2)
                \/ w[1] = SetPin(In2[m], v2) /\ w[2] = SetPin(In1[m], v1)
             /\ w[1].reg = "led" /\ w[1].value # 0 => dir = "BRAKE"
  <1>1. CASE dir = "FORWARD"
    BY <1>1 DEF RunWrites, SetPin
  <1>2. CASE dir = "BACKWARD"
    BY <1>2 DEF RunWrites, SetPin
  <1>3. CASE dir = "RELEASE"
    BY <1>3 DEF RunWrites, SetPin
  <1>4. CASE dir = "BRAKE"
    BY <1>4 DEF RunWrites, SetPin
  <1> QED
    BY <1>1, <1>2, <1>3, <1>4 DEF Commands

LEMMA BeginFacts ==
  ASSUME NEW w, NEW j \in Nat, BeginAt(j, w)
  PROVE  /\ j = 1 => w.reg = "mode1" /\ w.sleep = TRUE /\ w.ai = FALSE
         /\ j = 2 => w.reg = "prescale"
         /\ j = 3 => w.reg = "mode1" /\ w.sleep = FALSE /\ w.ai = FALSE
         /\ j = 4 => w.reg = "mode1" /\ w.sleep = FALSE /\ w.ai = TRUE
         /\ j > 4 => w.reg = "led"
  BY DEF BeginAt, SetMode, SetPrescale

LEMMA OrderFacts ==
  ASSUME IInv, pc = "loop", NEW i \in 1..Len(writes)
  PROVE  /\ Len(writes) <= 20
         /\ Len(writes) <= 16 => writes[i].reg = "led" /\ Awake
         /\ Len(writes) > 16 => BeginAt(20 - Len(writes) + i, writes[i])
  <1>1. /\ Len(writes) <= 20
        /\ BeginAt(IF Len(writes) > 16 THEN 20 - Len(writes) + i ELSE 5, writes[i])
        /\ Len(writes) <= 16 => Awake
    BY DEF IInv, ModeOrder
  <1>2. Len(writes) \in Nat
    BY DEF IInv, TypeOK
  <1>3. CASE Len(writes) <= 16
    <2>1. BeginAt(5, writes[i])
      BY <1>1, <1>2, <1>3
    <2>2. writes[i].reg = "led"
      BY <2>1 DEF BeginAt
    <2> QED
      BY <1>1, <1>3, <2>2
  <1>4. CASE Len(writes) > 16
    BY <1>1, <1>2, <1>4
  <1> QED
    BY <1>2, <1>3, <1>4

\* Outside AFMS.begin's first four writes the chip is ready for its outputs.
LEMMA HeadFacts ==
  ASSUME IInv, writes # <<>>
  PROVE  /\ Head(writes).reg = "led" => pc = "loop" /\ Len(writes) <= 16 /\ Awake
         /\ Head(writes).reg = "prescale" => mode1.sleep
  <1>1. Head(writes) = writes[1] /\ Len(writes) \in Nat /\ Len(writes) >= 1
    BY TailFacts DEF IInv, TypeOK
  <1>2. pc # "begin"
    BY DEF IInv, ModeOrder
  <1>3. CASE pc = "freq"
    BY <1>3 DEF IInv, ModeOrder, SetMode
  <1>4. CASE pc = "loop" /\ Len(writes) <= 16
    BY <1>1, <1>4, OrderFacts
  <1>5. CASE pc = "loop" /\ Len(writes) > 16
    <2> DEFINE n == Len(writes)
               j == 20 - n + 1
    <2>1. n \in Nat /\ n > 16 /\ n <= 20 /\ BeginAt(20 - n + 1, writes[1])
      BY <1>1, <1>5, OrderFacts
    <2>2. n = 19 => mode1.sleep
      BY <1>5 DEF IInv, ModeOrder
    <2> HIDE DEF n
    <2>3. j \in 1..4 /\ (j = 2 => n = 19) /\ BeginAt(j, writes[1])
      BY <2>1
    <2> HIDE DEF j
    <2>4. writes[1].reg # "led" /\ (writes[1].reg = "prescale" => j = 2)
      <3>1. j \in Nat /\ j \in {1, 2, 3, 4} /\ BeginAt(j, writes[1])
        BY <2>3
      <3> QED
        BY <3>1, BeginFacts
    <2> QED
      BY <1>1, <2>2, <2>3, <2>4
  <1> QED
    BY <1>2, <1>3, <1>4, <1>5 DEF IInv, TypeOK

LEMMA PinsInit == Init => IInv
  <1> SUFFICES ASSUME Init PROVE IInv
    OBVIOUS
  <1>1. TypeOK
    BY TypeInit
  <1>2. Len(writes) = 0
    BY DEF Init
  <1> QED
    BY <1>1, <1>2 DEF Init, IInv, PinsDue, NoneYet, LowFirst, ModeOrder

\* A transaction leaves fewer to come.
LEMMA ShorterWrites ==
  ASSUME IInv, writes # <<>>, writes' = Tail(writes), UNCHANGED <<libVars, pc>>,
         damaged \subseteq damaged', NoneYet'
  PROVE  LowFirst' /\ (pc = "loop" => \A i \in 1..Len(writes') :
           BeginAt(IF Len(writes') > 16 THEN 20 - Len(writes') + i ELSE 5, writes'[i]))
  <1>1. /\ Len(writes) \in Nat /\ Len(writes) >= 1 /\ Len(writes') = Len(writes) - 1
        /\ \A i \in 1..Len(writes') : writes'[i] = writes[i + 1]
    BY TailFacts DEF IInv, TypeOK
  <1>2. LowFirst'
    BY <1>1 DEF IInv, LowFirst, libVars
  <1>4. Len(writes) <= 17 => ~(Len(writes') > 16)
    <2> DEFINE n == Len(writes)
               k == Len(writes')
    <2>1. n \in Nat /\ k = n - 1
      BY <1>1
    <2> HIDE DEF n, k
    <2>2. n <= 17 => ~(k > 16)
      BY <2>1
    <2> QED
      BY <2>2 DEF n, k
  <1>3. ASSUME pc = "loop", NEW i \in 1..Len(writes')
        PROVE  BeginAt(IF Len(writes') > 16 THEN 20 - Len(writes') + i ELSE 5, writes'[i])
    <2>1. i + 1 \in 1..Len(writes) /\ Len(writes) <= 20
      BY <1>1, <1>3 DEF IInv, ModeOrder
    <2>3. CASE Len(writes) > 17
      <3>1. BeginAt(20 - Len(writes) + (i + 1), writes[i + 1])
        BY <1>3, <2>1, <2>3, OrderFacts
      <3>2. 20 - Len(writes) + (i + 1) = 20 - Len(writes') + i /\ Len(writes') > 16
        BY <1>1, <2>3
      <3> QED
        BY <1>1, <3>1, <3>2
    <2>4. CASE Len(writes) = 17
      <3>1. BeginAt(20 - Len(writes) + (i + 1), writes[i + 1])
        BY <1>3, <2>1, <2>4, OrderFacts
      <3> DEFINE j == 20 - Len(writes) + (i + 1)
      <3>2. j \in Nat /\ j > 4 /\ BeginAt(j, writes[i + 1])
        BY <1>1, <2>4, <3>1
      <3> HIDE DEF j
      <3>4. writes[i + 1].reg = "led"
        BY <3>2, BeginFacts
      <3>5. writes'[i].reg = "led"
        BY <1>1, <3>4
      <3>6. ~(Len(writes') > 16)
        BY <1>4, <2>4
      <3>3. writes'[i].reg = "led" /\ ~(Len(writes') > 16)
        BY <3>5, <3>6, Zenon
      <3> QED
        BY <3>3 DEF BeginAt
    <2>5. CASE Len(writes) <= 16
      <3>2. writes[i + 1].reg = "led"
        BY <1>3, <2>1, <2>5, OrderFacts
      <3>3. writes'[i].reg = "led"
        BY <1>1, <3>2
      <3>4. ~(Len(writes') > 16)
        BY <1>4, <2>5
      <3>1. writes'[i].reg = "led" /\ ~(Len(writes') > 16)
        BY <3>3, <3>4, Zenon
      <3> QED
        BY <3>1 DEF BeginAt
    <2> QED
      BY <1>1, <2>3, <2>4, <2>5
  <1> QED
    BY <1>2, <1>3

LEMMA TransactionKeeps == IInv /\ Transaction => IInv'
  <1> SUFFICES ASSUME IInv, Transaction PROVE IInv'
    OBVIOUS
  <1> DEFINE w == Head(writes)
  <1>1. TypeOK'
    BY TypeStep DEF IInv, Next
  <1>2. /\ writes # <<>> /\ writes' = Tail(writes) /\ UNCHANGED <<libVars, pc, damaged>>
        /\ out' = IF w.reg = "led" /\ mode1.ai THEN [out EXCEPT ![w.num] = w.value] ELSE out
        /\ mode1' = IF w.reg = "mode1" THEN [sleep |-> w.sleep, ai |-> w.ai] ELSE mode1
    BY DEF Transaction
  <1>3. /\ Len(writes) \in Nat /\ Len(writes) >= 1 /\ Len(writes') = Len(writes) - 1
        /\ \A i \in 1..Len(writes') : writes'[i] = writes[i + 1]
        /\ w = writes[1] /\ w \in Transactions
    BY <1>2, TailFacts DEF IInv, TypeOK
  <1>8. Len(writes) \in Nat /\ Len(writes') = Len(writes) - 1
    BY <1>3
  <1>4. NoneYet'
    BY <1>2 DEF IInv, NoneYet, libVars
  <1>5. LowFirst' /\ (pc = "loop" => \A i \in 1..Len(writes') :
          BeginAt(IF Len(writes') > 16 THEN 20 - Len(writes') + i ELSE 5, writes'[i]))
    BY <1>2, <1>4, ShorterWrites
  <1>6. PinsDue'
    <2> SUFFICES ASSUME pc = "loop", NEW m \in Motors, NEW k \in {1, 2}
                 PROVE  PinDue(m, k)'
      BY <1>2 DEF PinsDue
    <2>1. PinDue(m, k) /\ Asked(m)' = Asked(m) /\ Pin(m, k) \in Channels
      BY <1>2, MotorFacts, PinFacts DEF IInv, PinsDue, Asked, libVars, Pin
    <2>2. \A i \in 1..Len(writes') : Writes(i, Pin(m, k))' => writes'[i].value = Asked(m)[k]
      BY <1>3, <2>1 DEF PinDue, Writes
    <2>3. CASE Writes(1, Pin(m, k))
      <3>1. w.value = Asked(m)[k] /\ w.reg = "led" /\ w.num = Pin(m, k)
        BY <1>3, <2>1, <2>3 DEF PinDue, Writes
      <3>2. mode1.ai
        BY <1>2, <3>1, HeadFacts DEF Awake
      <3>3. out'[Pin(m, k)] = Asked(m)[k]
        BY <1>2, <2>1, <3>1, <3>2 DEF IInv, TypeOK
      <3> QED
        BY <2>1, <2>2, <3>3 DEF PinDue
    <2>4. CASE ~Writes(1, Pin(m, k))
      <3>1. out'[Pin(m, k)] = out[Pin(m, k)]
        BY <1>2, <1>3, <2>4 DEF Writes, IInv, TypeOK
      <3>2. ASSUME NEW i \in 1..Len(writes), Writes(i, Pin(m, k))
            PROVE  \E j \in 1..Len(writes') : Writes(j, Pin(m, k))'
        <4>1. i - 1 \in 1..Len(writes')
          BY <1>3, <2>4, <3>2
        <4>2. writes'[i - 1] = writes[i]
          BY <1>3, <4>1
        <4> QED
          BY <3>2, <4>1, <4>2 DEF Writes
      <3> QED
        BY <1>2, <2>1, <2>2, <3>1, <3>2 DEF PinDue
    <2> QED
      BY <2>3, <2>4
  <1>7. ModeOrder'
    <2>1. pc # "begin"
      BY <1>2 DEF IInv, ModeOrder
    <2>2. CASE pc = "freq"
      <3>1. writes = <<SetMode(FALSE, FALSE)>>
        BY <1>2, <2>2 DEF IInv, ModeOrder
      <3>2. w = SetMode(FALSE, FALSE) /\ writes' = <<>>
        BY <1>2, <3>1
      <3> QED
        <4>2. w.reg = "mode1" /\ w.sleep = FALSE /\ w.ai = FALSE
          BY <3>2 DEF SetMode
        <4>1. pc' = "freq" /\ mode1' = [sleep |-> FALSE, ai |-> FALSE]
          BY <1>2, <2>2, <4>2
        <4> QED
          BY <3>2, <4>1 DEF ModeOrder
    <2>3. CASE pc = "loop" /\ Len(writes) <= 16
      <3>1. w.reg = "led" /\ Awake
        BY <1>3, <2>3, OrderFacts
      <3> QED
        <4>1. mode1' = mode1 /\ pc' = "loop" /\ Len(writes') <= 15
          BY <1>2, <1>3, <2>3, <3>1
        <4>2. Awake' /\ Len(writes') <= 20 /\ Len(writes') # 19
          BY <1>3, <3>1, <4>1 DEF Awake
        <4> QED
          BY <1>5, <2>3, <4>1, <4>2 DEF ModeOrder
    <2>4. CASE pc = "loop" /\ Len(writes) > 16
      <3>1. Len(writes) <= 20 /\ BeginAt(20 - Len(writes) + 1, w)
        BY <1>3, <2>4, OrderFacts
      <3>2. Len(writes') <= 16 => Awake'
        <4>1. SUFFICES ASSUME Len(writes') <= 16 PROVE Awake'
          OBVIOUS
        <4>2. Len(writes) = 17
          BY <1>3, <2>4, <4>1
        <4>3. BeginAt(4, w)
          BY <3>1, <4>2
        <4>4. w.reg = "mode1" /\ w.sleep = FALSE /\ w.ai = TRUE
          BY <4>3, BeginFacts
        <4> QED
          BY <1>2, <4>4 DEF Awake
      <3>3. Len(writes') = 19 => mode1'.sleep
        <4>1. SUFFICES ASSUME Len(writes') = 19 PROVE mode1'.sleep
          OBVIOUS
        <4>2. Len(writes) = 20
          <5> DEFINE n == Len(writes)
                     m == Len(writes')
          <5>1. n \in Nat /\ m = n - 1 /\ m = 19
            BY <1>8, <4>1
          <5> HIDE DEF n, m
          <5>2. n = 20
            BY <5>1
          <5> QED
            BY <5>2 DEF n
        <4>3. BeginAt(1, w)
          BY <3>1, <4>2
        <4>4. w.reg = "mode1" /\ w.sleep = TRUE /\ w.ai = FALSE
          BY <4>3, BeginFacts
        <4> QED
          BY <1>2, <4>4
      <3> QED
        BY <1>2, <1>3, <1>5, <2>4, <3>1, <3>2, <3>3 DEF ModeOrder
    <2> QED
      BY <1>3, <2>1, <2>2, <2>3, <2>4 DEF IInv, TypeOK
  <1> QED
    BY <1>1, <1>4, <1>5, <1>6, <1>7 DEF IInv

LEMMA LossKeeps == IInv /\ LoseTransaction => IInv'
  <1> SUFFICES ASSUME IInv, LoseTransaction PROVE IInv'
    OBVIOUS
  <1> DEFINE w == Head(writes)
  <1>1. TypeOK'
    BY TypeStep DEF IInv, Next
  <1>2. /\ writes # <<>> /\ writes' = Tail(writes) /\ UNCHANGED <<chipVars, libVars, pc>>
        /\ pc = "loop" /\ w.reg = "led" /\ damaged' = damaged \cup OwnerOf(w.num)
    BY DEF LoseTransaction
  <1>3. /\ Len(writes) \in Nat /\ Len(writes) >= 1 /\ Len(writes') = Len(writes) - 1
        /\ \A i \in 1..Len(writes') : writes'[i] = writes[i + 1]
        /\ w = writes[1]
    BY <1>2, TailFacts DEF IInv, TypeOK
  <1>4. NoneYet'
    BY <1>2 DEF NoneYet
  <1>5. LowFirst' /\ (pc = "loop" => \A i \in 1..Len(writes') :
          BeginAt(IF Len(writes') > 16 THEN 20 - Len(writes') + i ELSE 5, writes'[i]))
    <2>1. damaged \subseteq damaged'
      BY <1>2
    <2> QED
      BY <1>2, <1>4, <2>1, ShorterWrites
  <1>6. PinsDue'
    <2> SUFFICES ASSUME NEW m \in Motors, NEW k \in {1, 2} PROVE PinDue(m, k)'
      BY DEF PinsDue
    <2>1. PinDue(m, k) /\ Asked(m)' = Asked(m) /\ out' = out
      BY <1>2 DEF IInv, PinsDue, Asked, libVars, chipVars
    <2>2. m \in damaged' \/ ~Writes(1, Pin(m, k))
      BY <1>2, <1>3 DEF OwnerOf, Writes, Pin
    <2>3. \A i \in 1..Len(writes') : Writes(i, Pin(m, k))' => writes'[i].value = Asked(m)[k]
      BY <1>3, <2>1 DEF PinDue, Writes
    <2>4. ASSUME m \notin damaged', NEW i \in 1..Len(writes), Writes(i, Pin(m, k))
          PROVE  \E j \in 1..Len(writes') : Writes(j, Pin(m, k))'
      <3>1. i - 1 \in 1..Len(writes')
        BY <1>3, <2>2, <2>4
      <3>2. writes'[i - 1] = writes[i]
        BY <1>3, <3>1
      <3> QED
        BY <2>4, <3>1, <3>2 DEF Writes
    <2>5. m \in damaged => m \in damaged'
      BY <1>2
    <2> QED
      BY <2>1, <2>3, <2>4, <2>5 DEF PinDue
  <1>7. ModeOrder'
    <2>1. Len(writes) <= 16 /\ Awake
      BY <1>2, HeadFacts
    <2>2. Awake' /\ pc' = "loop" /\ Len(writes') <= 16
      BY <1>2, <1>3, <2>1 DEF Awake, chipVars
    <2>3. Len(writes') <= 20 /\ Len(writes') # 19
      BY <1>3, <2>1
    <2> QED
      BY <1>2, <1>5, <2>2, <2>3 DEF ModeOrder
  <1> QED
    BY <1>1, <1>4, <1>5, <1>6, <1>7 DEF IInv

\* setSpeed and run: motor m is to go in direction dir at speed s.
LEMMA CallKeeps ==
  ASSUME IInv, TypeOK', pc = "loop", writes = <<>>, UNCHANGED <<chipVars, pc>>,
         NEW m \in Motors, NEW dir \in Directions, NEW s \in 0..255,
         mdir' = [mdir EXCEPT ![m] = dir], speed' = [speed EXCEPT ![m] = s],
         dir = "none" => mdir[m] = "none",
         writes' = RunWrites(m, dir, s), damaged' = Repaired(m, dir)
  PROVE  IInv'
  <1>1. NoneYet'
    BY DEF NoneYet
  <1>2. \A n \in Motors : n # m => Asked(n)' = Asked(n)
    BY DEF IInv, TypeOK, Asked
  <1>3. mdir'[m] = dir /\ speed'[m] = s
    BY DEF IInv, TypeOK
  <1>4. Awake'
    BY DEF IInv, ModeOrder, Awake, chipVars
  <1>5. \A n \in Motors \ damaged, k \in {1, 2} : out[Pin(n, k)] = Asked(n)[k]
    BY DEF IInv, PinsDue, PinDue
  <1>6. CASE dir = "none"
    <2>1. writes' = <<>> /\ damaged' = damaged
      BY <1>6, RunTypes DEF Repaired
    <2>2. Asked(m)' = Asked(m)
      BY <1>3, <1>6 DEF Asked
    <2>3. PinsDue'
      BY <1>2, <1>5, <2>1, <2>2 DEF PinsDue, PinDue, chipVars
    <2>4. LowFirst' /\ ModeOrder'
      BY <1>4, <2>1 DEF LowFirst, ModeOrder
    <2> QED
      BY <1>1, <2>3, <2>4 DEF IInv
  <1>7. CASE dir \in Commands
    <2> DEFINE w == RunWrites(m, dir, s)
               v1 == CASE dir = "FORWARD" -> 16 * s [] dir = "BRAKE" -> FULL [] OTHER -> 0
               v2 == CASE dir = "BACKWARD" -> 16 * s [] dir = "BRAKE" -> FULL [] OTHER -> 0
    <2>1. /\ Len(writes') = 2
          /\ \/ writes'[1] = SetPin(In1[m], v1) /\ writes'[2] = SetPin(In2[m], v2)
             \/ writes'[1] = SetPin(In2[m], v2) /\ writes'[2] = SetPin(In1[m], v1)
          /\ writes'[1].reg = "led" /\ writes'[1].value # 0 => dir = "BRAKE"
      BY <1>7, RunFacts
    <2>2. Asked(m)' = <<v1, v2>>
      BY <1>3, <1>7 DEF Asked, Commands
    <2> HIDE DEF v1, v2
    <2>3. \A i \in {1, 2} : writes'[i].reg = "led" /\ writes'[i].num \in {In1[m], In2[m]}
      BY <2>1 DEF SetPin
    <2>4. damaged' = damaged \ {m}
      BY <1>7 DEF Repaired, Commands
    <2>5. ASSUME NEW n \in Motors, NEW k \in {1, 2} PROVE PinDue(n, k)'
      <3>1. CASE n = m
        <4>1. \E i \in {1, 2} : Writes(i, Pin(m, k))'
          BY <2>1 DEF Writes, SetPin, Pin
        <4>2. \A i \in {1, 2} : Writes(i, Pin(m, k))' => writes'[i].value = Asked(m)'[k]
          BY <2>1, <2>2, MotorFacts, PinFacts DEF Writes, SetPin, Pin
        <4> QED
          BY <2>1, <3>1, <4>1, <4>2 DEF PinDue
      <3>2. CASE n # m
        <4>1. Pin(n, k) \notin {In1[m], In2[m]}
          BY <3>2, MotorFacts, PinFacts DEF Pin
        <4>2. \A i \in 1..Len(writes') : ~Writes(i, Pin(n, k))'
          BY <2>1, <2>3, <4>1 DEF Writes
        <4>3. n \in damaged' \/ out'[Pin(n, k)] = Asked(n)'[k]
          BY <1>2, <1>5, <2>4, <3>2 DEF chipVars
        <4> QED
          BY <4>2, <4>3 DEF PinDue
      <3> QED
        BY <3>1, <3>2
    <2>6. LowFirst'
      <3>1. \A n \in Motors : writes'[1].num \in {In1[n], In2[n]} => n = m
        BY <2>3, MotorFacts, PinFacts
      <3>2. \A i \in 1..(Len(writes') - 1) : i = 1
        BY <2>1
      <3> QED
        BY <1>3, <2>1, <3>1, <3>2 DEF LowFirst
    <2>7. ModeOrder'
      <3>1. \A i \in 1..Len(writes') : BeginAt(5, writes'[i])
        BY <2>1, <2>3 DEF BeginAt
      <3>2. pc' = "loop" /\ ~(Len(writes') > 16) /\ Len(writes') <= 20 /\ Len(writes') # 19
        BY <2>1
      <3> QED
        BY <1>4, <3>1, <3>2 DEF ModeOrder
    <2> QED
      BY <1>1, <2>5, <2>6, <2>7 DEF IInv, PinsDue
  <1> QED
    BY <1>6, <1>7 DEF Directions

\* Steps that only choose the next calls.
LEMMA CallsOnly ==
  ASSUME IInv, TypeOK', UNCHANGED <<chipVars, libVars, writes, pc, damaged>>
  PROVE  IInv'
  <1>1. \A m \in Motors : Asked(m)' = Asked(m)
    BY DEF Asked, libVars
  <1>2. PinsDue'
    BY <1>1 DEF IInv, PinsDue, PinDue, Writes, chipVars
  <1> QED
    BY <1>2 DEF IInv, NoneYet, LowFirst, ModeOrder, Awake, chipVars, libVars

LEMMA FrequencyKeeps == IInv /\ SetFrequency => IInv'
  <1> SUFFICES ASSUME IInv, SetFrequency PROVE IInv'
    OBVIOUS
  <1> DEFINE setup == <<SetMode(TRUE, mode1.ai), SetPrescale,
                        SetMode(mode1.sleep, mode1.ai), SetMode(mode1.sleep, TRUE)>>
  <1>1. TypeOK'
    BY TypeStep DEF IInv, Next
  <1>2. /\ pc = "freq" /\ writes = <<>> /\ pc' = "loop" /\ writes' = setup \o AllOff
        /\ UNCHANGED <<chipVars, libVars, damaged>>
    BY DEF SetFrequency
  <1>3. mode1 = [sleep |-> FALSE, ai |-> FALSE]
    BY <1>2 DEF IInv, ModeOrder
  <1>4. setup \in Seq(Transactions) /\ Len(setup) = 4
    <2>1. /\ SetMode(TRUE, mode1.ai) \in Transactions /\ SetPrescale \in Transactions
          /\ SetMode(mode1.sleep, mode1.ai) \in Transactions
          /\ SetMode(mode1.sleep, TRUE) \in Transactions
      BY <1>3 DEF SetMode, Transactions, ModeWrites
    <2> QED
      BY <2>1, FourOf
  <1>5. /\ setup[1] = SetMode(TRUE, FALSE) /\ setup[2] = SetPrescale
        /\ setup[3] = SetMode(FALSE, FALSE) /\ setup[4] = SetMode(FALSE, TRUE)
    BY <1>3
  <1> HIDE DEF setup
  <1>6. AllOff \in Seq(Transactions) /\ Len(AllOff) = 16
    BY AllOffType, Wider DEF Transactions
  <1>7. /\ Len(writes') = 20
        /\ \A i \in 1..4 : writes'[i] = setup[i]
        /\ \A i \in 5..20 : writes'[i] = AllOff[i - 4]
    <2>1. /\ Len(writes') = 20
          /\ \A i \in 1..20 : writes'[i] = IF i <= 4 THEN setup[i] ELSE AllOff[i - 4]
      <3>1. Len(setup) + Len(AllOff) = 20
        BY <1>4, <1>6
      <3>2. \A i \in 1..20 : (setup \o AllOff)[i] = IF i <= 4 THEN setup[i] ELSE AllOff[i - 4]
        <4>1. \A i \in 1..(Len(setup) + Len(AllOff)) :
                (setup \o AllOff)[i] = IF i <= Len(setup) THEN setup[i] ELSE AllOff[i - Len(setup)]
          BY <1>4, <1>6, Joined
        <4>2. Len(setup) = 4
          BY <1>4
        <4> QED
          BY ONLY <3>1, <4>1, <4>2
      <3>3. Len(setup \o AllOff) = 20
        BY <1>4, <1>6, <3>1, Joined
      <3> QED
        BY <1>2, <3>2, <3>3
    <2> QED
      BY <2>1
  <1>8. \A i \in 5..20 : writes'[i] = SetPin(i - 5, 0)
    BY <1>7 DEF AllOff
  <1>9. \A m \in Motors : Asked(m)' = <<0, 0>>
    BY <1>2 DEF IInv, NoneYet, Asked, libVars
  <1>10. PinsDue'
    <2> SUFFICES ASSUME NEW m \in Motors, NEW k \in {1, 2} PROVE PinDue(m, k)'
      BY DEF PinsDue
    <2>1. Pin(m, k) \in 0..15
      BY MotorFacts, PinFacts DEF Pin, Channels
    <2>2. Writes(Pin(m, k) + 5, Pin(m, k))' /\ Pin(m, k) + 5 \in 1..20
      BY <1>8, <2>1 DEF Writes, SetPin
    <2>3. \A i \in 1..4 : writes'[i].reg # "led"
      BY <1>5, <1>7 DEF SetMode, SetPrescale
    <2>4. \A i \in 5..20 : writes'[i].value = 0
      BY <1>8 DEF SetPin
    <2>5. \A i \in 1..20 : i \in 1..4 \/ i \in 5..20
      OBVIOUS
    <2>6. \A i \in 1..20 : Writes(i, Pin(m, k))' => writes'[i].value = Asked(m)'[k]
      BY <1>9, <2>3, <2>4, <2>5 DEF Writes
    <2> QED
      BY <1>7, <2>2, <2>6 DEF PinDue
  <1>11. LowFirst'
    <2>1. \A i \in 1..4 : writes'[i].reg # "led"
      BY <1>5, <1>7 DEF SetMode, SetPrescale
    <2>2. \A i \in 5..20 : writes'[i].value = 0
      BY <1>8 DEF SetPin
    <2>3. \A i \in 1..(20 - 1) : i \in 1..4 \/ i \in 5..20
      OBVIOUS
    <2> QED
      BY <1>7, <2>1, <2>2, <2>3 DEF LowFirst
  <1>12. ModeOrder'
    <2>1. ASSUME NEW i \in 1..20 PROVE BeginAt(i, writes'[i])
      <3>1. CASE i \in 1..4
        <4>1. writes'[i] = setup[i] /\ ~(i > 4) /\ i \in {1, 2, 3, 4}
          BY <1>7, <3>1
        <4> QED
          BY <1>5, <4>1 DEF BeginAt
      <3>2. CASE i \in 5..20
        <4>1. writes'[i].reg = "led"
          BY <1>8, <3>2 DEF SetPin
        <4>2. i # 1 /\ i # 2 /\ i # 3 /\ i # 4
          BY <3>2
        <4> QED
          BY <4>1, <4>2 DEF BeginAt
      <3>3. i \in 1..4 \/ i \in 5..20
        OBVIOUS
      <3> QED
        BY <3>1, <3>2, <3>3
    <2>2. \A i \in 1..20 : BeginAt(IF 20 > 16 THEN 20 - 20 + i ELSE 5, writes'[i])
      <3>1. \A i \in 1..20 : (IF 20 > 16 THEN 20 - 20 + i ELSE 5) = i
        OBVIOUS
      <3> QED
        BY <2>1, <3>1
    <2>3. 20 <= 20 /\ ~(20 <= 16) /\ 20 # 19
      OBVIOUS
    <2> QED
      BY <1>2, <1>7, <2>2, <2>3 DEF ModeOrder
  <1>13. NoneYet'
    BY <1>2 DEF NoneYet
  <1> QED
    BY <1>1, <1>10, <1>11, <1>12, <1>13 DEF IInv

LEMMA PinsStep == IInv /\ [Next]_vars => IInv'
  <1> SUFFICES ASSUME IInv, [Next]_vars PROVE IInv'
    OBVIOUS
  <1>1. TypeOK'
    BY TypeStep DEF IInv
  <1>2. CASE Begin
    <2>1. /\ writes' = <<SetMode(FALSE, FALSE)>> /\ pc' = "freq" /\ pc = "begin"
          /\ UNCHANGED <<mdir, damaged>>
      BY <1>2 DEF Begin, libVars
    <2>2. NoneYet' /\ PinsDue'
      BY <2>1 DEF IInv, NoneYet, PinsDue
    <2>3. Len(writes') = 1
      BY <2>1, Singleton
    <2>4. LowFirst'
      BY <2>3 DEF LowFirst
    <2>5. ModeOrder'
      BY <2>1 DEF ModeOrder
    <2> QED
      BY <1>1, <2>2, <2>4, <2>5 DEF IInv
  <1>3. CASE releaseMotors \/ applyBrake \/ DriveMotors \/ UNCHANGED vars
    <2>1. UNCHANGED <<chipVars, libVars, writes, pc, damaged>>
      BY <1>3 DEF releaseMotors, applyBrake, DriveMotors, vars
    <2> QED
      BY <1>1, <2>1, CallsOnly
  <1>4. CASE setSpeed
    <2> DEFINE m == Head(calls).motor
               s == Head(calls).speed
    <2>1. m \in Motors /\ s \in 0..255
      <3>1. Head(calls) \in CallsOfMotors
        BY <1>4 DEF setSpeed, IInv, TypeOK
      <3> QED
        BY <3>1, CallFacts
    <2>2. /\ pc = "loop" /\ writes = <<>> /\ UNCHANGED <<chipVars, pc>> /\ mdir' = mdir
          /\ speed' = [speed EXCEPT ![m] = s] /\ writes' = RunWrites(m, mdir[m], s)
          /\ damaged' = Repaired(m, mdir[m])
      BY <1>4 DEF setSpeed
    <2> HIDE DEF m, s
    <2>3. mdir' = [mdir EXCEPT ![m] = mdir[m]] /\ mdir[m] \in Directions
      BY <2>1, <2>2 DEF IInv, TypeOK
    <2> QED
      BY <1>1, <2>1, <2>2, <2>3, CallKeeps
  <1>5. CASE run
    <2> DEFINE m == Head(calls).motor
               dir == Head(calls).dir
    <2>1. m \in Motors /\ dir \in Directions /\ dir # "none"
      <3>1. Head(calls) \in CallsOfMotors /\ Head(calls).op = "run"
        BY <1>5 DEF run, IInv, TypeOK
      <3> QED
        BY <3>1, CallFacts
    <2>2. /\ pc = "loop" /\ writes = <<>> /\ UNCHANGED <<chipVars, pc>> /\ speed' = speed
          /\ mdir' = [mdir EXCEPT ![m] = dir] /\ writes' = RunWrites(m, dir, speed[m])
          /\ damaged' = Repaired(m, dir)
      BY <1>5 DEF run
    <2> HIDE DEF m, dir
    <2>3. speed' = [speed EXCEPT ![m] = speed[m]] /\ speed[m] \in 0..255
      BY <2>1, <2>2 DEF IInv, TypeOK
    <2> QED
      BY <1>1, <2>1, <2>2, <2>3, CallKeeps
  <1>6. CASE Reset
    <2>1. /\ writes' = <<>> /\ pc' = "begin" /\ mdir' = [m \in Motors |-> "none"]
          /\ damaged' = {}
      BY <1>6 DEF Reset
    <2> QED
      BY <1>1, <2>1 DEF IInv, PinsDue, NoneYet, LowFirst, ModeOrder
  <1> QED
    BY <1>2, <1>3, <1>4, <1>5, <1>6, TransactionKeeps, LossKeeps, FrequencyKeeps DEF Next

LEMMA Driving == Spec => []IInv
  BY PinsInit, PinsStep, PTL DEF Spec

\* After any calls, losses and resets a motor whose last run() arrived does
\* what its last command and speed ask for.
THEOREM PinsSafety == Spec => []PinsMatchCommand
  <1>1. IInv => PinsMatchCommand
    <2> SUFFICES ASSUME IInv, pc = "loop", writes = <<>>, NEW m \in Motors \ damaged
                 PROVE  Pins(m) = Asked(m)
      BY DEF PinsMatchCommand
    <2>1. \A k \in {1, 2} : out[Pin(m, k)] = Asked(m)[k]
      BY DEF IInv, PinsDue, PinDue
    <2>2. Asked(m) = <<Asked(m)[1], Asked(m)[2]>>
      BY DEF Asked
    <2> QED
      BY <2>1, <2>2 DEF Pins, Pin
  <1> QED
    BY <1>1, Driving, PTL

\* The chip is awake and set up whenever an output is written, wherever the
\* microcontroller was reset.
THEOREM ChipSafety == Spec => []ChipReady
  <1>1. IInv => ChipReady
    BY HeadFacts DEF ChipReady, Awake
  <1> QED
    BY <1>1, Driving, PTL

\* A motor that was not told to brake is never made to have both its pins
\* driven, though they are written one after the other, and a motor that was
\* released is not, whichever transactions are lost.  A motor that was told to
\* drive and lost a transaction of that call is left out.
THEOREM BrakeSafety == Spec => NoAccidentalBrake
  <1>1. ASSUME IInv, [Next]_vars, NEW m \in Motors,
               0 \in {out[In1[m]], out[In2[m]]}, mdir[m] # "BRAKE",
               ~LowWriteMayBeLost(m)
        PROVE  0 \in {out'[In1[m]], out'[In2[m]]}
    <2>1. CASE out' = out
      BY <1>1, <2>1
    <2>2. CASE out' # out
      <3> DEFINE w == Head(writes)
      <3>1. Transaction
        BY <1>1, <2>2 DEF Next, LoseTransaction, Begin, SetFrequency, releaseMotors,
           applyBrake, DriveMotors, setSpeed, run, Reset, vars, chipVars
      <3>2. /\ writes # <<>> /\ w.reg = "led" /\ out' = [out EXCEPT ![w.num] = w.value]
        BY <2>2, <3>1 DEF Transaction
      <3>3. pc = "loop" /\ w = writes[1] /\ Len(writes) \in Nat /\ Len(writes) >= 1
        BY <1>1, <3>2, HeadFacts, TailFacts DEF IInv, TypeOK
      <3>4. m \in 1..4 /\ In1[m] \in Channels /\ In2[m] \in Channels /\ In1[m] # In2[m]
        BY MotorFacts, PinFacts
      <3>5. \A k \in {1, 2} : PinDue(m, k)
        BY <1>1, <3>3 DEF IInv, PinsDue
      <3>6. 0 \in {Asked(m)[1], Asked(m)[2]}
        BY <1>1 DEF Asked
      <3>7. CASE w.num \notin {In1[m], In2[m]}
        BY <1>1, <3>2, <3>4, <3>7 DEF IInv, TypeOK
      <3>8. CASE w.num \in {In1[m], In2[m]} /\ w.value = 0
        BY <1>1, <3>2, <3>4, <3>8 DEF IInv, TypeOK
      <3>9. ASSUME NEW k \in {1, 2}, NEW o \in {1, 2}, k # o, w.num = Pin(m, k), w.value # 0
            PROVE  out'[Pin(m, o)] = 0
        <4>1. w.value = Asked(m)[k]
          BY <3>2, <3>3, <3>5, <3>9 DEF PinDue, Writes
        <4>2. Asked(m)[o] = 0
          BY <3>6, <3>9, <4>1
        <4>3. Pin(m, o) # Pin(m, k) /\ Pin(m, o) \in Channels
          BY <3>4, <3>9 DEF Pin
        <4>4. ASSUME NEW i \in 1..Len(writes), Writes(i, Pin(m, o)) PROVE FALSE
          <5>1. i # 1
            BY <3>3, <3>9, <4>3, <4>4 DEF Writes
          <5>2. 1 \in 1..(Len(writes) - 1)
            BY <3>3, <5>1
          <5>3. w.num \in {In1[m], In2[m]}
            BY <3>9 DEF Pin
          <5> QED
            BY <1>1, <3>2, <3>3, <3>9, <5>2, <5>3 DEF IInv, LowFirst
        <4>5. m \notin damaged
          BY <1>1, <3>9, <4>1 DEF Asked, LowWriteMayBeLost
        <4>8. out[Pin(m, o)] = 0
          BY <3>5, <3>9, <4>2, <4>4, <4>5 DEF PinDue
        <4>6. Pin(m, o) # w.num /\ out \in [Channels -> 0..FULL]
          BY <1>1, <3>9, <4>3 DEF IInv, TypeOK
        <4>7. out'[Pin(m, o)] = out[Pin(m, o)]
          BY <3>2, <4>3, <4>6
        <4> QED
          BY <4>7, <4>8
      <3>10. CASE w.num \in {In1[m], In2[m]} /\ w.value # 0
        BY <3>9, <3>10 DEF Pin
      <3> QED
        BY <3>7, <3>8, <3>10
    <2> QED
      BY <2>1, <2>2
  <1>2. IInv /\ [Next]_vars =>
          [\A m \in Motors :
             (0 \in {out[In1[m]], out[In2[m]]} /\ mdir[m] # "BRAKE"
              /\ ~LowWriteMayBeLost(m))
             => 0 \in {out'[In1[m]], out'[In2[m]]}]_vars
    BY <1>1
  <1> QED
    BY <1>2, Driving, PTL DEF Spec, NoAccidentalBrake
=============================================================================
