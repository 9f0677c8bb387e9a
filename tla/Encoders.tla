------------------------------ MODULE Encoders ------------------------------
(***************************************************************************)
(* The wheel encoders of the Arduino: the two pins of each encoder, the    *)
(* library that turns a change of a pin into a call (PinChangeInterrupt),  *)
(* the quadrature table (QGPMaker_Encoder.h) and the main program that     *)
(* reads and zeroes the 32-bit counts with interrupts off                  *)
(* (turtlebot3_arduino.ino).                                               *)
(*                                                                         *)
(* A port is the set of its bits that are high.  A turning wheel changes   *)
(* one pin at a time, at any moment, also inside an interrupt routine.     *)
(* The processor moves 8 bits at a time; two halves of 16 bits stand for   *)
(* the four bytes of a count.                                              *)
(***************************************************************************)
EXTENDS Integers

CONSTANTS
  N,          \* encoders, numbered from 1 as in the sketch
  SETTINGS,   \* the sets of PCINTs the library may be compiled with
  START,      \* model bound: the angles a wheel may start at
  MAX_EDGES   \* model bound: edges of all wheels together

Encoders == 1..N

\* Pins of the encoders, by the numbers on the board.
Pin1 == <<8, 6, 3, 5>>
Pin2 == <<9, 7, 2, 4>>
PinsOf(e) == {Pin1[e], Pin2[e]}
EncoderPins == UNION {PinsOf(e) : e \in Encoders}

\* digitalPinToPCINT on the Uno: a port of eight bits and a bit of it.
Port(pin) == IF pin < 8 THEN 2 ELSE 0
Bit(pin) == pin % 8
Pcint(pin) == 8 * Port(pin) + Bit(pin)
Pcints == 0..23
Bits == 0..7

\* Ports of the Uno.
NUM_PORTS == 3
UnoPorts == 0..(NUM_PORTS - 1)
Ports == {Port(pin) : pin \in EncoderPins}

\* PCINT_HAS_PCINT<n>: the Uno's chip has no pin for the last bit of port 1.
HAS_PCINT == Pcints \ {15}

\* PinChangeInterruptSettings.h as it is: but for crystal and reset, all.
PCINT_ENABLE == (0..31) \ {6, 7, 14}

\* PCINT_USE_PCINT<n>: what is there and enabled.
UsePcint(enable) == HAS_PCINT \cap enable

ASSUME EncodersAssumption ==
  /\ N \in 1..4
  /\ SETTINGS # {}
  /\ \A enable \in SETTINGS :
       enable \subseteq PCINT_ENABLE /\ {Pcint(pin) : pin \in EncoderPins} \subseteq enable
  /\ START \subseteq Int /\ MAX_EDGES \in Nat

VARIABLES
  wheel,         \* the true angle of a wheel, in edges
  edges,         \* edges so far
  use,           \* PCINT_USE_PCINT<n>: the PCINTs the library is compiled for
  enabled,       \* PCMSKn, PCICR: pins that trigger their port's interrupt
  flag,          \* PCIFR: ports with a pin change not served yet
  oldPorts,      \* a port as its last routine saw it
  risingPorts,   \* bits that are to be served when they rise
  fallingPorts,  \* bits that are to be served when they fall
  callbacks,     \* the isr<k> a PCINT calls, or Null
  interruptArgs, \* the encoder an isr<k> updates, or 0
  calls,         \* PCINTs the running routine has still to serve
  inIsr,         \* an interrupt routine is running
  p1val,         \* what update() has read of the first pin, or NotRead
  state,         \* encoder.state
  position,      \* encoder.position
  masked,        \* interrupts are off for the main program
  pc,            \* what the main program is about
  at,            \* halves of the counts it has read or written
  raw,           \* its local copy of the counts
  previous,      \* previousEncoderCounts
  seen,          \* history: the angle at the last update()
  fast,          \* history: an edge came before the last one was seen, or the
                 \* angle was not known at the last zeroing
  zeroed,        \* history: the angle and the phase at the last zeroing
  measured,      \* history: the angle at the last measurement or zeroing
  atMask         \* history: the counts when interrupts were last switched off

wheelVars == <<wheel, edges>>
settings  == <<use, enabled, risingPorts, fallingPorts, callbacks,
               interruptArgs>>
isrVars   == <<oldPorts, calls, inIsr, p1val, state, seen>>
mainVars  == <<pc, at, raw, previous, measured, atMask, zeroed>>
vars == <<wheelVars, fast, settings, isrVars, mainVars, flag, position, masked>>

Null == 4
NotRead == 2
HALF == 65536
Low(x)  == x % HALF
High(x) == x \div HALF

Zeros == [e \in Encoders |-> 0]

\* Whether a pin is high: over four edges the two pins run through a Gray code.
HighPins(e) ==
  LET angle == wheel[e] % 4
  IN  (IF angle \in {2, 3} THEN {Pin1[e]} ELSE {})
      \cup (IF angle \in {1, 2} THEN {Pin2[e]} ELSE {})

\* PINB or PIND.
PortInput(p) ==
  {Bit(pin) : pin \in {q \in EncoderPins : Port(q) = p} \cap
                     UNION {HighPins(e) : e \in Encoders}}

\* digitalRead
PinValue(e, pin) == IF pin \in HighPins(e) THEN 1 ELSE 0

\* The angle, modulo 4, that two pins p1 + 2 * p2 stand for.
Phase(p) == <<0, 3, 1, 2>>[p + 1]

\* update()'s table, over the old pins and four times the new ones.
Delta_WrongEntry(s) ==   \* mutant: 14 and 11 exchanged
  <<0, 1, -1, 2, -1, 0, -2, 1, 1, -2, 0, 1, 2, -1, -1, 0>>[s + 1]

Delta(s) == <<0, 1, -1, 2, -1, 0, -2, 1, 1, -2, 0, -1, 2, -1, 1, 0>>[s + 1]

\* PCINT_USE_PORT<n>
usedPorts == {n \div 8 : n \in use}

\* getArrayPosPCINT: the place of a port in the arrays, which have no room for
\* ports left out.  Of the Uno's three ports at most one may be left out here,
\* else the encoders' two would not be served.
ArrayPos(p) ==
  CASE UnoPorts \subseteq usedPorts -> p
    [] 0 \notin usedPorts           -> p - 1
    [] 2 \notin usedPorts           -> p
    [] OTHER                        -> (p \div 2) % 2

Init ==
  /\ wheel \in [Encoders -> START]
  /\ edges = 0
  /\ use \in {UsePcint(enable) : enable \in SETTINGS}
  /\ enabled = {} /\ flag = [p \in Ports |-> FALSE]
  /\ oldPorts = [i \in UnoPorts |-> {}]
  /\ risingPorts = [i \in UnoPorts |-> {}]
  /\ fallingPorts = [i \in UnoPorts |-> {}]
  /\ callbacks = [n \in Pcints |-> Null]
  /\ interruptArgs = [k \in 0..3 |-> 0]
  /\ inIsr = FALSE /\ calls = {} /\ p1val = NotRead
  /\ state = Zeros /\ position = Zeros
  /\ masked = TRUE
  /\ pc = "attach" /\ at = 0
  /\ raw = Zeros /\ previous = Zeros
  /\ seen = wheel /\ measured = wheel
  /\ fast = [e \in Encoders |-> TRUE]
  /\ zeroed = [e \in Encoders |-> [angle |-> 0, phase |-> 0]]
  /\ atMask = Zeros

-----------------------------------------------------------------------------
(* The wheels. *)

ChangesBit(e, d) ==
  IF (wheel[e] + (IF d = 1 THEN 0 ELSE 1)) % 2 = 0 THEN Pin2[e] ELSE Pin1[e]

Edge(e, d) ==
  /\ edges < MAX_EDGES
  /\ edges' = edges + 1
  /\ wheel' = [wheel EXCEPT ![e] = @ + d]
  /\ fast' = [fast EXCEPT ![e] = @ \/ wheel[e] # seen[e]]
  /\ LET pin == ChangesBit(e, d)
     IN  flag' = IF pin \in enabled THEN [flag EXCEPT ![Port(pin)] = TRUE] ELSE flag
  /\ UNCHANGED <<settings, isrVars, mainVars, position, masked>>

-----------------------------------------------------------------------------
(* The interrupt routines. *)

\* The changed bits whose kind of change is asked for.
Trigger(p) ==
  LET new == PortInput(p)
      old == oldPorts[ArrayPos(p)]
  IN  {b \in Bits : \/ b \in new \ old /\ b \in risingPorts[ArrayPos(p)]
                    \/ b \in old \ new /\ b \in fallingPorts[ArrayPos(p)]}

\* PCINT_CALLBACK_PORT2 moves the pins that are also the USART's last.
CallRank(n) == IF n \div 8 = 2 THEN (n + 4) % 8 ELSE n % 8

\* PCINT_CALLBACK
Callbacks(p) == {8 * p + b : b \in Trigger(p)} \cap use

FirstCall == CHOOSE n \in calls : \A o \in calls : CallRank(n) <= CallRank(o)

\* ISR(PCINT0_vect), ISR(PCINT2_vect)
IsrEnter(p) ==
  /\ ~masked /\ ~inIsr /\ flag[p]
  /\ flag' = [flag EXCEPT ![p] = FALSE]
  /\ inIsr' = TRUE
  /\ calls' = Callbacks(p)
  /\ oldPorts' = [oldPorts EXCEPT ![ArrayPos(p)] = PortInput(p)]
  /\ UNCHANGED <<wheelVars, fast, settings, mainVars, p1val, state, seen, position,
                 masked>>

\* PinChangeInterruptEventPCINT<n> calls isr<k>, isr<k> updates its encoder.
Served == interruptArgs[callbacks[FirstCall]]

\* update() reads the two pins one after the other.
ReadFirstPin ==
  /\ inIsr /\ calls # {} /\ p1val = NotRead
  /\ p1val' = PinValue(Served, Pin1[Served])
  /\ UNCHANGED <<wheelVars, fast, settings, mainVars, flag, oldPorts, calls, inIsr,
                 state, seen, position, masked>>

\* arg->state: the new pins become the old ones.
NewState(s) == s \div 4

Update ==
  /\ inIsr /\ calls # {} /\ p1val # NotRead
  /\ LET e == Served
         s == state[e] + 4 * p1val + 8 * PinValue(e, Pin2[e])
     IN  /\ state' = [state EXCEPT ![e] = NewState(s)]
         /\ position' = [position EXCEPT ![e] = @ + Delta(s)]
         /\ seen' = [seen EXCEPT ![e] = wheel[e]]
  /\ calls' = calls \ {FirstCall}
  /\ p1val' = NotRead
  /\ UNCHANGED <<wheelVars, fast, settings, mainVars, flag, oldPorts, inIsr, masked>>

\* Mutant: what is pending is taken for served by the routine that returns.
IsrReturn_ClearsFlag ==
  /\ inIsr /\ calls = {}
  /\ inIsr' = FALSE
  /\ flag' = [p \in Ports |-> FALSE]
  /\ UNCHANGED <<wheelVars, fast, settings, mainVars, oldPorts, calls, p1val,
                 state, seen, position, masked>>

IsrReturn ==
  /\ inIsr /\ calls = {}
  /\ inIsr' = FALSE
  /\ UNCHANGED <<wheelVars, fast, settings, mainVars, flag, oldPorts, calls, p1val,
                 state, seen, position, masked>>

-----------------------------------------------------------------------------
(* The main program; it stands still while a routine runs. *)

\* enablePinChangeInterruptHelper reads the whole port, whoever else is on it.
EnableHelper(pin) ==
  /\ oldPorts' = [oldPorts EXCEPT ![ArrayPos(Port(pin))] = PortInput(Port(pin))]
  /\ enabled' = enabled \cup {pin}

\* callbackPCINT<n> = userFunc, for the PCINTs compiled in.
SetCallback(n, isr) ==
  callbacks' = [callbacks EXCEPT ![n] = IF n \in use THEN isr ELSE @]

\* attachPinChangeInterrupt, mode CHANGE, of a pin whose port is used.
AttachPcint(pin, isr) ==
  LET slot == ArrayPos(Port(pin))
  IN  /\ SetCallback(Pcint(pin), isr)
      /\ risingPorts' = [risingPorts EXCEPT ![slot] = @ \cup {Bit(pin)}]
      /\ fallingPorts' = [fallingPorts EXCEPT ![slot] = @ \cup {Bit(pin)}]
      /\ EnableHelper(pin)

\* attach_change_interrupt: pins 2 and 3 have isr0, and so on.
AttachChange(pin, e) ==
  LET isr == (pin \div 2) - 1
  IN  /\ interruptArgs' = [interruptArgs EXCEPT ![isr] = e]
      /\ AttachPcint(pin, isr)

\* The constructors, one after the other, with interrupts off: a step per pin.
Construct(e) ==
  /\ pc = "attach" /\ \A o \in 1..(e - 1) : PinsOf(o) \subseteq enabled
  /\ \/ Pin1[e] \notin enabled /\ AttachChange(Pin1[e], e)
     \/ Pin1[e] \in enabled /\ Pin2[e] \notin enabled /\ AttachChange(Pin2[e], e)
  /\ UNCHANGED <<wheelVars, fast, use, mainVars, flag, calls, inIsr, p1val,
                 state, seen, position, masked>>

\* main() calls init(), which enables interrupts, before setup().
EnableInterrupts ==
  /\ pc = "attach" /\ enabled = EncoderPins
  /\ pc' = "setup"
  /\ masked' = FALSE
  /\ UNCHANGED <<wheelVars, fast, settings, isrVars, at, raw, previous, measured,
                 atMask, zeroed, flag, position>>

noInterrupts_Missing == masked' = masked   \* mutant

noInterrupts == masked' = TRUE

\* readEncoderCountsAtomic and resetSensorReference switch interrupts off.
Mask(what) ==
  /\ ~inIsr
  /\ \/ pc = "setup" /\ what = "readSetup"
     \/ pc = "loop" /\ what \in {"measure", "telemetry", "zero"}
  /\ pc' = what
  /\ noInterrupts
  /\ atMask' = position
  /\ UNCHANGED <<wheelVars, fast, settings, isrVars, at, raw, previous, measured,
                 zeroed, flag, position>>

\* The encoder whose half is next, and whether it is the lower half.
Current == (at \div 2) + 1
AtLow == at % 2 = 0

ReadPart ==
  /\ pc \in {"readSetup", "measure", "telemetry"} /\ ~inIsr /\ at < 2 * N
  /\ raw' = [raw EXCEPT ![Current] = IF AtLow THEN Low(position[Current])
                                     ELSE HALF * High(position[Current]) + @]
  /\ at' = at + 1
  /\ UNCHANGED <<wheelVars, fast, settings, isrVars, pc, previous, measured, atMask,
                 zeroed, flag, position, masked>>

\* What the routine and the decoder remember of e is where the wheel is.
KnownAngle(e) ==
  /\ wheel[e] = seen[e]
  /\ state[e] = PinValue(e, Pin1[e]) + 2 * PinValue(e, Pin2[e])
  /\ \A pin \in PinsOf(e) :
       Bit(pin) \in oldPorts[ArrayPos(Port(pin))] <=> pin \in HighPins(e)

WritePart ==
  /\ pc = "zero" /\ ~inIsr /\ at < 2 * N
  /\ position' = [position EXCEPT ![Current] =
                    IF AtLow THEN HALF * High(@) ELSE Low(@)]
  /\ IF AtLow THEN UNCHANGED <<zeroed, fast>>
     ELSE /\ zeroed' = [zeroed EXCEPT ![Current] =
               [angle |-> seen[Current], phase |-> Phase(state[Current])]]
          /\ fast' = [fast EXCEPT ![Current] = @ /\ ~KnownAngle(Current)]
  /\ at' = at + 1
  /\ UNCHANGED <<wheelVars, settings, isrVars, pc, raw, previous, measured, atMask,
                 flag, masked>>

\* interrupts(); the copy then belongs to the main program alone.
Unmask ==
  /\ ~inIsr /\ at = 2 * N
  /\ masked' = FALSE
  /\ pc' = "loop" /\ at' = 0
  /\ raw' = Zeros /\ atMask' = Zeros
  /\ UNCHANGED <<wheelVars, fast, settings, isrVars, zeroed, flag, position>>

Telemetry ==
  /\ pc = "telemetry" /\ Unmask
  /\ UNCHANGED <<previous, measured>>

\* updateSpeedMeasurement: raw - previous is the travel the speed is made of.
Measure ==
  /\ pc \in {"readSetup", "measure"} /\ Unmask
  /\ previous' = raw
  /\ measured' = seen

\* Mutant: the reference of the next measurement is forgotten.
ResetCounts_KeepsPrevious ==
  /\ pc = "zero" /\ Unmask
  /\ UNCHANGED previous
  /\ measured' = [e \in Encoders |-> zeroed[e].angle]

\* resetSensorReference's end.
ResetCounts ==
  /\ pc = "zero" /\ Unmask
  /\ previous' = Zeros
  /\ measured' = [e \in Encoders |-> zeroed[e].angle]

-----------------------------------------------------------------------------

Isr == \/ \E p \in Ports : IsrEnter(p)
       \/ ReadFirstPin
       \/ Update
       \/ IsrReturn

Main == \/ \E e \in Encoders : Construct(e)
        \/ EnableInterrupts
        \/ \E what \in {"readSetup", "measure", "telemetry", "zero"} : Mask(what)
        \/ ReadPart
        \/ WritePart
        \/ Telemetry
        \/ Measure
        \/ ResetCounts

Next == \/ \E e \in Encoders, d \in {-1, 1} : Edge(e, d)
        \/ Isr
        \/ Main

Spec == Init /\ [][Next]_vars

-----------------------------------------------------------------------------
(* Properties. *)

TypeOK ==
  /\ wheel \in [Encoders -> Int] /\ edges \in Nat
  /\ enabled \subseteq EncoderPins
  /\ flag \in [Ports -> BOOLEAN]
  /\ {oldPorts, risingPorts, fallingPorts} \subseteq [UnoPorts -> SUBSET Bits]
  /\ callbacks \in [Pcints -> 0..Null] /\ interruptArgs \in [0..3 -> {0} \cup Encoders]
  /\ calls \subseteq Pcints /\ inIsr \in BOOLEAN /\ p1val \in 0..2
  /\ state \in [Encoders -> 0..3]
  /\ position \in [Encoders -> Int]
  /\ masked \in BOOLEAN
  /\ pc \in {"attach", "setup", "loop", "readSetup", "measure", "telemetry", "zero"}
  /\ at \in 0..(2 * N)
  /\ raw \in [Encoders -> Int] /\ previous \in [Encoders -> Int]

\* However late the interrupts are served, and however the pins bounce, a
\* count is wrong by whole periods of four at most: update() counts by the
\* difference of what it remembers and what it reads, so an edge it misses
\* once is made up for by the next one it sees.
CountKeepsPhase ==
  pc # "zero" => \A e \in Encoders :
    (position[e] - Phase(state[e]) + zeroed[e].phase) % 4 = 0

Quiet == pc # "attach" /\ ~inIsr /\ \A p \in Ports : ~flag[p]

\* As long as each edge of a wheel is served before the next of that wheel,
\* the count is the wheel's travel since it was zeroed, and when no interrupt
\* is pending no edge has been overlooked, whatever the other encoders on the
\* same port, the main program's masking and the order of routines.
CountFollowsWheel ==
  \A e \in Encoders : ~fast[e] /\ pc # "zero" =>
    /\ position[e] = seen[e] - zeroed[e].angle
    /\ Quiet => seen[e] = wheel[e]

\* What readEncoderCountsAtomic returns are the counts of one instant: no
\* count is put together from two values, and all are of the same moment.
CountsNotTorn ==
  pc \in {"readSetup", "measure", "telemetry"} /\ at = 2 * N => raw = atMask

\* The travel the wheel speed is computed from is the travel the wheel made
\* since the last measurement or zeroing: no jump when R or O zeroes the
\* counts between two control steps, and none from the telemetry's reads.
SpeedIsTravel ==
  [][Measure => \A e \in Encoders :
       ~fast[e] => raw[e] - previous[e] = seen[e] - measured[e]]_vars
=============================================================================
