--------------------------- MODULE EncodersProofs ---------------------------
(***************************************************************************)
(* Theorems about Encoders, for any number of encoders up to the board's   *)
(* four, any wheels, any number of edges and any choice of ports.          *)
(***************************************************************************)
EXTENDS Encoders, TLAPS

\* The board's wiring: each pin is a bit of port 0 or of port 2.
LEMMA PinFacts ==
  ASSUME NEW pin \in EncoderPins
  PROVE  /\ pin \in 2..9
         /\ Bit(pin) \in Bits
         /\ Port(pin) \in UnoPorts
         /\ Pcint(pin) \in Pcints
         /\ (pin \div 2) - 1 \in 0..3
  <1>1. PICK e \in 1..4 : pin \in {Pin1[e], Pin2[e]}
    BY EncodersAssumption DEF EncoderPins, Encoders, PinsOf
  <1>2. pin \in 2..9
    BY <1>1 DEF Pin1, Pin2
  <1> QED
    BY <1>2 DEF Bit, Bits, Port, UnoPorts, NUM_PORTS, Pcint, Pcints

LEMMA PortFacts == Ports \subseteq {0, 2}
  BY DEF Ports, Port

\* The pins of an encoder.
LEMMA EncoderFacts ==
  ASSUME NEW e \in Encoders
  PROVE  e \in 1..4 /\ e \in Int /\ Pin1[e] \in EncoderPins /\ Pin2[e] \in EncoderPins
  BY EncodersAssumption DEF Encoders, EncoderPins, PinsOf

LEMMA PortInputType == \A p : PortInput(p) \subseteq Bits
  BY PinFacts DEF PortInput

LEMMA CallbacksType ==
  ASSUME NEW p \in Ports
  PROVE  Callbacks(p) \subseteq Pcints
  <1>1. Trigger(p) \subseteq Bits
    BY DEF Trigger
  <1> QED
    BY <1>1, PortFacts DEF Callbacks, Bits, Pcints

\* The table counts the phase from the old pins to the new ones.
LEMMA TableCounts ==
  ASSUME NEW s \in 0..15
  PROVE  /\ Delta(s) \in -2..2
         /\ s % 4 \in 0..3 /\ NewState(s) \in 0..3
         /\ Phase(s % 4) \in 0..3 /\ Phase(NewState(s)) \in 0..3
         /\ (Delta(s) - Phase(NewState(s)) + Phase(s % 4)) % 4 = 0
  <1>1. Delta(s) \in -2..2
    BY DEF Delta
  <1>2. s % 4 \in 0..3 /\ s \div 4 \in 0..3
    OBVIOUS
  <1>3. \A p \in 0..3 : Phase(p) \in 0..3
    BY DEF Phase
  <1>4. (Delta(s) - Phase(s \div 4) + Phase(s % 4)) % 4 = 0
    BY DEF Delta, Phase
  <1> QED
    BY <1>1, <1>2, <1>3, <1>4 DEF NewState

LEMMA AddAt ==
  ASSUME NEW S, NEW f \in [S -> Int], NEW e, NEW d, e \in S => d \in Int
  PROVE  [f EXCEPT ![e] = @ + d] \in [S -> Int]
  <1> DEFINE new == f[e] + d
  <1>1. e \in S => new \in Int
    OBVIOUS
  <1>2. [f EXCEPT ![e] = @ + d] = [f EXCEPT ![e] = new]
    OBVIOUS
  <1> HIDE DEF new
  <1> QED
    BY <1>1, <1>2

-----------------------------------------------------------------------------
(* Types. *)

LEMMA TypeInit == Init => TypeOK
  <1> SUFFICES ASSUME Init PROVE TypeOK
    OBVIOUS
  <1>1. N \in 1..4 /\ START \subseteq Int
    BY EncodersAssumption
  <1> QED
    <2>1. wheel \in [Encoders -> Int] /\ enabled \subseteq EncoderPins /\ flag \in [Ports -> BOOLEAN]
      BY <1>1 DEF Init
    <2>2. {oldPorts, risingPorts, fallingPorts} \subseteq [UnoPorts -> SUBSET Bits]
      BY DEF Init
    <2>3. callbacks \in [Pcints -> 0..Null] /\ interruptArgs \in [0..3 -> {0} \cup Encoders]
      BY DEF Init, Null
    <2>4. \A f \in {state, position, raw, previous} : f = [e \in Encoders |-> 0]
      BY DEF Init, Zeros
    <2>5. /\ state \in [Encoders -> 0..3] /\ position \in [Encoders -> Int]
          /\ raw \in [Encoders -> Int] /\ previous \in [Encoders -> Int]
      BY <2>4
    <2>6. at \in 0..(2 * N) /\ edges \in Nat /\ p1val \in 0..2
      BY <1>1 DEF Init, NotRead
    <2>7. /\ calls \subseteq Pcints /\ inIsr \in BOOLEAN /\ masked \in BOOLEAN
          /\ pc \in {"attach", "setup", "loop", "readSetup", "measure", "telemetry", "zero"}
      BY DEF Init
    <2> QED
      BY <2>1, <2>2, <2>3, <2>5, <2>6, <2>7 DEF TypeOK

LEMMA TypeStep == TypeOK /\ [Next]_vars => TypeOK'
  <1> SUFFICES ASSUME TypeOK, [Next]_vars PROVE TypeOK'
    OBVIOUS
  <1> USE DEF TypeOK
  <1>1. ASSUME NEW e \in Encoders, NEW d \in {-1, 1}, Edge(e, d) PROVE TypeOK'
    <2>1. wheel' \in [Encoders -> Int] /\ edges' \in Nat
      BY <1>1 DEF Edge
    <2>2. flag' \in [Ports -> BOOLEAN]
      BY <1>1 DEF Edge
    <2> QED
      BY <1>1, <2>1, <2>2 DEF Edge, settings, isrVars, mainVars
  <1>2. ASSUME NEW p \in Ports, IsrEnter(p) PROVE TypeOK'
    <2>1. oldPorts' \in [UnoPorts -> SUBSET Bits]
      BY <1>2, PortInputType DEF IsrEnter
    <2>2. calls' \subseteq Pcints
      BY <1>2, CallbacksType DEF IsrEnter
    <2> QED
      BY <1>2, <2>1, <2>2 DEF IsrEnter, wheelVars, settings, mainVars
  <1>3. CASE ReadFirstPin
    BY <1>3 DEF ReadFirstPin, PinValue, wheelVars, settings, mainVars
  <1>4. CASE Update
    <2> DEFINE e == Served
               s == state[e] + 4 * p1val + 8 * PinValue(e, Pin2[e])
    <2>1. p1val \in 0..1 /\ PinValue(e, Pin2[e]) \in 0..1
      BY <1>4 DEF Update, NotRead, PinValue
    <2>2. e \in Encoders => NewState(s) \in 0..3
      <3> SUFFICES ASSUME e \in Encoders PROVE NewState(s) \in 0..3
        OBVIOUS
      <3>1. state[e] \in 0..3
        OBVIOUS
      <3> QED
        BY <2>1, <3>1 DEF NewState
    <2>3. state' \in [Encoders -> 0..3]
      BY <1>4, <2>2 DEF Update
    <2>4. e \in Encoders => s \in 0..15
      BY <2>1
    <2>5. position' \in [Encoders -> Int]
      <3>1. position' = [position EXCEPT ![e] = @ + Delta(s)]
        BY <1>4 DEF Update
      <3>2. e \in Encoders => Delta(s) \in Int
        BY <2>4, TableCounts
      <3>3. position \in [Encoders -> Int]
        OBVIOUS
      <3> HIDE DEF e, s
      <3> QED
        BY ONLY <3>1, <3>2, <3>3, AddAt
    <2> QED
      BY <1>4, <2>3, <2>5 DEF Update, wheelVars, settings, mainVars, NotRead
  <1>5. CASE IsrReturn
    BY <1>5 DEF IsrReturn, wheelVars, settings, mainVars
  <1>6. ASSUME NEW e \in Encoders, Construct(e) PROVE TypeOK'
    <2>1. PICK pin \in {Pin1[e], Pin2[e]} : AttachChange(pin, e)
      BY <1>6 DEF Construct
    <2>2. pin \in EncoderPins
      BY <2>1, EncoderFacts
    <2> DEFINE isr == (pin \div 2) - 1
    <2>3. isr \in 0..3 /\ Bit(pin) \in Bits
      BY <2>2, PinFacts
    <2>4. AttachPcint(pin, isr) /\ interruptArgs' = [interruptArgs EXCEPT ![isr] = e]
      BY <2>1 DEF AttachChange
    <2> HIDE DEF isr
    <2>5. callbacks' \in [Pcints -> 0..Null] /\ interruptArgs' \in [0..3 -> {0} \cup Encoders]
      <3>1. SetCallback(Pcint(pin), isr) /\ isr \in 0..Null
        BY <2>3, <2>4 DEF AttachPcint, SetCallback, Null
      <3> QED
        BY <2>4, <3>1 DEF SetCallback
    <2>6. risingPorts' \in [UnoPorts -> SUBSET Bits] /\ fallingPorts' \in [UnoPorts -> SUBSET Bits]
      BY <2>3, <2>4 DEF AttachPcint
    <2>7. oldPorts' \in [UnoPorts -> SUBSET Bits] /\ enabled' \subseteq EncoderPins
      BY <2>2, <2>4, PortInputType DEF AttachPcint, EnableHelper
    <2> QED
      BY <1>6, <2>5, <2>6, <2>7 DEF Construct, wheelVars, mainVars
  <1>7. CASE EnableInterrupts
    BY <1>7 DEF EnableInterrupts, wheelVars, settings, isrVars
  <1>8. ASSUME NEW what \in {"readSetup", "measure", "telemetry", "zero"}, Mask(what)
        PROVE  TypeOK'
    BY <1>8 DEF Mask, noInterrupts, wheelVars, settings, isrVars
  <1>9. CASE ReadPart
    <2>1. \A x, y \in Int : Low(x) \in Int /\ HALF * High(x) + y \in Int
      BY DEF Low, High, HALF
    <2>2. raw' \in [Encoders -> Int]
      BY <1>9, <2>1 DEF ReadPart
    <2>3. at' \in 0..(2 * N)
      BY <1>9, EncodersAssumption DEF ReadPart
    <2> QED
      BY <1>9, <2>2, <2>3 DEF ReadPart, wheelVars, settings, isrVars
  <1>10. CASE WritePart
    <2>1. \A x \in Int : Low(x) \in Int /\ High(x) \in Int /\ HALF * High(x) \in Int
      BY DEF Low, High, HALF
    <2>2. position' \in [Encoders -> Int]
      BY <1>10, <2>1 DEF WritePart
    <2>3. at' \in 0..(2 * N)
      BY <1>10, EncodersAssumption DEF WritePart
    <2> QED
      BY <1>10, <2>2, <2>3 DEF WritePart, wheelVars, settings, isrVars
  <1>11. ASSUME Unmask, previous' \in [Encoders -> Int] PROVE TypeOK'
    <2>1. at' \in 0..(2 * N) /\ raw' \in [Encoders -> Int]
      BY <1>11, EncodersAssumption DEF Unmask, Zeros
    <2> QED
      BY <1>11, <2>1 DEF Unmask, wheelVars, settings, isrVars
  <1>12. CASE Telemetry
    BY <1>11, <1>12 DEF Telemetry
  <1>13. CASE Measure
    BY <1>11, <1>13 DEF Measure
  <1>14. CASE ResetCounts
    BY <1>11, <1>14 DEF ResetCounts, Zeros
  <1>15. CASE UNCHANGED vars
    BY <1>15 DEF vars, wheelVars, settings, isrVars, mainVars
  <1> QED
    BY <1>1, <1>2, <1>3, <1>4, <1>5, <1>6, <1>7, <1>8, <1>9, <1>10, <1>12, <1>13,
       <1>14, <1>15 DEF Next, Isr, Main

\* Whatever the wheels do, every array access of the routines stays in range:
\* the table's index has four bits, a callback is one of the four isr<k>.
THEOREM EncoderTypes == Spec => []TypeOK
  BY TypeInit, TypeStep, PTL DEF Spec

-----------------------------------------------------------------------------
(* The counts. *)

Reading == {"readSetup", "measure", "telemetry"}
Critical == Reading \cup {"zero"}

HistoryTypes ==
  /\ seen \in [Encoders -> Int]
  /\ zeroed \in [Encoders -> [angle : Int, phase : 0..3]]

\* No routine runs while the main program is at the counts.
Exclusion ==
  /\ pc \in Critical \cup {"attach"} => masked /\ ~inIsr
  /\ pc \notin Critical => at = 0

\* What it has copied so far are the counts, which stand still meanwhile.
CopyIsTrue ==
  pc \in Reading =>
    /\ position = atMask
    /\ \A e \in Encoders :
         /\ 2 * e <= at => raw[e] = position[e]
         /\ at = 2 * e - 1 => raw[e] = Low(position[e])

PhaseFits(e) == (position[e] - Phase(state[e]) + zeroed[e].phase) % 4 = 0

\* Between the halves of its zeroing a count fits nothing, but its lower half is 0.
PhaseKept ==
  \A e \in Encoders :
    IF pc = "zero" /\ at = 2 * e - 1 THEN position[e] % HALF = 0 ELSE PhaseFits(e)

IInv == TypeOK /\ HistoryTypes /\ Exclusion /\ CopyIsTrue /\ PhaseKept

LEMMA SumOfPeriods ==
  ASSUME NEW x \in Int, NEW y \in Int, x % 4 = 0, y % 4 = 0
  PROVE  (x + y) % 4 = 0
  OBVIOUS

LEMMA HalvesOfCount ==
  ASSUME NEW x \in Int
  PROVE  /\ Low(x) \in Int /\ HALF * High(x) \in Int
         /\ HALF * High(x) + Low(x) = x
         /\ (HALF * High(x)) % HALF = 0
         /\ x % HALF = 0 => Low(x) = 0
  BY DEF Low, High, HALF

LEMMA PhaseType == \A p \in 0..3 : Phase(p) \in 0..3
  BY DEF Phase

LEMMA CountsInit == Init => IInv
  <1> SUFFICES ASSUME Init PROVE IInv
    OBVIOUS
  <1>1. TypeOK
    BY TypeInit
  <1>2. wheel \in [Encoders -> Int]
    BY <1>1 DEF TypeOK
  <1>3. HistoryTypes
    BY <1>2 DEF Init, HistoryTypes
  <1>4. Exclusion /\ CopyIsTrue
    BY DEF Init, Exclusion, CopyIsTrue, Reading, Critical
  <1>5. \A e \in Encoders : PhaseFits(e)
    <2> TAKE e \in Encoders
    <2>1. position[e] = 0 /\ state[e] = 0 /\ zeroed[e].phase = 0 /\ Phase(0) = 0
      BY DEF Init, Zeros, Phase
    <2> QED
      BY <2>1 DEF PhaseFits
  <1>6. PhaseKept
    BY <1>5 DEF Init, PhaseKept
  <1> QED
    BY <1>1, <1>3, <1>4, <1>6 DEF IInv

\* A step that leaves counts and main program alone, as most routines do.
LEMMA CountsUntouched ==
  ASSUME IInv, TypeOK', UNCHANGED <<seen, state, mainVars, position, masked>>,
         inIsr' => inIsr \/ ~masked
  PROVE  IInv'
  <1>1. HistoryTypes'
    BY DEF IInv, HistoryTypes, mainVars
  <1>2. Exclusion'
    BY DEF IInv, Exclusion, mainVars
  <1>3. CopyIsTrue'
    BY DEF IInv, CopyIsTrue, mainVars
  <1>4. PhaseKept'
    BY DEF IInv, PhaseKept, PhaseFits, mainVars
  <1> QED
    BY <1>1, <1>2, <1>3, <1>4 DEF IInv

LEMMA UpdateKeeps == IInv /\ Update => IInv'
  <1> SUFFICES ASSUME IInv, Update PROVE IInv'
    OBVIOUS
  <1>1. TypeOK'
    BY TypeStep DEF IInv, Next, Isr
  <1>2. pc \notin Critical /\ UNCHANGED <<mainVars, masked, inIsr>>
    BY DEF IInv, Exclusion, Update
  <1>3. HistoryTypes'
    <2>1. wheel \in [Encoders -> Int] /\ seen \in [Encoders -> Int]
      BY DEF IInv, TypeOK, HistoryTypes
    <2>2. seen' \in [Encoders -> Int]
      BY <2>1 DEF Update
    <2> QED
      BY <1>2, <2>2 DEF IInv, HistoryTypes, mainVars
  <1>4. Exclusion' /\ CopyIsTrue'
    BY <1>2 DEF IInv, Exclusion, CopyIsTrue, Critical, mainVars
  <1>5. ASSUME NEW e \in Encoders PROVE PhaseFits(e)'
    <2> DEFINE s == state[e] + 4 * p1val + 8 * PinValue(e, Pin2[e])
    <2>1. PhaseFits(e)
      BY <1>2 DEF IInv, PhaseKept, Critical
    <2>2. CASE e # Served
      BY <1>2, <2>1, <2>2 DEF Update, IInv, TypeOK, PhaseFits, mainVars
    <2>3. CASE e = Served
      <3>1. p1val \in 0..1 /\ PinValue(e, Pin2[e]) \in 0..1 /\ state[e] \in 0..3
        BY DEF Update, NotRead, PinValue, IInv, TypeOK
      <3>2. s \in 0..15 /\ s % 4 = state[e]
        BY <3>1
      <3>3. state'[e] = NewState(s) /\ position'[e] = position[e] + Delta(s)
        BY <2>3 DEF Update, IInv, TypeOK
      <3>4. zeroed' = zeroed /\ zeroed[e].phase \in Int /\ position[e] \in Int
        BY <1>2 DEF mainVars, IInv, TypeOK, HistoryTypes
      <3> DEFINE before == position[e] - Phase(state[e]) + zeroed[e].phase
                 step   == Delta(s) - Phase(NewState(s)) + Phase(s % 4)
      <3>5. before \in Int /\ before % 4 = 0 /\ Phase(state[e]) \in Int
        BY <2>1, <3>1, <3>4, PhaseType DEF PhaseFits
      <3>6. step \in Int /\ step % 4 = 0 /\ Delta(s) \in Int /\ Phase(NewState(s)) \in Int
        <4>1. s \in 0..15
          BY <3>2
        <4> HIDE DEF s
        <4>2. Delta(s) \in -2..2 /\ Phase(NewState(s)) \in 0..3 /\ Phase(s % 4) \in 0..3
          BY <4>1, TableCounts
        <4>3. (Delta(s) - Phase(NewState(s)) + Phase(s % 4)) % 4 = 0
          BY <4>1, TableCounts
        <4> QED
          BY <4>2, <4>3
      <3>7. (before + step) % 4 = 0
        BY <3>5, <3>6, SumOfPeriods
      <3>8. before + step = position'[e] - Phase(state'[e]) + zeroed'[e].phase
        BY <3>2, <3>3, <3>4, <3>5, <3>6
      <3> QED
        BY <3>7, <3>8 DEF PhaseFits
    <2> QED
      BY <2>2, <2>3
  <1>6. PhaseKept'
    BY <1>2, <1>5 DEF PhaseKept, Critical, mainVars
  <1> QED
    BY <1>1, <1>3, <1>4, <1>6 DEF IInv

LEMMA ReadKeeps == IInv /\ ReadPart => IInv'
  <1> SUFFICES ASSUME IInv, ReadPart PROVE IInv'
    OBVIOUS
  <1>1. TypeOK'
    BY TypeStep DEF IInv, Next, Main
  <1>2. HistoryTypes' /\ Exclusion'
    BY DEF IInv, HistoryTypes, Exclusion, ReadPart, isrVars, Reading, Critical
  <1>3. PhaseKept'
    BY DEF IInv, PhaseKept, PhaseFits, ReadPart, isrVars
  <1>4. CopyIsTrue'
    <2>1. /\ position' = position /\ atMask' = atMask /\ pc' = pc /\ position = atMask
          /\ pc \in Reading
      BY DEF ReadPart, IInv, CopyIsTrue, Reading
    <2>2. ASSUME NEW e \in Encoders
          PROVE  /\ 2 * e <= at' => raw'[e] = position[e]
                 /\ at' = 2 * e - 1 => raw'[e] = Low(position[e])
      <3>1. at \in Int /\ at' = at + 1 /\ e \in Int /\ position[e] \in Int
        BY EncoderFacts, EncodersAssumption DEF ReadPart, IInv, TypeOK
      <3>2. /\ 2 * e <= at => raw[e] = position[e]
            /\ at = 2 * e - 1 => raw[e] = Low(position[e])
        BY <2>1 DEF IInv, CopyIsTrue
      <3>3. CASE e # Current
        <4>1. raw'[e] = raw[e]
          BY <3>3 DEF ReadPart, IInv, TypeOK
        <4>2. at # 2 * e - 2 /\ at # 2 * e - 1
          BY <3>1, <3>3 DEF Current
        <4> QED
          BY <3>1, <3>2, <4>1, <4>2
      <3>4. CASE e = Current /\ AtLow
        <4>1. raw'[e] = Low(position[e])
          BY <3>4 DEF ReadPart, IInv, TypeOK
        <4>2. at = 2 * e - 2
          BY <3>1, <3>4 DEF Current, AtLow
        <4> QED
          BY <3>1, <4>1, <4>2
      <3>5. CASE e = Current /\ ~AtLow
        <4>1. raw'[e] = HALF * High(position[e]) + raw[e]
          BY <3>5 DEF ReadPart, IInv, TypeOK
        <4>2. at = 2 * e - 1
          BY <3>1, <3>5 DEF Current, AtLow
        <4> QED
          BY <3>1, <3>2, <4>1, <4>2, HalvesOfCount
      <3> QED
        BY <3>3, <3>4, <3>5
    <2> QED
      BY <2>1, <2>2 DEF CopyIsTrue
  <1> QED
    BY <1>1, <1>2, <1>3, <1>4 DEF IInv

LEMMA WriteKeeps == IInv /\ WritePart => IInv'
  <1> SUFFICES ASSUME IInv, WritePart PROVE IInv'
    OBVIOUS
  <1>1. TypeOK'
    BY TypeStep DEF IInv, Next, Main
  <1>2. pc = "zero" /\ UNCHANGED <<pc, state, seen, masked, inIsr>> /\ at' = at + 1
    BY DEF WritePart, isrVars
  <1>3. Exclusion' /\ CopyIsTrue'
    BY <1>2 DEF IInv, Exclusion, CopyIsTrue, Reading, Critical
  <1>4. HistoryTypes'
    <2>1. \A e \in Encoders : seen[e] \in Int /\ Phase(state[e]) \in 0..3
      BY PhaseType DEF IInv, TypeOK, HistoryTypes
    <2>2. zeroed' \in [Encoders -> [angle : Int, phase : 0..3]]
      <3>1. CASE AtLow
        BY <3>1 DEF WritePart, IInv, HistoryTypes
      <3>2. CASE ~AtLow
        <4> DEFINE mark == [angle |-> seen[Current], phase |-> Phase(state[Current])]
        <4>1. zeroed' = [zeroed EXCEPT ![Current] = mark]
          BY <3>2 DEF WritePart
        <4>2. Current \in Encoders => mark \in [angle : Int, phase : 0..3]
          BY <2>1
        <4> HIDE DEF mark
        <4> QED
          BY <4>1, <4>2 DEF IInv, HistoryTypes
      <3> QED
        BY <3>1, <3>2
    <2> QED
      BY <1>2, <2>2 DEF IInv, HistoryTypes
  <1>5. ASSUME NEW e \in Encoders
        PROVE  IF at' = 2 * e - 1 THEN position'[e] % HALF = 0 ELSE PhaseFits(e)'
    <2>1. at \in Int /\ e \in Int /\ position[e] \in Int
      BY EncoderFacts, EncodersAssumption DEF IInv, TypeOK
    <2>2. IF at = 2 * e - 1 THEN position[e] % HALF = 0 ELSE PhaseFits(e)
      BY <1>2 DEF IInv, PhaseKept
    <2>3. CASE e # Current
      <3>1. position'[e] = position[e] /\ zeroed'[e] = zeroed[e] /\ state'[e] = state[e]
        BY <1>2, <2>3 DEF WritePart, IInv, TypeOK, HistoryTypes
      <3>2. at # 2 * e - 2 /\ at # 2 * e - 1
        BY <2>1, <2>3 DEF Current
      <3> QED
        BY <1>2, <2>1, <2>2, <3>1, <3>2 DEF PhaseFits
    <2>4. CASE e = Current /\ AtLow
      <3>1. position'[e] = HALF * High(position[e])
        BY <2>4 DEF WritePart, IInv, TypeOK
      <3>2. at = 2 * e - 2
        BY <2>1, <2>4 DEF Current, AtLow
      <3>3. position'[e] % HALF = 0
        BY <2>1, <3>1, HalvesOfCount
      <3>4. at' = 2 * e - 1
        BY <1>2, <2>1, <3>2
      <3> QED
        BY <3>3, <3>4
    <2>5. CASE e = Current /\ ~AtLow
      <3>1. position'[e] = Low(position[e]) /\ zeroed'[e].phase = Phase(state[e])
        BY <2>5 DEF WritePart, IInv, TypeOK, HistoryTypes
      <3>2. at = 2 * e - 1
        BY <2>1, <2>5 DEF Current, AtLow
      <3>3. position'[e] = 0
        BY <2>1, <2>2, <3>1, <3>2, HalvesOfCount
      <3>4. Phase(state[e]) \in Int /\ state'[e] = state[e]
        BY <1>2, PhaseType DEF IInv, TypeOK
      <3>5. PhaseFits(e)'
        BY <3>1, <3>3, <3>4 DEF PhaseFits
      <3> QED
        BY <1>2, <2>1, <3>2, <3>5
    <2> QED
      BY <2>3, <2>4, <2>5
  <1>6. PhaseKept'
    BY <1>2, <1>5 DEF PhaseKept
  <1> QED
    BY <1>1, <1>3, <1>4, <1>6 DEF IInv

\* Switching interrupts on again ends the reading or the zeroing.
LEMMA UnmaskKeeps ==
  ASSUME IInv, Unmask, TypeOK', pc \in Critical
  PROVE  IInv'
  <1>1. HistoryTypes' /\ Exclusion' /\ CopyIsTrue'
    BY DEF IInv, HistoryTypes, Exclusion, CopyIsTrue, Unmask, isrVars, Reading, Critical
  <1>2. PhaseKept'
    <2>1. ASSUME NEW e \in Encoders PROVE PhaseFits(e)'
      <3>1. at # 2 * e - 1
        BY EncoderFacts, EncodersAssumption DEF Unmask
      <3> QED
        BY <3>1 DEF IInv, PhaseKept, PhaseFits, Unmask, isrVars
    <2> QED
      BY <2>1 DEF PhaseKept, Unmask
  <1> QED
    BY <1>1, <1>2 DEF IInv

LEMMA CountsStep == IInv /\ [Next]_vars => IInv'
  <1> SUFFICES ASSUME IInv, [Next]_vars PROVE IInv'
    OBVIOUS
  <1>1. TypeOK'
    BY TypeStep DEF IInv
  <1>2. ASSUME NEW e \in Encoders, NEW d \in {-1, 1}, Edge(e, d) PROVE IInv'
    BY <1>1, <1>2, CountsUntouched DEF Edge, isrVars
  <1>3. ASSUME NEW p \in Ports, IsrEnter(p) PROVE IInv'
    BY <1>1, <1>3, CountsUntouched DEF IsrEnter
  <1>4. CASE ReadFirstPin
    BY <1>1, <1>4, CountsUntouched DEF ReadFirstPin
  <1>5. CASE IsrReturn
    BY <1>1, <1>5, CountsUntouched DEF IsrReturn
  <1>6. ASSUME NEW e \in Encoders, Construct(e) PROVE IInv'
    BY <1>1, <1>6, CountsUntouched DEF Construct
  <1>7. CASE EnableInterrupts
    <2>1. HistoryTypes' /\ Exclusion' /\ CopyIsTrue'
      BY <1>7 DEF EnableInterrupts, IInv, HistoryTypes, Exclusion, CopyIsTrue, isrVars,
                  Reading, Critical
    <2>2. PhaseKept'
      BY <1>7 DEF EnableInterrupts, IInv, PhaseKept, PhaseFits, isrVars
    <2> QED
      BY <1>1, <2>1, <2>2 DEF IInv
  <1>8. ASSUME NEW what \in {"readSetup", "measure", "telemetry", "zero"}, Mask(what)
        PROVE  IInv'
    <2>1. at = 0 /\ at' = 0 /\ position' = atMask'
      BY <1>8 DEF Mask, IInv, Exclusion, Reading, Critical
    <2>2. HistoryTypes' /\ Exclusion'
      BY <1>8, <2>1 DEF Mask, noInterrupts, IInv, HistoryTypes, Exclusion, isrVars
    <2>3. \A e \in Encoders : e \in Int /\ ~(2 * e <= 0) /\ 0 # 2 * e - 1
      BY EncoderFacts
    <2>4. CopyIsTrue'
      BY <2>1, <2>3 DEF CopyIsTrue
    <2>5. PhaseKept'
      BY <1>8, <2>1, <2>3 DEF Mask, IInv, PhaseKept, PhaseFits, isrVars
    <2> QED
      BY <1>1, <2>2, <2>4, <2>5 DEF IInv
  <1>9. CASE Telemetry \/ Measure \/ ResetCounts
    BY <1>1, <1>9, UnmaskKeeps DEF Telemetry, Measure, ResetCounts, Reading, Critical
  <1>10. CASE UNCHANGED vars
    BY <1>1, <1>10, CountsUntouched DEF vars, isrVars
  <1> QED
    BY <1>2, <1>3, <1>4, <1>5, <1>6, <1>7, <1>8, <1>9, <1>10, UpdateKeeps, ReadKeeps,
       WriteKeeps DEF Next, Isr, Main

LEMMA Counting == Spec => []IInv
  BY CountsInit, CountsStep, PTL DEF Spec

\* Whatever the wheels and the interrupts do, what readEncoderCountsAtomic
\* returns are the counts of one instant, though it moves them piece by piece.
THEOREM AtomicCounts == Spec => []CountsNotTorn
  <1>1. IInv => CountsNotTorn
    <2> SUFFICES ASSUME IInv, pc \in Reading, at = 2 * N PROVE raw = atMask
      BY DEF CountsNotTorn, Reading
    <2>1. \A e \in Encoders : 2 * e <= at
      BY EncodersAssumption DEF Encoders
    <2>2. \A e \in Encoders : raw[e] = position[e]
      BY <2>1 DEF IInv, CopyIsTrue
    <2> QED
      BY <2>2 DEF IInv, TypeOK, CopyIsTrue
  <1> QED
    BY <1>1, Counting, PTL

\* However many edges are missed, a count is never wrong by anything but whole
\* periods of the encoder.
THEOREM PhaseSafety == Spec => []CountKeepsPhase
  <1>1. IInv => CountKeepsPhase
    BY DEF IInv, PhaseKept, PhaseFits, CountKeepsPhase
  <1> QED
    BY <1>1, Counting, PTL

-----------------------------------------------------------------------------
(* The counts and the wheels.  An encoder is tracked while its edges are   *)
(* served one by one: the port's copy, the decoder's state and the calls   *)
(* still to be made then tell where its last edge has got to.              *)

\* The pins at an angle, and the number the decoder knows them by.
PinsAt(e, angle) ==
  (IF angle % 4 \in {2, 3} THEN {Pin1[e]} ELSE {})
  \cup (IF angle % 4 \in {1, 2} THEN {Pin2[e]} ELSE {})

Code(angle) ==
  (IF angle % 4 \in {2, 3} THEN 1 ELSE 0) + (IF angle % 4 \in {1, 2} THEN 2 ELSE 0)

PcintsOf(e) == {Pcint(pin) : pin \in PinsOf(e)}

\* The port's routine last saw e at this angle.
Shows(e, angle) ==
  \A pin \in PinsOf(e) :
    Bit(pin) \in oldPorts[ArrayPos(Port(pin))] <=> pin \in PinsAt(e, angle)

\* No edge of e is unserved, one waits for the routine, one is being served.
Settled(e) ==
  /\ wheel[e] = seen[e]
  /\ Shows(e, wheel[e])
  /\ calls \cap PcintsOf(e) = {}

Pending(e) ==
  /\ wheel[e] - seen[e] \in {-1, 1}
  /\ Shows(e, seen[e])
  /\ calls \cap PcintsOf(e) = {}
  /\ flag[Port(Pin1[e])]

Serving(e) ==
  /\ wheel[e] - seen[e] \in {-1, 1}
  /\ Shows(e, wheel[e])
  /\ \E n \in PcintsOf(e) :
       /\ calls \cap PcintsOf(e) = {n}
       /\ n = FirstCall /\ p1val # NotRead => p1val = PinValue(e, Pin1[e])

Tracked(e) ==
  /\ state[e] = Code(seen[e])
  /\ Settled(e) \/ Pending(e) \/ Serving(e)

\* Attached pins call the routine that updates their encoder.
Wired(e, pin) ==
  /\ callbacks[Pcint(pin)] = (pin \div 2) - 1
  /\ interruptArgs[(pin \div 2) - 1] = e
  /\ Bit(pin) \in risingPorts[ArrayPos(Port(pin))]
  /\ Bit(pin) \in fallingPorts[ArrayPos(Port(pin))]

EncoderPcints == {Pcint(pin) : pin \in EncoderPins}

Wiring ==
  /\ EncoderPcints \subseteq use
  /\ pc # "attach" => enabled = EncoderPins
  /\ \A e \in Encoders : \A pin \in PinsOf(e) : pin \in enabled => Wired(e, pin)
  /\ \A p \in Ports : \A b \in Bits :
       b \in risingPorts[ArrayPos(p)] \cup fallingPorts[ArrayPos(p)] => 8 * p + b \in EncoderPcints

Routine ==
  /\ calls \subseteq EncoderPcints
  /\ ~inIsr => calls = {}
  /\ calls = {} => p1val = NotRead

Follows(e) ==
  ~(pc = "zero" /\ at = 2 * e - 1) => position[e] = seen[e] - zeroed[e].angle

Remembers(e) ==
  ~(pc = "zero" /\ at >= 2 * e) => previous[e] = measured[e] - zeroed[e].angle

FInv ==
  /\ fast \in [Encoders -> BOOLEAN] /\ measured \in [Encoders -> Int]
  /\ Wiring /\ Routine
  /\ \A e \in Encoders : ~fast[e] =>
       pc # "attach" /\ Tracked(e) /\ Follows(e) /\ Remembers(e)

-----------------------------------------------------------------------------
\* The board: each pin belongs to one encoder, each encoder to one port.
LEMMA PinsApart ==
  ASSUME NEW e \in Encoders, NEW pin \in PinsOf(e)
  PROVE  /\ pin \in EncoderPins
         /\ Port(pin) = Port(Pin1[e]) /\ Port(pin) \in Ports
         /\ Pcint(pin) = 8 * Port(pin) + Bit(pin)
         /\ \A o \in Encoders : \A q \in PinsOf(o) :
              /\ Pcint(q) = Pcint(pin) => q = pin
              /\ Port(q) = Port(pin) /\ Bit(q) = Bit(pin) => q = pin
              /\ o # e => q # pin /\ (q \div 2) - 1 # (pin \div 2) - 1
  <1>1. e \in 1..4 /\ Encoders \subseteq 1..4
    BY EncoderFacts
  <1>2. pin \in EncoderPins
    BY DEF EncoderPins
  <1>3. Port(pin) = Port(Pin1[e]) /\ Port(pin) \in Ports /\ Pcint(pin) = 8 * Port(pin) + Bit(pin)
    BY <1>1, <1>2 DEF Ports, Port, Pcint, PinsOf, Pin1, Pin2
  <1>4. ASSUME NEW o \in Encoders, NEW q \in PinsOf(o)
        PROVE  /\ Pcint(q) = Pcint(pin) => q = pin
               /\ Port(q) = Port(pin) /\ Bit(q) = Bit(pin) => q = pin
               /\ o # e => q # pin /\ (q \div 2) - 1 # (pin \div 2) - 1
    <2>1. o \in 1..4
      BY <1>1
    <2>2. q \in 2..9 /\ pin \in 2..9
      BY <1>2, PinFacts DEF EncoderPins
    <2>3. /\ Pcint(q) = Pcint(pin) => q = pin
          /\ Port(q) = Port(pin) /\ Bit(q) = Bit(pin) => q = pin
      BY <2>2 DEF Pcint, Port, Bit
    <2>4. o # e => q # pin /\ (q \div 2) - 1 # (pin \div 2) - 1
      BY <1>1, <2>1 DEF PinsOf, Pin1, Pin2
    <2> QED
      BY <2>3, <2>4
  <1> QED
    BY <1>2, <1>3, <1>4

\* Ports that are served have places of their own in the arrays.
LEMMA PlacesApart ==
  ASSUME EncoderPcints \subseteq use
  PROVE  \A p, q \in Ports : ArrayPos(p) \in UnoPorts /\ (ArrayPos(p) = ArrayPos(q) => p = q)
  <1>1. Ports \subseteq usedPorts
    <2> SUFFICES ASSUME NEW pin \in EncoderPins PROVE Port(pin) \in usedPorts
      BY DEF Ports
    <2>1. Pcint(pin) \in use
      BY DEF EncoderPcints
    <2>2. Pcint(pin) \div 8 = Port(pin)
      BY PinFacts DEF Pcint, Port, Bit
    <2> QED
      BY <2>1, <2>2 DEF usedPorts
  <1>2. \A p \in Ports : p \in {0, 2} /\ p \in usedPorts
    BY <1>1, PortFacts
  <1> HIDE DEF usedPorts
  <1> QED
    BY <1>2 DEF ArrayPos, UnoPorts, NUM_PORTS

\* A routine serves the pin changes in some order: there is always a first.
LEMMA FirstCallFacts ==
  ASSUME calls \subseteq EncoderPcints, calls # {}
  PROVE  FirstCall \in calls
  <1>1. \A n \in calls : CallRank(n) \in 0..7
    <2> TAKE n \in calls
    <2>1. n \in Int
      BY PinFacts DEF EncoderPcints, Pcints
    <2> QED
      BY <2>1 DEF CallRank
  <1> DEFINE Lowest(n) == \A o \in calls : CallRank(n) <= CallRank(o)
  <1>2. \E n \in calls : Lowest(n)
    <2> SUFFICES ASSUME \A n \in calls : ~Lowest(n) PROVE FALSE
      OBVIOUS
    <2> HIDE DEF CallRank
    <2>1. \A n \in calls : CallRank(n) >= 1
      BY <1>1
    <2>2. \A n \in calls : CallRank(n) >= 2
      BY <1>1, <2>1
    <2>3. \A n \in calls : CallRank(n) >= 3
      BY <1>1, <2>2
    <2>4. \A n \in calls : CallRank(n) >= 4
      BY <1>1, <2>3
    <2>5. \A n \in calls : CallRank(n) >= 5
      BY <1>1, <2>4
    <2>6. \A n \in calls : CallRank(n) >= 6
      BY <1>1, <2>5
    <2>7. \A n \in calls : CallRank(n) >= 7
      BY <1>1, <2>6
    <2> QED
      BY <1>1, <2>7
  <1> QED
    BY <1>2 DEF FirstCall

\* One edge further, one of the two pins has changed, and the table counts it.
LEMMA TableSteps ==
  ASSUME NEW a \in Int, NEW d \in {-1, 1}
  PROVE  /\ Code(a) \in 0..3
         /\ Delta(Code(a) + 4 * Code(a + d)) = d
         /\ NewState(Code(a) + 4 * Code(a + d)) = Code(a + d)
  <1>1. a % 4 \in 0..3 /\ (a + d) % 4 = ((a % 4) + d) % 4
    OBVIOUS
  <1>2. Code(a) \in 0..3 /\ Code(a + d) \in 0..3
    BY DEF Code
  <1>3. Delta(Code(a) + 4 * Code(a + d)) = d
    BY <1>1 DEF Code, Delta
  <1> QED
    BY <1>2, <1>3 DEF NewState

LEMMA OnePinChanges ==
  ASSUME NEW e \in Encoders, NEW a \in Int, NEW d \in {-1, 1}
  PROVE  \E pin \in PinsOf(e) : \A q \in PinsOf(e) :
           (q \in PinsAt(e, a) <=> q \in PinsAt(e, a + d)) <=> q # pin
  <1>1. a % 4 \in 0..3 /\ (a + d) % 4 = ((a % 4) + d) % 4
    OBVIOUS
  <1>2. Pin1[e] # Pin2[e]
    BY EncoderFacts DEF Pin1, Pin2
  <1>3. CASE (a % 4 \in {2, 3}) = ((a + d) % 4 \in {2, 3})
    <2>1. (a % 4 \in {1, 2}) # ((a + d) % 4 \in {1, 2})
      BY <1>1, <1>3
    <2>2. \A q \in PinsOf(e) : (q \in PinsAt(e, a) <=> q \in PinsAt(e, a + d)) <=> q # Pin2[e]
      BY <1>2, <1>3, <2>1 DEF PinsOf, PinsAt
    <2> QED
      BY <2>2 DEF PinsOf
  <1>4. CASE (a % 4 \in {2, 3}) # ((a + d) % 4 \in {2, 3})
    <2>1. (a % 4 \in {1, 2}) = ((a + d) % 4 \in {1, 2})
      BY <1>1, <1>4
    <2>2. \A q \in PinsOf(e) : (q \in PinsAt(e, a) <=> q \in PinsAt(e, a + d)) <=> q # Pin1[e]
      BY <1>2, <1>4, <2>1 DEF PinsOf, PinsAt
    <2> QED
      BY <2>2 DEF PinsOf
  <1> QED
    BY <1>3, <1>4

LEMMA PinsNow ==
  ASSUME NEW e \in Encoders, wheel[e] \in Int
  PROVE  /\ HighPins(e) = PinsAt(e, wheel[e])
         /\ PinValue(e, Pin1[e]) \in 0..1 /\ PinValue(e, Pin2[e]) \in 0..1
         /\ PinValue(e, Pin1[e]) + 2 * PinValue(e, Pin2[e]) = Code(wheel[e])
  <1>1. Pin1[e] # Pin2[e]
    BY EncoderFacts DEF Pin1, Pin2
  <1>2. HighPins(e) = PinsAt(e, wheel[e])
    BY DEF HighPins, PinsAt
  <1> QED
    BY <1>1, <1>2 DEF PinValue, PinsAt, Code

\* What the port's routine reads of an encoder is where its wheel is.
LEMMA PortShows ==
  ASSUME NEW e \in Encoders, NEW pin \in PinsOf(e)
  PROVE  Bit(pin) \in PortInput(Port(pin)) <=> pin \in HighPins(e)
  <1>1. \A o \in Encoders : HighPins(o) \subseteq PinsOf(o)
    BY DEF HighPins, PinsOf
  <1>2. ASSUME pin \in HighPins(e) PROVE Bit(pin) \in PortInput(Port(pin))
    BY <1>2, PinsApart DEF PortInput
  <1>3. ASSUME Bit(pin) \in PortInput(Port(pin)) PROVE pin \in HighPins(e)
    <2>1. PICK q \in EncoderPins, o \in Encoders :
            Port(q) = Port(pin) /\ Bit(q) = Bit(pin) /\ q \in HighPins(o)
      BY <1>3 DEF PortInput
    <2>2. q \in PinsOf(o) /\ q = pin
      BY <1>1, <2>1, PinsApart
    <2>3. o = e
      BY <2>2, PinsApart
    <2> QED
      BY <2>1, <2>2, <2>3
  <1> QED
    BY <1>2, <1>3

-----------------------------------------------------------------------------
LEMMA FollowInit == Init => FInv
  <1> SUFFICES ASSUME Init PROVE FInv
    OBVIOUS
  <1>1. fast \in [Encoders -> BOOLEAN] /\ (\A e \in Encoders : fast[e]) /\ measured \in [Encoders -> Int]
    BY TypeInit DEF Init, TypeOK
  <1>2. EncoderPcints \subseteq use
    <2>1. EncoderPcints \subseteq Pcints \ {15}
      <3> SUFFICES ASSUME NEW pin \in EncoderPins PROVE Pcint(pin) \in Pcints \ {15}
        BY DEF EncoderPcints
      <3>1. pin \in 2..9
        BY PinFacts
      <3> QED
        BY <3>1 DEF Pcint, Port, Bit, Pcints
    <2>2. PICK enable \in SETTINGS : use = UsePcint(enable)
      BY DEF Init
    <2>3. EncoderPcints \subseteq enable
      BY <2>2, EncodersAssumption DEF EncoderPcints
    <2> QED
      BY <2>1, <2>2, <2>3 DEF UsePcint, HAS_PCINT
  <1>3. \A p \in Ports : risingPorts[ArrayPos(p)] = {} /\ fallingPorts[ArrayPos(p)] = {}
    BY <1>2, PlacesApart DEF Init
  <1>4. Wiring
    BY <1>2, <1>3 DEF Init, Wiring
  <1>5. Routine
    BY DEF Init, Routine
  <1> QED
    BY <1>1, <1>4, <1>5 DEF FInv

LEMMA WiringStep == TypeOK /\ Wiring /\ [Next]_vars => Wiring'
  <1> SUFFICES ASSUME TypeOK, Wiring, [Next]_vars PROVE Wiring'
    OBVIOUS
  <1>1. ASSUME UNCHANGED settings, pc' = "attach" <=> pc = "attach" PROVE Wiring'
    <2>1. \A p : ArrayPos(p)' = ArrayPos(p)
      BY <1>1 DEF settings, ArrayPos, usedPorts
    <2> QED
      BY <1>1, <2>1 DEF settings, Wiring, Wired
  <1>2. ASSUME NEW e \in Encoders, Construct(e) PROVE Wiring'
    <2>1. PICK pin \in PinsOf(e) : AttachChange(pin, e)
      BY <1>2 DEF Construct, PinsOf
    <2> DEFINE isr == (pin \div 2) - 1
               slot == ArrayPos(Port(pin))
    <2>2. /\ pin \in EncoderPins /\ Bit(pin) \in Bits /\ Port(pin) \in Ports
          /\ Pcint(pin) \in Pcints /\ isr \in 0..3 /\ Pcint(pin) = 8 * Port(pin) + Bit(pin)
          /\ Pcint(pin) \in use /\ Pcint(pin) \in EncoderPcints /\ slot \in UnoPorts
      <3>1. pin \in EncoderPins /\ Port(pin) \in Ports /\ Pcint(pin) = 8 * Port(pin) + Bit(pin)
        BY PinsApart
      <3>2. Pcint(pin) \in use /\ Pcint(pin) \in EncoderPcints
        BY <3>1 DEF Wiring, EncoderPcints
      <3> QED
        BY <3>1, <3>2, PinFacts, PlacesApart DEF Wiring
    <2>3. /\ callbacks' = [callbacks EXCEPT ![Pcint(pin)] = isr]
          /\ interruptArgs' = [interruptArgs EXCEPT ![isr] = e]
          /\ risingPorts' = [risingPorts EXCEPT ![slot] = @ \cup {Bit(pin)}]
          /\ fallingPorts' = [fallingPorts EXCEPT ![slot] = @ \cup {Bit(pin)}]
          /\ enabled' = enabled \cup {pin}
          /\ use' = use /\ pc' = "attach"
      BY <1>2, <2>1, <2>2 DEF Construct, AttachChange, AttachPcint, SetCallback, EnableHelper, mainVars
    <2>4. \A p : ArrayPos(p)' = ArrayPos(p)
      BY <2>3 DEF ArrayPos, usedPorts
    <2>5. \A p \in Ports : ArrayPos(p) \in UnoPorts /\ (ArrayPos(p) = slot => p = Port(pin))
      BY <2>2, PlacesApart DEF Wiring
    <2>6. /\ callbacks \in [Pcints -> 0..Null] /\ interruptArgs \in [0..3 -> {0} \cup Encoders]
          /\ risingPorts \in [UnoPorts -> SUBSET Bits] /\ fallingPorts \in [UnoPorts -> SUBSET Bits]
      BY DEF TypeOK
    <2> HIDE DEF isr, slot
    <2>7. ASSUME NEW o \in Encoders, NEW q \in PinsOf(o), q \in enabled' PROVE Wired(o, q)'
      <3>1. /\ q \in EncoderPins /\ Port(q) \in Ports /\ Pcint(q) \in Pcints
            /\ (q \div 2) - 1 \in 0..3 /\ ArrayPos(Port(q)) \in UnoPorts
        BY PinsApart, PinFacts, <2>5
      <3>2. CASE q = pin
        <4>1. o = e
          BY <3>2, PinsApart
        <4> QED
          BY <2>2, <2>3, <2>4, <2>6, <3>2, <4>1 DEF Wired, isr, slot
      <3>3. CASE q # pin
        <4>1. Wired(o, q)
          BY <2>3, <2>7, <3>3 DEF Wiring
        <4>2. Pcint(q) # Pcint(pin) /\ ((q \div 2) - 1 = isr => o = e)
          BY <3>3, PinsApart DEF isr
        <4>3. callbacks'[Pcint(q)] = (q \div 2) - 1
          BY <2>3, <2>6, <3>1, <4>1, <4>2 DEF Wired
        <4>4. interruptArgs'[(q \div 2) - 1] = o
          BY <2>3, <2>6, <3>1, <4>1, <4>2 DEF Wired
        <4>5. /\ Bit(q) \in risingPorts'[ArrayPos(Port(q))]
              /\ Bit(q) \in fallingPorts'[ArrayPos(Port(q))]
          BY <2>3, <2>6, <3>1, <4>1 DEF Wired
        <4> QED
          BY <2>4, <4>3, <4>4, <4>5 DEF Wired
      <3> QED
        BY <3>2, <3>3
    <2>8. ASSUME NEW p \in Ports, NEW b \in Bits,
                 b \in risingPorts'[ArrayPos(p)] \cup fallingPorts'[ArrayPos(p)]
          PROVE  8 * p + b \in EncoderPcints
      <3>1. CASE b \in risingPorts[ArrayPos(p)] \cup fallingPorts[ArrayPos(p)]
        BY <3>1 DEF Wiring
      <3>2. CASE ArrayPos(p) = slot /\ b = Bit(pin)
        BY <2>2, <2>5, <3>2
      <3> QED
        BY <2>3, <2>5, <2>6, <2>8, <3>1, <3>2
    <2> QED
      BY <2>3, <2>4, <2>7, <2>8 DEF Wiring
  <1>3. CASE EnableInterrupts
    <2>1. \A p : ArrayPos(p)' = ArrayPos(p)
      BY <1>3 DEF EnableInterrupts, settings, ArrayPos, usedPorts
    <2> QED
      BY <1>3, <2>1 DEF EnableInterrupts, settings, Wiring, Wired
  <1>4. CASE Isr
    BY <1>1, <1>4 DEF Isr, IsrEnter, ReadFirstPin, Update, IsrReturn, mainVars
  <1>5. CASE \E what \in {"readSetup", "measure", "telemetry", "zero"} : Mask(what)
    BY <1>1, <1>5 DEF Mask
  <1>6. CASE ReadPart \/ WritePart
    BY <1>1, <1>6 DEF ReadPart, WritePart
  <1>7. CASE Telemetry \/ Measure \/ ResetCounts
    BY <1>1, <1>7 DEF Telemetry, Measure, ResetCounts, Unmask
  <1>8. CASE \E e \in Encoders, d \in {-1, 1} : Edge(e, d)
    BY <1>1, <1>8 DEF Edge, mainVars
  <1>9. CASE UNCHANGED vars
    BY <1>1, <1>9 DEF vars, mainVars
  <1> QED
    BY <1>2, <1>3, <1>4, <1>5, <1>6, <1>7, <1>8, <1>9 DEF Next, Main

\* Only pins of encoders are served.
LEMMA CallsAreEncoders ==
  ASSUME Wiring, NEW p \in Ports
  PROVE  Callbacks(p) \subseteq EncoderPcints
  BY DEF Callbacks, Trigger, Wiring

LEMMA RoutineStep == Wiring /\ Routine /\ [Next]_vars => Routine'
  <1> SUFFICES ASSUME Wiring, Routine, [Next]_vars PROVE Routine'
    OBVIOUS
  <1>1. CASE UNCHANGED <<calls, inIsr, p1val>>
    BY <1>1 DEF Routine
  <1>2. ASSUME NEW p \in Ports, IsrEnter(p) PROVE Routine'
    BY <1>2, CallsAreEncoders DEF IsrEnter, Routine
  <1>3. CASE ReadFirstPin
    BY <1>3 DEF ReadFirstPin, Routine
  <1>4. CASE Update
    BY <1>4 DEF Update, Routine
  <1>5. CASE IsrReturn
    BY <1>5 DEF IsrReturn, Routine
  <1> QED
    BY <1>1, <1>2, <1>3, <1>4, <1>5 DEF Next, Isr, Main, Edge, Construct, EnableInterrupts,
       Mask, ReadPart, WritePart, Telemetry, Measure, ResetCounts, Unmask, isrVars, vars

\* The routine updates the encoder whose pin has changed.
LEMMA ServedFacts ==
  ASSUME Wiring, Routine, pc # "attach", calls # {}
  PROVE  /\ Served \in Encoders
         /\ FirstCall \in calls
         /\ \A e \in Encoders : FirstCall \in PcintsOf(e) <=> Served = e
  <1>1. FirstCall \in calls /\ FirstCall \in EncoderPcints
    BY FirstCallFacts DEF Routine
  <1>2. PICK e \in Encoders : \E pin \in PinsOf(e) : FirstCall = Pcint(pin)
    BY <1>1 DEF EncoderPcints, EncoderPins
  <1>3. PICK pin \in PinsOf(e) : FirstCall = Pcint(pin)
    BY <1>2
  <1>4. Served = e
    <2>1. Wired(e, pin)
      BY PinsApart DEF Wiring
    <2> QED
      BY <1>3, <2>1 DEF Served, Wired
  <1>5. ASSUME NEW o \in Encoders, FirstCall \in PcintsOf(o) PROVE o = e
    <2>1. PICK q \in PinsOf(o) : FirstCall = Pcint(q)
      BY <1>5 DEF PcintsOf
    <2>2. /\ Pcint(q) = Pcint(pin) => q = pin
          /\ o # e => q # pin
      BY PinsApart
    <2> QED
      BY <1>3, <2>1, <2>2
  <1> QED
    BY <1>1, <1>3, <1>4, <1>5 DEF PcintsOf

\* A routine serves a pin of an encoder if it has changed since the last one.
LEMMA CaughtPins ==
  ASSUME Wiring, pc # "attach", NEW e \in Encoders, NEW pin \in PinsOf(e)
  PROVE  Pcint(pin) \in Callbacks(Port(pin)) <=>
           ~(Bit(pin) \in PortInput(Port(pin)) <=> Bit(pin) \in oldPorts[ArrayPos(Port(pin))])
  <1> DEFINE p == Port(pin)
             b == Bit(pin)
  <1>1. /\ pin \in EncoderPins /\ b \in Bits /\ p \in Int /\ Pcint(pin) = 8 * p + b
        /\ Pcint(pin) \in use /\ Wired(e, pin)
    <2>1. pin \in EncoderPins /\ Pcint(pin) = 8 * p + b
      BY PinsApart
    <2>2. b \in Bits /\ p \in UnoPorts
      BY <2>1, PinFacts
    <2> QED
      BY <2>1, <2>2 DEF UnoPorts, NUM_PORTS, Wiring, EncoderPcints
  <1>2. b \in Trigger(p) <=> ~(b \in PortInput(p) <=> b \in oldPorts[ArrayPos(p)])
    BY <1>1 DEF Trigger, Wired
  <1>3. \A c \in Bits : 8 * p + c = 8 * p + b => c = b
    BY <1>1 DEF Bits
  <1>4. Trigger(p) \subseteq Bits
    BY DEF Trigger
  <1> HIDE DEF p, b
  <1>5. Pcint(pin) \in Callbacks(p) <=> b \in Trigger(p)
    BY <1>1, <1>3, <1>4 DEF Callbacks
  <1> QED
    BY <1>2, <1>5 DEF p, b

LEMMA OtherPortsCalls ==
  ASSUME NEW e \in Encoders, NEW p \in Ports, p # Port(Pin1[e])
  PROVE  Callbacks(p) \cap PcintsOf(e) = {}
  <1> SUFFICES ASSUME NEW pin \in PinsOf(e), NEW b \in Bits, Pcint(pin) = 8 * p + b PROVE FALSE
    BY DEF Callbacks, Trigger, PcintsOf
  <1>1. Pcint(pin) = 8 * Port(pin) + Bit(pin) /\ Port(pin) # p /\ Bit(pin) \in Bits
    BY PinsApart, PinFacts
  <1>2. Port(pin) \in {0, 2} /\ p \in {0, 2}
    BY PinsApart, PortFacts
  <1> DEFINE q == Port(pin)
             c == Bit(pin)
  <1>3. 8 * q + c = 8 * p + b /\ q # p /\ q \in {0, 2} /\ c \in 0..7 /\ b \in 0..7
    BY <1>1, <1>2 DEF Bits
  <1> HIDE DEF q, c
  <1> QED
    BY <1>2, <1>3

LEMMA EnterTracks ==
  ASSUME TypeOK, HistoryTypes, Wiring, Routine, pc # "attach",
         NEW p \in Ports, IsrEnter(p), NEW e \in Encoders, Tracked(e)
  PROVE  Tracked(e)'
  <1>1. /\ calls = {} /\ p1val = NotRead
        /\ UNCHANGED <<wheel, seen, state, p1val, use>>
        /\ calls' = Callbacks(p)
        /\ flag' = [flag EXCEPT ![p] = FALSE]
        /\ oldPorts' = [oldPorts EXCEPT ![ArrayPos(p)] = PortInput(p)]
    BY DEF IsrEnter, Routine, wheelVars, settings
  <1>2. \A q : ArrayPos(q)' = ArrayPos(q)
    BY <1>1 DEF ArrayPos, usedPorts
  <1>3. Settled(e) \/ Pending(e)
    BY <1>1 DEF Tracked, Serving
  <1>4. wheel[e] \in Int /\ seen[e] \in Int
    BY DEF TypeOK, HistoryTypes
  <1>5. /\ EncoderPcints \subseteq use /\ Port(Pin1[e]) \in Ports
        /\ \A q \in Ports : ArrayPos(q) \in UnoPorts /\ (ArrayPos(q) = ArrayPos(p) => q = p)
        /\ oldPorts \in [UnoPorts -> SUBSET Bits] /\ flag \in [Ports -> BOOLEAN]
    BY PlacesApart, PinsApart DEF Wiring, TypeOK, PinsOf
  <1>6. CASE p # Port(Pin1[e])
    <2>1. \A pin \in PinsOf(e) :
            oldPorts'[ArrayPos(Port(pin))] = oldPorts[ArrayPos(Port(pin))]
      BY <1>1, <1>5, <1>6, PinsApart
    <2>2. \A a : Shows(e, a) => Shows(e, a)'
      BY <1>2, <2>1 DEF Shows
    <2>3. calls' \cap PcintsOf(e) = {}
      BY <1>1, <1>6, OtherPortsCalls
    <2>4. flag'[Port(Pin1[e])] = flag[Port(Pin1[e])]
      BY <1>1, <1>5, <1>6
    <2> QED
      BY <1>1, <1>3, <2>2, <2>3, <2>4 DEF Tracked, Settled, Pending
  <1>7. CASE p = Port(Pin1[e])
    <2>1. \A pin \in PinsOf(e) : Port(pin) = p /\ (Bit(pin) \in PortInput(p) <=> pin \in PinsAt(e, wheel[e]))
      BY <1>4, <1>7, PinsApart, PortShows, PinsNow
    <2>2. oldPorts'[ArrayPos(p)] = PortInput(p)
      BY <1>1, <1>5
    <2>3. Shows(e, wheel[e])'
      BY <1>1, <1>2, <2>1, <2>2 DEF Shows
    <2>4. ASSUME NEW a, Shows(e, a), NEW pin \in PinsOf(e)
          PROVE  Pcint(pin) \in calls' <=> ~(pin \in PinsAt(e, wheel[e]) <=> pin \in PinsAt(e, a))
      BY <1>1, <2>1, <2>4, CaughtPins DEF Shows
    <2>5. CASE Settled(e)
      <3>1. \A pin \in PinsOf(e) : Pcint(pin) \notin calls'
        BY <2>4, <2>5 DEF Settled
      <3> QED
        BY <1>1, <2>3, <2>5, <3>1 DEF Tracked, Settled, PcintsOf
    <2>6. CASE Pending(e)
      <3>1. PICK d \in {-1, 1} : wheel[e] = seen[e] + d
        BY <1>4, <2>6 DEF Pending
      <3>2. PICK pin \in PinsOf(e) : \A q \in PinsOf(e) :
              (q \in PinsAt(e, seen[e]) <=> q \in PinsAt(e, wheel[e])) <=> q # pin
        BY <1>4, <3>1, OnePinChanges
      <3>3. \A q \in PinsOf(e) : Pcint(q) \in calls' <=> q = pin
        BY <2>4, <2>6, <3>2 DEF Pending
      <3>4. calls' \cap PcintsOf(e) = {Pcint(pin)} /\ Pcint(pin) \in PcintsOf(e)
        BY <3>3 DEF PcintsOf
      <3> QED
        BY <1>1, <2>3, <2>6, <3>4 DEF Tracked, Pending, Serving
    <2> QED
      BY <1>3, <2>5, <2>6
  <1> QED
    BY <1>6, <1>7

LEMMA ReadPinTracks ==
  ASSUME Wiring, Routine, pc # "attach", ReadFirstPin, NEW e \in Encoders, Tracked(e)
  PROVE  Tracked(e)'
  <1>1. /\ UNCHANGED <<wheel, seen, state, calls, flag, oldPorts, use>>
        /\ p1val' = PinValue(Served, Pin1[Served]) /\ calls # {}
    BY DEF ReadFirstPin, wheelVars, settings
  <1>2. \A q : ArrayPos(q)' = ArrayPos(q)
    BY <1>1 DEF ArrayPos, usedPorts
  <1>3. \A a : Shows(e, a) => Shows(e, a)'
    BY <1>1, <1>2 DEF Shows
  <1>4. FirstCall' = FirstCall /\ PinValue(e, Pin1[e])' = PinValue(e, Pin1[e])
    BY <1>1 DEF FirstCall, PinValue, HighPins
  <1>5. FirstCall \in PcintsOf(e) => Served = e
    BY <1>1, ServedFacts
  <1> QED
    BY <1>1, <1>3, <1>4, <1>5 DEF Tracked, Settled, Pending, Serving

\* An edge of a wheel whose last edge is served waits for the port's routine.
LEMMA EdgeTracks ==
  ASSUME TypeOK, HistoryTypes, Wiring, pc # "attach",
         NEW o \in Encoders, NEW d \in {-1, 1}, Edge(o, d),
         NEW e \in Encoders, fast \in [Encoders -> BOOLEAN], ~fast'[e], Tracked(e)
  PROVE  Tracked(e)'
  <1>1. /\ UNCHANGED <<seen, state, calls, p1val, oldPorts, use>>
        /\ wheel' = [wheel EXCEPT ![o] = @ + d]
        /\ fast' = [fast EXCEPT ![o] = @ \/ wheel[o] # seen[o]]
    BY DEF Edge, isrVars, settings
  <1>2. \A q : ArrayPos(q)' = ArrayPos(q)
    BY <1>1 DEF ArrayPos, usedPorts
  <1>3. \A a : Shows(e, a) => Shows(e, a)'
    BY <1>1, <1>2 DEF Shows
  <1>4. wheel \in [Encoders -> Int] /\ seen[e] \in Int /\ wheel[e] \in Int
    BY DEF TypeOK, HistoryTypes
  <1>5. ChangesBit(o, d) \in PinsOf(o) /\ ChangesBit(o, d) \in enabled
    BY DEF ChangesBit, PinsOf, Wiring, EncoderPins
  <1>6. flag' = [flag EXCEPT ![Port(Pin1[o])] = TRUE]
    BY <1>5, PinsApart DEF Edge
  <1>7. Port(Pin1[e]) \in Ports /\ Port(Pin1[o]) \in Ports
    BY PinsApart DEF PinsOf
  <1>8. flag[Port(Pin1[e])] => flag'[Port(Pin1[e])]
    BY <1>6, <1>7 DEF TypeOK
  <1>9. CASE o # e
    <2>1. wheel'[e] = wheel[e] /\ FirstCall' = FirstCall /\ PinValue(e, Pin1[e])' = PinValue(e, Pin1[e])
      BY <1>1, <1>4, <1>9 DEF FirstCall, PinValue, HighPins
    <2> QED
      BY <1>1, <1>3, <1>8, <2>1 DEF Tracked, Settled, Pending, Serving
  <1>10. CASE o = e
    <2>1. wheel[e] = seen[e] /\ wheel'[e] = wheel[e] + d
      BY <1>1, <1>4, <1>10
    <2>2. Settled(e)
      BY <1>4, <2>1 DEF Tracked, Pending, Serving
    <2>3. wheel'[e] - seen'[e] \in {-1, 1}
      BY <1>1, <1>4, <2>1
    <2>4. flag'[Port(Pin1[e])]
      BY <1>6, <1>7, <1>10 DEF TypeOK
    <2> QED
      BY <1>1, <1>3, <2>1, <2>2, <2>3, <2>4 DEF Tracked, Settled, Pending
  <1> QED
    BY <1>9, <1>10

\* The routine counts the edge it serves, and no other.
LEMMA UpdateTracks ==
  ASSUME TypeOK, HistoryTypes, Wiring, Routine, pc # "attach", Update,
         NEW e \in Encoders, Tracked(e)
  PROVE  Tracked(e)' /\ position'[e] - seen'[e] = position[e] - seen[e]
  <1> DEFINE o == Served
             s == state[o] + 4 * p1val + 8 * PinValue(o, Pin2[o])
  <1>1. /\ UNCHANGED <<wheel, flag, oldPorts, use>>
        /\ calls # {} /\ p1val # NotRead
        /\ calls' = calls \ {FirstCall} /\ p1val' = NotRead
        /\ state' = [state EXCEPT ![o] = NewState(s)]
        /\ position' = [position EXCEPT ![o] = @ + Delta(s)]
        /\ seen' = [seen EXCEPT ![o] = wheel[o]]
    BY DEF Update, wheelVars, settings
  <1>2. \A q : ArrayPos(q)' = ArrayPos(q)
    BY <1>1 DEF ArrayPos, usedPorts
  <1>3. \A a : Shows(e, a) => Shows(e, a)'
    BY <1>1, <1>2 DEF Shows
  <1>4. o \in Encoders /\ FirstCall \in calls /\ (FirstCall \in PcintsOf(e) <=> o = e)
    BY <1>1, ServedFacts
  <1>5. /\ wheel[e] \in Int /\ seen[e] \in Int /\ position[e] \in Int
        /\ state \in [Encoders -> 0..3] /\ seen \in [Encoders -> Int]
        /\ position \in [Encoders -> Int]
    BY DEF TypeOK, HistoryTypes
  <1>6. CASE o # e
    <2>1. state'[e] = state[e] /\ seen'[e] = seen[e] /\ position'[e] = position[e]
      BY <1>1, <1>5, <1>6
    <2>2. calls' \cap PcintsOf(e) = calls \cap PcintsOf(e)
      BY <1>1, <1>4, <1>6
    <2> QED
      BY <1>1, <1>3, <2>1, <2>2 DEF Tracked, Settled, Pending, Serving
  <1>7. CASE o = e
    <2>1. Serving(e)
      BY <1>4, <1>7 DEF Tracked, Settled, Pending
    <2>2. PICK d \in {-1, 1} : wheel[e] = seen[e] + d
      BY <1>5, <2>1 DEF Serving
    <2>3. p1val = PinValue(e, Pin1[e]) /\ calls' \cap PcintsOf(e) = {}
      BY <1>1, <1>4, <1>7, <2>1 DEF Serving
    <2>4. s = Code(seen[e]) + 4 * Code(wheel[e])
      <3>1. state[e] = Code(seen[e]) /\ Code(seen[e]) \in Int
        BY <1>5 DEF Tracked, TypeOK
      <3>2. /\ PinValue(e, Pin1[e]) \in Int /\ PinValue(e, Pin2[e]) \in Int
            /\ PinValue(e, Pin1[e]) + 2 * PinValue(e, Pin2[e]) = Code(wheel[e])
        BY <1>5, PinsNow
      <3> QED
        BY <1>7, <2>3, <3>1, <3>2
    <2>5. Delta(s) = d /\ NewState(s) = Code(wheel[e])
      BY <1>5, <2>2, <2>4, TableSteps
    <2> HIDE DEF s
    <2>6. state'[e] = Code(wheel[e]) /\ seen'[e] = wheel[e] /\ position'[e] = position[e] + d
      BY <1>1, <1>5, <1>7, <2>5
    <2>7. Settled(e)'
      BY <1>1, <1>3, <2>1, <2>3, <2>6 DEF Serving, Settled
    <2> QED
      BY <1>1, <1>5, <2>2, <2>6, <2>7 DEF Tracked
  <1> QED
    BY <1>6, <1>7

LEMMA TrackedUntouched ==
  ASSUME UNCHANGED <<wheel, seen, state, calls, p1val, flag, oldPorts, use>>,
         NEW e \in Encoders, Tracked(e)
  PROVE  Tracked(e)'
  <1>1. \A q : ArrayPos(q)' = ArrayPos(q)
    BY DEF ArrayPos, usedPorts
  <1>2. \A a : Shows(e, a) => Shows(e, a)'
    BY <1>1 DEF Shows
  <1>3. FirstCall' = FirstCall /\ PinValue(e, Pin1[e])' = PinValue(e, Pin1[e])
    BY DEF FirstCall, PinValue, HighPins
  <1> QED
    BY <1>2, <1>3 DEF Tracked, Settled, Pending, Serving

\* Counting may start at a zeroing at which all that is remembered is right.
LEMMA KnownIsTracked ==
  ASSUME TypeOK, Routine, ~inIsr, NEW e \in Encoders, KnownAngle(e)
  PROVE  Tracked(e)
  <1>1. wheel[e] \in Int /\ calls = {}
    BY DEF TypeOK, Routine
  <1>2. state[e] = Code(seen[e])
    BY <1>1, PinsNow DEF KnownAngle
  <1>3. Shows(e, wheel[e])
    BY <1>1, PinsNow DEF KnownAngle, Shows
  <1> QED
    BY <1>1, <1>2, <1>3 DEF KnownAngle, Tracked, Settled

FollowTypes == fast \in [Encoders -> BOOLEAN] /\ measured \in [Encoders -> Int]

LEMMA FollowTypesStep == IInv /\ FollowTypes /\ [Next]_vars => FollowTypes'
  <1> SUFFICES ASSUME IInv, FollowTypes, [Next]_vars PROVE FollowTypes'
    OBVIOUS
  <1>1. CASE UNCHANGED <<fast, measured>>
    BY <1>1 DEF FollowTypes
  <1>2. ASSUME NEW e \in Encoders, NEW d \in {-1, 1}, Edge(e, d) PROVE FollowTypes'
    BY <1>2 DEF Edge, mainVars, FollowTypes
  <1>3. CASE WritePart
    <2>1. fast' \in [Encoders -> BOOLEAN]
      <3>1. CASE AtLow
        BY <3>1, <1>3 DEF WritePart, FollowTypes
      <3>2. CASE ~AtLow
        BY <3>2, <1>3 DEF WritePart, FollowTypes
      <3> QED
        BY <3>1, <3>2
    <2> QED
      BY <1>3, <2>1 DEF WritePart, FollowTypes
  <1>4. CASE Measure
    BY <1>4 DEF Measure, Unmask, FollowTypes, IInv, HistoryTypes
  <1>5. CASE ResetCounts
    <2>1. measured' \in [Encoders -> Int]
      BY <1>5 DEF ResetCounts, IInv, HistoryTypes
    <2> QED
      BY <1>5, <2>1 DEF ResetCounts, Unmask, FollowTypes
  <1> QED
    BY <1>1, <1>2, <1>3, <1>4, <1>5 DEF Next, Isr, Main, IsrEnter, ReadFirstPin, Update, IsrReturn,
       Construct, EnableInterrupts, Mask, ReadPart, Telemetry, Unmask, mainVars, vars

\* The counts and the reference of the next measurement, of an encoder.
Counted(e) == Tracked(e) /\ Follows(e) /\ Remembers(e)

\* Interrupts stay off while the counts are zeroed.
LEMMA RoutineNotZeroing == IInv /\ (inIsr \/ ~masked) => pc \notin Critical \cup {"attach"}
  BY DEF IInv, Exclusion

LEMMA WriteCounts ==
  ASSUME IInv, FInv, WritePart, NEW e \in Encoders, ~fast'[e]
  PROVE  Counted(e)'
  <1>1. /\ pc = "zero" /\ pc' = "zero" /\ at' = at + 1 /\ ~inIsr
        /\ UNCHANGED <<wheel, seen, state, calls, p1val, flag, oldPorts, use, measured, previous>>
    BY DEF WritePart, wheelVars, settings, isrVars
  <1>2. /\ at \in Int /\ e \in Int /\ position \in [Encoders -> Int] /\ position[e] \in Int
        /\ seen[e] \in Int /\ fast \in [Encoders -> BOOLEAN]
        /\ zeroed \in [Encoders -> [angle : Int, phase : 0..3]]
    BY EncoderFacts, EncodersAssumption DEF IInv, TypeOK, HistoryTypes, FInv
  <1>3. ~fast[e] \/ (Current = e /\ KnownAngle(e))
    <2>1. CASE AtLow
      BY <2>1 DEF WritePart
    <2>2. CASE ~AtLow
      BY <1>2, <2>2 DEF WritePart
    <2> QED
      BY <2>1, <2>2
  <1>4. Tracked(e)
    <2>1. TypeOK /\ Routine
      BY DEF IInv, FInv
    <2> QED
      BY <1>1, <1>3, <2>1, KnownIsTracked DEF FInv
  <1>5. Tracked(e)'
    BY <1>1, <1>4, TrackedUntouched
  <1>6. CASE e # Current
    <2>1. position'[e] = position[e] /\ zeroed'[e] = zeroed[e] /\ ~fast[e]
      BY <1>2, <1>3, <1>6 DEF WritePart
    <2>2. at # 2 * e - 2 /\ at # 2 * e - 1
      BY <1>2, <1>6 DEF Current
    <2>3. Follows(e) /\ Remembers(e)
      BY <2>1 DEF FInv
    <2> QED
      BY <1>1, <1>2, <1>5, <2>1, <2>2, <2>3 DEF Counted, Follows, Remembers
  <1>7. CASE e = Current /\ AtLow
    <2>1. at = 2 * e - 2 /\ zeroed' = zeroed /\ ~fast[e]
      BY <1>2, <1>7 DEF Current, AtLow, WritePart
    <2>2. Remembers(e)
      BY <2>1 DEF FInv
    <2> QED
      BY <1>1, <1>2, <1>5, <2>1, <2>2 DEF Counted, Follows, Remembers
  <1>8. CASE e = Current /\ ~AtLow
    <2>1. at = 2 * e - 1
      BY <1>2, <1>8 DEF Current, AtLow
    <2>2. position'[e] = Low(position[e]) /\ position[e] % HALF = 0
      BY <1>1, <1>2, <1>8, <2>1 DEF WritePart, IInv, PhaseKept
    <2>3. position'[e] = 0
      BY <1>2, <2>2, HalvesOfCount
    <2>4. zeroed'[e].angle = seen[e]
      BY <1>2, <1>8 DEF WritePart
    <2>5. Follows(e)'
      BY <1>1, <1>2, <2>3, <2>4 DEF Follows
    <2>6. Remembers(e)'
      BY <1>1, <1>2, <2>1 DEF Remembers
    <2> QED
      BY <1>5, <2>5, <2>6 DEF Counted
  <1> QED
    BY <1>6, <1>7, <1>8

\* The copy a measurement takes is the travel since the zeroing.
LEMMA MeasureCounts ==
  ASSUME IInv, FInv, Measure, NEW e \in Encoders, ~fast[e]
  PROVE  raw[e] = seen[e] - zeroed[e].angle
  <1>1. at = 2 * N /\ pc \in Reading
    BY DEF Measure, Unmask, Reading
  <1>2. 2 * e <= at
    BY <1>1, EncodersAssumption DEF Encoders
  <1>3. raw[e] = position[e]
    BY <1>1, <1>2 DEF IInv, CopyIsTrue
  <1>4. Follows(e)
    BY DEF FInv
  <1> QED
    BY <1>1, <1>3, <1>4 DEF Follows, Reading

LEMMA CountedStep ==
  ASSUME IInv, FInv, [Next]_vars, NEW e \in Encoders, ~fast'[e]
  PROVE  pc' # "attach" /\ Counted(e)'
  <1>1. /\ TypeOK /\ HistoryTypes /\ Wiring /\ Routine /\ fast \in [Encoders -> BOOLEAN]
        /\ ~fast[e] => pc # "attach" /\ Counted(e) /\ Tracked(e) /\ Follows(e) /\ Remembers(e)
    BY DEF IInv, FInv, Counted
  <1>2. /\ e \in Int /\ N \in Int /\ position[e] \in Int /\ seen[e] \in Int
        /\ zeroed[e].angle \in Int /\ zeroed \in [Encoders -> [angle : Int, phase : 0..3]]
    BY <1>1, EncoderFacts, EncodersAssumption DEF TypeOK, HistoryTypes
  <1>3. ASSUME NEW o \in Encoders, NEW d \in {-1, 1}, Edge(o, d)
        PROVE  pc' # "attach" /\ Counted(e)'
    <2>1. ~fast[e]
      BY <1>1, <1>3 DEF Edge
    <2>2. Tracked(e)'
      BY <1>1, <1>3, <2>1, EdgeTracks
    <2>3. UNCHANGED <<pc, at, position, seen, zeroed, previous, measured>>
      BY <1>3 DEF Edge, mainVars, isrVars
    <2> QED
      BY <1>1, <2>1, <2>2, <2>3 DEF Counted, Follows, Remembers
  <1>4. ASSUME NEW p \in Ports, IsrEnter(p) PROVE pc' # "attach" /\ Counted(e)'
    <2>1. ~fast[e]
      BY <1>4 DEF IsrEnter
    <2>2. Tracked(e)'
      BY <1>1, <1>4, <2>1, EnterTracks
    <2>3. UNCHANGED <<pc, at, position, seen, zeroed, previous, measured>>
      BY <1>4 DEF IsrEnter, mainVars
    <2> QED
      BY <1>1, <2>1, <2>2, <2>3 DEF Counted, Follows, Remembers
  <1>5. CASE ReadFirstPin
    <2>1. ~fast[e]
      BY <1>5 DEF ReadFirstPin
    <2>2. Tracked(e)'
      BY <1>1, <1>5, <2>1, ReadPinTracks
    <2>3. UNCHANGED <<pc, at, position, seen, zeroed, previous, measured>>
      BY <1>5 DEF ReadFirstPin, mainVars
    <2> QED
      BY <1>1, <2>1, <2>2, <2>3 DEF Counted, Follows, Remembers
  <1>6. CASE Update
    <2>1. ~fast[e] /\ UNCHANGED <<pc, at, zeroed, previous, measured>> /\ pc # "zero"
      BY <1>6, RoutineNotZeroing DEF Update, mainVars, Critical
    <2>2. Tracked(e)' /\ position'[e] - seen'[e] = position[e] - seen[e]
      BY <1>1, <1>6, <2>1, UpdateTracks
    <2>3. position'[e] \in Int /\ seen'[e] \in Int
      BY <1>6, UpdateKeeps DEF IInv, TypeOK, HistoryTypes
    <2>4. Follows(e)'
      BY <1>1, <1>2, <2>1, <2>2, <2>3 DEF Follows
    <2>5. Remembers(e)'
      BY <1>1, <2>1 DEF Remembers
    <2> QED
      BY <1>1, <2>1, <2>2, <2>4, <2>5 DEF Counted
  <1>7. ASSUME UNCHANGED <<wheel, seen, state, calls, p1val, flag, oldPorts, use, fast>>
        PROVE  ~fast[e] /\ Tracked(e) /\ Tracked(e)'
    BY <1>1, <1>7, TrackedUntouched
  <1>8. CASE IsrReturn
    <2>1. ~fast[e] /\ Tracked(e)'
      BY <1>7, <1>8 DEF IsrReturn, wheelVars, settings
    <2> QED
      BY <1>1, <1>8, <2>1 DEF IsrReturn, mainVars, Counted, Follows, Remembers
  <1>9. ASSUME NEW o \in Encoders, Construct(o) PROVE pc' # "attach" /\ Counted(e)'
    BY <1>1, <1>9 DEF Construct
  <1>10. CASE EnableInterrupts
    BY <1>1, <1>10 DEF EnableInterrupts
  <1>11. ASSUME NEW what \in {"readSetup", "measure", "telemetry", "zero"}, Mask(what)
         PROVE  pc' # "attach" /\ Counted(e)'
    <2>1. ~fast[e] /\ Tracked(e)'
      BY <1>7, <1>11 DEF Mask, wheelVars, settings, isrVars
    <2>2. /\ UNCHANGED <<at, position, seen, zeroed, previous, measured>>
          /\ pc \in {"setup", "loop"} /\ pc' = what
      BY <1>11 DEF Mask, isrVars
    <2> QED
      BY <1>1, <2>1, <2>2 DEF Counted, Follows, Remembers
  <1>12. CASE ReadPart
    <2>1. ~fast[e] /\ Tracked(e)'
      BY <1>7, <1>12 DEF ReadPart, wheelVars, settings, isrVars
    <2>2. /\ UNCHANGED <<pc, position, seen, zeroed, previous, measured>>
          /\ pc # "zero"
      BY <1>12 DEF ReadPart, isrVars
    <2> QED
      BY <1>1, <2>1, <2>2 DEF Counted, Follows, Remembers
  <1>13. CASE WritePart
    BY <1>13, WriteCounts DEF WritePart
  <1>14. ASSUME Unmask PROVE ~fast[e] /\ Tracked(e)' /\ Follows(e)' /\ pc' = "loop"
    <2>1. ~fast[e] /\ Tracked(e)'
      BY <1>7, <1>14 DEF Unmask, wheelVars, settings, isrVars
    <2>2. UNCHANGED <<position, seen, zeroed>> /\ pc' = "loop" /\ at # 2 * e - 1
      BY <1>2, <1>14 DEF Unmask, isrVars
    <2> QED
      BY <1>1, <2>1, <2>2 DEF Follows
  <1>15. CASE Telemetry
    <2>1. UNCHANGED <<previous, measured, zeroed>> /\ pc # "zero"
      BY <1>15 DEF Telemetry, Unmask
    <2> QED
      BY <1>1, <1>14, <1>15, <2>1 DEF Telemetry, Counted, Remembers
  <1>16. CASE Measure
    <2>1. ~fast[e] /\ Tracked(e)' /\ Follows(e)' /\ pc' = "loop"
      BY <1>14, <1>16 DEF Measure
    <2>2. previous'[e] = seen[e] - zeroed[e].angle
      BY <1>16, <2>1, MeasureCounts DEF Measure
    <2>3. measured'[e] = seen[e] /\ zeroed' = zeroed
      BY <1>16 DEF Measure, Unmask
    <2> QED
      BY <2>1, <2>2, <2>3 DEF Counted, Remembers
  <1>17. CASE ResetCounts
    <2>1. ~fast[e] /\ Tracked(e)' /\ Follows(e)' /\ pc' = "loop"
      BY <1>14, <1>17 DEF ResetCounts
    <2>2. previous'[e] = 0 /\ measured'[e] = zeroed[e].angle /\ zeroed' = zeroed
      BY <1>17 DEF ResetCounts, Unmask, Zeros
    <2> QED
      BY <1>2, <2>1, <2>2 DEF Counted, Remembers
  <1>18. CASE UNCHANGED vars
    <2>1. ~fast[e] /\ Tracked(e)'
      BY <1>7, <1>18 DEF vars, wheelVars, settings, isrVars
    <2> QED
      BY <1>1, <1>18, <2>1 DEF vars, mainVars, isrVars, Counted, Follows, Remembers
  <1> QED
    BY <1>3, <1>4, <1>5, <1>6, <1>8, <1>9, <1>10, <1>11, <1>12, <1>13, <1>15, <1>16,
       <1>17, <1>18 DEF Next, Isr, Main

LEMMA FollowStep == IInv /\ FInv /\ [Next]_vars => FInv'
  <1> SUFFICES ASSUME IInv, FInv, [Next]_vars PROVE FInv'
    OBVIOUS
  <1>1. FollowTypes' /\ Wiring' /\ Routine'
    BY FollowTypesStep, WiringStep, RoutineStep DEF IInv, FInv, FollowTypes
  <1>2. \A e \in Encoders : ~fast'[e] => pc' # "attach" /\ Counted(e)'
    BY CountedStep
  <1> QED
    BY <1>1, <1>2 DEF FInv, FollowTypes, Counted

LEMMA Following == Spec => [](IInv /\ FInv)
  BY CountsInit, CountsStep, FollowInit, FollowStep, PTL DEF Spec

\* As long as each edge of a wheel is served before the next of that wheel,
\* its count is its travel since it was zeroed, and no edge is overlooked:
\* neither other encoders on its port nor masking nor zeroing loses one.
THEOREM FollowsWheel == Spec => []CountFollowsWheel
  <1>1. IInv /\ FInv => CountFollowsWheel
    <2> SUFFICES ASSUME IInv, FInv, NEW e \in Encoders, ~fast[e], pc # "zero"
                 PROVE  position[e] = seen[e] - zeroed[e].angle /\ (Quiet => seen[e] = wheel[e])
      BY DEF CountFollowsWheel
    <2>1. Tracked(e) /\ Follows(e) /\ (~inIsr => calls = {})
      BY DEF FInv, Routine
    <2>2. Port(Pin1[e]) \in Ports
      BY PinsApart DEF PinsOf
    <2>3. Quiet => Settled(e)
      BY <2>1, <2>2 DEF Quiet, Tracked, Pending, Serving
    <2> QED
      BY <2>1, <2>3 DEF Follows, Settled
  <1> QED
    BY <1>1, Following, PTL

\* The travel a wheel speed is computed from is the travel of the wheel.
THEOREM SpeedSafety == Spec => SpeedIsTravel
  <1> DEFINE Exact == Measure => \A e \in Encoders :
                        ~fast[e] => raw[e] - previous[e] = seen[e] - measured[e]
  <1>1. IInv /\ FInv /\ [Next]_vars => [Exact]_vars
    <2> SUFFICES ASSUME IInv, FInv, Measure, NEW e \in Encoders, ~fast[e]
                 PROVE  raw[e] - previous[e] = seen[e] - measured[e]
      OBVIOUS
    <2>1. raw[e] = seen[e] - zeroed[e].angle
      BY MeasureCounts
    <2>2. previous[e] = measured[e] - zeroed[e].angle
      BY DEF FInv, Remembers, Measure
    <2>3. seen[e] \in Int /\ measured[e] \in Int /\ zeroed[e].angle \in Int
      BY DEF FInv, IInv, HistoryTypes
    <2> QED
      BY <2>1, <2>2, <2>3
  <1>2. Spec => [][Exact]_vars
    BY <1>1, Following, PTL DEF Spec
  <1> QED
    BY <1>2 DEF SpeedIsTravel
=============================================================================
