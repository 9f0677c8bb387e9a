---------------------------- MODULE BridgeProofs ----------------------------
(***************************************************************************)
(* Theorems about Bridge, for any number of connections, reboots and lines *)
(* under way.                                                              *)
(***************************************************************************)
EXTENDS Bridge, SequenceTheorems, TLAPS

(* Where the two threads are, and which of them holds the port. *)

\* The manager's places from the handing over of a port to its taking back.
Serving == {"sendO", "waitO", "connect", "announce", "read", "finally", "take"}

\* Places before the connection is up, with a port of this pass.
Dialling == {"bootwait", "handover", "sendO", "waitO", "giveup"}

Calling == {"check", "write", "checkS", "writeS"}

\* The port of the pass is the last one opened; whoever holds it is alone.
PortInv ==
    /\ mgrSer = opens
    /\ ser # None => mgr \in Serving \cup {"killed"} /\ mgrTook = None /\ mainTook = None
    /\ mgrTook # None => mgr \in {"writeX", "shut", "killed"} /\ mainTook = None
    /\ mgr \in {"writeX", "shut"} => mgrTook # None
    /\ mainTook # None <=> main \in {"writeX", "shut"}
    /\ mgr \in {"bootwait", "handover"} => mainTook = None
    /\ mgr \in Dialling => mgrSer # None

\* destroy_node ends the passes of the manager, and the process the manager.
EndInv ==
    /\ main \in {"hangup", "take", "writeX", "shut", "gone"} => running = FALSE
    /\ mgr = "killed" => main = "gone"

\* A connection is up from READY to the `finally' clause, and no callback that
\* found it up is still under way when the next pass begins.
UpInv ==
    /\ connected = TRUE => mgr \in {"announce", "read", "finally", "killed"}
    /\ main \in Calling => mgr \notin Dialling \cup {"open", "connect"}

\* TypeOK in two halves, since what the threads do does not depend on the data.
PlaceTypes ==
    /\ connected \in BOOLEAN /\ running \in BOOLEAN
    /\ mgr \in MgrPcs /\ main \in MainPcs
    /\ opens \in 0 .. MAX_OPENS /\ mgrSer \in {None} \cup Handles
    /\ ser \in {None, mgrSer} /\ mgrTook \in {None, mgrSer} /\ mainTook \in {None, mgrSer}

Places == PlaceTypes /\ PortInv /\ EndInv /\ UpInv

\* A READY that can be read, or was, came after the port was opened.
FreshInv == fromArd # <<>> \/ mgr = "connect" \/ connected = TRUE => fresh = TRUE

AfterOpen == {"waitO", "connect", "announce", "read", "finally", "take"}

\* The port in service was told O, unless its line is dead, and never X.
OrderInv ==
    /\ \A h \in Handles : h > opens => sent[h] = "none"
    /\ mgr \in {"bootwait", "handover"} => sent[mgrSer] = "none"
    /\ ser # None => sent[ser] # "X"
    /\ ser # None /\ mgr \in AfterOpen => sent[ser] # "none" \/ ~Usable(ser)

\* No velocity or stop was written to it.
Silent(h) == sent[h] \in {"none", "O", "X"}

\* A port that was given up on never came into service, and the pass ends.
GiveUpInv ==
    /\ gaveUp \subseteq 1 .. opens
    /\ mgr = "giveup" => mgrSer \in gaveUp
    /\ opens \in gaveUp =>
         ser = None /\ mgr \in {"giveup", "finally", "take", "status", "sleep", "open", "done",
                               "killed"}
    /\ \A h \in gaveUp : Silent(h)
    /\ mgr \in Dialling => Silent(mgrSer)

\* What a thread took is open until it closes it, but for a close of GiveUp.
CloseInv ==
    /\ mgr \in {"writeX", "shut"} => mgrTook \notin closed
    /\ mgr = "shut" => sent[mgrTook] = "X" \/ mgrTook \in broken
    /\ main \in {"writeX", "shut"} => mainTook \notin closed \/ mainTook \in gaveUp
    /\ main = "shut" => sent[mainTook] = "X" \/ mainTook \in broken \/ mainTook \in gaveUp

\* The wheels have a target once the lines under way are read.
WillMove == IF toArd = <<>> THEN moving = TRUE ELSE toArd[Len(toArd)] = "V"

\* A port in service, or taken and still to be told X, is open.
OpenInv ==
    /\ closed \subseteq 1 .. opens
    /\ mgr \in {"bootwait", "handover"} => mgrSer \notin closed
    /\ ser # None => ser \notin closed
    /\ mgr = "writeX" => mgrTook \notin closed

\* While no line has died, a target goes with a port that is connected, or was
\* and is still to be told X.
MoveInv ==
    /\ ard = "boot" => moving = FALSE
    /\ broken = {} /\ WillMove =>
         \/ ser # None /\ mgr \in AfterOpen \ {"waitO", "connect"}
            /\ main \notin {"writeX", "shut", "gone"}
         \/ main = "writeX" /\ mainTook \notin closed /\ mgr \notin Dialling
         \/ mgrTook # None /\ mgr \in {"writeX", "killed"} /\ sent[mgrTook] # "X"
-----------------------------------------------------------------------------
(* Places. *)

LEMMA PlacesInit == Init => Places
  <1> SUFFICES ASSUME Init PROVE Places
    OBVIOUS
  <1>1. connected \in BOOLEAN /\ running \in BOOLEAN /\ connected = FALSE
    BY DEF Init
  <1>2. /\ mgr = "open" /\ main = "idle"
        /\ opens = 0 /\ mgrSer = 0 /\ ser = 0 /\ mgrTook = 0 /\ mainTook = 0
    BY DEF Init, None
  <1>3. PlaceTypes
    BY <1>1, <1>2, BridgeAssumption DEF PlaceTypes, MgrPcs, MainPcs, None
  <1>4. PortInv /\ EndInv /\ UpInv
    BY <1>1, <1>2 DEF PortInv, EndInv, UpInv, None, Calling, Dialling
  <1> QED
    BY <1>3, <1>4 DEF Places

LEMMA PlacesManager == Places /\ Manager => Places'
  <1> SUFFICES ASSUME Places, Manager PROVE Places'
    OBVIOUS
  <1> USE BridgeAssumption
      DEF Places, PlaceTypes, PortInv, EndInv, UpInv, MgrPcs, Handles, None, Calling,
          Dialling, Serving, shared, mgrVars, mainVars, world
  <1>1. CASE OpenPort
    BY <1>1 DEF OpenPort
  <1>2. CASE OpenFails
    BY <1>2 DEF OpenFails
  <1>3. CASE WaitBoot
    BY <1>3 DEF WaitBoot
  <1>4. CASE HandOver
    BY <1>4 DEF HandOver
  <1>5. CASE SendOpen
    BY <1>5 DEF SendOpen, WriteRaw
  <1>6. CASE WaitOpen
    BY <1>6 DEF WaitOpen
  <1>7. CASE GiveUp \/ CloseGivenUp \/ WaitRaises
    BY <1>7 DEF GiveUp, CloseGivenUp, WaitRaises
  <1>8. CASE Connect \/ Announce
    BY <1>8 DEF Connect, Announce
  <1>9. CASE ReadChunk
    BY <1>9 DEF ReadChunk
  <1>10. CASE ReadEnds \/ Finally
    BY <1>10 DEF ReadEnds, Finally
  <1>11. CASE ManagerTakes
    BY <1>11 DEF ManagerTakes
  <1>12. CASE ManagerWritesX
    BY <1>12 DEF ManagerWritesX
  <1>13. CASE ManagerShuts
    BY <1>13 DEF ManagerShuts
  <1>14. CASE PublishStop \/ Retry
    BY <1>14 DEF PublishStop, Retry
  <1> QED
    BY <1>1, <1>2, <1>3, <1>4, <1>5, <1>6, <1>7, <1>8, <1>9, <1>10, <1>11, <1>12, <1>13, <1>14
       DEF Manager

LEMMA PlacesMain == Places /\ (Main \/ CmdVelSilent \/ Exit) => Places'
  <1> SUFFICES ASSUME Places, Main \/ CmdVelSilent \/ Exit PROVE Places'
    OBVIOUS
  <1> USE DEF Places, PlaceTypes, PortInv, EndInv, UpInv, MgrPcs, MainPcs, Handles, None,
              Calling, Dialling, Serving, shared, mgrVars, mainVars, world
  <1>1. CASE CmdVel \/ Watchdog \/ CmdVelSilent
    BY <1>1 DEF CmdVel, Watchdog, CmdVelSilent
  <1>2. CASE CheckConnected
    BY <1>2 DEF CheckConnected
  <1>3. CASE SerialWrite
    BY <1>3 DEF SerialWrite, WriteRaw
  <1>4. CASE ParseReady
    BY <1>4 DEF ParseReady
  <1>5. CASE Interrupt \/ StopRunning \/ Disconnect
    BY <1>5 DEF Interrupt, StopRunning, Disconnect
  <1>6. CASE MainTakes
    BY <1>6 DEF MainTakes
  <1>7. CASE MainWritesX \/ MainShuts
    BY <1>7 DEF MainWritesX, MainShuts
  <1>9. CASE Exit
    BY <1>9 DEF Exit
  <1> QED
    BY <1>1, <1>2, <1>3, <1>4, <1>5, <1>6, <1>7, <1>9 DEF Main

LEMMA PlacesStep == Places /\ [Next]_vars => Places'
  <1>1. Places /\ (World \/ UNCHANGED vars) => Places'
    <2>1. World \/ UNCHANGED vars => UNCHANGED <<shared, mgrVars, mainVars, opens>>
      BY DEF World, ArduinoBoots, ArduinoReads, ArduinoReboots, Unplug, vars, world
    <2> QED
      BY <2>1 DEF Places, PlaceTypes, PortInv, EndInv, UpInv, shared, mgrVars, mainVars
  <1> QED
    BY <1>1, PlacesManager, PlacesMain DEF Next

LEMMA PlacesAlways == Spec => []Places
  BY PlacesInit, PlacesStep, PTL DEF Spec

-----------------------------------------------------------------------------
(* READY is not taken from an earlier connection. *)

LEMMA FreshManager == Places /\ FreshInv /\ Manager => FreshInv'
  <1> SUFFICES ASSUME Places, FreshInv, Manager PROVE FreshInv'
    OBVIOUS
  <1> USE DEF FreshInv, shared, mainVars, world
  <1>1. CASE OpenPort
    BY <1>1 DEF OpenPort, Places, UpInv
  <1>2. CASE WaitBoot
    BY <1>2 DEF WaitBoot, SeesReady
  <1>3. CASE WaitOpen
    BY <1>3 DEF WaitOpen, SeesReady
  <1>4. CASE ReadChunk
    BY <1>4 DEF ReadChunk, mgrVars
  <1>5. CASE Connect
    BY <1>5 DEF Connect
  <1>6. CASE OpenFails \/ HandOver \/ GiveUp \/ Announce \/ ManagerTakes \/ ManagerShuts
               \/ CloseGivenUp \/ WaitRaises
    BY <1>6 DEF OpenFails, HandOver, GiveUp, Announce, ManagerTakes, ManagerShuts, CloseGivenUp,
       WaitRaises
  <1>7. CASE SendOpen
    BY <1>7 DEF SendOpen, WriteRaw
  <1>8. CASE ReadEnds \/ Finally
    BY <1>8 DEF ReadEnds, Finally
  <1>9. CASE ManagerWritesX \/ PublishStop \/ Retry
    BY <1>9 DEF ManagerWritesX, PublishStop, Retry
  <1> QED
    BY <1>1, <1>2, <1>3, <1>4, <1>5, <1>6, <1>7, <1>8, <1>9 DEF Manager

LEMMA FreshStep == Places /\ FreshInv /\ [Next]_vars => FreshInv'
  <1> SUFFICES ASSUME Places, FreshInv, [Next]_vars PROVE FreshInv'
    OBVIOUS
  <1>1. CASE Main \/ CmdVelSilent
    <2>1. UNCHANGED <<fromArd, fresh, mgr>> /\ connected' \in {connected, FALSE}
      BY <1>1 DEF Main, CmdVel, Watchdog, CmdVelSilent, CheckConnected, SerialWrite,
         WriteRaw, ParseReady, Interrupt, StopRunning, Disconnect, MainTakes, MainWritesX,
         MainShuts, shared, mgrVars, world
    <2> QED
      BY <2>1 DEF FreshInv
  <1>2. CASE Exit
    BY <1>2 DEF Exit, FreshInv, shared, world
  <1>3. CASE World
    BY <1>3 DEF World, ArduinoBoots, ArduinoReads, ArduinoReboots, Unplug, SendReady,
       FreshInv, shared, mgrVars, ardVars
  <1>4. CASE UNCHANGED vars
    BY <1>4 DEF FreshInv, vars, shared, mgrVars, world
  <1> QED
    BY <1>1, <1>2, <1>3, <1>4, FreshManager DEF Next

\* For any number of reconnections and reboots, a connection is reported only
\* to an Arduino that was reset after the port was opened.
THEOREM FreshSafety == Spec => []FreshWhenConnected
  <1>1. Init => FreshInv
    BY DEF Init, FreshInv
  <1>2. FreshInv => FreshWhenConnected
    BY DEF FreshInv, FreshWhenConnected
  <1>3. Places /\ FreshInv /\ [Next]_vars => FreshInv'
    BY FreshStep
  <1> QED
    BY <1>1, <1>2, <1>3, PlacesAlways, PTL DEF Spec

-----------------------------------------------------------------------------
(* Types of the data. *)

LEMMA ReadyInput ==
  ASSUME NEW s \in Seq({"READY"}), NEW n \in 1 .. Len(s)
  PROVE  SubSeq(s, 1, n) \in Seq({"READY"}) /\ SubSeq(s, n + 1, Len(s)) \in Seq({"READY"})
  <1>1. \A i \in 1 .. Len(s) : s[i] \in {"READY"}
    OBVIOUS
  <1>2. Len(s) \in Nat
    OBVIOUS
  <1>3. SubSeq(s, 1, n) \in Seq({"READY"})
    BY <1>1, <1>2, SubSeqProperties
  <1>4. SubSeq(s, n + 1, Len(s)) \in Seq({"READY"})
    BY <1>1, <1>2, SubSeqProperties
  <1> QED
    BY <1>3, <1>4

\* The types of what is written and read, and of the rest.
LineTypes ==
    /\ recvQ \in Seq({"READY"}) /\ fromArd \in Seq({"READY"}) /\ toArd \in Seq(Lines)
    /\ sent \in [Handles -> {"none"} \cup Lines]

RestTypes ==
    /\ wasConnected \in BOOLEAN
    /\ lastCmd \in {"none", "fresh", "stale"} /\ lidar \in {"none", "START", "STOP"}
    /\ line \in {"V", "V0", "S"}
    /\ closed \subseteq Handles /\ broken \subseteq Handles /\ gaveUp \subseteq Handles
    /\ ard \in {"boot", "run"} /\ moving \in BOOLEAN /\ fresh \in BOOLEAN
    /\ reboots \in 0 .. MAX_REBOOTS

LEMMA WriteTypes ==
  ASSUME LineTypes, NEW h \in Handles, NEW l \in Lines, Write(h, l)
  PROVE  toArd' \in Seq(Lines) /\ sent' \in [Handles -> {"none"} \cup Lines]
  <1>1. Append(toArd, l) \in Seq(Lines)
    BY AppendProperties DEF LineTypes
  <1> QED
    BY <1>1 DEF LineTypes, Write

LEMMA LineStep == LineTypes /\ RestTypes /\ Places /\ [Next]_vars => LineTypes'
  <1> SUFFICES ASSUME LineTypes, RestTypes, Places, [Next]_vars PROVE LineTypes'
    OBVIOUS
  <1>1. CASE OpenPort
    <2>1. <<>> \in Seq({"READY"}) /\ <<>> \in Seq(Lines)
      OBVIOUS
    <2> QED
      BY <1>1, <2>1 DEF OpenPort, LineTypes, shared
  <1>2. CASE WaitBoot \/ WaitOpen
    <2>1. fromArd' \in Seq({"READY"})
      BY <1>2, ReadyInput DEF WaitBoot, WaitOpen, SeesReady, LineTypes
    <2> QED
      BY <1>2, <2>1 DEF WaitBoot, WaitOpen, LineTypes, shared
  <1>3. CASE ReadChunk
    <2>1. PICK n \in 1 .. Len(fromArd) :
            /\ recvQ' = recvQ \o SubSeq(fromArd, 1, n)
            /\ fromArd' = SubSeq(fromArd, n + 1, Len(fromArd))
      BY <1>3 DEF ReadChunk
    <2>2. recvQ' \in Seq({"READY"}) /\ fromArd' \in Seq({"READY"})
      BY <2>1, ReadyInput, ConcatProperties DEF LineTypes
    <2> QED
      BY <1>3, <2>2 DEF ReadChunk, LineTypes
  <1>4. CASE SendOpen \/ SerialWrite
    <2>1. \A l \in Lines : WriteRaw(l) =>
            toArd' \in Seq(Lines) /\ sent' \in [Handles -> {"none"} \cup Lines]
      BY WriteTypes DEF WriteRaw, LineTypes, Places, PlaceTypes
    <2>2. toArd' \in Seq(Lines) /\ sent' \in [Handles -> {"none"} \cup Lines]
      BY <1>4, <2>1 DEF SendOpen, SerialWrite, Lines, RestTypes
    <2> QED
      BY <1>4, <2>2 DEF SendOpen, SerialWrite, LineTypes
  <1>5. CASE ManagerWritesX \/ MainWritesX
    <2>1. \A h \in {None} \cup Handles :
            WriteClose(h) => toArd' \in Seq(Lines) /\ sent' \in [Handles -> {"none"} \cup Lines]
      BY WriteTypes DEF WriteClose, Usable, Lines, LineTypes
    <2>2. toArd' \in Seq(Lines) /\ sent' \in [Handles -> {"none"} \cup Lines]
      BY <1>5, <2>1 DEF ManagerWritesX, MainWritesX, Places, PlaceTypes
    <2> QED
      BY <1>5, <2>2 DEF ManagerWritesX, MainWritesX, LineTypes, shared
  <1>6. CASE OpenFails \/ HandOver \/ GiveUp \/ Connect \/ Announce \/ ReadEnds \/ Finally
               \/ ManagerTakes \/ ManagerShuts \/ PublishStop \/ Retry \/ CloseGivenUp
               \/ WaitRaises
    BY <1>6 DEF OpenFails, HandOver, GiveUp, Connect, Announce, ReadEnds, Finally,
       ManagerTakes, ManagerShuts, PublishStop, Retry, CloseGivenUp, WaitRaises, LineTypes,
       shared, world
  <1>7. CASE ParseReady
    <2>1. Tail(recvQ) \in Seq({"READY"})
      BY <1>7, HeadTailProperties DEF ParseReady, LineTypes
    <2> QED
      BY <1>7, <2>1 DEF ParseReady, LineTypes, world
  <1>8. CASE CmdVel \/ Watchdog \/ CmdVelSilent \/ CheckConnected \/ Interrupt \/ StopRunning
               \/ Disconnect \/ MainTakes \/ MainShuts \/ Exit
    BY <1>8 DEF CmdVel, Watchdog, CmdVelSilent, CheckConnected, Interrupt, StopRunning,
       Disconnect, MainTakes, MainShuts, Exit, LineTypes, shared, world
  <1>9. CASE World
    <2>1. <<>> \in Seq({"READY"}) /\ <<>> \in Seq(Lines)
      OBVIOUS
    <2>2. Append(fromArd, "READY") \in Seq({"READY"})
      BY AppendProperties DEF LineTypes
    <2>3. toArd # <<>> => Tail(toArd) \in Seq(Lines)
      BY HeadTailProperties DEF LineTypes
    <2> QED
      BY <1>9, <2>1, <2>2, <2>3 DEF World, ArduinoBoots, ArduinoReads, ArduinoReboots, Unplug,
         SendReady, LineTypes, shared
  <1>10. CASE UNCHANGED vars
    BY <1>10 DEF LineTypes, vars, shared, world
  <1> QED
    BY <1>1, <1>2, <1>3, <1>4, <1>5, <1>6, <1>7, <1>8, <1>9, <1>10 DEF Next, Manager, Main

LEMMA RestStep == LineTypes /\ RestTypes /\ Places /\ [Next]_vars => RestTypes'
  <1> SUFFICES ASSUME LineTypes, RestTypes, Places, [Next]_vars PROVE RestTypes'
    OBVIOUS
  <1> USE DEF RestTypes
  <1>1. CASE GiveUp \/ CloseGivenUp \/ ManagerShuts \/ MainShuts
    <2>1. GiveUp \/ CloseGivenUp => mgrSer \in Handles
      BY DEF GiveUp, CloseGivenUp, Places, PlaceTypes, PortInv, Dialling
    <2>2. ManagerShuts => mgrTook \in Handles
      BY DEF ManagerShuts, Places, PlaceTypes, PortInv
    <2>3. MainShuts => mainTook \in Handles
      BY DEF MainShuts, Places, PlaceTypes, PortInv
    <2> QED
      BY <1>1, <2>1, <2>2, <2>3 DEF GiveUp, CloseGivenUp, ManagerShuts, MainShuts, shared,
         mgrVars, mainVars, world, ardVars
  <1>2. CASE OpenPort
    BY <1>2 DEF OpenPort, shared, mainVars
  <1>3. CASE OpenFails \/ HandOver \/ Connect \/ ReadEnds \/ ManagerTakes \/ Retry \/ WaitRaises
    BY <1>3 DEF OpenFails, HandOver, Connect, ReadEnds, ManagerTakes, Retry, WaitRaises, shared,
       mainVars, world, ardVars
  <1>4. CASE WaitBoot \/ WaitOpen \/ ReadChunk \/ ManagerWritesX \/ SendOpen
    BY <1>4 DEF WaitBoot, WaitOpen, ReadChunk, ManagerWritesX, SendOpen, shared, mgrVars,
       mainVars, ardVars
  <1>5. CASE Announce \/ PublishStop
    BY <1>5 DEF Announce, PublishStop, mainVars, world, ardVars
  <1>6. CASE Finally
    BY <1>6 DEF Finally, Places, PlaceTypes, mainVars, world, ardVars
  <1>7. CASE CmdVel \/ Watchdog \/ CmdVelSilent
    BY <1>7 DEF CmdVel, Watchdog, CmdVelSilent, mgrVars, mainVars, world, ardVars
  <1>8. CASE Interrupt \/ CheckConnected \/ StopRunning \/ Disconnect \/ MainTakes \/ ParseReady
               \/ Exit
    BY <1>8 DEF Interrupt, CheckConnected, StopRunning, Disconnect, MainTakes, ParseReady, Exit,
       shared, mgrVars, mainVars, world, ardVars
  <1>9. CASE SerialWrite \/ MainWritesX
    BY <1>9 DEF SerialWrite, MainWritesX, shared, mgrVars, ardVars
  <1>10. CASE ArduinoBoots \/ ArduinoReads
    BY <1>10 DEF ArduinoBoots, ArduinoReads, shared, mgrVars, mainVars
  <1>11. CASE ArduinoReboots
    <2>1. reboots' \in 0 .. MAX_REBOOTS
      BY <1>11, BridgeAssumption DEF ArduinoReboots
    <2> QED
      BY <1>11, <2>1 DEF ArduinoReboots, shared, mgrVars, mainVars
  <1>12. CASE Unplug
    BY <1>12 DEF Unplug, PortUp, Usable, Places, PlaceTypes, Handles, None, shared, mgrVars,
       mainVars, ardVars
  <1>13. CASE UNCHANGED vars
    BY <1>13 DEF vars, shared, mgrVars, mainVars, world, ardVars
  <1> QED
    BY <1>1, <1>2, <1>3, <1>4, <1>5, <1>6, <1>7, <1>8, <1>9, <1>10, <1>11, <1>12, <1>13
       DEF Next, Manager, Main, World

LEMMA DataInit == Init => LineTypes /\ RestTypes
  <1> SUFFICES ASSUME Init PROVE LineTypes /\ RestTypes
    OBVIOUS
  <1>1. LineTypes
    BY DEF Init, LineTypes
  <1>2. reboots \in 0 .. MAX_REBOOTS
    BY BridgeAssumption DEF Init
  <1>3. RestTypes
    BY <1>2 DEF Init, RestTypes
  <1> QED
    BY <1>1, <1>3

LEMMA DataAlways == Spec => [](LineTypes /\ RestTypes)
  BY DataInit, LineStep, RestStep, PlacesAlways, PTL DEF Spec

\* Whatever the threads, the Arduino and the cable do, the shared state keeps
\* its types and the three references to a port are to the last one opened.
THEOREM BridgeTypes == Spec => []TypeOK
  <1>1. LineTypes /\ RestTypes /\ Places => TypeOK
    BY DEF LineTypes, RestTypes, Places, PlaceTypes, TypeOK
  <1> QED
    BY <1>1, DataAlways, PlacesAlways, PTL

-----------------------------------------------------------------------------
(* O first, X last. *)

\* What LineOrder says of one step.
OrderKept ==
  \A h \in Handles :
    /\ sent[h] = "none" => sent'[h] \in {"none", "O", "X"}
    /\ sent[h] = "X" => sent'[h] = "X"

\* All the above, on which the rest builds.
Known == LineTypes /\ RestTypes /\ Places

LEMMA OrderWrite ==
  ASSUME Known, OrderInv, NEW h \in Handles, NEW l \in Lines, Write(h, l)
  PROVE  sent'[h] = l /\ \A g \in Handles \ {h} : sent'[g] = sent[g]
  BY DEF Known, LineTypes, Write

LEMMA OrderSends == Known /\ OrderInv /\ (SendOpen \/ SerialWrite) => OrderInv' /\ OrderKept
  <1> SUFFICES ASSUME Known, OrderInv, SendOpen \/ SerialWrite PROVE OrderInv' /\ OrderKept
    OBVIOUS
  <1>1. PICK k \in Lines : WriteRaw(k) /\ (SendOpen => k = "O") /\ k # "X"
    BY DEF SendOpen, SerialWrite, Known, RestTypes, Lines
  <1>2. /\ UNCHANGED <<opens, mgrSer, ser, closed, broken>>
        /\ SendOpen => mgr = "sendO" /\ mgr' = "waitO"
        /\ ~SendOpen => mgr' = mgr /\ main \in {"write", "writeS"}
    BY DEF SendOpen, SerialWrite, mgrVars
  <1>3. CASE ser = None \/ ~Usable(ser)
    <2>1. UNCHANGED sent
      BY <1>1, <1>3 DEF WriteRaw
    <2>2. Usable(ser)' <=> Usable(ser)
      BY <1>2 DEF Usable
    <2>3. OrderInv'
      BY <1>2, <1>3, <2>1, <2>2 DEF OrderInv, AfterOpen
    <2> QED
      BY <2>1, <2>3 DEF OrderKept
  <1>4. CASE ser # None /\ Usable(ser)
    <2>1. Write(ser, k) /\ ser \in Handles /\ ser = opens /\ ser = mgrSer
      BY <1>1, <1>4 DEF WriteRaw, Known, Places, PlaceTypes, PortInv
    <2>2. sent'[ser] = k /\ \A g \in Handles \ {ser} : sent'[g] = sent[g]
      BY <2>1, OrderWrite
    <2>3. ~SendOpen => sent[ser] # "none"
      BY <1>2, <1>4 DEF Known, Places, PortInv, UpInv, EndInv, OrderInv, AfterOpen, Serving,
         Calling, Dialling
    <2>4. mgr' \notin {"bootwait", "handover"}
      BY <1>2, <1>4 DEF Known, Places, PortInv, Serving
    <2>5. OrderInv'
      BY <1>1, <1>2, <2>1, <2>2, <2>4 DEF OrderInv, Handles, Lines
    <2>6. OrderKept
      BY <1>1, <1>4, <2>2, <2>3, <1>2 DEF OrderKept, OrderInv
    <2> QED
      BY <2>5, <2>6
  <1> QED
    BY <1>3, <1>4

LEMMA OrderCloses ==
  Known /\ OrderInv /\ (ManagerWritesX \/ MainWritesX) => OrderInv' /\ OrderKept
  <1> SUFFICES ASSUME Known, OrderInv, ManagerWritesX \/ MainWritesX PROVE OrderInv' /\ OrderKept
    OBVIOUS
  <1>1. PICK h \in Handles :
          WriteClose(h) /\ h = opens /\ ser = None /\ mgr \notin {"bootwait", "handover"}
    BY DEF ManagerWritesX, MainWritesX, Known, Places, PlaceTypes, PortInv
  <1>2. UNCHANGED <<opens, ser>> /\ mgr' \in {mgr, "shut"}
    BY DEF ManagerWritesX, MainWritesX, shared, mgrVars
  <1>3. \A g \in Handles : sent'[g] = sent[g] \/ (g = h /\ sent'[g] = "X")
    <2>1. CASE Write(h, "X")
      BY <2>1, OrderWrite DEF Lines
    <2>2. CASE UNCHANGED sent
      BY <2>2
    <2> QED
      BY <1>1, <2>1, <2>2 DEF WriteClose
  <1>4. OrderInv'
    BY <1>1, <1>2, <1>3 DEF OrderInv, Handles
  <1>5. OrderKept
    BY <1>3 DEF OrderKept
  <1> QED
    BY <1>4, <1>5

LEMMA OrderStep == Known /\ OrderInv /\ [Next]_vars => OrderInv' /\ OrderKept
  <1> SUFFICES ASSUME Known, OrderInv, [Next]_vars PROVE OrderInv' /\ OrderKept
    OBVIOUS
  <1>1. CASE SendOpen \/ SerialWrite \/ ManagerWritesX \/ MainWritesX
    BY <1>1, OrderSends, OrderCloses
  <1>2. ASSUME UNCHANGED sent PROVE OrderKept
    BY <1>2 DEF OrderKept
  <1> USE DEF OrderInv, AfterOpen, Usable
  <1>3. CASE OpenPort
    <2>1. opens + 1 \in Handles /\ opens + 1 > opens
      BY <1>3, BridgeAssumption DEF OpenPort, Known, Places, PlaceTypes, Handles
    <2>2. ser = None /\ UNCHANGED <<ser, sent>>
      BY <1>3 DEF OpenPort, Known, Places, PortInv, Serving, shared
    <2>3. OrderInv'
      BY <1>3, <2>1, <2>2, BridgeAssumption DEF OpenPort, Known, Places, PlaceTypes, Handles
    <2> QED
      BY <1>2, <2>2, <2>3
  <1>4. CASE HandOver
    <2>1. sent[mgrSer] = "none" /\ ser' = mgrSer /\ mgr' = "sendO" /\ UNCHANGED <<sent, opens>>
      BY <1>4 DEF HandOver, world
    <2> QED
      BY <1>2, <2>1
  <1>5. CASE WaitOpen
    <2>1. Usable(ser) \/ ser = None
      BY <1>5 DEF WaitOpen, SeesReady, Known, Places, PlaceTypes
    <2>2. UNCHANGED <<sent, opens, ser, closed, broken>> /\ mgr = "waitO" /\ mgr' = "connect"
      BY <1>5 DEF WaitOpen, shared
    <2> QED
      BY <1>2, <2>1, <2>2
  <1>6. CASE WaitBoot \/ WaitRaises \/ Connect \/ Announce \/ ReadChunk \/ ReadEnds \/ Finally
    BY <1>2, <1>6 DEF WaitBoot, WaitRaises, Connect, Announce, ReadChunk, ReadEnds, Finally,
       shared, mgrVars, world
  <1>7. CASE OpenFails \/ GiveUp \/ CloseGivenUp \/ ManagerTakes \/ ManagerShuts \/ PublishStop
               \/ Retry
    <2>1. UNCHANGED <<sent, opens>> /\ mgr' \notin {"bootwait", "handover"} /\ ser' = None
      BY <1>7 DEF OpenFails, GiveUp, CloseGivenUp, ManagerTakes, ManagerShuts, PublishStop, Retry,
         Known, Places, PortInv, Serving, shared, world
    <2> QED
      BY <1>2, <2>1
  <1>8. CASE CmdVel \/ Watchdog \/ CmdVelSilent \/ CheckConnected \/ ParseReady \/ Interrupt
               \/ StopRunning \/ Disconnect
    <2>1. UNCHANGED <<sent, opens, ser, mgr, mgrSer, closed, broken>>
      BY <1>8 DEF CmdVel, Watchdog, CmdVelSilent, CheckConnected, ParseReady, Interrupt,
         StopRunning, Disconnect, shared, mgrVars, world
    <2> QED
      BY <1>2, <2>1
  <1>9. CASE MainTakes \/ MainShuts \/ Exit \/ World
    <2>1. /\ UNCHANGED <<sent, opens, mgrSer>> /\ ser' \in {ser, None} /\ mgr' \in {mgr, "killed"}
          /\ closed \subseteq closed' /\ broken \subseteq broken'
      BY <1>9 DEF MainTakes, MainShuts, Exit, World, ArduinoBoots, ArduinoReads, ArduinoReboots,
         Unplug, shared, mgrVars, world
    <2> QED
      BY <1>2, <2>1
  <1>10. CASE UNCHANGED vars
    BY <1>2, <1>10 DEF vars, shared, mgrVars, world
  <1> QED
    BY <1>1, <1>3, <1>4, <1>5, <1>6, <1>7, <1>8, <1>9, <1>10 DEF Next, Manager, Main

LEMMA KnownAlways == Spec => []Known
  BY DataAlways, PlacesAlways, PTL DEF Known

LEMMA OrderAlways == Spec => []OrderInv
  <1>1. Init => OrderInv
    BY DEF Init, OrderInv, None
  <1>2. Known /\ OrderInv /\ [Next]_vars => OrderInv'
    BY OrderStep
  <1> QED
    BY <1>1, <1>2, KnownAlways, PTL DEF Spec

\* Over any number of sessions each begins with O and ends with X, whichever
\* thread writes and whenever the connection goes.
THEOREM OrderSafety == Spec => LineOrder
  <1>1. Known /\ OrderInv /\ [Next]_vars =>
          [\A h \in Handles :
             /\ sent[h] = "none" => sent'[h] \in {"none", "O", "X"}
             /\ sent[h] = "X" => sent'[h] = "X"]_vars
    BY OrderStep DEF OrderKept
  <1> QED
    BY <1>1, KnownAlways, OrderAlways, PTL DEF Spec, LineOrder

-----------------------------------------------------------------------------
(* Shutting down stops the wheels. *)

LEMMA OpenStep == Known /\ OpenInv /\ [Next]_vars => OpenInv'
  <1> SUFFICES ASSUME Known, OpenInv, [Next]_vars PROVE OpenInv'
    OBVIOUS
  <1> USE DEF OpenInv, Known, Places, PlaceTypes, PortInv, Serving, Dialling, Handles, None
  <1>1. CASE OpenPort
    <2>1. opens' = opens + 1 /\ opens + 1 \notin closed
      BY <1>1 DEF OpenPort
    <2> QED
      BY <1>1, <2>1 DEF OpenPort, shared
  <1>2. CASE HandOver
    BY <1>2 DEF HandOver, mgrVars, world
  <1>3. CASE GiveUp \/ CloseGivenUp \/ ManagerShuts
    <2>1. /\ opens \in 1 .. opens /\ closed' \in {closed, closed \cup {opens}} /\ UNCHANGED opens
          /\ ser' = None /\ mgr' \in {"giveup", "finally", "status"}
      BY <1>3 DEF GiveUp, CloseGivenUp, ManagerShuts, shared, world
    <2> QED
      BY <2>1
  <1>4. CASE ManagerTakes
    BY <1>4 DEF ManagerTakes, world
  <1>5. CASE WaitBoot \/ WaitOpen \/ ReadChunk \/ SendOpen \/ ManagerWritesX
    BY <1>5 DEF WaitBoot, WaitOpen, ReadChunk, SendOpen, ManagerWritesX, shared, mgrVars
  <1>6. CASE OpenFails \/ Connect \/ Announce \/ ReadEnds \/ Finally \/ PublishStop \/ Retry
               \/ WaitRaises
    BY <1>6 DEF OpenFails, Connect, Announce, ReadEnds, Finally, PublishStop, Retry, WaitRaises,
       shared, world
  <1>7. CASE CmdVel \/ Watchdog \/ CmdVelSilent \/ CheckConnected \/ ParseReady \/ Interrupt
               \/ StopRunning \/ Disconnect \/ SerialWrite \/ MainWritesX \/ World
    <2>1. UNCHANGED <<opens, ser, mgr, mgrSer, mgrTook, closed>>
      BY <1>7 DEF CmdVel, Watchdog, CmdVelSilent, CheckConnected, ParseReady, Interrupt,
         StopRunning, Disconnect, SerialWrite, MainWritesX, World, ArduinoBoots, ArduinoReads,
         ArduinoReboots, Unplug, shared, mgrVars, world
    <2> QED
      BY <2>1
  <1>8. CASE MainTakes \/ Exit
    BY <1>8 DEF MainTakes, Exit, shared, mgrVars, world
  <1>9. CASE MainShuts
    <2>1. mainTook = opens /\ ser = None /\ mgr \notin {"writeX", "bootwait", "handover"}
      BY <1>9 DEF MainShuts
    <2> QED
      BY <1>9, <2>1 DEF MainShuts, shared, mgrVars
  <1>10. CASE UNCHANGED vars
    BY <1>10 DEF vars, shared, mgrVars, world
  <1> QED
    BY <1>1, <1>2, <1>3, <1>4, <1>5, <1>6, <1>7, <1>8, <1>9, <1>10 DEF Next, Manager, Main

LEMMA OpenAlways == Spec => []OpenInv
  <1>1. Init => OpenInv
    BY DEF Init, OpenInv, None
  <1> QED
    BY <1>1, OpenStep, KnownAlways, PTL DEF Spec

\* Of what is written last it depends whether the wheels will move, and reading
\* does not change it.
LEMMA WillMoveWrite ==
  ASSUME Known, NEW h \in Handles, h = opens, NEW l \in Lines, Write(h, l)
  PROVE  WillMove' <=> l = "V"
  <1>1. toArd' = Append(toArd, l)
    BY DEF Write
  <1>2. toArd' # <<>> /\ toArd'[Len(toArd')] = l
    BY <1>1, AppendProperties DEF Known, LineTypes
  <1> QED
    BY <1>2 DEF WillMove

LEMMA WillMoveRead == Known /\ ArduinoReads => (WillMove' <=> WillMove)
  <1> SUFFICES ASSUME Known, ArduinoReads PROVE WillMove' <=> WillMove
    OBVIOUS
  <1>1. toArd \in Seq(Lines) /\ toArd # <<>> /\ toArd' = Tail(toArd)
    BY DEF Known, LineTypes, ArduinoReads
  <1>2. moving' = TRUE <=> Head(toArd) = "V"
    BY DEF ArduinoReads
  <1>3. /\ Len(Tail(toArd)) = Len(toArd) - 1
        /\ \A i \in 1 .. Len(Tail(toArd)) : Tail(toArd)[i] = toArd[i + 1]
    BY <1>1, HeadTailProperties
  <1>4. CASE Len(toArd) = 1
    BY <1>1, <1>2, <1>3, <1>4 DEF WillMove
  <1>5. CASE Len(toArd) > 1
    <2>1. toArd' # <<>> /\ toArd'[Len(toArd')] = toArd[Len(toArd)]
      BY <1>1, <1>3, <1>5
    <2> QED
      BY <1>1, <2>1 DEF WillMove
  <1>6. Len(toArd) = 1 \/ Len(toArd) > 1
    BY <1>1, <1>3
  <1> QED
    BY <1>4, <1>5, <1>6

StopKnown == Known /\ OpenInv /\ OrderInv

LEMMA MoveManager == StopKnown /\ MoveInv /\ Manager => MoveInv'
  <1> SUFFICES ASSUME StopKnown, MoveInv, Manager PROVE MoveInv'
    OBVIOUS
  <1> USE DEF MoveInv, AfterOpen, Dialling
  <1>1. CASE OpenPort
    <2>1. ~(broken = {} /\ WillMove)
      BY <1>1 DEF OpenPort, StopKnown, Known, Places, PortInv, EndInv
    <2>2. ~(broken' = {} /\ WillMove')
      BY <1>1, <2>1 DEF OpenPort, WillMove
    <2>3. ard' = "boot" => moving' = FALSE
      BY <1>1 DEF OpenPort
    <2> QED
      BY <2>2, <2>3
  <1>2. CASE SendOpen
    <2>1. ~(broken = {} /\ WillMove)
      BY <1>2 DEF SendOpen, StopKnown, Known, Places, PortInv
    <2>2. Write(ser, "O") /\ ser # None => ~WillMove'
      BY WillMoveWrite DEF StopKnown, Known, Places, PlaceTypes, PortInv, Lines
    <2>3. UNCHANGED toArd \/ ~WillMove'
      BY <1>2, <2>2 DEF SendOpen, WriteRaw
    <2>4. UNCHANGED <<broken, ard, moving>>
      BY <1>2 DEF SendOpen, ardVars
    <2> QED
      BY <2>1, <2>3, <2>4 DEF WillMove
  <1>3. CASE ManagerWritesX
    <2>1. mgrTook \in Handles /\ mgrTook = opens /\ mgrTook # None /\ mgrTook \notin closed
      BY <1>3 DEF ManagerWritesX, StopKnown, Known, OpenInv, Places, PlaceTypes, PortInv
    <2>2. broken = {} => ~WillMove'
      BY <1>3, <2>1, WillMoveWrite DEF ManagerWritesX, WriteClose, Usable, StopKnown, Lines
    <2>3. UNCHANGED <<broken, ard, moving>>
      BY <1>3 DEF ManagerWritesX, ardVars
    <2> QED
      BY <2>2, <2>3
  <1>4. ASSUME UNCHANGED <<toArd, moving, ard, broken>>,
               WillMove /\ broken = {} =>
                 \/ ser' # None /\ mgr' \in AfterOpen \ {"waitO", "connect"}
                    /\ main' \notin {"writeX", "shut", "gone"}
                 \/ main' = "writeX" /\ mainTook' \notin closed' /\ mgr' \notin Dialling
                 \/ mgrTook' # None /\ mgr' \in {"writeX", "killed"} /\ sent'[mgrTook'] # "X"
        PROVE  MoveInv'
    BY <1>4 DEF WillMove
  <1>5. CASE WaitBoot \/ HandOver \/ WaitOpen \/ GiveUp \/ CloseGivenUp \/ WaitRaises
               \/ ManagerShuts
    <2>1. ~(broken = {} /\ WillMove)
      BY <1>5 DEF WaitBoot, HandOver, WaitOpen, GiveUp, CloseGivenUp, WaitRaises, ManagerShuts,
         StopKnown, Known, Places, PortInv
    <2>2. UNCHANGED <<toArd, moving, ard, broken>>
      BY <1>5 DEF WaitBoot, HandOver, WaitOpen, GiveUp, CloseGivenUp, WaitRaises, ManagerShuts,
         world, ardVars
    <2> QED
      BY <1>4, <2>1, <2>2
  <1>6. CASE ManagerTakes
    <2>1. UNCHANGED <<toArd, moving, ard, broken, main, mainTook, closed, sent>>
      BY <1>6 DEF ManagerTakes, mainVars, world, ardVars
    <2>2. ser # None => sent[ser] # "X"
      BY DEF StopKnown, OrderInv
    <2> QED
      BY <1>4, <1>6, <2>1, <2>2 DEF ManagerTakes
  <1>7. CASE OpenFails \/ Connect \/ Announce \/ ReadEnds \/ Finally \/ PublishStop \/ Retry
               \/ ReadChunk
    <2>1. UNCHANGED <<toArd, moving, ard, broken, main, mainTook, closed, ser, mgrTook, sent>>
      BY <1>7 DEF OpenFails, Connect, Announce, ReadEnds, Finally, PublishStop, Retry, ReadChunk,
         shared, mgrVars, mainVars, world, ardVars
    <2>2. \/ mgr \in {"announce", "read"} /\ mgr' \in {"read", "finally"}
          \/ mgr = "finally" /\ mgr' = "take"
          \/ mgr \in {"open", "connect", "status", "sleep"}
             /\ mgr' \in {"finally", "announce", "sleep", "done", "open"}
      BY <1>7 DEF OpenFails, Connect, Announce, ReadEnds, Finally, PublishStop, Retry, ReadChunk,
         mgrVars
    <2> QED
      BY <1>4, <2>1, <2>2
  <1> QED
    BY <1>1, <1>2, <1>3, <1>5, <1>6, <1>7 DEF Manager

LEMMA MoveMain == StopKnown /\ MoveInv /\ (Main \/ CmdVelSilent \/ Exit) => MoveInv'
  <1> SUFFICES ASSUME StopKnown, MoveInv, Main \/ CmdVelSilent \/ Exit PROVE MoveInv'
    OBVIOUS
  <1> USE DEF MoveInv, AfterOpen, Dialling
  <1>1. CASE CmdVel \/ Watchdog \/ CmdVelSilent \/ CheckConnected \/ ParseReady \/ Interrupt
               \/ StopRunning \/ Disconnect
    <2>1. /\ UNCHANGED <<toArd, moving, ard, broken, closed, ser, mgr, mgrTook, sent>>
          /\ main' \notin {"writeX", "shut", "gone"} \/ UNCHANGED <<main, mainTook>>
          /\ main # "writeX" \/ UNCHANGED <<main, mainTook>>
      BY <1>1 DEF CmdVel, Watchdog, CmdVelSilent, CheckConnected, ParseReady, Interrupt,
         StopRunning, Disconnect, shared, mgrVars, mainVars, world, ardVars
    <2> QED
      BY <2>1 DEF WillMove
  <1>2. CASE SerialWrite
    <2>1. /\ UNCHANGED <<moving, ard, broken, closed, ser, mgr, mgrTook>>
          /\ main \in {"write", "writeS"} /\ main' \in {"idle", "halt"}
      BY <1>2 DEF SerialWrite, mgrVars, ardVars
    <2>2. UNCHANGED <<toArd, sent>> \/ ser # None
      BY <1>2 DEF SerialWrite, WriteRaw
    <2>3. ser # None => mgr \in AfterOpen \ {"waitO", "connect"}
      BY <2>1 DEF StopKnown, Known, Places, PortInv, UpInv, EndInv, Serving, Calling
    <2> QED
      BY <2>1, <2>2, <2>3 DEF WillMove
  <1>3. CASE MainTakes
    <2>1. /\ UNCHANGED <<toArd, moving, ard, broken, closed, mgr, mgrTook, sent>>
          /\ main = "take" /\ (ser # None => main' = "writeX" /\ mainTook' = ser)
      BY <1>3 DEF MainTakes, mgrVars, world, ardVars
    <2>2. ser # None => ser \notin closed
      BY DEF StopKnown, OpenInv
    <2> QED
      BY <2>1, <2>2 DEF WillMove
  <1>4. CASE MainWritesX
    <2>1. mainTook \in Handles /\ mainTook = opens /\ mainTook # None /\ mgrTook = None
      BY <1>4 DEF MainWritesX, StopKnown, Known, Places, PlaceTypes, PortInv
    <2>2. UNCHANGED <<broken, ard, moving>> /\ main = "writeX"
      BY <1>4 DEF MainWritesX, ardVars
    <2>3. CASE mainTook \in closed \/ broken # {}
      <3>1. broken = {} => UNCHANGED toArd
        BY <1>4, <2>3 DEF MainWritesX, WriteClose, Usable
      <3> QED
        BY <2>1, <2>2, <2>3, <3>1 DEF WillMove
    <2>4. CASE mainTook \notin closed /\ broken = {}
      <3>1. ~WillMove'
        BY <1>4, <2>1, <2>4, WillMoveWrite DEF MainWritesX, WriteClose, Usable, StopKnown, Lines
      <3> QED
        BY <2>2, <3>1
    <2> QED
      BY <2>3, <2>4
  <1>5. CASE MainShuts
    <2>1. ~(broken = {} /\ WillMove)
      BY <1>5 DEF MainShuts, StopKnown, Known, Places, PortInv
    <2> QED
      BY <1>5, <2>1 DEF MainShuts, WillMove, ardVars
  <1>6. CASE Exit
    BY <1>6 DEF Exit, WillMove, mainVars, world, ardVars
  <1> QED
    BY <1>1, <1>2, <1>3, <1>4, <1>5, <1>6 DEF Main

LEMMA MoveWorld == StopKnown /\ MoveInv /\ (World \/ UNCHANGED vars) => MoveInv'
  <1> SUFFICES ASSUME StopKnown, MoveInv, World \/ UNCHANGED vars PROVE MoveInv'
    OBVIOUS
  <1> USE DEF MoveInv
  <1>1. World \/ UNCHANGED vars => UNCHANGED <<ser, mgr, mgrTook, main, mainTook, closed, sent>>
    BY DEF World, ArduinoBoots, ArduinoReads, ArduinoReboots, Unplug, vars, shared, mgrVars,
       mainVars, world
  <1>2. CASE ArduinoBoots
    BY <1>1, <1>2 DEF World, ArduinoBoots, WillMove
  <1>3. CASE ArduinoReads
    <2>1. WillMove' <=> WillMove
      BY <1>3, WillMoveRead DEF StopKnown
    <2>2. ard' # "boot" /\ UNCHANGED broken
      BY <1>3 DEF ArduinoReads
    <2> QED
      BY <1>1, <1>3, <2>1, <2>2 DEF World
  <1>4. CASE ArduinoReboots
    BY <1>4 DEF ArduinoReboots, WillMove
  <1>5. CASE Unplug
    BY <1>5 DEF Unplug, ardVars
  <1>6. CASE UNCHANGED vars
    BY <1>1, <1>6 DEF vars, world, ardVars, WillMove
  <1> QED
    BY <1>2, <1>3, <1>4, <1>5, <1>6 DEF World

\* After any number of sessions and reboots, once destroy_node is done and what
\* was written is read, the wheels have no target, if no line died and the
\* manager thread does not hold a port that it has not written X to.
THEOREM ShutdownSafety == Spec => []ShutdownStops
  <1>1. Init => MoveInv
    BY DEF Init, MoveInv, WillMove, None
  <1>2. Known /\ OpenInv /\ OrderInv /\ MoveInv /\ [Next]_vars => MoveInv'
    BY MoveManager, MoveMain, MoveWorld DEF Next, StopKnown
  <1>3. Known /\ MoveInv => ShutdownStops
    BY DEF Known, RestTypes, MoveInv, WillMove, ShutdownStops, None
  <1> QED
    BY <1>1, <1>2, <1>3, OpenAlways, OrderAlways, KnownAlways, PTL DEF Spec

-----------------------------------------------------------------------------
(* Who closes a port. *)

LEMMA GiveUpStep == Known /\ OrderInv /\ GiveUpInv /\ [Next]_vars => GiveUpInv'
  <1> SUFFICES ASSUME Known, OrderInv, GiveUpInv, [Next]_vars PROVE GiveUpInv'
    OBVIOUS
  <1> USE DEF GiveUpInv, Silent, Known, Places, PlaceTypes, PortInv, Serving, Dialling, None
  <1>0. ASSUME UNCHANGED <<sent, opens, gaveUp, mgrSer>>, ser' \in {ser, None},
               \/ mgr' \notin Dialling
               \/ mgr \in Dialling /\ mgr' \in Dialling \ {"giveup"}
               \/ mgr' = mgr,
               opens \in gaveUp => mgr' \in {"giveup", "finally", "take", "status", "sleep",
                                            "open", "done", "killed"}
        PROVE  GiveUpInv'
    BY <1>0
  <1>1. CASE OpenPort
    <2>1. /\ opens' = opens + 1 /\ mgrSer' = opens + 1 /\ UNCHANGED <<gaveUp, sent, ser>>
          /\ mgr' = "bootwait"
      BY <1>1 DEF OpenPort, shared
    <2>2. opens + 1 \in Handles /\ sent[opens + 1] = "none" /\ opens + 1 \notin gaveUp
      BY <1>1, BridgeAssumption DEF OpenPort, OrderInv, Handles
    <2> QED
      BY <2>1, <2>2
  <1>2. CASE HandOver
    <2>1. opens \notin gaveUp /\ UNCHANGED <<sent, opens, gaveUp, mgrSer>> /\ mgr' = "sendO"
      BY <1>2 DEF HandOver, world
    <2> QED
      BY <1>2, <2>1 DEF HandOver
  <1>3. CASE SendOpen \/ SerialWrite
    <2>1. /\ UNCHANGED <<opens, gaveUp, mgrSer, ser>>
          /\ (mgr = "sendO" /\ mgr' = "waitO") \/ mgr' = mgr
      BY <1>3 DEF SendOpen, SerialWrite, mgrVars
    <2>2. CASE UNCHANGED sent
      BY <1>0, <2>1, <2>2
    <2>3. CASE ~UNCHANGED sent
      <3>1. /\ ser \in Handles /\ ser = opens
            /\ \E l \in Lines : Write(ser, l) /\ (SendOpen => l = "O")
        BY <1>3, <2>3 DEF SendOpen, SerialWrite, WriteRaw, Usable, Lines, RestTypes
      <3>2. /\ \A g \in Handles \ {opens} : sent'[g] = sent[g]
            /\ SendOpen => sent'[opens] = "O"
        BY <3>1, OrderWrite
      <3>3. opens \notin gaveUp /\ gaveUp \subseteq Handles
        BY <3>1 DEF RestTypes
      <3>4. ~SendOpen => mgr \notin Dialling
        BY <1>3 DEF SerialWrite, UpInv, Calling
      <3> QED
        BY <1>3, <2>1, <3>1, <3>2, <3>3, <3>4 DEF SendOpen, SerialWrite, mgrVars
    <2> QED
      BY <2>2, <2>3
  <1>4. CASE GiveUp
    BY <1>4 DEF GiveUp, world
  <1>5. CASE ManagerWritesX \/ MainWritesX
    <2>1. /\ UNCHANGED <<opens, gaveUp, mgrSer, ser>>
          /\ (mgr = "writeX" /\ mgr' = "shut" /\ ser = None) \/ mgr' = mgr
      BY <1>5 DEF ManagerWritesX, MainWritesX, shared, mgrVars
    <2>2. \A g \in Handles : sent'[g] = sent[g] \/ sent'[g] = "X"
      BY <1>5, OrderWrite DEF ManagerWritesX, MainWritesX, WriteClose, Usable, Lines
    <2>3. gaveUp \subseteq Handles /\ (mgr \in Dialling => mgrSer \in Handles)
      BY DEF RestTypes
    <2> QED
      BY <2>1, <2>2, <2>3
  <1>6. CASE WaitBoot \/ WaitOpen \/ ReadChunk
    BY <1>0, <1>6 DEF WaitBoot, WaitOpen, ReadChunk, shared, mgrVars
  <1>7. CASE OpenFails \/ CloseGivenUp \/ WaitRaises \/ Connect \/ Announce \/ ReadEnds
               \/ Finally
    BY <1>0, <1>7 DEF OpenFails, CloseGivenUp, WaitRaises, Connect, Announce, ReadEnds, Finally,
       shared, world
  <1>8. CASE ManagerTakes \/ ManagerShuts \/ PublishStop \/ Retry
    BY <1>0, <1>8 DEF ManagerTakes, ManagerShuts, PublishStop, Retry, shared, world
  <1>9. CASE CmdVel \/ Watchdog \/ CmdVelSilent \/ CheckConnected \/ ParseReady \/ Interrupt
               \/ StopRunning \/ Disconnect \/ MainTakes \/ MainShuts \/ World \/ UNCHANGED vars
    <2>1. UNCHANGED <<sent, opens, gaveUp, mgrSer, mgr>> /\ ser' \in {ser, None}
      BY <1>9 DEF CmdVel, Watchdog, CmdVelSilent, CheckConnected, ParseReady, Interrupt,
         StopRunning, Disconnect, MainTakes, MainShuts, World, ArduinoBoots, ArduinoReads,
         ArduinoReboots, Unplug, vars, shared, mgrVars, world
    <2> QED
      BY <1>0, <2>1
  <1>10. CASE Exit
    BY <1>0, <1>10 DEF Exit, shared, world
  <1> QED
    BY <1>1, <1>2, <1>3, <1>4, <1>5, <1>6, <1>7, <1>8, <1>9, <1>10 DEF Next, Manager, Main

CloseKnown == Known /\ OpenInv /\ GiveUpInv

LEMMA CloseManager == CloseKnown /\ CloseInv /\ (Manager \/ Exit) => CloseInv'
  <1> SUFFICES ASSUME CloseKnown, CloseInv, Manager \/ Exit PROVE CloseInv'
    OBVIOUS
  <1> USE DEF CloseInv, CloseKnown, Known, Places, PlaceTypes, PortInv, Serving, None
  <1>1. CASE OpenPort
    BY <1>1 DEF OpenPort, EndInv, mainVars
  <1>2. CASE SendOpen
    <2>1. \/ UNCHANGED sent
          \/ main \notin {"writeX", "shut"}
      BY <1>2 DEF SendOpen, WriteRaw
    <2> QED
      BY <1>2, <2>1 DEF SendOpen, mainVars
  <1>3. CASE CloseGivenUp
    BY <1>3 DEF CloseGivenUp, GiveUpInv, mainVars
  <1>4. CASE GiveUp
    BY <1>4 DEF GiveUp, mainVars, world
  <1>5. CASE ManagerTakes
    BY <1>5 DEF ManagerTakes, OpenInv, mainVars, world
  <1>6. CASE ManagerWritesX
    <2>1. mgrTook \in Handles /\ mgrTook \notin closed /\ main \notin {"writeX", "shut"}
      BY <1>6 DEF ManagerWritesX
    <2>2. mgrTook \notin broken => sent'[mgrTook] = "X"
      BY <1>6, <2>1 DEF ManagerWritesX, WriteClose, Write, Usable, LineTypes
    <2> QED
      BY <1>6, <2>1, <2>2 DEF ManagerWritesX, mainVars
  <1>7. CASE ManagerShuts
    BY <1>7 DEF ManagerShuts, mainVars
  <1>8. CASE WaitBoot \/ WaitOpen \/ ReadChunk
    BY <1>8 DEF WaitBoot, WaitOpen, ReadChunk, mgrVars, mainVars
  <1>9. CASE OpenFails \/ HandOver \/ WaitRaises \/ Connect \/ Announce \/ ReadEnds \/ Finally
               \/ PublishStop \/ Retry \/ Exit
    <2>1. /\ UNCHANGED <<closed, broken, sent, gaveUp, main, mainTook>>
          /\ mgr' \notin {"writeX", "shut"}
      BY <1>9 DEF OpenFails, HandOver, WaitRaises, Connect, Announce, ReadEnds, Finally,
         PublishStop, Retry, Exit, mainVars, world
    <2> QED
      BY <2>1
  <1> QED
    BY <1>1, <1>2, <1>3, <1>4, <1>5, <1>6, <1>7, <1>8, <1>9 DEF Manager

LEMMA CloseMain == CloseKnown /\ CloseInv /\ (Main \/ CmdVelSilent) => CloseInv'
  <1> SUFFICES ASSUME CloseKnown, CloseInv, Main \/ CmdVelSilent PROVE CloseInv'
    OBVIOUS
  <1> USE DEF CloseInv, CloseKnown, Known, Places, PlaceTypes, PortInv, Serving, None
  <1>1. CASE CmdVel \/ Watchdog \/ CmdVelSilent \/ CheckConnected \/ ParseReady \/ Interrupt
               \/ StopRunning \/ Disconnect
    <2>1. /\ UNCHANGED <<closed, broken, sent, gaveUp, mgr, mgrTook>>
          /\ main' \notin {"writeX", "shut"} \/ UNCHANGED <<main, mainTook>>
      BY <1>1 DEF CmdVel, Watchdog, CmdVelSilent, CheckConnected, ParseReady, Interrupt,
         StopRunning, Disconnect, mgrVars, mainVars, world
    <2> QED
      BY <2>1
  <1>2. CASE SerialWrite
    <2>1. UNCHANGED sent \/ mgr \notin {"writeX", "shut"}
      BY <1>2 DEF SerialWrite, WriteRaw
    <2> QED
      BY <1>2, <2>1 DEF SerialWrite, mgrVars
  <1>3. CASE MainTakes
    BY <1>3 DEF MainTakes, OpenInv, mgrVars, world
  <1>4. CASE MainWritesX
    <2>1. mainTook \in Handles /\ mgr \notin {"writeX", "shut"}
      BY <1>4 DEF MainWritesX
    <2>2. Usable(mainTook) => sent'[mainTook] = "X"
      BY <1>4, <2>1 DEF MainWritesX, WriteClose, Write, LineTypes
    <2> QED
      BY <1>4, <2>1, <2>2 DEF MainWritesX, Usable, mgrVars
  <1>5. CASE MainShuts
    BY <1>5 DEF MainShuts, mgrVars
  <1> QED
    BY <1>1, <1>2, <1>3, <1>4, <1>5 DEF Main

LEMMA CloseStep == CloseKnown /\ CloseInv /\ [Next]_vars => CloseInv'
  <1>1. World \/ UNCHANGED vars =>
          /\ UNCHANGED <<mgr, mgrTook, main, mainTook, closed, sent, gaveUp>>
          /\ broken \subseteq broken'
    BY DEF World, ArduinoBoots, ArduinoReads, ArduinoReboots, Unplug, vars, shared, mgrVars,
       mainVars, world
  <1>2. CloseInv /\ (World \/ UNCHANGED vars) => CloseInv'
    BY <1>1 DEF CloseInv
  <1> QED
    BY <1>2, CloseManager, CloseMain DEF Next

\* However the end of a session, a failing handshake and destroy_node
\* interleave: an object is closed once and after X unless its line died, or
\* _open_port gave up on it and nothing but O and X was ever written to it.
THEOREM CloseSafety == Spec => ClosedByOne
  <1>1. Init => GiveUpInv /\ CloseInv
    BY DEF Init, GiveUpInv, CloseInv, Dialling
  <1>2. Known /\ OrderInv /\ GiveUpInv /\ [Next]_vars => GiveUpInv'
    BY GiveUpStep
  <1>3. Known /\ OpenInv /\ GiveUpInv /\ CloseInv /\ [Next]_vars => CloseInv'
    BY CloseStep DEF CloseKnown
  <1>4. Known /\ GiveUpInv /\ CloseInv =>
          [\A h \in Handles : Closes(h) =>
             \/ h \notin closed /\ (sent[h] = "X" \/ h \in broken)
             \/ h \in gaveUp /\ sent[h] \in {"none", "O", "X"}]_vars
    <2> SUFFICES ASSUME Known, GiveUpInv, CloseInv, NEW h \in Handles, Closes(h)
                 PROVE  \/ h \notin closed /\ (sent[h] = "X" \/ h \in broken)
                        \/ h \in gaveUp /\ sent[h] \in {"none", "O", "X"}
      OBVIOUS
    <2>1. CASE ManagerShuts /\ h = mgrTook
      BY <2>1 DEF ManagerShuts, CloseInv
    <2>2. CASE MainShuts /\ h = mainTook
      BY <2>2 DEF MainShuts, CloseInv, GiveUpInv, Silent
    <2>3. CASE CloseGivenUp /\ h = mgrSer
      BY <2>3 DEF CloseGivenUp, GiveUpInv, Silent
    <2> QED
      BY <2>1, <2>2, <2>3 DEF Closes
  <1> QED
    BY <1>1, <1>2, <1>3, <1>4, OpenAlways, OrderAlways, KnownAlways, PTL DEF Spec, ClosedByOne
=============================================================================
