------------------------------- MODULE Bridge -------------------------------
(***************************************************************************)
(* The connection life cycle of arduino_bridge_node.py: the serial-manager *)
(* thread that opens, reads and closes the port, and the main thread that  *)
(* runs the ROS callbacks and, at the end, destroy_node.  They share       *)
(* _connected, _running, _ser and the receive queue; only _ser is guarded  *)
(* by a lock, so every access to one of the others is a step of its own.   *)
(*                                                                         *)
(* The Arduino and the USB line are external: the Arduino answers O with   *)
(* READY, sends READY when it has booted, and opening the port may reboot  *)
(* it.  Telemetry and acks change nothing here and are left out; the only  *)
(* line from the Arduino is READY.  A Serial object is a number, counted   *)
(* from 1 at every open.                                                   *)
(***************************************************************************)
EXTENDS Naturals, Sequences

CONSTANTS
    MAX_OPENS,      \* bound: how often opening the port succeeds
    MAX_REBOOTS,    \* bound: reboots of the Arduino of its own accord
    MAX_LINES       \* bound: lines under way in one direction

ASSUME BridgeAssumption == MAX_OPENS \in Nat /\ MAX_REBOOTS \in Nat /\ MAX_LINES \in Nat

None == 0
Handles == 1 .. MAX_OPENS

VARIABLES
    \* shared state of the node
    connected, running,
    ser,            \* _ser
    recvQ,          \* _recv_q
    lastCmd,        \* _last_cmd_time: "none", "fresh" or "stale" (timeout over)
    lidar,          \* the last /lidar_status published
    \* the two threads
    mgr, mgrSer, mgrTook, wasConnected,
    gaveUp,         \* history: the Serial objects that _open_port gave up on
    main, line, mainTook,
    \* the world
    opens,          \* ports opened so far; the last is the one on the line
    closed, broken, \* Serial objects closed, and those whose line died
    ard,            \* the Arduino: "boot" or "run"
    moving,         \* it has a wheel target
    toArd, fromArd, \* lines under way
    reboots,
    \* history
    sent,           \* the last line written to each Serial object
    fresh           \* the Arduino was reset since the port was opened

shared == <<connected, running, ser, recvQ, lastCmd, lidar>>
mgrVars == <<mgr, mgrSer, mgrTook, wasConnected, gaveUp>>
mainVars == <<main, line, mainTook>>
ardVars == <<ard, moving, reboots>>
world == <<opens, closed, broken, toArd, fromArd, sent, fresh, ardVars>>
vars == <<shared, mgrVars, mainVars, world>>

Lines == {"O", "V", "V0", "S", "X"}     \* V0: a velocity of zero

Usable(h) == h # None /\ h \notin closed /\ h \notin broken
PortUp == Usable(opens)

Init ==
    /\ connected = FALSE /\ running = TRUE /\ ser = None
    /\ recvQ = <<>> /\ lastCmd = "none" /\ lidar = "none"
    /\ mgr = "open" /\ mgrSer = None /\ mgrTook = None /\ wasConnected = FALSE
    /\ gaveUp = {}
    /\ main = "idle" /\ line = "V0" /\ mainTook = None
    /\ opens = 0 /\ closed = {} /\ broken = {}
    /\ ard \in {"boot", "run"} /\ moving = FALSE
    /\ toArd = <<>> /\ fromArd = <<>> /\ reboots = 0
    /\ sent = [h \in Handles |-> "none"] /\ fresh = FALSE

-----------------------------------------------------------------------------
(* Writing.                                                                *)

\* ser.write(l) on a usable Serial object
Write(h, l) ==
    /\ toArd' = IF h = opens THEN Append(toArd, l) ELSE toArd
    /\ sent' = [sent EXCEPT ![h] = l]

\* _write_raw, under the write lock: nothing without a port, and a failing
\* write marks the connection as lost.
WriteRaw(l) ==
    \/ /\ ser = None
       /\ UNCHANGED <<toArd, sent, connected>>
    \/ /\ ser # None /\ Usable(ser)
       /\ Write(ser, l)
       /\ UNCHANGED connected
    \/ /\ ser # None /\ ~Usable(ser)
       /\ connected' = FALSE
       /\ UNCHANGED <<toArd, sent>>

\* The X of _close_port is written outside the lock, any error swallowed.
WriteClose(h) ==
    IF Usable(h) THEN Write(h, "X") ELSE UNCHANGED <<toArd, sent>>

-----------------------------------------------------------------------------
(* The serial-manager thread: _connection_manager.                         *)

\* Mutant: what the line still holds is not thrown away.
OpenPort_KeepsInput ==
    /\ mgr = "open" /\ running /\ opens < MAX_OPENS
    /\ mgr' = "bootwait"
    /\ opens' = opens + 1
    /\ mgrSer' = opens + 1
    /\ fresh' = FALSE
    /\ \/ ard' = "boot" /\ moving' = FALSE /\ toArd' = <<>>
       \/ UNCHANGED <<ard, moving, toArd>>
    /\ UNCHANGED <<shared, mgrTook, wasConnected, gaveUp, mainVars, closed, broken, reboots,
                   sent, fromArd>>

\* `while self._running', then serial.Serial() and reset_input_buffer(); the
\* Uno may or may not be reset by the opening.
OpenPort ==
    /\ mgr = "open" /\ running /\ opens < MAX_OPENS
    /\ mgr' = "bootwait"
    /\ opens' = opens + 1
    /\ mgrSer' = opens + 1
    /\ fromArd' = <<>>
    /\ fresh' = FALSE
    /\ \/ ard' = "boot" /\ moving' = FALSE /\ toArd' = <<>>
       \/ UNCHANGED <<ard, moving, toArd>>
    /\ UNCHANGED <<shared, mgrTook, wasConnected, gaveUp, mainVars, closed, broken, reboots,
                   sent>>

\* serial.Serial() raises, or the loop ends because the node shuts down.
OpenFails ==
    /\ mgr = "open"
    /\ mgr' = IF running THEN "finally" ELSE "done"
    /\ UNCHANGED <<shared, mgrSer, mgrTook, wasConnected, gaveUp, mainVars, world>>

\* _wait_for_ready consumes a chunk; the first READY in it ends the wait and
\* the rest of the chunk is dropped.
SeesReady ==
    /\ Usable(mgrSer)
    /\ \E n \in 1 .. Len(fromArd) : fromArd' = SubSeq(fromArd, n + 1, Len(fromArd))

WaitBoot ==
    /\ mgr = "bootwait"
    /\ mgr' = "handover"
    /\ SeesReady \/ UNCHANGED fromArd       \* or 2 s pass, or the read fails
    /\ UNCHANGED <<shared, mgrSer, mgrTook, wasConnected, gaveUp, mainVars, opens, closed,
                   broken, toArd, sent, fresh, ardVars>>

\* Mutant: the connection counts as up before O was sent.
HandOver_Connects ==
    /\ mgr = "handover"
    /\ mgr' = "sendO"
    /\ ser' = mgrSer
    /\ connected' = TRUE
    /\ UNCHANGED <<running, recvQ, lastCmd, lidar, mgrSer, mgrTook, wasConnected, gaveUp,
                   mainVars, world>>

\* Under the lock, _ser = the port just opened.
HandOver ==
    /\ mgr = "handover"
    /\ mgr' = "sendO"
    /\ ser' = mgrSer
    /\ UNCHANGED <<connected, running, recvQ, lastCmd, lidar, mgrSer, mgrTook, wasConnected,
                   gaveUp, mainVars, world>>

SendOpen ==
    /\ mgr = "sendO"
    /\ mgr' = "waitO"
    /\ WriteRaw("O")
    /\ UNCHANGED <<running, ser, recvQ, lastCmd, lidar, mgrSer, mgrTook, wasConnected,
                   gaveUp, mainVars, opens, closed, broken, fromArd, fresh, ardVars>>

WaitOpen ==
    /\ mgr = "waitO"
    /\ SeesReady
    /\ mgr' = "connect"
    /\ UNCHANGED <<shared, mgrSer, mgrTook, wasConnected, gaveUp, mainVars, opens, closed,
                   broken, toArd, sent, fresh, ardVars>>

\* No READY within 8 s, or the read fails: _ser is cleared under the lock,
GiveUp ==
    /\ mgr = "waitO"
    /\ mgr' = "giveup"
    /\ ser' = None
    /\ gaveUp' = gaveUp \cup {mgrSer}
    /\ UNCHANGED <<connected, running, recvQ, lastCmd, lidar, mgrSer, mgrTook, wasConnected,
                   mainVars, world>>

\* ... and the port closed, without X and whatever _ser was.
CloseGivenUp ==
    /\ mgr = "giveup"
    /\ mgr' = "finally"
    /\ closed' = closed \cup {mgrSer}
    /\ UNCHANGED <<shared, mgrSer, mgrTook, wasConnected, gaveUp, mainVars, opens, broken,
                   toArd, fromArd, sent, fresh, ardVars>>

\* Another exception, of a read while destroy_node closes the port.
WaitRaises ==
    /\ mgr = "waitO" /\ mgrSer \in closed
    /\ mgr' = "finally"
    /\ UNCHANGED <<shared, mgrSer, mgrTook, wasConnected, gaveUp, mainVars, world>>

Connect ==
    /\ mgr = "connect"
    /\ mgr' = "announce"
    /\ connected' = TRUE
    /\ UNCHANGED <<running, ser, recvQ, lastCmd, lidar, mgrSer, mgrTook, wasConnected,
                   gaveUp, mainVars, opens, closed, broken, toArd, fromArd, sent, fresh,
                   ardVars>>

Announce ==
    /\ mgr = "announce"
    /\ mgr' = "read"
    /\ lidar' = "START"
    /\ UNCHANGED <<connected, running, ser, recvQ, lastCmd, mgrSer, mgrTook, wasConnected,
                   gaveUp, mainVars, world>>

\* _read_loop, one pass: a chunk moves to the receive queue.
ReadChunk ==
    /\ mgr = "read" /\ running /\ connected
    /\ ser # None /\ Usable(ser)
    /\ \E n \in 1 .. Len(fromArd) :
          /\ recvQ' = recvQ \o SubSeq(fromArd, 1, n)
          /\ fromArd' = SubSeq(fromArd, n + 1, Len(fromArd))
    /\ UNCHANGED <<connected, running, ser, lastCmd, lidar, mgrVars, mainVars, opens,
                   closed, broken, toArd, sent, fresh, ardVars>>

\* It ends: the loop's condition or `ser is None', a SerialException, or
\* another exception, which leaves _connected as it is.
ReadEnds ==
    /\ mgr = "read"
    /\ mgr' = "finally"
    /\ \/ (~running \/ ~connected \/ ser = None) /\ UNCHANGED connected
       \/ running /\ connected /\ ser # None /\ ~Usable(ser) /\ connected' = FALSE
       \/ running /\ connected /\ ser # None /\ ~Usable(ser) /\ UNCHANGED connected
    /\ UNCHANGED <<running, ser, recvQ, lastCmd, lidar, mgrSer, mgrTook, wasConnected,
                   gaveUp, mainVars, world>>

Finally ==
    /\ mgr = "finally"
    /\ mgr' = "take"
    /\ wasConnected' = connected
    /\ connected' = FALSE
    /\ UNCHANGED <<running, ser, recvQ, lastCmd, lidar, mgrSer, mgrTook, gaveUp, mainVars,
                   world>>

\* Mutant: _ser is copied and not cleared.
ManagerTakes_KeepsSer ==
    /\ mgr = "take"
    /\ mgrTook' = ser
    /\ mgr' = IF ser = None THEN "status" ELSE "writeX"
    /\ UNCHANGED <<connected, running, ser, recvQ, lastCmd, lidar, mgrSer, wasConnected,
                   gaveUp, mainVars, world>>

\* _close_port in three steps: _ser is taken under the lock, X is written,
\* the port is closed.
ManagerTakes ==
    /\ mgr = "take"
    /\ mgrTook' = ser
    /\ ser' = None
    /\ mgr' = IF ser = None THEN "status" ELSE "writeX"
    /\ UNCHANGED <<connected, running, recvQ, lastCmd, lidar, mgrSer, wasConnected, gaveUp,
                   mainVars, world>>

ManagerWritesX ==
    /\ mgr = "writeX"
    /\ mgr' = "shut"
    /\ WriteClose(mgrTook)
    /\ UNCHANGED <<shared, mgrSer, mgrTook, wasConnected, gaveUp, mainVars, opens, closed,
                   broken, fromArd, fresh, ardVars>>

ManagerShuts ==
    /\ mgr = "shut"
    /\ mgr' = "status"
    /\ closed' = closed \cup {mgrTook}
    /\ mgrTook' = None
    /\ UNCHANGED <<shared, mgrSer, wasConnected, gaveUp, mainVars, opens, broken, toArd,
                   fromArd, sent, fresh, ardVars>>

\* The end of the `finally' clause.
PublishStop ==
    /\ mgr = "status"
    /\ lidar' = IF wasConnected THEN "STOP" ELSE lidar
    /\ mgr' = IF running THEN "sleep" ELSE "done"
    /\ UNCHANGED <<connected, running, ser, recvQ, lastCmd, mgrSer, mgrTook, wasConnected,
                   gaveUp, mainVars, world>>

\* time.sleep(delay), at least 2 s: a callback of the main thread that was
\* under way when it began is over when it ends.
Retry ==
    /\ mgr = "sleep"
    /\ main \notin {"check", "write", "checkS", "writeS"}
    /\ mgr' = "open"
    /\ UNCHANGED <<shared, mgrSer, mgrTook, wasConnected, gaveUp, mainVars, world>>

Manager ==
    \/ OpenPort \/ OpenFails \/ WaitBoot \/ HandOver \/ SendOpen \/ WaitOpen
    \/ GiveUp \/ CloseGivenUp \/ WaitRaises \/ Connect \/ Announce \/ ReadChunk \/ ReadEnds
    \/ Finally \/ ManagerTakes \/ ManagerWritesX \/ ManagerShuts \/ PublishStop \/ Retry

-----------------------------------------------------------------------------
(* The main thread: callbacks of rclpy.spin, then destroy_node.            *)

\* _cmd_vel_cb, up to its look at _connected
CmdVel ==
    /\ main = "idle"
    /\ Len(toArd) < MAX_LINES
    /\ lastCmd' = "fresh"
    /\ IF connected THEN main' = "check" /\ line' \in {"V", "V0"}
                    ELSE UNCHANGED <<main, line>>
    /\ UNCHANGED <<connected, running, ser, recvQ, lidar, mgrVars, mainTook, world>>

\* cmd_vel_timeout passes without a Twist.
CmdVelSilent ==
    /\ lastCmd = "fresh"
    /\ lastCmd' = "stale"
    /\ UNCHANGED <<connected, running, ser, recvQ, lidar, mgrVars, mainVars, world>>

\* Mutant: the time stamp is cleared and the stop forgotten.
Watchdog_ForgetsStop ==
    /\ main = "idle" /\ lastCmd = "stale"
    /\ lastCmd' = "none"
    /\ UNCHANGED <<connected, running, ser, recvQ, lidar, mgrVars, mainVars, world>>

\* _watchdog, up to its look at _connected
Watchdog ==
    /\ main = "idle" /\ lastCmd = "stale"
    /\ lastCmd' = "none"
    /\ IF connected THEN main' = "check" /\ line' = "V0"
                    ELSE UNCHANGED <<main, line>>
    /\ UNCHANGED <<connected, running, ser, recvQ, lidar, mgrVars, mainTook, world>>

\* _serial_write looks at _connected once more,
CheckConnected ==
    /\ main \in {"check", "checkS"}
    /\ main' = IF main = "check" THEN (IF connected THEN "write" ELSE "idle")
               ELSE (IF connected THEN "writeS" ELSE "halt")
    /\ UNCHANGED <<shared, mgrVars, line, mainTook, world>>

\* ... and _write_raw takes the lock.
SerialWrite ==
    /\ main \in {"write", "writeS"}
    /\ main' = IF main = "write" THEN "idle" ELSE "halt"
    /\ WriteRaw(line)
    /\ UNCHANGED <<running, ser, recvQ, lastCmd, lidar, mgrVars, line, mainTook, opens,
                   closed, broken, fromArd, fresh, ardVars>>

\* _process_queue and _parse_line: a READY ends the connection.
ParseReady ==
    /\ main = "idle" /\ recvQ # <<>>
    /\ recvQ' = Tail(recvQ)
    /\ connected' = FALSE
    /\ UNCHANGED <<running, ser, lastCmd, lidar, mgrVars, mainVars, world>>

\* Ctrl-C ends rclpy.spin, within a callback or between two; destroy_node.
Interrupt ==
    /\ main \in {"idle", "check", "write"}
    /\ main' = IF connected THEN "checkS" ELSE "halt"
    /\ line' = "S"
    /\ UNCHANGED <<shared, mgrVars, mainTook, world>>

\* Mutant: destroy_node does not clear _running.
StopRunning_Forgets ==
    /\ main = "halt"
    /\ main' = "hangup"
    /\ UNCHANGED <<shared, mgrVars, line, mainTook, world>>

StopRunning ==
    /\ main = "halt"
    /\ main' = "hangup"
    /\ running' = FALSE
    /\ UNCHANGED <<connected, ser, recvQ, lastCmd, lidar, mgrVars, line, mainTook, world>>

Disconnect ==
    /\ main = "hangup"
    /\ main' = "take"
    /\ connected' = FALSE
    /\ UNCHANGED <<running, ser, recvQ, lastCmd, lidar, mgrVars, line, mainTook, world>>

\* Mutant: destroy_node closes the port only if still connected.
MainTakes_IfConnected ==
    /\ main = "take"
    /\ mainTook' = IF connected THEN ser ELSE None
    /\ ser' = IF connected THEN None ELSE ser
    /\ main' = IF connected /\ ser # None THEN "writeX" ELSE "gone"
    /\ UNCHANGED <<connected, running, recvQ, lastCmd, lidar, mgrVars, line, world>>

MainTakes ==
    /\ main = "take"
    /\ mainTook' = ser
    /\ ser' = None
    /\ main' = IF ser = None THEN "gone" ELSE "writeX"
    /\ UNCHANGED <<connected, running, recvQ, lastCmd, lidar, mgrVars, line, world>>

MainWritesX ==
    /\ main = "writeX"
    /\ main' = "shut"
    /\ WriteClose(mainTook)
    /\ UNCHANGED <<shared, mgrVars, line, mainTook, opens, closed, broken, fromArd, fresh,
                   ardVars>>

MainShuts ==
    /\ main = "shut"
    /\ main' = "gone"
    /\ closed' = closed \cup {mainTook}
    /\ mainTook' = None
    /\ UNCHANGED <<shared, mgrVars, line, opens, broken, toArd, fromArd, sent, fresh,
                   ardVars>>

Main ==
    \/ CmdVel \/ Watchdog \/ CheckConnected \/ SerialWrite \/ ParseReady \/ Interrupt
    \/ StopRunning \/ Disconnect \/ MainTakes \/ MainWritesX \/ MainShuts

\* The interpreter exits; the manager is a daemon thread and dies with it.
Exit ==
    /\ main = "gone" /\ mgr \notin {"done", "killed"}
    /\ mgr' = "killed"
    /\ UNCHANGED <<shared, mgrSer, mgrTook, wasConnected, gaveUp, mainVars, world>>

-----------------------------------------------------------------------------
(* The Arduino and the line.                                               *)

SendReady ==
    fromArd' = IF PortUp /\ Len(fromArd) < MAX_LINES
               THEN Append(fromArd, "READY") ELSE fromArd

\* setup() is over.  Lines that came while the boot loader ran are lost; those
\* that came later wait in the UART.
ArduinoBoots ==
    /\ ard = "boot"
    /\ ard' = "run"
    /\ fresh' = TRUE
    /\ SendReady
    /\ toArd' \in {toArd, <<>>}
    /\ UNCHANGED <<shared, mgrVars, mainVars, opens, closed, broken, sent, moving, reboots>>

ArduinoReads ==
    /\ ard = "run" /\ toArd # <<>>
    /\ toArd' = Tail(toArd)
    /\ moving' = (Head(toArd) = "V")
    /\ IF Head(toArd) = "O"
       THEN fresh' = TRUE /\ SendReady
       ELSE UNCHANGED <<fresh, fromArd>>
    /\ UNCHANGED <<shared, mgrVars, mainVars, opens, closed, broken, sent, ard, reboots>>

ArduinoReboots ==
    /\ reboots < MAX_REBOOTS
    /\ reboots' = reboots + 1
    /\ ard' = "boot" /\ moving' = FALSE /\ toArd' = <<>>
    /\ UNCHANGED <<shared, mgrVars, mainVars, opens, closed, broken, fromArd, sent, fresh>>

Unplug ==
    /\ PortUp
    /\ broken' = broken \cup {opens}
    /\ toArd' = <<>> /\ fromArd' = <<>>
    /\ UNCHANGED <<shared, mgrVars, mainVars, opens, closed, sent, fresh, ardVars>>

World == ArduinoBoots \/ ArduinoReads \/ ArduinoReboots \/ Unplug

Next == Manager \/ Main \/ CmdVelSilent \/ Exit \/ World

Spec == Init /\ [][Next]_vars

\* Each thread keeps running (read() and sleep() time out), a timer fires, and
\* the Arduino boots and reads what it is sent.
FairSpec ==
    /\ Spec
    /\ WF_vars(Manager)
    /\ WF_vars(CheckConnected) /\ WF_vars(SerialWrite) /\ WF_vars(ParseReady)
    /\ WF_vars(StopRunning) /\ WF_vars(Disconnect) /\ WF_vars(MainTakes)
    /\ WF_vars(MainWritesX) /\ WF_vars(MainShuts)
    /\ WF_vars(Watchdog) /\ WF_vars(CmdVelSilent)
    /\ WF_vars(ArduinoBoots) /\ WF_vars(ArduinoReads)
-----------------------------------------------------------------------------
(* Properties.                                                             *)

MgrPcs == {"open", "bootwait", "handover", "sendO", "waitO", "giveup", "connect", "announce",
           "read", "finally", "take", "writeX", "shut", "status", "sleep", "done", "killed"}
MainPcs == {"idle", "check", "write", "checkS", "writeS", "halt", "hangup", "take",
            "writeX", "shut", "gone"}

TypeOK ==
    /\ connected \in BOOLEAN /\ running \in BOOLEAN /\ wasConnected \in BOOLEAN
    /\ mgrSer \in {None} \cup Handles /\ {ser, mgrTook, mainTook} \subseteq {None, mgrSer}
    /\ recvQ \in Seq({"READY"}) /\ fromArd \in Seq({"READY"}) /\ toArd \in Seq(Lines)
    /\ lastCmd \in {"none", "fresh", "stale"} /\ lidar \in {"none", "START", "STOP"}
    /\ mgr \in MgrPcs /\ main \in MainPcs /\ line \in {"V", "V0", "S"}
    /\ opens \in 0 .. MAX_OPENS
    /\ closed \subseteq Handles /\ broken \subseteq Handles /\ gaveUp \subseteq Handles
    /\ ard \in {"boot", "run"} /\ moving \in BOOLEAN /\ fresh \in BOOLEAN
    /\ reboots \in 0 .. MAX_REBOOTS
    /\ sent \in [Handles -> {"none"} \cup Lines]

\* On every Serial object O comes first and X last, whichever thread writes
\* and whichever of the two threads closes it: no velocity or stop reaches
\* the Arduino before its state is reset or after it was told to close.
LineOrder ==
    [][ \A h \in Handles :
          /\ sent[h] = "none" => sent'[h] \in {"none", "O", "X"}
          /\ sent[h] = "X" => sent'[h] = "X" ]_vars

\* Either thread may close a Serial object, and GiveUp's close does not ask
\* whether the other one does.  An object in service is closed once, by one of
\* them, after X unless its line died; one that _open_port gave up on may be
\* closed by both, and without X, but no velocity or stop was sent to it.
Closes(h) ==
    \/ ManagerShuts /\ h = mgrTook
    \/ MainShuts /\ h = mainTook
    \/ CloseGivenUp /\ h = mgrSer

ClosedByOne ==
    [][ \A h \in Handles : Closes(h) =>
          \/ h \notin closed /\ (sent[h] = "X" \/ h \in broken)
          \/ h \in gaveUp /\ sent[h] \in {"none", "O", "X"} ]_vars

\* A connection is reported only to an Arduino that was reset, by its boot or
\* by O, after the port was opened: no READY left over from an earlier
\* connection passes for an answer.
FreshWhenConnected == connected => fresh

\* When destroy_node is done and the lines are read, the wheels have no target,
\* unless a line died, or the manager thread had taken the port and not written
\* X: it may end with the process before it does.
ShutdownStops ==
    main = "gone" /\ toArd = <<>> /\ broken = {} /\ (mgrTook # None => sent[mgrTook] = "X")
        => ~moving

\* After destroy_node the manager thread ends, whatever it was doing.
ManagerEnds == (main = "gone") ~> (mgr \in {"done", "killed"})

\* When cmd_vel falls silent for good and the connection lasts, the last
\* velocity sent does not stay a moving one.
SilenceIsForwarded ==
    (<>[](lastCmd # "fresh") /\ <>[](connected /\ main # "gone"))
        => <>[](\A h \in Handles : h = opens => sent[h] # "V")

\* README.md:133 "Stop scanning (sent on Arduino disconnect)" and
\* arduino_bridge_node.py:71 "Publish lidar_status 1/2 when Arduino
\* connects/disconnects": waiting to reconnect, the last status is not START.
LidarStopsOnDisconnect == mgr = "sleep" => lidar # "START"
=============================================================================
