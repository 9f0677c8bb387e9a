---------------------------- MODULE LidarControl ----------------------------
(***************************************************************************)
(* The control plane of the LiDAR driver: three threads that switch the    *)
(* LiDAR on and off through the unguarded flags of lidar_status_t.         *)
(*   - the reader (read_forever and lidar_state_judgment, node_lidar.cpp)  *)
(*     sends the start command, watches for a stuck LiDAR, restarts it;    *)
(*   - main (node_lidar_ros.cpp) reports abnormal states and stops it;     *)
(*   - the topic thread (topic_callback) obeys /lidar_status: 1 starts,    *)
(*     2 stops, 5 clears the abnormal state.                               *)
(* None of the flags is locked, so every read and every write of a shared  *)
(* flag is a step of its own.  What the reader does with the nodes it gets *)
(* is ScanHandoff's subject: here a wait either brings data or fails.      *)
(***************************************************************************)
EXTENDS Naturals

CONSTANTS LATE_FAILS,   \* waits of 2 s that may fail before 3 s have passed, plus one: 2
          VERSIONS,     \* what the parameter "version" may say
          SPINNING,     \* whether the LiDAR may rotate from an earlier run
          MAX_COMMANDS  \* bound of the model: /lidar_status messages

LIDAR_VERSION == {"M1C1_Mini_v1", "M1C1_Mini_v2", "M1CT_Coin_Plus", "M1CT_TOF"}

ASSUME ControlAssumption ==
    /\ LATE_FAILS \in Nat \ {0} /\ MAX_COMMANDS \in Nat
    /\ VERSIONS \subseteq LIDAR_VERSION /\ SPINNING \subseteq BOOLEAN

\* The versions lidar_state_judgment knows how to start.
STARTED == LIDAR_VERSION \ {"M1CT_Coin_Plus"}

VARIABLES
    lidar_ready, lidar_last_status, close_lidar,  \* lidar_status_t
    lidar_trap_restart, lidar_restart_try,        \* lidar_status_t, the reader's own
    lidar_abnormal_state,                         \* lidar_status_t, the set of its bits
    port,                                         \* serial_port: none, created, open
    readerAt, wait_speed_right, fails, readerBits,
    mainAt, mainBits,
    topicAt, commands,
    obeyed,                                       \* history: the last start or stop carried out
    early,                                        \* history: a stop came before node_start was done
    scanReady,                                    \* _dataEvent is signalled
    version,                                      \* lidar_general_info_t
    spinning,                                     \* external: the LiDAR rotates and sends
    stoppedBy,                                    \* history: who wrote end_lidar last
    startsSinceData                               \* history: start_lidar sent since data came (0, 1)

status == <<lidar_ready, lidar_last_status, close_lidar, lidar_trap_restart,
            lidar_restart_try, lidar_abnormal_state>>
readerVars == <<readerAt, wait_speed_right, fails, readerBits>>
mainVars == <<port, mainAt, mainBits, scanReady>>
topicVars == <<topicAt, commands, obeyed, early>>
deviceVars == <<version, spinning, stoppedBy, startsSinceData>>
vars == <<status, readerVars, mainVars, topicVars, deviceVars>>

Bits == {"trapped", "frequency", "blocked"}
Threads == {"reader", "main", "topic"}

ReaderStages == {"off", "judge", "switch", "last", "trap", "due", "start", "wait", "load", "store"}
MainStages == {"create", "open", "thread", "ready", "check", "end", "unready", "handle",
               "load", "store", "leaving", "gone"}
TopicStages == {"idle", "start", "started", "clear", "stop", "close", "end"}

\* One type invariant for the module.
TypeOK ==
    /\ {lidar_ready, lidar_last_status, close_lidar, lidar_trap_restart,
        lidar_restart_try, wait_speed_right, scanReady, early, spinning} \subseteq BOOLEAN
    /\ lidar_abnormal_state \in SUBSET Bits
    /\ port \in {"none", "created", "open"}
    /\ readerAt \in ReaderStages /\ mainAt \in MainStages /\ topicAt \in TopicStages
    /\ fails \in 0 .. LATE_FAILS - 1
    /\ readerBits \in SUBSET Bits /\ mainBits \in SUBSET Bits
    /\ commands \in 0 .. MAX_COMMANDS /\ obeyed \in {"none", "start", "stop"}
    /\ version \in VERSIONS /\ stoppedBy \in Threads /\ startsSinceData \in {0, 1}

Running == mainAt # "gone"

\* serial_port->write_data(end_lidar, 4), which writes nothing to a port that
\* could not be opened.
WriteEnd(who) ==
    IF port = "open"
      THEN spinning' = FALSE /\ stoppedBy' = who /\ UNCHANGED <<version, startsSinceData>>
      ELSE UNCHANGED deviceVars

-----------------------------------------------------------------------------
(* The reader thread.                                                      *)

ReaderGoes(from, to) == Running /\ readerAt = from /\ readerAt' = to

\* lidar_state_judgment: has the wanted status changed, or was a stop asked for?
Judge ==
    /\ ReaderGoes("judge", IF lidar_ready # lidar_last_status \/ close_lidar
                             THEN "switch" ELSE "trap")
    /\ UNCHANGED <<status, wait_speed_right, fails, readerBits, mainVars, topicVars, deviceVars>>

SwitchClose ==
    /\ ReaderGoes("switch", "last")
    /\ close_lidar' = FALSE
    /\ UNCHANGED <<lidar_ready, lidar_last_status, lidar_trap_restart, lidar_restart_try,
                   lidar_abnormal_state, wait_speed_right, fails, readerBits,
                   mainVars, topicVars, deviceVars>>

\* Mutant: lidar_last_status is not brought up to date.
SwitchStatus_NotRecorded ==
    /\ ReaderGoes("last", "trap")
    /\ wait_speed_right' = FALSE
    /\ UNCHANGED <<status, fails, readerBits, mainVars, topicVars, deviceVars>>

\* lidar_ready is read again here; the three static flags of the start
\* sequence are reset and the serial input is flushed.
SwitchStatus ==
    /\ ReaderGoes("last", "trap")
    /\ lidar_last_status' = lidar_ready
    /\ wait_speed_right' = FALSE
    /\ UNCHANGED <<lidar_ready, close_lidar, lidar_trap_restart, lidar_restart_try,
                   lidar_abnormal_state, fails, readerBits, mainVars, topicVars, deviceVars>>

\* Mutant: wait_speed_right is not reset.
TrapRestart_NoResend ==
    /\ ReaderGoes("trap", "due")
    /\ lidar_trap_restart' = FALSE
    /\ IF lidar_trap_restart THEN WriteEnd("reader") ELSE UNCHANGED deviceVars
    /\ UNCHANGED <<lidar_ready, lidar_last_status, close_lidar, lidar_restart_try,
                   lidar_abnormal_state, wait_speed_right, fails, readerBits, mainVars, topicVars>>

\* "Status abnormal restart": stop the LiDAR, to start it again below.
TrapRestart ==
    /\ ReaderGoes("trap", "due")
    /\ lidar_trap_restart' = FALSE
    /\ IF lidar_trap_restart
         THEN wait_speed_right' = FALSE /\ WriteEnd("reader")
         ELSE UNCHANGED <<wait_speed_right, deviceVars>>
    /\ UNCHANGED <<lidar_ready, lidar_last_status, close_lidar, lidar_restart_try,
                   lidar_abnormal_state, fails, readerBits, mainVars, topicVars>>

StartWanted == lidar_ready /\ ~wait_speed_right

\* A start is wanted, 1000 ms have passed since the status switch, and the
\* switch over the versions has a case for this one.
StartDue ==
    /\ StartWanted /\ version \in STARTED /\ ReaderGoes("due", "start")
    /\ UNCHANGED <<status, wait_speed_right, fails, readerBits, mainVars, topicVars, deviceVars>>

\* A start is wanted, but later, or of a version there is no case for:
\* system_start_time = now, return false, poll again.
StartNotYet ==
    /\ StartWanted /\ ReaderGoes("due", "judge")
    /\ fails' = 0
    /\ UNCHANGED <<status, wait_speed_right, readerBits, mainVars, topicVars, deviceVars>>

\* No start is wanted: wait for data if the LiDAR has been started, else poll.
NoStart ==
    /\ ~StartWanted /\ ReaderGoes("due", IF wait_speed_right THEN "wait" ELSE "judge")
    /\ UNCHANGED <<status, wait_speed_right, fails, readerBits, mainVars, topicVars, deviceVars>>

\* write_data(start_lidar, 4); a TOF's reply is waited for and its absence only
\* logged; system_start_time = now.
WriteStart ==
    /\ ReaderGoes("start", "wait")
    /\ wait_speed_right' = TRUE /\ fails' = 0
    /\ spinning' = TRUE /\ startsSinceData' = 1
    /\ UNCHANGED <<status, readerBits, mainVars, topicVars, version, stoppedBy>>

\* waitScanData returns RESULT_OK; the nodes may complete a revolution, and the
\* TOF model's rotation may have been out of range for 30 s.
WaitData ==
    /\ \/ ReaderGoes("wait", "judge") /\ UNCHANGED readerBits
       \/ version = "M1CT_TOF" /\ ReaderGoes("wait", "load") /\ readerBits' = {"frequency"}
    /\ lidar_restart_try' = FALSE /\ fails' = 0
    /\ startsSinceData' = 0
    /\ scanReady' \in {scanReady, TRUE}
    /\ UNCHANGED <<lidar_ready, lidar_last_status, close_lidar, lidar_trap_restart,
                   lidar_abnormal_state, wait_speed_right, port, mainAt, mainBits, topicVars,
                   version, spinning, stoppedBy>>

\* Mutant: the 3 s limit is not looked at.
WaitFails_NoLimit ==
    /\ ReaderGoes("wait", "judge")
    /\ fails' = fails + 1
    /\ UNCHANGED <<status, wait_speed_right, readerBits, mainVars, topicVars, deviceVars>>

\* waitScanData fails and 3 s without data have not passed yet.
WaitFails ==
    /\ ReaderGoes("wait", "judge")
    /\ fails < LATE_FAILS - 1 /\ fails' = fails + 1
    /\ UNCHANGED <<status, wait_speed_right, readerBits, mainVars, topicVars, deviceVars>>

\* It fails and they have: try a restart once, then report a stuck LiDAR.
WaitFailsLate ==
    /\ IF lidar_restart_try
         THEN /\ ReaderGoes("wait", "load") /\ readerBits' = {"trapped"}
              /\ UNCHANGED <<lidar_trap_restart, lidar_restart_try>>
         ELSE /\ ReaderGoes("wait", "judge")
              /\ lidar_trap_restart' = TRUE /\ lidar_restart_try' = TRUE
              /\ UNCHANGED readerBits
    /\ UNCHANGED <<lidar_ready, lidar_last_status, close_lidar, lidar_abnormal_state,
                   wait_speed_right, fails, mainVars, topicVars, deviceVars>>

\* lidar_abnormal_state |= bit is a load and a store.
ReaderLoads ==
    /\ ReaderGoes("load", "store")
    /\ readerBits' = readerBits \cup lidar_abnormal_state
    /\ UNCHANGED <<status, wait_speed_right, fails, mainVars, topicVars, deviceVars>>

ReaderStores ==
    /\ ReaderGoes("store", "judge")
    /\ lidar_abnormal_state' = readerBits /\ readerBits' = {}
    /\ UNCHANGED <<lidar_ready, lidar_last_status, close_lidar, lidar_trap_restart,
                   lidar_restart_try, wait_speed_right, fails, mainVars, topicVars, deviceVars>>

-----------------------------------------------------------------------------
(* The main thread.                                                        *)

MainGoes(from, to) == mainAt = from /\ mainAt' = to

\* node_start, step by step: make_shared<Serial_Port> ...
CreatePort ==
    /\ MainGoes("create", "open")
    /\ port' = "created"
    /\ UNCHANGED <<status, readerVars, mainBits, scanReady, topicVars, deviceVars>>

\* ... open it, or fail: main ignores node_start's -1 ...
OpenPort ==
    /\ \/ MainGoes("open", "thread") /\ port' = "open"
       \/ MainGoes("open", "check") /\ UNCHANGED port
    /\ UNCHANGED <<status, readerVars, mainBits, scanReady, topicVars, deviceVars>>

\* ... start the reader ...
StartReader ==
    /\ MainGoes("thread", "ready")
    /\ readerAt' = "judge"
    /\ UNCHANGED <<status, wait_speed_right, fails, readerBits, port, mainBits, scanReady,
                   topicVars, deviceVars>>

\* ... and ask it to start the LiDAR.
NodeReady ==
    /\ MainGoes("ready", "check")
    /\ lidar_ready' = TRUE
    /\ UNCHANGED <<lidar_last_status, close_lidar, lidar_trap_restart, lidar_restart_try,
                   lidar_abnormal_state, readerVars, port, mainBits, scanReady, topicVars, deviceVars>>

\* Mutant: only the first bit stops the LiDAR.
Check_OnlyTrapped ==
    /\ MainGoes("check", IF "trapped" \in lidar_abnormal_state THEN "end" ELSE "handle")
    /\ UNCHANGED <<status, readerVars, port, mainBits, scanReady, topicVars, deviceVars>>

\* The loop's test of the abnormal state; the errors are published.
Check ==
    /\ MainGoes("check", IF lidar_abnormal_state # {} THEN "end" ELSE "handle")
    /\ UNCHANGED <<status, readerVars, port, mainBits, scanReady, topicVars, deviceVars>>

\* write_data(end_lidar, 4) ...
AbnormalEnd ==
    /\ MainGoes("end", "unready")
    /\ WriteEnd("main")
    /\ UNCHANGED <<status, readerVars, port, mainBits, scanReady, topicVars>>

\* ... lidar_ready = false; sleep(1).
AbnormalUnready ==
    /\ MainGoes("unready", "handle")
    /\ lidar_ready' = FALSE
    /\ UNCHANGED <<lidar_last_status, close_lidar, lidar_trap_restart, lidar_restart_try,
                   lidar_abnormal_state, readerVars, port, mainBits, scanReady, topicVars, deviceVars>>

\* data_handling: the event times out, or a scan comes, or the scan comes that
\* makes it 200 blocked ones.
HandleData ==
    /\ \/ MainGoes("handle", "check") /\ UNCHANGED mainBits
       \/ scanReady /\ MainGoes("handle", "load") /\ mainBits' = {"blocked"}
    /\ scanReady' = FALSE
    /\ UNCHANGED <<status, readerVars, port, topicVars, deviceVars>>

MainLoads ==
    /\ MainGoes("load", "store")
    /\ mainBits' = mainBits \cup lidar_abnormal_state
    /\ UNCHANGED <<status, readerVars, port, scanReady, topicVars, deviceVars>>

MainStores ==
    /\ MainGoes("store", "check")
    /\ lidar_abnormal_state' = mainBits /\ mainBits' = {}
    /\ UNCHANGED <<lidar_ready, lidar_last_status, close_lidar, lidar_trap_restart,
                   lidar_restart_try, readerVars, port, scanReady, topicVars, deviceVars>>

\* rclcpp::ok() is false: a last end_lidar, rclcpp::shutdown ...
Leave ==
    /\ MainGoes("check", "leaving")
    /\ WriteEnd("main")
    /\ UNCHANGED <<status, readerVars, port, mainBits, scanReady, topicVars>>

\* ... and main returns, which ends the detached threads.
Exit ==
    /\ MainGoes("leaving", "gone")
    /\ UNCHANGED <<status, readerVars, port, mainBits, scanReady, topicVars, deviceVars>>

-----------------------------------------------------------------------------
(* The topic thread: topic_callback.                                       *)

TopicGoes(from, to) == Running /\ topicAt = from /\ topicAt' = to

\* A message arrives; it is dropped when there is no port yet.  Messages 3, 4,
\* 6 and 7 send the LiDAR another command and set bounds nothing reads.
Command(to) ==
    /\ commands < MAX_COMMANDS /\ commands' = commands + 1
    /\ TopicGoes("idle", IF port = "none" THEN "idle" ELSE to)
    /\ UNCHANGED <<status, readerVars, mainVars, obeyed, early, deviceVars>>

Receive == \E to \in {"start", "stop", "clear", "idle"} : Command(to)

TopicReady ==
    /\ TopicGoes("start", "started")
    /\ lidar_ready' = TRUE
    /\ UNCHANGED <<lidar_last_status, close_lidar, lidar_trap_restart, lidar_restart_try,
                   lidar_abnormal_state, readerVars, mainVars, commands, obeyed, early, deviceVars>>

\* The end of case 1, and all of case 5.
TopicClear ==
    /\ \/ TopicGoes("clear", "idle") /\ UNCHANGED obeyed
       \/ TopicGoes("started", "idle") /\ obeyed' = "start"
    /\ lidar_abnormal_state' = {}
    /\ UNCHANGED <<lidar_ready, lidar_last_status, close_lidar, lidar_trap_restart,
                   lidar_restart_try, readerVars, mainVars, commands, early, deviceVars>>

TopicUnready ==
    /\ TopicGoes("stop", "close")
    /\ lidar_ready' = FALSE
    /\ early' = (early \/ mainAt \in {"open", "thread", "ready"})
    /\ UNCHANGED <<lidar_last_status, close_lidar, lidar_trap_restart, lidar_restart_try,
                   lidar_abnormal_state, readerVars, mainVars, commands, obeyed, deviceVars>>

\* Mutant: close_lidar is not raised.
TopicClose_Not ==
    /\ TopicGoes("close", "end")
    /\ UNCHANGED <<status, readerVars, mainVars, commands, obeyed, early, deviceVars>>

TopicClose ==
    /\ TopicGoes("close", "end")
    /\ close_lidar' = TRUE
    /\ UNCHANGED <<lidar_ready, lidar_last_status, lidar_trap_restart, lidar_restart_try,
                   lidar_abnormal_state, readerVars, mainVars, commands, obeyed, early, deviceVars>>

TopicEnd ==
    /\ TopicGoes("end", "idle")
    /\ WriteEnd("topic")
    /\ obeyed' = "stop"
    /\ UNCHANGED <<status, readerVars, mainVars, commands, early>>

\* The process is gone.
Gone == ~Running /\ UNCHANGED vars

-----------------------------------------------------------------------------
Init ==
    /\ lidar_ready = FALSE /\ lidar_last_status = FALSE /\ close_lidar = TRUE
    /\ lidar_trap_restart = FALSE /\ lidar_restart_try = FALSE
    /\ lidar_abnormal_state = {}
    /\ port = "none"
    /\ readerAt = "off" /\ wait_speed_right = FALSE /\ fails = 0 /\ readerBits = {}
    /\ mainAt = "create" /\ mainBits = {} /\ scanReady = FALSE
    /\ topicAt = "idle" /\ commands = 0 /\ obeyed = "none" /\ early = FALSE
    /\ version \in VERSIONS
    /\ spinning \in SPINNING
    /\ stoppedBy = "main" /\ startsSinceData = 0

ReaderStep ==
    \/ Judge \/ SwitchClose \/ SwitchStatus \/ TrapRestart
    \/ StartDue \/ StartNotYet \/ NoStart \/ WriteStart
    \/ WaitData \/ WaitFails \/ WaitFailsLate \/ ReaderLoads \/ ReaderStores

MainStep ==
    \/ CreatePort \/ OpenPort \/ StartReader \/ NodeReady
    \/ Check \/ AbnormalEnd \/ AbnormalUnready \/ HandleData \/ MainLoads \/ MainStores

TopicStep == TopicReady \/ TopicClear \/ TopicUnready \/ TopicClose \/ TopicEnd

Next == ReaderStep \/ MainStep \/ Leave \/ Exit \/ Receive \/ TopicStep \/ Gone

Spec == Init /\ [][Next]_vars

\* The scheduler runs the three threads; a second passes while the reader
\* polls, so a start that stays wanted comes due.  Nobody need send a command,
\* end the process, or make the LiDAR answer.
Fairness ==
    /\ WF_vars(ReaderStep) /\ SF_vars(StartDue)
    /\ WF_vars(MainStep) /\ WF_vars(Exit) /\ WF_vars(TopicStep)

FairSpec == Spec /\ Fairness
-----------------------------------------------------------------------------
(* Properties.                                                             *)

\* The reader finds a LiDAR stuck only after a restart, whatever the other
\* threads did meanwhile: it has sent the start command again since the last
\* data, and none followed.  (That the bit it then raises may be one that a
\* /lidar_status message has just cleared is the price of the unlocked |=.)
RestartBeforeTrapped ==
    [][WaitFailsLate /\ readerAt' = "load" => startsSinceData = 1]_vars

\* A stop from /lidar_status is never lost on the reader, even when a start
\* follows before it looks: it does not go on waiting for data from a LiDAR
\* that was stopped unless a flag that makes it start again is still up.  A
\* stop that node_start's own lidar_ready = true overtakes is another matter
\* (StopIsKept).
WaitsForNothing == wait_speed_right /\ lidar_ready /\ ~spinning

StartPending == close_lidar \/ lidar_ready # lidar_last_status \/ readerAt = "last"

StopIsNoticed == WaitsForNothing /\ stoppedBy = "topic" /\ ~early => StartPending

\* The reader ends up in the status the other threads settle on.
ReaderFollows ==
    \A wanted \in BOOLEAN :
        <>[](lidar_ready = wanted /\ Running /\ readerAt # "off")
            => <>[](lidar_last_status = wanted)

\* While an abnormal state stands the LiDAR is kept stopped, whatever the
\* reader was about to send.
AbnormalStopsLidar ==
    <>[](lidar_abnormal_state # {} /\ Running /\ port = "open") => <>[]~spinning

-----------------------------------------------------------------------------
(* What the README says of /lidar_status, and the driver does not keep.    *)

\* "2 | Stop scanning" (README.md:133): after the last command, a stop, the
\* LiDAR does not end up rotating for a driver that wants it to.  (That a start
\* already decided on may be written after the stop is left aside here.)
StopIsKept ==
    <>[](obeyed = "stop" /\ topicAt = "idle" /\ Running /\ port = "open")
        => <>[]~(spinning /\ lidar_ready)
=============================================================================
