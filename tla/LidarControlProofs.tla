------------------------- MODULE LidarControlProofs -------------------------
(***************************************************************************)
(* Theorems about LidarControl, for any number of failed waits before the  *)
(* three seconds have passed and any number of /lidar_status messages.     *)
(***************************************************************************)
EXTENDS LidarControl, TLAPS

LEMMA TypeInit == Init => TypeOK
  <1> SUFFICES ASSUME Init PROVE TypeOK
    OBVIOUS
  <1>1. {lidar_ready, lidar_last_status, close_lidar, lidar_trap_restart,
         lidar_restart_try, wait_speed_right, scanReady, early, spinning} \subseteq BOOLEAN
    BY ControlAssumption DEF Init
  <1>2. fails \in 0 .. LATE_FAILS - 1 /\ commands \in 0 .. MAX_COMMANDS
    BY ControlAssumption DEF Init
  <1> QED
    BY <1>1, <1>2 DEF Init, TypeOK, Threads, ReaderStages, MainStages, TopicStages

LEMMA TypeReader == TypeOK /\ ReaderStep => TypeOK'
  <1> SUFFICES ASSUME TypeOK, ReaderStep PROVE TypeOK'
    OBVIOUS
  <1> USE ControlAssumption
      DEF TypeOK, ReaderGoes, Threads, ReaderStages, Bits, status, mainVars, topicVars,
          deviceVars
  <1>1. CASE Judge
    BY <1>1 DEF Judge
  <1>2. CASE SwitchClose
    BY <1>2 DEF SwitchClose
  <1>3. CASE SwitchStatus
    BY <1>3 DEF SwitchStatus
  <1>4. CASE TrapRestart
    <2>1. CASE lidar_trap_restart
      BY <1>4, <2>1 DEF TrapRestart, WriteEnd
    <2>2. CASE ~lidar_trap_restart
      BY <1>4, <2>2 DEF TrapRestart
    <2> QED
      BY <2>1, <2>2
  <1>5. CASE StartDue
    BY <1>5 DEF StartDue
  <1>6. CASE StartNotYet
    BY <1>6 DEF StartNotYet
  <1>7. CASE NoStart
    BY <1>7 DEF NoStart
  <1>8. CASE WriteStart
    BY <1>8 DEF WriteStart
  <1>9. CASE WaitData
    <2>1. /\ lidar_ready' \in BOOLEAN /\ lidar_last_status' \in BOOLEAN
          /\ close_lidar' \in BOOLEAN /\ lidar_trap_restart' \in BOOLEAN
          /\ wait_speed_right' \in BOOLEAN /\ early' \in BOOLEAN /\ spinning' \in BOOLEAN
      BY <1>9 DEF WaitData
    <2>2. scanReady' \in BOOLEAN
      BY <1>9 DEF WaitData
    <2>3. lidar_restart_try' \in BOOLEAN
      BY <1>9 DEF WaitData
    <2>4. readerAt' \in {"judge", "load"} /\ readerBits' \in SUBSET Bits
      BY <1>9 DEF WaitData
    <2>5. /\ fails' = 0 /\ startsSinceData' = 0
          /\ UNCHANGED <<lidar_abnormal_state, port, mainAt, mainBits, topicAt, commands,
                         obeyed, version, stoppedBy>>
      BY <1>9 DEF WaitData
    <2> QED
      BY <2>1, <2>2, <2>3, <2>4, <2>5
  <1>10. CASE WaitFails
    BY <1>10 DEF WaitFails
  <1>11. CASE WaitFailsLate
    BY <1>11 DEF WaitFailsLate
  <1>12. CASE ReaderLoads
    BY <1>12 DEF ReaderLoads
  <1>13. CASE ReaderStores
    BY <1>13 DEF ReaderStores
  <1> QED
    BY <1>1, <1>2, <1>3, <1>4, <1>5, <1>6, <1>7, <1>8, <1>9, <1>10, <1>11, <1>12, <1>13
       DEF ReaderStep

LEMMA TypeMain == TypeOK /\ (MainStep \/ Leave \/ Exit) => TypeOK'
  <1> SUFFICES ASSUME TypeOK, MainStep \/ Leave \/ Exit PROVE TypeOK'
    OBVIOUS
  <1> USE DEF TypeOK, MainGoes, WriteEnd, Threads, MainStages, ReaderStages, Bits, status,
              readerVars, topicVars, deviceVars
  <1>1. CASE CreatePort \/ OpenPort
    BY <1>1 DEF CreatePort, OpenPort
  <1>2. CASE StartReader \/ NodeReady
    BY <1>2 DEF StartReader, NodeReady
  <1>3. CASE Check \/ AbnormalEnd \/ AbnormalUnready
    BY <1>3 DEF Check, AbnormalEnd, AbnormalUnready
  <1>4. CASE HandleData
    BY <1>4 DEF HandleData
  <1>5. CASE MainLoads \/ MainStores
    BY <1>5 DEF MainLoads, MainStores
  <1>6. CASE Leave \/ Exit
    BY <1>6 DEF Leave, Exit
  <1> QED
    BY <1>1, <1>2, <1>3, <1>4, <1>5, <1>6 DEF MainStep

LEMMA TypeTopic == TypeOK /\ (Receive \/ TopicStep) => TypeOK'
  <1> SUFFICES ASSUME TypeOK, Receive \/ TopicStep PROVE TypeOK'
    OBVIOUS
  <1> USE DEF TypeOK, TopicGoes, WriteEnd, Threads, TopicStages, status, readerVars,
              mainVars, deviceVars
  <1>1. CASE Receive
    BY <1>1, ControlAssumption DEF Receive, Command
  <1>2. CASE TopicReady \/ TopicClear
    BY <1>2 DEF TopicReady, TopicClear
  <1>3. CASE TopicUnready \/ TopicClose
    BY <1>3 DEF TopicUnready, TopicClose
  <1>4. CASE TopicEnd
    BY <1>4 DEF TopicEnd
  <1> QED
    BY <1>1, <1>2, <1>3, <1>4 DEF TopicStep

LEMMA TypeStep == TypeOK /\ [Next]_vars => TypeOK'
  <1>1. TypeOK /\ (Gone \/ UNCHANGED vars) => TypeOK'
    BY DEF Gone, vars, TypeOK, status, readerVars, mainVars, topicVars, deviceVars
  <1> QED
    BY <1>1, TypeReader, TypeMain, TypeTopic DEF Next

\* Whatever the three threads and the LiDAR do, every flag has its type and the
\* failed waits are counted up to the three seconds' only.
THEOREM ControlTypes == Spec => []TypeOK
  BY TypeInit, TypeStep, PTL DEF Spec

-----------------------------------------------------------------------------
(* A stop is noticed. *)

\* Where main and the topic thread are, and what that says of the others.
Starting ==
  /\ port = "none" <=> mainAt = "create"
  /\ topicAt # "idle" => port # "none"
  /\ mainAt \in {"create", "open", "thread"} => readerAt = "off"

\* A stop under way that node_start does not overtake has taken lidar_ready down.
StopStands ==
  topicAt \in {"close", "end"} /\ ~early =>
    ~lidar_ready /\ mainAt \notin {"create", "open", "thread", "ready"}

\* close_lidar takes the reader to its reset of the start sequence.
ResetAhead == close_lidar \/ readerAt = "last"

\* With the flag up and the LiDAR still to be told, the reader has done its
\* reset or is going to, and it is not about to start the LiDAR after it.
StopPending ==
  topicAt = "end" /\ ~early =>
    ResetAhead \/ (~wait_speed_right /\ readerAt # "start")

\* Once the LiDAR is told, only a new start sets wait_speed_right.
StopDone ==
  ~spinning /\ stoppedBy = "topic" /\ ~early => ResetAhead \/ ~wait_speed_right

StopInv == TypeOK /\ Starting /\ StopStands /\ StopPending /\ StopDone

LEMMA StopInit == Init => StopInv
  BY TypeInit DEF Init, StopInv, Starting, StopStands, StopPending, StopDone

LEMMA StopReader == StopInv /\ ReaderStep => StopInv'
  <1> SUFFICES ASSUME StopInv, ReaderStep PROVE StopInv'
    OBVIOUS
  <1>1. TypeOK'
    BY TypeReader DEF StopInv
  <1>2. mainAt \notin {"create", "open", "thread"}
    BY DEF StopInv, Starting, ReaderStep, ReaderGoes, Judge, SwitchClose, SwitchStatus,
           TrapRestart, StartDue, StartNotYet, NoStart, WriteStart, WaitData, WaitFails,
           WaitFailsLate, ReaderLoads, ReaderStores
  <1>3. UNCHANGED <<lidar_ready, port, mainAt, topicAt, early>>
    BY DEF ReaderStep, Judge, SwitchClose, SwitchStatus, TrapRestart, StartDue, StartNotYet,
           NoStart, WriteStart, WaitData, WaitFails, WaitFailsLate, ReaderLoads,
           ReaderStores, status, mainVars, topicVars
  <1>4. Starting' /\ StopStands'
    BY <1>2, <1>3 DEF StopInv, Starting, StopStands
  <1>5. CASE Judge
    BY <1>1, <1>4, <1>5 DEF StopInv, StopPending, StopDone, ResetAhead, Judge, ReaderGoes,
       status, mainVars, topicVars, deviceVars
  <1>6. CASE SwitchClose \/ SwitchStatus
    BY <1>1, <1>4, <1>6 DEF StopInv, StopPending, StopDone, ResetAhead, SwitchClose,
       SwitchStatus, ReaderGoes, mainVars, topicVars, deviceVars
  <1>7. CASE TrapRestart
    BY <1>1, <1>4, <1>7 DEF StopInv, StopPending, StopDone, ResetAhead, TrapRestart,
       WriteEnd, ReaderGoes, mainVars, topicVars, deviceVars
  <1>8. CASE StartDue
    BY <1>1, <1>4, <1>8 DEF StopInv, StopStands, StopPending, StopDone, ResetAhead,
       StartDue, StartWanted, ReaderGoes, status, mainVars, topicVars, deviceVars
  <1>9. CASE StartNotYet \/ NoStart
    BY <1>1, <1>4, <1>9 DEF StopInv, StopPending, StopDone, ResetAhead, StartNotYet,
       NoStart, ReaderGoes, status, mainVars, topicVars, deviceVars
  <1>10. CASE WriteStart
    BY <1>1, <1>4, <1>10 DEF StopInv, StopPending, StopDone, ResetAhead, WriteStart,
       ReaderGoes, status, mainVars, topicVars
  <1>11. CASE WaitData
    <2>1. /\ readerAt \notin {"last", "start"} /\ readerAt' # "start"
          /\ UNCHANGED <<wait_speed_right, close_lidar, spinning, stoppedBy, topicAt, early>>
      BY <1>11 DEF WaitData, ReaderGoes, topicVars
    <2> QED
      BY <1>1, <1>4, <2>1 DEF StopInv, StopPending, StopDone, ResetAhead
  <1>13. CASE WaitFails \/ WaitFailsLate
    BY <1>1, <1>4, <1>13 DEF StopInv, StopPending, StopDone, ResetAhead, WaitFails,
       WaitFailsLate, ReaderGoes, status, mainVars, topicVars, deviceVars
  <1>12. CASE ReaderLoads \/ ReaderStores
    BY <1>1, <1>4, <1>12 DEF StopInv, StopPending, StopDone, ResetAhead, ReaderLoads,
       ReaderStores, ReaderGoes, status, mainVars, topicVars, deviceVars
  <1> QED
    BY <1>5, <1>6, <1>7, <1>8, <1>9, <1>10, <1>11, <1>12, <1>13 DEF ReaderStep

LEMMA StopMain == StopInv /\ (MainStep \/ Leave \/ Exit) => StopInv'
  <1> SUFFICES ASSUME StopInv, MainStep \/ Leave \/ Exit PROVE StopInv'
    OBVIOUS
  <1>1. TypeOK'
    BY TypeMain DEF StopInv
  <1> USE DEF StopInv, Starting, StopStands, StopPending, StopDone, ResetAhead, MainGoes
  <1>2. CASE CreatePort \/ OpenPort
    BY <1>1, <1>2 DEF CreatePort, OpenPort, status, readerVars, topicVars, deviceVars
  <1>3. CASE StartReader
    BY <1>1, <1>3 DEF StartReader, status, topicVars, deviceVars
  <1>4. CASE NodeReady
    BY <1>1, <1>4 DEF NodeReady, readerVars, topicVars, deviceVars
  <1>5. CASE Check \/ HandleData \/ MainLoads \/ MainStores \/ Exit
    BY <1>1, <1>5 DEF Check, HandleData, MainLoads, MainStores, Exit, status, readerVars,
       topicVars, deviceVars
  <1>6. CASE AbnormalEnd \/ Leave
    BY <1>1, <1>6 DEF AbnormalEnd, Leave, WriteEnd, status, readerVars, topicVars, deviceVars
  <1>7. CASE AbnormalUnready
    BY <1>1, <1>7 DEF AbnormalUnready, readerVars, topicVars, deviceVars
  <1> QED
    BY <1>2, <1>3, <1>4, <1>5, <1>6, <1>7 DEF MainStep

LEMMA StopTopic == StopInv /\ (Receive \/ TopicStep) => StopInv'
  <1> SUFFICES ASSUME StopInv, Receive \/ TopicStep PROVE StopInv'
    OBVIOUS
  <1>1. TypeOK'
    BY TypeTopic DEF StopInv
  <1> USE DEF StopInv, Starting, StopStands, StopPending, StopDone, ResetAhead, TopicGoes
  <1>2. CASE Receive
    BY <1>1, <1>2 DEF Receive, Command, status, readerVars, mainVars, deviceVars
  <1>3. CASE TopicReady \/ TopicClear
    BY <1>1, <1>3 DEF TopicReady, TopicClear, readerVars, mainVars, deviceVars
  <1>4. CASE TopicUnready
    <2>1. topicAt = "stop" /\ mainAt # "create"
      BY <1>4 DEF TopicUnready
    <2> QED
      BY <1>1, <1>4, <2>1 DEF TopicUnready, readerVars, mainVars, deviceVars
  <1>5. CASE TopicClose
    BY <1>1, <1>5 DEF TopicClose, readerVars, mainVars, deviceVars
  <1>6. CASE TopicEnd
    BY <1>1, <1>6 DEF TopicEnd, WriteEnd, status, readerVars, mainVars, deviceVars
  <1> QED
    BY <1>2, <1>3, <1>4, <1>5, <1>6 DEF TopicStep

LEMMA StopStep == StopInv /\ [Next]_vars => StopInv'
  <1>1. StopInv /\ (Gone \/ UNCHANGED vars) => StopInv'
    BY DEF Gone, vars, StopInv, TypeOK, Starting, StopStands, StopPending, StopDone,
           ResetAhead, status, readerVars, mainVars, topicVars, deviceVars
  <1> QED
    BY <1>1, StopReader, StopMain, StopTopic DEF Next

\* However the threads interleave, a stop from /lidar_status reaches the reader:
\* it does not go on waiting for data of a LiDAR that this stop has silenced.
THEOREM StopSafety == Spec => []StopIsNoticed
  <1>1. StopInv => StopIsNoticed
    BY DEF StopInv, StopDone, ResetAhead, StopIsNoticed, WaitsForNothing, StartPending
  <1> QED
    BY <1>1, StopInit, StopStep, PTL DEF Spec

-----------------------------------------------------------------------------
(* A restart comes before "trapped". *)

\* After a restart was decided on, and until it is sent, the reader waits for
\* nothing: either the decision is still to be carried out or it was.
RestartAhead ==
  lidar_restart_try /\ startsSinceData = 0 =>
    \/ lidar_trap_restart /\ readerAt \in {"judge", "switch", "last", "trap"}
    \/ ~wait_speed_right /\ readerAt \in {"off", "judge", "switch", "last", "trap", "due", "start"}

RestartInv == TypeOK /\ RestartAhead

LEMMA RestartInit == Init => RestartInv
  BY TypeInit DEF Init, RestartInv, RestartAhead

LEMMA RestartReader == RestartInv /\ ReaderStep => RestartInv'
  <1> SUFFICES ASSUME RestartInv, ReaderStep PROVE RestartInv'
    OBVIOUS
  <1>1. TypeOK'
    BY TypeReader DEF RestartInv
  <1> USE DEF RestartInv, RestartAhead, ReaderGoes
  <1>2. CASE Judge
    BY <1>1, <1>2 DEF Judge, status, deviceVars
  <1>3. CASE SwitchClose \/ SwitchStatus
    BY <1>1, <1>3 DEF SwitchClose, SwitchStatus, deviceVars
  <1>4. CASE TrapRestart
    BY <1>1, <1>4 DEF TrapRestart, WriteEnd, deviceVars
  <1>5. CASE StartDue \/ StartNotYet \/ NoStart
    BY <1>1, <1>5 DEF StartDue, StartNotYet, NoStart, StartWanted, status, deviceVars
  <1>6. CASE WriteStart
    BY <1>1, <1>6 DEF WriteStart
  <1>10. CASE WaitData
    BY <1>1, <1>10, Zenon DEF WaitData
  <1>7. CASE WaitFails
    BY <1>1, <1>7 DEF WaitFails, status, deviceVars
  <1>8. CASE WaitFailsLate
    <2>1. lidar_restart_try => startsSinceData = 1
      BY <1>8 DEF WaitFailsLate, TypeOK
    <2> QED
      BY <1>1, <1>8, <2>1 DEF WaitFailsLate, deviceVars
  <1>9. CASE ReaderLoads \/ ReaderStores
    BY <1>1, <1>9 DEF ReaderLoads, ReaderStores, status, deviceVars
  <1> QED
    BY <1>2, <1>3, <1>4, <1>5, <1>6, <1>7, <1>8, <1>9, <1>10 DEF ReaderStep

LEMMA RestartStep == RestartInv /\ [Next]_vars => RestartInv'
  <1> SUFFICES ASSUME RestartInv, [Next]_vars PROVE RestartInv'
    OBVIOUS
  <1>1. TypeOK'
    BY TypeStep DEF RestartInv
  <1>2. CASE MainStep \/ Leave \/ Exit
    <2>1. /\ UNCHANGED <<lidar_restart_try, lidar_trap_restart, wait_speed_right, startsSinceData>>
          /\ readerAt' \in {readerAt, "judge"}
      BY <1>2 DEF MainStep, CreatePort, OpenPort, StartReader, NodeReady, Check, AbnormalEnd,
         AbnormalUnready, HandleData, MainLoads, MainStores, Leave, Exit, WriteEnd, status,
         readerVars, deviceVars
    <2> QED
      BY <1>1, <2>1 DEF RestartInv, RestartAhead
  <1>3. CASE Receive \/ TopicStep
    <2>1. UNCHANGED <<lidar_restart_try, lidar_trap_restart, wait_speed_right,
                      startsSinceData, readerAt>>
      BY <1>3 DEF Receive, Command, TopicStep, TopicReady, TopicClear, TopicUnready,
         TopicClose, TopicEnd, WriteEnd, status, readerVars, deviceVars
    <2> QED
      BY <1>1, <2>1 DEF RestartInv, RestartAhead
  <1>4. CASE Gone \/ UNCHANGED vars
    BY <1>1, <1>4 DEF Gone, vars, RestartInv, RestartAhead, status, readerVars, deviceVars
  <1> QED
    BY <1>2, <1>3, <1>4, RestartReader DEF Next

\* Whatever main and the topic thread write meanwhile, the reader reports a
\* stuck LiDAR only after it has sent the start command again in vain.
THEOREM RestartSafety == Spec => RestartBeforeTrapped
  <1>1. RestartInv /\ [Next]_vars =>
          [WaitFailsLate /\ readerAt' = "load" => startsSinceData = 1]_vars
    BY DEF RestartInv, RestartAhead, TypeOK, WaitFailsLate, ReaderGoes
  <1> QED
    BY <1>1, RestartInit, RestartStep, PTL DEF Spec, RestartBeforeTrapped
=============================================================================
