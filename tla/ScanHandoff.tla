---------------------------- MODULE ScanHandoff ----------------------------
(***************************************************************************)
(* The data plane of the LiDAR driver: how one revolution travels from the *)
(* reader thread (read_forever, node_lidar.cpp) to the main thread         *)
(* (data_handling, node_lidar.cpp; the loop of node_lidar_ros.cpp) through *)
(* scan_node_buf and scan_node_count, guarded by _lock and announced by    *)
(* the auto-reset event _dataEvent (locker.h).                             *)
(*                                                                         *)
(* A node is abstracted to whether it is a ring start; a revolution to the *)
(* number of the scan it becomes and to how many nodes it holds.  Whether  *)
(* the reader is asked to read at all is LidarControl's subject: here it   *)
(* may pause for any time between two batches.                             *)
(***************************************************************************)
EXTENDS Naturals

CONSTANTS LOCAL_SCAN,      \* _countof(local_scan): 1000 in the code
          MAX_SCAN_NODES,  \* lidar_information.h: 800
          BATCH,           \* nodes waitScanData returns at most: 128
          MAX_SCANS        \* bound of the model: scans the reader may publish

ASSUME HandoffAssumption ==
    /\ LOCAL_SCAN \in Nat /\ LOCAL_SCAN > 1
    /\ MAX_SCAN_NODES \in Nat /\ BATCH \in Nat /\ MAX_SCANS \in Nat

VARIABLES
    readerAt,         \* where read_forever is
    headSync,         \* local_scan[0] carries the sync bit
    scan_count,       \* nodes in local_scan
    lock,             \* who holds _lock
    scanInBuf,        \* number of the scan memcpy'd into scan_node_buf
    scan_node_count,  \* nodes of the scan in scan_node_buf
    countOf,          \* number of the scan scan_node_count belongs to
    signalled,        \* _dataEvent._is_signalled
    mainAt,           \* where the main thread is
    size,             \* send_lidar_data's count: [scan, nodes]
    delivered         \* the LaserScan published last: [scan, points]

readerVars == <<readerAt, headSync, scan_count>>
bufferVars == <<scanInBuf, scan_node_count, countOf>>
mainVars == <<mainAt, size, delivered>>
vars == <<readerVars, lock, bufferVars, signalled, mainVars>>

Reader == "reader"
Main == "main"
Free == "free"

ReaderStages == {"read", "lock", "copy", "count", "unlock"}
MainStages == {"wait", "grab", "test", "send", "size", "points", "publish", "aborted"}

\* One type invariant for the module.
TypeOK ==
    /\ readerAt \in ReaderStages /\ mainAt \in MainStages
    /\ headSync \in BOOLEAN /\ signalled \in BOOLEAN
    /\ scan_count \in 0 .. LOCAL_SCAN - 1
    /\ lock \in {Free, Reader, Main}
    /\ scanInBuf \in 0 .. MAX_SCANS /\ countOf \in 0 .. MAX_SCANS
    /\ scan_node_count \in 0 .. LOCAL_SCAN - 1
    /\ size \in [scan : 0 .. MAX_SCANS, nodes : 0 .. LOCAL_SCAN - 1]
    /\ delivered \in [scan : 0 .. MAX_SCANS, points : 0 .. LOCAL_SCAN - 1]

Running == mainAt # "aborted"

-----------------------------------------------------------------------------
(* The reader thread.                                                      *)

\* Mutant: the full array is not stepped back.
Filled_NoStepBack(count, n) == count + n

\* local_scan[scan_count++] = node, n times; a full array steps back by one
\* each time, so that its last cell is overwritten.
Filled(count, n) == IF count + n < LOCAL_SCAN THEN count + n ELSE LOCAL_SCAN - 1

\* waitScanData returned n nodes, none of them a ring start: a full batch,
\* or fewer when it timed out.
OrdinaryNodes ==
    /\ Running /\ readerAt = "read"
    /\ \E n \in 1 .. BATCH : scan_count' = Filled(scan_count, n)
    /\ UNCHANGED <<readerAt, headSync, lock, bufferVars, signalled, mainVars>>

\* Mutant: local_scan[0]'s sync bit is not looked at.
RingStart_NoHeadTest ==
    /\ Running /\ readerAt = "read" /\ scanInBuf < MAX_SCANS
    /\ \E n \in 0 .. BATCH - 1 : scan_count' = Filled(scan_count, n)
    /\ readerAt' = "lock"
    /\ UNCHANGED <<headSync, lock, bufferVars, signalled, mainVars>>

\* waitScanData stops at a ring start, so it is the last node of its batch.
\* The first one ever only opens local_scan; every later one closes the
\* revolution before it, which goes to the buffer.
RingStart ==
    /\ Running /\ readerAt = "read"
    /\ \E n \in 0 .. BATCH - 1 :
         IF headSync
           THEN /\ scanInBuf < MAX_SCANS
                /\ scan_count' = Filled(scan_count, n)
                /\ readerAt' = "lock"
                /\ UNCHANGED headSync
           ELSE /\ scan_count' = 1
                /\ headSync' = TRUE
                /\ UNCHANGED readerAt
    /\ UNCHANGED <<lock, bufferVars, signalled, mainVars>>

\* Mutant: the reader publishes without _lock.
ReaderLocks_Not ==
    /\ Running /\ readerAt = "lock"
    /\ readerAt' = "copy"
    /\ UNCHANGED <<headSync, scan_count, lock, bufferVars, signalled, mainVars>>

ReaderLocks ==
    /\ Running /\ readerAt = "lock" /\ lock = Free
    /\ lock' = Reader /\ readerAt' = "copy"
    /\ UNCHANGED <<headSync, scan_count, bufferVars, signalled, mainVars>>

\* memcpy(scan_node_buf, local_scan, ...)
CopyScan ==
    /\ Running /\ readerAt = "copy"
    /\ scanInBuf' = scanInBuf + 1 /\ readerAt' = "count"
    /\ UNCHANGED <<headSync, scan_count, lock, scan_node_count, countOf, signalled, mainVars>>

\* Mutant: a bare condition variable, with no flag kept.
CountScan_SignalsWaiter ==
    /\ Running /\ readerAt = "count"
    /\ scan_node_count' = scan_count /\ countOf' = scanInBuf
    /\ signalled' = (mainAt = "wait") /\ readerAt' = "unlock"
    /\ UNCHANGED <<headSync, scan_count, lock, scanInBuf, mainVars>>

\* scan_node_count = scan_count; _dataEvent.set(), which does nothing when
\* the event is signalled already.
CountScan ==
    /\ Running /\ readerAt = "count"
    /\ scan_node_count' = scan_count /\ countOf' = scanInBuf
    /\ signalled' = TRUE /\ readerAt' = "unlock"
    /\ UNCHANGED <<headSync, scan_count, lock, scanInBuf, mainVars>>

\* _lock.unlock(); scan_count = 0; the ring start becomes local_scan[0].
ReaderUnlocks ==
    /\ Running /\ readerAt = "unlock"
    /\ lock' = Free /\ scan_count' = 1 /\ readerAt' = "read"
    /\ UNCHANGED <<headSync, bufferVars, signalled, mainVars>>

-----------------------------------------------------------------------------
(* The main thread: data_handling, then the publication of the LaserScan.  *)

\* Event::wait returns EVENT_OK and resets the event.
EventTaken ==
    /\ mainAt = "wait" /\ signalled
    /\ signalled' = FALSE /\ mainAt' = "grab"
    /\ UNCHANGED <<readerVars, lock, bufferVars, size, delivered>>

\* Event::wait times out: data_handling returns false, the loop starts over.
EventTimeout ==
    /\ mainAt = "wait" /\ ~signalled
    /\ UNCHANGED vars

\* pthread_cond_timedwait may return 0 with nobody having signalled, which
\* Event::wait does not test in a loop: its assert(_is_signalled) aborts.
SpuriousWakeup ==
    /\ mainAt = "wait" /\ ~signalled
    /\ mainAt' = "aborted"
    /\ UNCHANGED <<readerVars, lock, bufferVars, signalled, size, delivered>>

MainLocks(from, to) ==
    /\ mainAt = from /\ lock = Free
    /\ lock' = Main /\ mainAt' = to
    /\ UNCHANGED <<readerVars, bufferVars, signalled, size, delivered>>

\* grabScanData takes _lock to look at scan_node_count ...
GrabLock == MainLocks("grab", "test")

\* ... and keeps it when the buffer is empty: RESULT_FAIL returns early.
GrabTest ==
    /\ mainAt = "test"
    /\ IF scan_node_count = 0
         THEN mainAt' = "wait" /\ UNCHANGED lock
         ELSE mainAt' = "send" /\ lock' = Free
    /\ UNCHANGED <<readerVars, bufferVars, signalled, size, delivered>>

\* send_lidar_data takes _lock again; a newer scan may be there by now.
SendLock == MainLocks("send", "size")

ReadSize ==
    /\ mainAt = "size"
    /\ size' = [scan |-> countOf, nodes |-> scan_node_count] /\ mainAt' = "points"
    /\ UNCHANGED <<readerVars, lock, bufferVars, signalled, delivered>>

\* The points are copied when 0 < count < MAX_SCAN_NODES; otherwise outscan
\* stays empty.  Either way _lock is released and data_handling returns true,
\* so that the loop publishes outscan.
SendPoints ==
    /\ mainAt = "points"
    /\ delivered' = [scan |-> scanInBuf,
                     points |-> IF size.nodes \in 1 .. MAX_SCAN_NODES - 1
                                  THEN size.nodes ELSE 0]
    /\ lock' = Free /\ mainAt' = "publish"
    /\ UNCHANGED <<readerVars, bufferVars, signalled, size>>

\* Mutant: the event is reset after its use, not in wait().
PublishScan_ResetsEvent ==
    /\ mainAt = "publish" /\ mainAt' = "wait"
    /\ signalled' = FALSE
    /\ UNCHANGED <<readerVars, lock, bufferVars, size, delivered>>

\* laser_pub->publish(*scan_msg); the loop starts over.
PublishScan ==
    /\ mainAt = "publish" /\ mainAt' = "wait"
    /\ UNCHANGED <<readerVars, lock, bufferVars, signalled, size, delivered>>

\* The process is gone.
Aborted == ~Running /\ UNCHANGED vars

-----------------------------------------------------------------------------
Init ==
    /\ readerAt = "read" /\ headSync = FALSE /\ scan_count = 0
    /\ lock = Free
    /\ scanInBuf = 0 /\ scan_node_count = 0 /\ countOf = 0
    /\ signalled = FALSE
    /\ mainAt = "wait"
    /\ size = [scan |-> 0, nodes |-> 0]
    /\ delivered = [scan |-> 0, points |-> 0]

ReaderStep ==
    OrdinaryNodes \/ RingStart \/ ReaderLocks \/ CopyScan \/ CountScan \/ ReaderUnlocks

MainStep ==
    EventTaken \/ GrabLock \/ GrabTest \/ SendLock \/ ReadSize \/ SendPoints \/ PublishScan

Next == ReaderStep \/ MainStep \/ EventTimeout \/ SpuriousWakeup \/ Aborted

Spec == Init /\ [][Next]_vars

\* The scheduler runs both threads, and a mutex is handed to a thread that
\* waits for it again and again.  Nothing makes the LiDAR send nodes.
Fairness ==
    /\ WF_vars(EventTaken) /\ WF_vars(GrabTest) /\ WF_vars(ReadSize)
    /\ WF_vars(SendPoints) /\ WF_vars(PublishScan)
    /\ SF_vars(GrabLock) /\ SF_vars(SendLock) /\ SF_vars(ReaderLocks)
    /\ WF_vars(CopyScan) /\ WF_vars(CountScan) /\ WF_vars(ReaderUnlocks)

FairSpec == Spec /\ Fairness

-----------------------------------------------------------------------------
(* Properties.                                                             *)

\* grabScanData's early return with _lock held (node_lidar.cpp, scan_node_count
\* == 0) is never taken: a thread outside its critical section does not hold
\* the lock, and the critical sections exclude each other.
LockReturned ==
    /\ lock = Main <=> mainAt \in {"test", "size", "points"}
    /\ lock = Reader <=> readerAt \in {"copy", "count", "unlock"}

\* The points and the count a LaserScan is made of belong to one revolution,
\* whatever the reader publishes between data_handling's two critical sections.
ScanNotTorn == mainAt = "points" => size.scan = scanInBuf

\* No lost wakeup: a scan in the buffer that has not been delivered yet is
\* announced by the event, or main is past the wait and about to copy it, or
\* the reader has not reached set().
NoScanOverlooked ==
    Running /\ delivered.scan < countOf =>
        signalled \/ mainAt \in {"grab", "test", "send", "size", "points"}

\* The driver implements a one-place mailbox: every scan delivered is the
\* newest complete one, never an older one, and the newest is delivered in
\* the end (locker.h's Event, node_lidar.cpp's buffer).
Mailbox == INSTANCE ScanMailbox WITH
              latest <- countOf, delivered <- delivered.scan, running <- Running
ImplementsMailbox == Mailbox!Spec
=============================================================================
