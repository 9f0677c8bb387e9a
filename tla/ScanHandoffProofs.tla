------------------------- MODULE ScanHandoffProofs -------------------------
(***************************************************************************)
(* Machine-checked proofs about ScanHandoff, for every size of the arrays, *)
(* of a batch and of the number of scans.                                  *)
(***************************************************************************)
EXTENDS ScanHandoff, TLAPS

\* Main is past the wait and has not copied the points yet.
Collecting == mainAt \in {"grab", "test", "send", "size", "points"}

\* A reader on its way to the buffer has a ring start at the head of its array,
\* hence at least one node, and room for one more scan.
HeadOpen ==
    /\ headSync => scan_count > 0
    /\ readerAt # "read" => headSync
    /\ readerAt \in {"lock", "copy"} => scanInBuf < MAX_SCANS

\* Points and count are of one scan except between the reader's two writes,
\* which it makes under the lock, and a counted scan is never empty.
BufferWhole ==
    /\ readerAt # "count" => scanInBuf = countOf
    /\ readerAt = "count" => scanInBuf = countOf + 1
    /\ countOf > 0 <=> scan_node_count > 0

\* The event is set, and main woken, only by a scan that is there.
NeverWokenForNothing == signalled \/ Collecting => countOf > 0

\* What was delivered is not newer than what is in the buffer.
DeliveredInOrder == delivered.scan <= countOf

HandoffInv ==
    /\ TypeOK /\ LockReturned /\ HeadOpen /\ BufferWhole
    /\ NeverWokenForNothing /\ DeliveredInOrder /\ ScanNotTorn /\ NoScanOverlooked

\* Appending to local_scan stays inside the array and never empties it.
LEMMA FilledInRange ==
    ASSUME NEW c \in 0 .. LOCAL_SCAN - 1, NEW n \in Nat
    PROVE  /\ Filled(c, n) \in 0 .. LOCAL_SCAN - 1
           /\ c > 0 => Filled(c, n) > 0
  BY HandoffAssumption DEF Filled

\* The inductive invariant holds in the initial state ...
LEMMA HandoffInit == Init => HandoffInv
  <1> SUFFICES ASSUME Init PROVE HandoffInv
    OBVIOUS
  <1> USE HandoffAssumption DEF Init
  <1>1. TypeOK
    <2>1. 0 \in 0 .. LOCAL_SCAN - 1 /\ 0 \in 0 .. MAX_SCANS
      OBVIOUS
    <2> QED BY <2>1 DEF TypeOK, ReaderStages, MainStages, Free
  <1>2. LockReturned
    BY DEF LockReturned, Free, Reader, Main
  <1>3. HeadOpen /\ BufferWhole /\ ScanNotTorn
    BY DEF HeadOpen, BufferWhole, ScanNotTorn
  <1>4. NeverWokenForNothing /\ DeliveredInOrder /\ NoScanOverlooked
    BY DEF NeverWokenForNothing, Collecting, DeliveredInOrder, NoScanOverlooked
  <1> QED BY <1>1, <1>2, <1>3, <1>4 DEF HandoffInv

\* ... and every step of either thread preserves it.
LEMMA HandoffStep == HandoffInv /\ [Next]_vars => HandoffInv'
  <1> SUFFICES ASSUME HandoffInv, [Next]_vars PROVE HandoffInv'
    OBVIOUS
  <1> USE HandoffAssumption
      DEF HandoffInv, TypeOK, LockReturned, HeadOpen, BufferWhole, NeverWokenForNothing,
          Collecting, DeliveredInOrder, ScanNotTorn, NoScanOverlooked, ReaderStages,
          MainStages, Running, Free, Reader, Main, readerVars, bufferVars, mainVars
  <1>1. CASE OrdinaryNodes
    <2>1. PICK n \in 1 .. BATCH : scan_count' = Filled(scan_count, n)
      BY <1>1 DEF OrdinaryNodes
    <2>2. scan_count' \in 0 .. LOCAL_SCAN - 1 /\ (scan_count > 0 => scan_count' > 0)
      BY <2>1, FilledInRange
    <2> QED BY <1>1, <2>2 DEF OrdinaryNodes
  <1>2. CASE RingStart
    <2>1. CASE headSync
      <3>1. PICK n \in 0 .. BATCH - 1 : scan_count' = Filled(scan_count, n)
        BY <1>2, <2>1 DEF RingStart
      <3>2. scan_count' \in 0 .. LOCAL_SCAN - 1 /\ (scan_count > 0 => scan_count' > 0)
        BY <3>1, FilledInRange
      <3> QED BY <1>2, <2>1, <3>2 DEF RingStart
    <2>2. CASE ~headSync
      BY <1>2, <2>2 DEF RingStart
    <2> QED BY <2>1, <2>2
  <1>3. CASE ReaderLocks
    BY <1>3 DEF ReaderLocks
  <1>4. CASE CopyScan
    BY <1>4 DEF CopyScan
  <1>5. CASE CountScan
    BY <1>5 DEF CountScan
  <1>6. CASE ReaderUnlocks
    BY <1>6 DEF ReaderUnlocks
  <1>7. CASE EventTaken
    BY <1>7 DEF EventTaken
  <1>8. CASE GrabLock
    BY <1>8 DEF GrabLock, MainLocks
  <1>9. CASE GrabTest
    BY <1>9 DEF GrabTest
  <1>10. CASE SendLock
    BY <1>10 DEF SendLock, MainLocks
  <1>11. CASE ReadSize
    BY <1>11 DEF ReadSize
  <1>12. CASE SendPoints
    BY <1>12 DEF SendPoints
  <1>13. CASE PublishScan
    BY <1>13 DEF PublishScan
  <1>14. CASE SpuriousWakeup
    BY <1>14 DEF SpuriousWakeup
  <1>15. CASE UNCHANGED vars
    BY <1>15 DEF vars
  <1> QED
    BY <1>1, <1>2, <1>3, <1>4, <1>5, <1>6, <1>7, <1>8, <1>9, <1>10, <1>11, <1>12, <1>13,
       <1>14, <1>15
    DEF Next, ReaderStep, MainStep, EventTimeout, Aborted

\* So it always holds.
LEMMA HandoffInvariant == Spec => []HandoffInv
  BY HandoffInit, HandoffStep, PTL DEF Spec

\* The arrays are indexed inside their bounds, whatever the LiDAR sends.
THEOREM HandoffTypeCorrect == Spec => []TypeOK
  <1>1. HandoffInv => TypeOK
    BY DEF HandoffInv
  <1> QED BY <1>1, HandoffInvariant, PTL

\* _lock is always given back: grabScanData's early return is dead code.
THEOREM LockSafety == Spec => []LockReturned
  <1>1. HandoffInv => LockReturned
    BY DEF HandoffInv
  <1> QED BY <1>1, HandoffInvariant, PTL

\* A LaserScan is made of the points and the count of one revolution.
THEOREM WholeScans == Spec => []ScanNotTorn
  <1>1. HandoffInv => ScanNotTorn
    BY DEF HandoffInv
  <1> QED BY <1>1, HandoffInvariant, PTL

\* The auto-reset event loses no wakeup.
THEOREM NoLostWakeup == Spec => []NoScanOverlooked
  <1>1. HandoffInv => NoScanOverlooked
    BY DEF HandoffInv
  <1> QED BY <1>1, HandoffInvariant, PTL

\* The two threads implement the safety of the one-place mailbox: every step
\* publishes one newer scan, delivers the newest one, aborts, or stutters.
THEOREM MailboxSafety == Spec => Mailbox!Safety
  <1>1. Init => Mailbox!Init
    BY DEF Init, Mailbox!Init, Running
  <1>2. HandoffInv /\ [Next]_vars => [Mailbox!Next]_(Mailbox!vars)
    <2> SUFFICES ASSUME HandoffInv, [Next]_vars PROVE [Mailbox!Next]_(Mailbox!vars)
      OBVIOUS
    <2> USE DEF Mailbox!vars, Mailbox!Next, readerVars, bufferVars, mainVars, Running
    <2>1. CASE CountScan
      <3>1. countOf' = countOf + 1 /\ delivered' = delivered /\ mainAt' = mainAt /\ mainAt # "aborted"
        BY <2>1 DEF CountScan, HandoffInv, BufferWhole
      <3> QED BY <3>1 DEF Mailbox!Publish
    <2>2. CASE SendPoints
      <3>1. /\ countOf' = countOf /\ countOf > 0
            /\ mainAt # "aborted" /\ mainAt' # "aborted"
        BY <2>2 DEF SendPoints, HandoffInv, NeverWokenForNothing, Collecting
      <3>2. delivered'.scan = scanInBuf
        BY <2>2 DEF SendPoints
      <3>3. scanInBuf = countOf
        BY <2>2 DEF SendPoints, HandoffInv, LockReturned, BufferWhole, Main, Reader
      <3> QED BY <3>1, <3>2, <3>3 DEF Mailbox!Deliver
    <2>3. CASE SpuriousWakeup
      BY <2>3 DEF SpuriousWakeup, Mailbox!Abort
    <2>4. CASE ReaderStep /\ ~CountScan
      BY <2>4 DEF ReaderStep, OrdinaryNodes, RingStart, ReaderLocks, CopyScan, ReaderUnlocks
    <2>5. CASE MainStep /\ ~SendPoints
      BY <2>5 DEF MainStep, EventTaken, GrabLock, GrabTest, SendLock, MainLocks, ReadSize, PublishScan
    <2>6. CASE UNCHANGED vars
      BY <2>6 DEF vars
    <2> QED BY <2>1, <2>2, <2>3, <2>4, <2>5, <2>6 DEF Next, EventTimeout, Aborted
  <1> QED BY <1>1, <1>2, HandoffInvariant, PTL DEF Spec, Mailbox!Safety
=============================================================================
