---------------------------- MODULE ScanMailbox ----------------------------
(***************************************************************************)
(* What the LiDAR driver promises its consumer: a mailbox of one scan.     *)
(* The producer overwrites it, the consumer takes what is there now, so a  *)
(* slow consumer skips scans but never sees one older than it already had, *)
(* and the newest scan is taken in the end unless the process aborts.      *)
(* ScanHandoff (node_lidar.cpp, locker.h) is shown to implement it.        *)
(***************************************************************************)
EXTENDS Naturals

VARIABLES latest,     \* number of the scan in the mailbox, 0 before the first
          delivered,  \* number of the scan the consumer took last
          running     \* FALSE once the process has aborted

vars == <<latest, delivered, running>>

Init == latest = 0 /\ delivered = 0 /\ running = TRUE

Publish == running /\ latest' = latest + 1 /\ UNCHANGED <<delivered, running>>

Deliver == running /\ latest > 0 /\ delivered' = latest /\ UNCHANGED <<latest, running>>

Abort == running /\ running' = FALSE /\ UNCHANGED <<latest, delivered>>

Next == Publish \/ Deliver \/ Abort

Safety == Init /\ [][Next]_vars

Spec == Safety /\ WF_vars(delivered # latest /\ Deliver)
=============================================================================
