--------------------------- MODULE MCLidarControl ---------------------------
(* Instantiates LidarControl for TLC: the second failed wait in a row is   *)
(* the one after three seconds, up to three commands arrive, the LiDAR is   *)
(* one that is started and watched in every way or one that never is, and   *)
(* may rotate when the node starts.  In MCLidarStop.cfg it is a TOF at rest. *)
EXTENDS LidarControl
=============================================================================
