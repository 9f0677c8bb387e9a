------------------------------ MODULE MCBridge ------------------------------
(* Instances of Bridge: two connections are enough for a reconnect to meet   *)
(* what the first one left behind.                                           *)
EXTENDS Bridge
=============================================================================
