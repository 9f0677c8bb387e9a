--------------------------- MODULE MCScanHandoff ---------------------------
(* Instantiates ScanHandoff for TLC: a local array of four nodes, of which *)
(* a scan of three is already too many for the consumer.                   *)
EXTENDS ScanHandoff
=============================================================================
