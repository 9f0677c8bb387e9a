--------------------------- MODULE MCMotorShield ---------------------------
(***************************************************************************)
(* Two motors, two speeds of either direction, one reset at any moment and *)
(* two lost transactions.                                                  *)
(***************************************************************************)
EXTENDS MotorShield
=============================================================================
