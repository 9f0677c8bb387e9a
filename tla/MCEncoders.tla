----------------------------- MODULE MCEncoders -----------------------------
(***************************************************************************)
(* Three encoders: the first alone on its port, the other two sharing one; *)
(* the library as it is, for all ports of the Uno, and without port 1.     *)
(***************************************************************************)
EXTENDS Encoders

MCSettings == {PCINT_ENABLE, PCINT_ENABLE \ (8..15)}
=============================================================================
