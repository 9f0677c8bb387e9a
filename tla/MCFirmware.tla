----------------------------- MODULE MCFirmware -----------------------------
(* A small instance of Firmware: one tick stands for some 1000 ms, so that    *)
(* the hold, the watchdog and the clock's range keep their order.            *)
EXTENDS Firmware

MCSpeeds == {-9, 0, 1}          \* one clamped, one null, one at the 0.5 mm/s threshold
MCHolds == {-1, 9}              \* one below the clamp, one above
=============================================================================
