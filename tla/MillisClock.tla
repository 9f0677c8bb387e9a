---------------------------- MODULE MillisClock ----------------------------
(***************************************************************************)
(* The arithmetic of the Arduino's millis() clock.  The counter is a       *)
(* uint32_t that wraps; here it wraps at CLOCK_RANGE = 2 * HALF_RANGE, so  *)
(* that a small instance wraps too.  Differences are written without %     *)
(* (both arguments are in 0 .. CLOCK_RANGE - 1), which keeps them linear   *)
(* and within reach of the provers.                                        *)
(***************************************************************************)
EXTENDS Integers

CONSTANT HALF_RANGE     \* 2^31 for the uint32_t of the sketch

ASSUME HalfRangeAssumption == HALF_RANGE \in Nat \ {0}

CLOCK_RANGE == 2 * HALF_RANGE
Stamp == 0 .. CLOCK_RANGE - 1

\* Mutant: the difference without the unsigned wrap.
Elapsed_NoWrap(a, b) == IF a >= b THEN a - b ELSE b - a

\* (uint32_t)(a - b)
Elapsed(a, b) == IF a >= b THEN a - b ELSE a - b + CLOCK_RANGE

\* (uint32_t)(a + d), for d in 0 .. CLOCK_RANGE
After(a, d) == IF a + d < CLOCK_RANGE THEN a + d ELSE a + d - CLOCK_RANGE

\* Mutant: the stamps compared as they stand.
TimeReached_Unsigned(now, deadline) == now >= deadline

\* timeReached: (int32_t)(now - deadline) >= 0, that is, the unsigned
\* difference has a clear top bit.
TimeReached(now, deadline) == Elapsed(now, deadline) < HALF_RANGE
=============================================================================
