---------------------------- MODULE MCCoinStream ----------------------------
(* Instantiates CoinStream for TLC.  Of the packages waitPackage reads one  *)
(* is quiet, and one is a ring start whose sample holds the beginning of a  *)
(* head and ends like the first byte of one; of the coin packages one is    *)
(* quiet and one holds a whole head.  A unit of angle is two degrees.       *)
EXTENDS CoinStream

A == <<4, 9, 1>>
B == <<8, 9, 2>>
RingStart == [ring |-> TRUE, samples |-> << <<PH_LOW, PH_HIGH, PH_LOW>> >>]
Plain     == [ring |-> FALSE, samples |-> <<A, B>>]

KINDS_MC == {RingStart, Plain}
SAMPLE_KINDS_MC == {<<A, B, A>>, <<A, <<85, 170, 131>>, <<3, 9, 85>>>>}
=============================================================================
