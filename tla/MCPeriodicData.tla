--------------------------- MODULE MCPeriodicData ---------------------------
(* Instances of the periodic data for TLC: more identifiers than places.   *)
EXTENDS PeriodicDataProps

MCDividers == {1, 2}
=============================================================================
