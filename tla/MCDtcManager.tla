---------------------------- MODULE MCDtcManager ----------------------------
(* Instances of the fault manager for TLC: the cfg gives all the constants *)
EXTENDS DtcManagerProps

(* No step reads the mirror and no property of the run is about it: states *)
(* that differ in it alone count as one.                                   *)
Told == <<phase, sim, dtc, counter, settingOn, ghosts>>
=============================================================================
