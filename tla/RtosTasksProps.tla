---------------------------- MODULE RtosTasksProps ----------------------------
(* What main.c relies on.                                                  *)
EXTENDS RtosTasks

(* As long as no byte was missed, the receiver has of a frame exactly what *)
(* the peer has sent of it, whatever the tasks and the watchdog do.        *)
InStep == whole => buf = SubSeq(peer.frame, 1, peer.pos)

(* A refresh of the watchdog vouches for the main task and for the RS-485  *)
(* task: both passed the head of their loops since the one before, though  *)
(* loads and stores of the flags interleave.  (Not so for the CAN task: a  *)
(* store of the RS-485 task that was cut off by the main task brings back  *)
(* a bit of before the clear.)                                             *)
Refreshed == pc[Main] = "test" /\ pc'[Main] = "clear"
RefreshVouches == [][Refreshed => passed]_board

(* When the processor stops in an assertion or a masked wait, the main     *)
(* task in its safe state, or that task or the RS-485 task for another     *)
(* reason, the watchdog starts the firmware again.  (Not so for the CAN    *)
(* task: a bit brought back as above vouches for it, time and again.)      *)
Standstill == Dead \/ \E t \in {Main, Rs} : pc[t] = "stalled"
StandstillEnds == Standstill ~> ~Standstill

(* A bus-off that HAL_FDCAN_ErrorCallback tells of is recovered from, also *)
(* when it comes during the recovery or after a restart that failed.       *)
(* (chip # "on" ~> chip = "on" does not hold: a bus-off that is not told,  *)
(* and a restart that fails unseen, leave the node off the bus for good.)  *)
SignalIsServed == busoff ~> chip = "on"

(* Debug_Print returns: no caller loses the processor in it.               *)
PrintsReturn == hung = "no"

=============================================================================
