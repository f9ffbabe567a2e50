------------------------------- MODULE Kernel -------------------------------
(***************************************************************************)
(* The FreeRTOS kernel as the firmware links it: scheduler, queues,        *)
(* semaphores, mutexes and notifications, under every program whose tasks  *)
(* and interrupts make the calls of a scene.                               *)
(***************************************************************************)
EXTENDS Notify

vars == <<k, pc, loc, qs, scene>>

Init == SchedInit /\ QueueInit

Next == (SchedNext /\ UNCHANGED qs) \/ QueueNext \/ NotifyNext

Spec == Init /\ [][Next]_vars

=============================================================================
