--------------------------- MODULE UpdateContract ---------------------------
(***************************************************************************)
(* What the flash bootloader promises about the image it guards, said      *)
(* without sessions, requests, doublewords or checksums.  The marker in    *)
(* flash tells what may be done: the image is altered only while it is not *)
(* marked valid, it is marked valid only when it is complete, and nothing  *)
(* runs while it is marked as being updated.  A board without a marker is  *)
(* on its own: the contract lets it run whatever it holds.                 *)
(***************************************************************************)
VARIABLES running, mark, image

vars == <<running, mark, image>>

Init ==
    /\ running = FALSE
    /\ \/ mark = "valid" /\ image = "complete"
       \/ mark = "absent" /\ image \in {"complete", "partial"}

Run ==
    /\ mark # "updating"
    /\ running' = TRUE
    /\ UNCHANGED <<mark, image>>

Stop == running' = FALSE /\ UNCHANGED <<mark, image>>

Unmark == ~running /\ mark' = "absent" /\ UNCHANGED <<running, image>>

MarkUpdating ==
    /\ ~running /\ mark = "absent"
    /\ mark' = "updating"
    /\ UNCHANGED <<running, image>>

Alter ==
    /\ ~running /\ mark # "valid"
    /\ image' = "partial"
    /\ UNCHANGED <<running, mark>>

Complete ==         \* the image passed its check
    /\ ~running /\ mark # "valid"
    /\ image' = "complete"
    /\ UNCHANGED <<running, mark>>

MarkValid ==
    /\ ~running /\ mark = "absent" /\ image = "complete"
    /\ mark' = "valid"
    /\ UNCHANGED <<running, image>>

Next == Run \/ Stop \/ Unmark \/ MarkUpdating \/ Alter \/ Complete \/ MarkValid

Spec == Init /\ [][Next]_vars
=============================================================================
