--------------------------- MODULE BootloaderProps ---------------------------
(* What the flash bootloader must and must not do.                         *)
EXTENDS Bootloader

FlashType == meta \in MetaPage /\ slot \in [1..SlotSize -> Byte]
RamType ==
    /\ session \in Session /\ prev \in Session /\ unlocked \in BOOLEAN
    /\ idle \in 0..S3Ticks
    /\ pending \in BOOLEAN /\ wait \in 0..ResetTicks
    /\ xfer \in Transfer
    /\ saved \in 0..MaxVersion
JobType ==
    /\ wmeta \in MetaPage
    /\ wdata \in Blocks \cup {<<>>}
    /\ wsize \in 0..SlotSize
    /\ step \in Nat
GhostType == complete \in BOOLEAN /\ top \in 0..MaxVersion /\ torn \in BOOLEAN
TypeOK ==
    /\ pc \in PC /\ flag \in BOOLEAN /\ quiet \in BOOLEAN
    /\ FlashType /\ RamType /\ JobType /\ GhostType

(* Whatever was cut or failed, and however often: a VALID marker never     *)
(* stands over a slot that a download has begun to change (bl_uds.c marks  *)
(* UPDATING before the erase and VALID only after the CRC).                *)
ValidMeansComplete == meta.mark = "VALID" => complete

(* A VALID page whose doublewords are all in carries the CRC of what the   *)
(* slot holds now, so the gate cannot turn away an image that 0x31 passed. *)
ValidMatchesSlot ==
    meta.mark = "VALID" /\ meta.size <= SlotSize =>
        meta.crc \in {ErasedCrc, Crc(Image(meta.size))}

(* The floor 0x34 carries across the erase of the meta page: unless some   *)
(* rewrite of that page was cut or failed, what the next boot will enforce *)
(* is exactly the highest version ever certified.                          *)
Floor == IF pc = "meta" THEN wmeta.version ELSE RollbackCounter
FloorTracksCertified == ~torn => Floor = top

(* No transfer data reaches the slot under a VALID marker: a transfer that *)
(* would accept another block has the marker against it.                   *)
OpenTransferIsUnmarked == xfer.active /\ ~xfer.closed => meta.mark # "VALID"

(* The bootloader does what UpdateContract promises.                       *)
Contract == INSTANCE UpdateContract WITH
    running <- pc \in {"app", "handoff"},
    mark    <- IF meta.mark = "VALID" THEN "valid"
               ELSE IF meta.mark = "UPDATING" THEN "updating" ELSE "absent",
    image   <- IF complete THEN "complete" ELSE "partial"
KeepsContract == Contract!Spec

-----------------------------------------------------------------------------
(* Liveness, once the tester is gone and the supply holds.                 *)

Unattended == quiet /\ pc \in {"drain", "tick", "exit"}

(* "Self-heal" (bl_main.c:168): a board left in the bootloader over a      *)
(* VALID image boots it.                                                   *)
ValidImageBoots == Unattended /\ AppCrcOk ~> pc = "app"

(* An abandoned transfer is dropped: S3 ends the session, and the pass     *)
(* that sees the session end clears it (bl_main.c:149).                    *)
TransferDropped == quiet /\ xfer.active /\ session # "DEFAULT" ~> ~xfer.active

(* A reset that was answered happens, flash operations and S3 or not.      *)
ResetHappens == pending ~> pc \in {"off", "reset", "app"}

(* What the loop has begun or promised, it brings to an end.               *)
LoopSettles == TransferDropped /\ ResetHappens

-----------------------------------------------------------------------------
(* What a comment of the code says and its steps do not keep.              *)

(* The comment is about power, so no flash operation fails here.           *)
SoundFlashSpec == Init /\ [][SoundNext]_vars

(* bl_uds.c:222: "any power loss from here until the 0x31 VALID write      *)
(* leaves the boot gate in stay in BL state".                              *)
RunsOnlyComplete == pc = "app" => complete
=============================================================================
