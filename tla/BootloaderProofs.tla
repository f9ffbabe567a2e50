-------------------------- MODULE BootloaderProofs --------------------------
(* The safety of the bootloader, for every slot, page and doubleword size, *)
(* every checksum, and any number of power losses and failing operations.  *)
(* The inductive invariant says what is true of the meta page, the         *)
(* transfer and the job in hand at every flash primitive.                  *)
EXTENDS BootloaderProps, TLAPS

(* The jobs hold what their handlers checked before they started them.     *)
JobInv ==
    /\ pc = "meta" => /\ step \in 0..4
                      /\ wmeta.mark \in {"UPDATING", "VALID"}
    /\ pc = "write" => /\ xfer.active /\ ~xfer.closed
                       /\ wdata \in Blocks
                       /\ xfer.written + Len(wdata) <= xfer.size

(* The meta page on its way from erased to wmeta.                          *)
PageInv ==
    pc = "meta" =>
        /\ step = 1 => meta = ErasedMeta
        /\ step = 2 => meta = [ErasedMeta EXCEPT !.mark = wmeta.mark]
        /\ step = 3 => meta = [wmeta EXCEPT !.crc = ErasedCrc]
        /\ step = 4 => meta = wmeta

(* The marker is against the slot whenever the slot can change.            *)
MarkInv ==
    /\ meta.mark = "VALID" => complete /\ ~(xfer.active /\ ~xfer.closed)
    /\ pc = "erase" => meta.mark = "UPDATING"
    /\ pc = "meta" /\ wmeta.mark = "VALID" => complete /\ xfer.active /\ xfer.closed

(* What is about to be certified is the CRC of the slot.                   *)
CrcInv ==
    /\ ValidMatchesSlot
    /\ pc = "meta" /\ wmeta.mark = "VALID" =>
          wmeta.size \in 1..SlotSize /\ wmeta.crc = Crc(Image(wmeta.size))

(* The floor a transfer was opened with is still the highest version.      *)
FloorInv ==
    ~torn =>
        /\ Floor = top
        /\ pc = "erase" => saved = top
        /\ pc = "meta" /\ wmeta.mark = "UPDATING" => saved = top
        /\ xfer.active /\ ~(pc = "meta" /\ wmeta.mark = "VALID") => saved = top

IInv == TypeOK /\ JobInv /\ PageInv /\ MarkInv /\ CrcInv /\ FloorInv
-----------------------------------------------------------------------------
(* Facts about the constants *)

LEMMA BlockFacts ==
    ASSUME NEW b \in Blocks
    PROVE  b \in Seq(Byte) /\ Len(b) \in Nat \ {0} /\ \A i \in 1..Len(b) : b[i] \in Byte
BY SizesAssumption

LEMMA CrcOfSlot ==
    ASSUME slot \in [1..SlotSize -> Byte], NEW n \in 0..SlotSize
    PROVE  Crc(Image(n)) \in CrcValue
<1>1. SlotSize \in Nat
  BY SizesAssumption
<1>2. Image(n) \in [1..n -> Byte]
  BY <1>1 DEF Image
<1> QED
  BY <1>2, CrcAssumption

LEMMA Pages ==
    /\ ErasedMeta \in MetaPage /\ ErasedMeta.mark = "erased"
    /\ \A v \in 0..MaxVersion : UpdatingMeta(v) \in MetaPage
    /\ \A v \in 0..MaxVersion, n \in 0..SlotSize, c \in CrcValue :
          ValidMeta(v, n, c) \in MetaPage
BY SizesAssumption, BoundsAssumption, CrcAssumption
   DEF ErasedMeta, UpdatingMeta, ValidMeta, MetaPage, Mark

LEMMA ProgrammedType ==
    ASSUME FlashType, JobType
    PROVE  Programmed \in MetaPage
BY DEF FlashType, JobType, Programmed, MetaPage

LEMMA RollbackType ==
    ASSUME FlashType
    PROVE  RollbackCounter \in 0..MaxVersion
BY BoundsAssumption DEF FlashType, RollbackCounter, MetaPage

LEMMA NoTransferType == NoTransfer \in Transfer /\ ~NoTransfer.active
BY SizesAssumption, BoundsAssumption DEF Transfer, NoTransfer

LEMMA OpenType ==
    ASSUME NEW n \in 0..SlotSize
    PROVE  [active |-> TRUE, closed |-> FALSE, size |-> n, written |-> 0,
            seq |-> 1 % SeqMod] \in Transfer
BY SizesAssumption, BoundsAssumption DEF Transfer

LEMMA CloseType == \A x \in Transfer : [x EXCEPT !.closed = TRUE] \in Transfer
BY DEF Transfer

LEMMA ConsumeType == \A x \in Transfer : [x EXCEPT !.active = FALSE] \in Transfer
BY DEF Transfer

LEMMA AcceptType ==
    ASSUME NEW x \in Transfer, NEW n \in Nat, x.written + n <= SlotSize
    PROVE  [x EXCEPT !.written = @ + n, !.seq = (@ + 1) % SeqMod] \in Transfer
<1>1. x.written + n \in 0..SlotSize /\ (x.seq + 1) % SeqMod \in 0..(SeqMod - 1)
  BY SizesAssumption, BoundsAssumption DEF Transfer
<1> QED
  BY <1>1 DEF Transfer

LEMMA EraseType ==
    ASSUME FlashType, NEW p
    PROVE  ErasePage(p) \in [1..SlotSize -> Byte]
BY BytesAssumption DEF FlashType, ErasePage

LEMMA WrittenType ==
    ASSUME TypeOK, wdata \in Blocks
    PROVE  Written \in [1..SlotSize -> Byte]
<1>1. ASSUME NEW i \in 1..SlotSize, i \in Cells
      PROVE  Padded(i) \in Byte
  <2>1. xfer.written \in Nat /\ step \in Nat /\ DWord \in Nat
    BY SizesAssumption DEF TypeOK, RamType, JobType, Transfer
  <2>2. i \in Int /\ i - xfer.written >= 1
    BY <1>1, <2>1, SizesAssumption DEF Cells, Target
  <2>3. CASE i - xfer.written <= Len(wdata)
    <3>1. i - xfer.written \in 1..Len(wdata)
      BY <2>1, <2>2, <2>3, BlockFacts
    <3> QED
      BY <2>3, <3>1, BlockFacts DEF Padded
  <2>4. CASE ~(i - xfer.written <= Len(wdata))
    BY <2>4, BytesAssumption DEF Padded
  <2> QED
    BY <2>3, <2>4
<1> QED
  BY <1>1 DEF Written, TypeOK, FlashType

-----------------------------------------------------------------------------
(* Every variable keeps its type. *)

LEMMA RestartType ==
    ASSUME NEW s \in Session, RestartRam(s)
    PROVE  RamType'
<1>1. 0 \in 0..S3Ticks /\ 0 \in 0..ResetTicks /\ 0 \in 0..MaxVersion
  BY BoundsAssumption
<1> QED
  BY <1>1, NoTransferType DEF RestartRam, RamType

LEMMA ClearType ==
    ASSUME ClearJob
    PROVE  JobType'
BY Pages, SizesAssumption DEF ClearJob, JobType

LEMMA AlteredType == Altered => complete' \in BOOLEAN
BY DEF Altered

LEMMA InitType == Init => TypeOK
<1> SUFFICES ASSUME Init
             PROVE  TypeOK
  OBVIOUS
<1>1. FlashType /\ GhostType
  <2>1. meta = ErasedMeta \/ \E v \in 0..(MaxVersion - 1) : slot \in Factory /\ meta = ValidMeta(v, SlotSize, Crc(slot))
    BY DEF Init, NewBoard
  <2>2. slot \in [1..SlotSize -> Byte]
    BY SizesAssumption, BytesAssumption DEF Init, NewBoard
  <2>3. Crc(slot) \in CrcValue
    BY <2>2, CrcAssumption, SizesAssumption
  <2>4. meta \in MetaPage
    BY <2>1, <2>3, Pages, SizesAssumption, BoundsAssumption
  <2>5. complete \in BOOLEAN /\ top \in 0..MaxVersion /\ torn \in BOOLEAN
    <3>1. 0 \in 0..MaxVersion /\ 0..(MaxVersion - 1) \subseteq 0..MaxVersion
      BY BoundsAssumption
    <3> QED
      BY <3>1 DEF Init, NewBoard
  <2> QED
    BY <2>2, <2>4, <2>5 DEF FlashType, GhostType
<1>2. RamType
  <2>1. 0 \in 0..S3Ticks /\ 0 \in 0..ResetTicks /\ 0 \in 0..MaxVersion
    BY BoundsAssumption
  <2> QED
    BY <2>1, NoTransferType DEF Init, RamType, Session
<1>3. JobType
  BY Pages, SizesAssumption DEF Init, JobType
<1> QED
  BY <1>1, <1>2, <1>3 DEF Init, TypeOK, PC

LEMMA TypeStep == TypeOK /\ JobInv /\ [Next]_vars => TypeOK'
<1> SUFFICES ASSUME TypeOK, JobInv, [Next]_vars
             PROVE  TypeOK'
  OBVIOUS
<1> USE DEF TypeOK, PC, InServer, InFlash
<1>1. CASE PowerOn
  BY <1>1
     DEF PowerOn, flash, ram, job, ghost, FlashType, RamType, JobType, GhostType
<1>2. CASE BootOnFlag
  BY <1>2, RestartType
     DEF BootOnFlag, flash, job, ghost, FlashType, JobType, GhostType, Session
<1>3. CASE BootJump
  BY <1>3
     DEF BootJump, flash, ram, job, ghost, FlashType, RamType, JobType, GhostType
<1>4. CASE BootStay
  BY <1>4, RestartType
     DEF BootStay, flash, job, ghost, FlashType, JobType, GhostType, Session
<1>5. CASE AppHandoff
  BY <1>5
     DEF AppHandoff, flash, ram, job, ghost, FlashType, RamType, JobType, GhostType
<1>6. CASE AppReset
  BY <1>6
     DEF AppReset, flash, ram, job, ghost, FlashType, RamType, JobType, GhostType
<1>7. CASE OtherRequest
  BY <1>7, BoundsAssumption
     DEF OtherRequest, flash, ram, job, ghost, FlashType, RamType, JobType, GhostType
<1>8. ASSUME NEW s \in Session, SessionControl(s)
      PROVE  TypeOK'
  BY <1>8, BoundsAssumption
     DEF SessionControl, flash, ram, job, ghost, FlashType, RamType, JobType, GhostType
<1>9. CASE EcuReset
  BY <1>9, BoundsAssumption
     DEF EcuReset, flash, ram, job, ghost, FlashType, RamType, JobType, GhostType
<1>10. CASE Unlock
  BY <1>10, BoundsAssumption
     DEF Unlock, flash, ram, job, ghost, FlashType, RamType, JobType, GhostType
<1>11. ASSUME NEW n \in Sizes, RequestDownload(n)
      PROVE  TypeOK'
  BY <1>11, RollbackType, Pages, SizesAssumption, BoundsAssumption
     DEF RequestDownload, flash, ram, job, ghost, FlashType, RamType, JobType, GhostType
<1>12. ASSUME NEW seq \in 0..(SeqMod - 1), NEW data \in Blocks, TransferData(seq, data)
      PROVE  TypeOK'
  BY <1>12, BoundsAssumption
     DEF TransferData, flash, ram, job, ghost, FlashType, RamType, JobType, GhostType
<1>13. CASE TransferExit
  <2>1. xfer' \in Transfer
    BY <1>13, CloseType DEF TransferExit, RamType
  <2>2. idle' \in 0..S3Ticks
    BY <1>13, BoundsAssumption DEF TransferExit
  <2> QED
    BY <1>13, <2>1, <2>2
       DEF TransferExit, flash, job, ghost, FlashType, RamType, JobType, GhostType
<1>14. ASSUME NEW v \in 0..MaxVersion, CheckMemory(v)
      PROVE  TypeOK'
  BY <1>14, Pages, CrcOfSlot, BoundsAssumption
     DEF CheckMemory, flash, ram, job, ghost, FlashType, RamType, JobType, GhostType, Transfer
<1>15. CASE MetaErase
  BY <1>15, Pages
     DEF MetaErase, flash, ram, job, ghost, FlashType, RamType, JobType, GhostType
<1>16. CASE MetaProgram
  BY <1>16, ProgrammedType
     DEF MetaProgram, flash, ram, job, ghost, FlashType, RamType, JobType, GhostType
<1>17. CASE MetaMarked
  BY <1>17
     DEF MetaMarked, flash, ram, job, ghost, FlashType, RamType, JobType, GhostType
<1>18. CASE MetaCertified
  BY <1>18, ConsumeType, ClearType
     DEF MetaCertified, flash, ghost, FlashType, RamType, GhostType
<1>19. CASE SlotErase
  <2>1. slot' \in [1..SlotSize -> Byte] /\ step' \in Nat
    BY <1>19, EraseType DEF SlotErase, JobType
  <2> QED
    BY <1>19, <2>1, AlteredType DEF SlotErase, ram, FlashType, RamType, JobType, GhostType
<1>20. CASE EraseDone
  BY <1>20, OpenType, ClearType
     DEF EraseDone, flash, ghost, FlashType, RamType, JobType, GhostType
<1>21. CASE WriteDword
  <2>1. slot' \in [1..SlotSize -> Byte] /\ step' \in Nat
    BY <1>21, WrittenType, SizesAssumption DEF WriteDword, JobInv, JobType
  <2> QED
    BY <1>21, <2>1, AlteredType DEF WriteDword, ram, FlashType, RamType, JobType, GhostType
<1>22. CASE WriteRefused
  BY <1>22, ClearType
     DEF WriteRefused, flash, ram, ghost, FlashType, RamType, GhostType
<1>23. CASE WriteDone
  <2>1. Len(wdata) \in Nat /\ xfer.written + Len(wdata) <= SlotSize
    BY <1>23, BlockFacts, SizesAssumption DEF WriteDone, JobInv, RamType, Transfer
  <2>2. xfer' \in Transfer
    BY <1>23, <2>1, AcceptType DEF WriteDone, RamType
  <2> QED
    BY <1>23, <2>2, ClearType DEF WriteDone, flash, ghost, FlashType, RamType, GhostType
<1>24. CASE MetaFault
  BY <1>24, ProgrammedType, Pages, ClearType
     DEF MetaFault, Fault, ram, FlashType, RamType, GhostType
<1>25. CASE EraseFault
  BY <1>25, EraseType, ClearType, AlteredType
     DEF EraseFault, Fault, ram, FlashType, RamType, GhostType
<1>26. CASE WriteFault
  BY <1>26, WrittenType, ClearType, AlteredType
     DEF WriteFault, Fault, ram, FlashType, RamType, GhostType, JobInv
<1>27. CASE EndDrain
  BY <1>27
     DEF EndDrain, flash, ram, job, ghost, FlashType, RamType, JobType, GhostType
<1>28. CASE Tick
  <2>1. session' \in Session /\ prev' \in Session /\ unlocked' \in BOOLEAN /\ xfer' \in Transfer
    BY <1>28, NoTransferType DEF Tick, RamType, Session
  <2>2. idle' \in 0..S3Ticks
    BY <1>28, BoundsAssumption DEF Tick, RamType
  <2> QED
    BY <1>28, <2>1, <2>2
       DEF Tick, flash, ram, job, ghost, FlashType, RamType, JobType, GhostType
<1>29. CASE SystemReset
  BY <1>29, RestartType
     DEF SystemReset, flash, job, ghost, FlashType, JobType, GhostType, Session
<1>30. CASE SelfHeal
  BY <1>30, RestartType
     DEF SelfHeal, flash, job, ghost, FlashType, JobType, GhostType, Session
<1>31. CASE NextPass
  BY <1>31, BoundsAssumption
     DEF NextPass, flash, ram, job, ghost, FlashType, RamType, JobType, GhostType, ResetDue
<1>32. CASE PowerLoss
  BY <1>32, RestartType, ClearType
     DEF PowerLoss, flash, job, ghost, FlashType, JobType, GhostType, Session
<1>33. CASE Quiet
  BY <1>33
     DEF Quiet, flash, ram, job, ghost, FlashType, RamType, JobType, GhostType
<1>34. CASE UNCHANGED vars
  BY <1>34 DEF vars, flash, ram, job, ghost, FlashType, RamType, JobType, GhostType
<1> QED
  BY <1>1, <1>2, <1>3, <1>4, <1>5, <1>6, <1>7, <1>8, <1>9, <1>10, <1>11, <1>12, <1>13, <1>14, <1>15, <1>16, <1>17, <1>18, <1>19, <1>20, <1>21, <1>22, <1>23, <1>24, <1>25, <1>26, <1>27, <1>28, <1>29, <1>30, <1>31, <1>32, <1>33, <1>34
     DEF Next, SoundNext, Requests, FlashSteps, Faults, Boot, Superloop

-----------------------------------------------------------------------------
(* The job in hand and the meta page it rewrites *)

(* The steps that leave the CPU inside a flash job.                        *)
JobSteps ==
    \/ \E n \in Sizes : RequestDownload(n)
    \/ \E seq \in 0..(SeqMod - 1), data \in Blocks : TransferData(seq, data)
    \/ \E v \in 0..MaxVersion : CheckMemory(v)
    \/ MetaErase \/ MetaProgram \/ MetaMarked \/ SlotErase \/ WriteDword
    \/ UNCHANGED <<pc, flash, xfer, saved, job, ghost>>

(* The steps that end one.                                                 *)
JobEnds ==
    \/ MetaCertified \/ EraseDone \/ WriteRefused \/ WriteDone
    \/ MetaFault \/ EraseFault \/ WriteFault

(* The steps that touch neither the flash nor a job; some drop a transfer. *)
Calm ==
    /\ pc \notin InFlash /\ pc' \notin InFlash
    /\ UNCHANGED <<flash, job, ghost>>
    /\ \/ xfer' = xfer /\ saved' = saved
       \/ xfer' = NoTransfer

LEMMA Kinds == [Next]_vars => Calm \/ JobSteps \/ JobEnds \/ TransferExit \/ PowerLoss
<1> SUFFICES ASSUME [Next]_vars
             PROVE  Calm \/ JobSteps \/ JobEnds \/ TransferExit \/ PowerLoss
  OBVIOUS
<1> USE DEF InFlash
<1>1. CASE PowerOn \/ Boot \/ AppHandoff \/ AppReset
  BY <1>1 DEF PowerOn, Boot, BootOnFlag, BootJump, BootStay, AppHandoff, AppReset,
              RestartRam, ram, Calm
<1>2. CASE Requests
  BY <1>2 DEF Requests, OtherRequest, SessionControl, EcuReset, Unlock, Request, Calm, JobSteps
<1>3. CASE FlashSteps
  BY <1>3 DEF FlashSteps, JobSteps, JobEnds
<1>4. CASE Faults
  BY <1>4 DEF Faults, JobEnds
<1>5. CASE Superloop
  BY <1>5 DEF Superloop, EndDrain, Tick, SystemReset, SelfHeal, NextPass, RestartRam, ram, Calm
<1>6. CASE PowerLoss
  BY <1>6
<1>7. CASE Quiet \/ UNCHANGED vars
  BY <1>7 DEF Quiet, vars, ram, JobSteps
<1> QED
  BY <1>1, <1>2, <1>3, <1>4, <1>5, <1>6, <1>7 DEF Next, SoundNext

LEMMA InJob == [Next]_vars /\ pc' \in InFlash => JobSteps
BY Kinds DEF Calm, JobEnds, MetaCertified, EraseDone, WriteRefused, WriteDone, MetaFault,
   EraseFault, WriteFault, Fault, TransferExit, Request, PowerLoss, InFlash

LEMMA JobStep == TypeOK /\ JobInv /\ [Next]_vars => JobInv'
<1> SUFFICES ASSUME TypeOK, JobInv, [Next]_vars, pc' \in InFlash
             PROVE  JobInv'
  BY DEF JobInv, InFlash
<1>1. ASSUME NEW n \in Sizes, RequestDownload(n)
      PROVE  JobInv'
  BY <1>1 DEF RequestDownload, JobInv, UpdatingMeta
<1>2. ASSUME NEW seq \in 0..(SeqMod - 1), NEW data \in Blocks, TransferData(seq, data)
      PROVE  JobInv'
  BY <1>2 DEF TransferData, JobInv
<1>3. ASSUME NEW v \in 0..MaxVersion, CheckMemory(v)
      PROVE  JobInv'
  BY <1>3 DEF CheckMemory, JobInv, ValidMeta
<1>4. CASE MetaErase
  BY <1>4 DEF MetaErase, JobInv, ram
<1>5. CASE MetaProgram
  BY <1>5 DEF MetaProgram, JobInv, ram
<1>6. CASE MetaMarked \/ SlotErase
  BY <1>6 DEF MetaMarked, SlotErase, JobInv
<1>7. CASE WriteDword
  BY <1>7 DEF WriteDword, JobInv, ram
<1>8. CASE UNCHANGED <<pc, flash, xfer, saved, job, ghost>>
  BY <1>8 DEF JobInv, job
<1> QED
  BY <1>1, <1>2, <1>3, <1>4, <1>5, <1>6, <1>7, <1>8, InJob DEF JobSteps

LEMMA PageStep == TypeOK /\ JobInv /\ PageInv /\ [Next]_vars => PageInv'
<1> SUFFICES ASSUME TypeOK, JobInv, PageInv, [Next]_vars, pc' = "meta"
             PROVE  PageInv'
  BY DEF PageInv
<1>1. ASSUME NEW n \in Sizes, RequestDownload(n)
      PROVE  PageInv'
  BY <1>1 DEF RequestDownload, PageInv
<1>2. ASSUME NEW seq \in 0..(SeqMod - 1), NEW data \in Blocks, TransferData(seq, data)
      PROVE  PageInv'
  BY <1>2 DEF TransferData
<1>3. ASSUME NEW v \in 0..MaxVersion, CheckMemory(v)
      PROVE  PageInv'
  BY <1>3 DEF CheckMemory, PageInv
<1>4. CASE MetaErase
  BY <1>4 DEF MetaErase, PageInv
<1>5. CASE MetaProgram
  <2>1. /\ wmeta' = wmeta /\ meta' = Programmed /\ pc = "meta"
        /\ step \in 1..3 /\ step' = step + 1
    BY <1>5 DEF MetaProgram
  <2>2. meta \in MetaPage /\ wmeta \in MetaPage
    BY DEF TypeOK, FlashType, JobType
  <2>3. CASE step = 1
    BY <2>1, <2>2, <2>3 DEF PageInv, Programmed, ErasedMeta, MetaPage
  <2>4. CASE step = 2
    BY <2>1, <2>2, <2>4 DEF PageInv, Programmed, ErasedMeta, MetaPage
  <2>5. CASE step = 3
    BY <2>1, <2>2, <2>5 DEF PageInv, Programmed, ErasedMeta, MetaPage
  <2> QED
    BY <2>1, <2>3, <2>4, <2>5
<1>6. CASE MetaMarked \/ SlotErase \/ WriteDword
  BY <1>6 DEF MetaMarked, SlotErase, WriteDword
<1>7. CASE UNCHANGED <<pc, flash, xfer, saved, job, ghost>>
  BY <1>7 DEF PageInv, job, flash
<1> QED
  BY <1>1, <1>2, <1>3, <1>4, <1>5, <1>6, <1>7, InJob DEF JobSteps, InFlash

-----------------------------------------------------------------------------
(* The marker, the checksum and the floor *)

LEMMA MarkStep ==
    TypeOK /\ JobInv /\ PageInv /\ MarkInv /\ [Next]_vars => MarkInv'
<1> SUFFICES ASSUME TypeOK, JobInv, PageInv, MarkInv, [Next]_vars
             PROVE  MarkInv'
  OBVIOUS
<1>1. CASE Calm
  BY <1>1, NoTransferType DEF Calm, MarkInv, InFlash, flash, ghost
<1>2. CASE JobSteps
  <2>1. ASSUME NEW n \in Sizes, RequestDownload(n)
        PROVE  MarkInv'
    BY <2>1 DEF RequestDownload, UpdatingMeta, MarkInv, flash, ghost
  <2>2. ASSUME NEW seq \in 0..(SeqMod - 1), NEW data \in Blocks, TransferData(seq, data)
        PROVE  MarkInv'
    BY <2>2 DEF TransferData, MarkInv, flash, ghost
  <2>3. ASSUME NEW v \in 0..MaxVersion, CheckMemory(v)
        PROVE  MarkInv'
    BY <2>3 DEF CheckMemory, MarkInv, flash
  <2>4. CASE MetaErase
    BY <2>4, Pages DEF MetaErase, MarkInv, ram, ghost
  <2>5. CASE MetaProgram
    BY <2>5 DEF MetaProgram, Programmed, MarkInv, ram, ghost
  <2>6. CASE MetaMarked
    BY <2>6 DEF MetaMarked, MarkInv, PageInv, flash, ram, ghost
  <2>7. CASE SlotErase
    BY <2>7 DEF SlotErase, MarkInv, ram
  <2>8. CASE WriteDword
    BY <2>8 DEF WriteDword, MarkInv, JobInv, ram
  <2>9. CASE UNCHANGED <<pc, flash, xfer, saved, job, ghost>>
    BY <2>9 DEF MarkInv, flash, job, ghost
  <2> QED
    BY <1>2, <2>1, <2>2, <2>3, <2>4, <2>5, <2>6, <2>7, <2>8, <2>9 DEF JobSteps
<1>3. CASE JobEnds
  <2>1. CASE MetaCertified
    <3>1. xfer' = [xfer EXCEPT !.active = FALSE] /\ xfer \in Transfer
      BY <2>1 DEF MetaCertified, TypeOK, RamType
    <3>2. xfer'.active = FALSE
      BY <3>1 DEF Transfer
    <3> QED
      BY <2>1, <3>2 DEF MetaCertified, MarkInv, flash, ghost
  <2>2. CASE EraseDone
    BY <2>2 DEF EraseDone, MarkInv, flash, ghost
  <2>3. CASE WriteRefused
    BY <2>3 DEF WriteRefused, MarkInv, flash, ram, ghost
  <2>4. CASE WriteDone
    BY <2>4 DEF WriteDone, MarkInv, JobInv, flash, ghost
  <2>5. CASE MetaFault
    <3>1. pc' = "drain" /\ xfer' = xfer /\ complete' = complete
      BY <2>5 DEF MetaFault, Fault, ram
    <3>2. meta'.mark \in {meta.mark, "erased", wmeta.mark}
      BY <2>5, Pages DEF MetaFault, Programmed
    <3> QED
      BY <2>5, <3>1, <3>2 DEF MetaFault, MarkInv
  <2>6. CASE EraseFault
    BY <2>6 DEF EraseFault, Fault, MarkInv
  <2>7. CASE WriteFault
    BY <2>7 DEF WriteFault, Fault, MarkInv, JobInv
  <2> QED
    BY <1>3, <2>1, <2>2, <2>3, <2>4, <2>5, <2>6, <2>7 DEF JobEnds
<1>4. CASE TransferExit
  <2>1. xfer' = [xfer EXCEPT !.closed = TRUE] /\ xfer \in Transfer
    BY <1>4 DEF TransferExit, TypeOK, RamType
  <2>2. xfer'.closed
    BY <2>1 DEF Transfer
  <2> QED
    BY <1>4, <2>2 DEF TransferExit, Request, MarkInv, flash, ghost
<1>5. CASE PowerLoss
  BY <1>5, NoTransferType DEF PowerLoss, RestartRam, MarkInv, flash
<1> QED
  BY <1>1, <1>2, <1>3, <1>4, <1>5, Kinds

LEMMA CrcStep ==
    TypeOK /\ JobInv /\ PageInv /\ MarkInv /\ CrcInv /\ [Next]_vars => CrcInv'
<1> SUFFICES ASSUME TypeOK, JobInv, PageInv, MarkInv, CrcInv, [Next]_vars
             PROVE  CrcInv'
  OBVIOUS
<1>a. ASSUME slot' = slot
      PROVE  \A n : Image(n)' = Image(n)
  BY <1>a DEF Image
<1>1. ASSUME flash' = flash, pc' # "meta"
      PROVE  CrcInv'
  BY <1>1, <1>a DEF CrcInv, ValidMatchesSlot, flash, Image
<1>2. ASSUME meta' = meta, meta.mark # "VALID", pc' # "meta"
      PROVE  CrcInv'
  BY <1>2 DEF CrcInv, ValidMatchesSlot
<1>3. CASE Calm
  BY <1>1, <1>3 DEF Calm, InFlash
<1>4. CASE JobSteps
  <2>1. ASSUME NEW n \in Sizes, RequestDownload(n)
        PROVE  CrcInv'
    BY <2>1, <1>a DEF RequestDownload, UpdatingMeta, CrcInv, ValidMatchesSlot, flash, Image
  <2>2. ASSUME NEW seq \in 0..(SeqMod - 1), NEW data \in Blocks, TransferData(seq, data)
        PROVE  CrcInv'
    BY <2>2, <1>1 DEF TransferData
  <2>3. ASSUME NEW v \in 0..MaxVersion, CheckMemory(v)
        PROVE  CrcInv'
    <3>1. /\ wmeta' = ValidMeta(v, xfer.written, Crc(Image(xfer.written)))
          /\ xfer.written # 0 /\ slot' = slot /\ meta' = meta
      BY <2>3 DEF CheckMemory, flash
    <3>2. xfer.written \in 1..SlotSize
      BY <3>1, SizesAssumption DEF TypeOK, RamType, Transfer
    <3> QED
      BY <3>1, <3>2, <1>a DEF CrcInv, ValidMatchesSlot, ValidMeta, Image
  <2>4. CASE MetaErase
    BY <2>4, <1>a, Pages DEF MetaErase, CrcInv, ValidMatchesSlot, Image
  <2>5. CASE MetaProgram
    <3>1. /\ pc = "meta" /\ pc' = "meta" /\ step \in 1..3
          /\ slot' = slot /\ wmeta' = wmeta /\ meta' = Programmed
      BY <2>5 DEF MetaProgram
    <3>2. ASSUME meta'.mark = "VALID", meta'.size <= SlotSize
          PROVE  meta'.crc \in {ErasedCrc, Crc(Image(meta'.size))}
      <4>1. CASE step = 1
        <5>1. meta'.size = SlotSize + 1
          BY <3>1, <4>1 DEF PageInv, Programmed, ErasedMeta
        <5> QED
          BY <5>1, <3>2, SizesAssumption
      <4>2. CASE step = 2
        BY <3>1, <4>2 DEF PageInv, Programmed, ErasedMeta
      <4>3. CASE step = 3
        <5>1. meta = [wmeta EXCEPT !.crc = ErasedCrc] /\ wmeta \in MetaPage
          BY <3>1, <4>3 DEF PageInv, TypeOK, JobType
        <5>2. /\ meta.mark = wmeta.mark /\ meta.size = wmeta.size
              /\ meta'.mark = meta.mark /\ meta'.size = meta.size /\ meta'.crc = wmeta.crc
          BY <3>1, <4>3, <5>1 DEF Programmed, MetaPage
        <5> QED
          BY <5>2, <3>1, <3>2 DEF CrcInv
      <4> QED
        BY <3>1, <4>1, <4>2, <4>3
    <3> QED
      BY <3>1, <3>2 DEF CrcInv, ValidMatchesSlot, Image
  <2>6. CASE MetaMarked
    BY <2>6, <1>1 DEF MetaMarked
  <2>7. CASE SlotErase
    BY <2>7, <1>2 DEF SlotErase, MarkInv
  <2>8. CASE WriteDword
    BY <2>8, <1>2 DEF WriteDword, MarkInv, JobInv
  <2>9. CASE UNCHANGED <<pc, flash, xfer, saved, job, ghost>>
    BY <2>9 DEF CrcInv, ValidMatchesSlot, flash, job, Image
  <2> QED
    BY <1>4, <2>1, <2>2, <2>3, <2>4, <2>5, <2>6, <2>7, <2>8, <2>9 DEF JobSteps
<1>5. CASE MetaCertified \/ EraseDone \/ WriteRefused \/ WriteDone
  BY <1>5, <1>1 DEF MetaCertified, EraseDone, WriteRefused, WriteDone
<1>6. CASE MetaFault
  <2>1. /\ pc = "meta" /\ pc' # "meta" /\ step \in 0..3 /\ slot' = slot
        /\ meta' \in {meta, IF step = 0 THEN ErasedMeta ELSE Programmed}
    BY <1>6 DEF MetaFault, Fault
  <2>2. CASE meta' = meta
    BY <1>1, <2>1, <2>2 DEF flash
  <2>3. CASE step = 0 /\ meta' = ErasedMeta
    BY <2>1, <2>3, Pages DEF CrcInv, ValidMatchesSlot
  <2>4. CASE step = 1 /\ meta' = Programmed
    <3>1. meta'.size = SlotSize + 1
      BY <2>1, <2>4 DEF PageInv, Programmed, ErasedMeta
    <3> QED
      BY <3>1, <2>1, SizesAssumption DEF CrcInv, ValidMatchesSlot
  <2>5. CASE step = 2 /\ meta' = Programmed
    <3>1. meta'.crc = ErasedCrc
      BY <2>1, <2>5 DEF PageInv, Programmed, ErasedMeta
    <3> QED
      BY <3>1, <2>1 DEF CrcInv, ValidMatchesSlot
  <2>6. CASE step = 3 /\ meta' = Programmed
    <3>1. meta = [wmeta EXCEPT !.crc = ErasedCrc] /\ wmeta \in MetaPage
      BY <2>1, <2>6 DEF PageInv, TypeOK, JobType
    <3>2. /\ meta'.mark = wmeta.mark /\ meta'.size = wmeta.size /\ meta'.crc = wmeta.crc
      BY <2>6, <3>1 DEF Programmed, MetaPage
    <3>3. meta'.mark = "VALID" => meta'.crc = Crc(Image(meta'.size))
      BY <2>1, <3>2 DEF CrcInv
    <3> QED
      BY <3>3, <2>1 DEF CrcInv, ValidMatchesSlot, Image
  <2> QED
    BY <2>1, <2>2, <2>3, <2>4, <2>5, <2>6
<1>7. CASE EraseFault
  BY <1>7, <1>2 DEF EraseFault, Fault, MarkInv
<1>8. CASE WriteFault
  BY <1>8, <1>2 DEF WriteFault, Fault, MarkInv, JobInv
<1>9. CASE TransferExit
  BY <1>9, <1>1 DEF TransferExit, Request
<1>10. CASE PowerLoss
  BY <1>10, <1>1 DEF PowerLoss
<1> QED
  BY <1>3, <1>4, <1>5, <1>6, <1>7, <1>8, <1>9, <1>10, Kinds DEF JobEnds

LEMMA FloorStep ==
    TypeOK /\ JobInv /\ PageInv /\ MarkInv /\ FloorInv /\ [Next]_vars => FloorInv'
<1> SUFFICES ASSUME TypeOK, JobInv, PageInv, MarkInv, FloorInv, [Next]_vars, ~torn'
             PROVE  FloorInv'
  BY DEF FloorInv
<1>1. CASE Calm
  BY <1>1, NoTransferType
     DEF Calm, FloorInv, Floor, RollbackCounter, InFlash, flash, ghost
<1>2. CASE JobSteps
  <2>1. ASSUME NEW n \in Sizes, RequestDownload(n)
        PROVE  FloorInv'
    BY <2>1 DEF RequestDownload, Request, UpdatingMeta, FloorInv, Floor, RollbackCounter,
                flash, ghost
  <2>2. ASSUME NEW seq \in 0..(SeqMod - 1), NEW data \in Blocks, TransferData(seq, data)
        PROVE  FloorInv'
    BY <2>2 DEF TransferData, Request, FloorInv, Floor, RollbackCounter, flash, ghost
  <2>3. ASSUME NEW v \in 0..MaxVersion, CheckMemory(v)
        PROVE  FloorInv'
    <3>1. /\ pc = "drain" /\ pc' = "meta" /\ xfer.active /\ v >= saved /\ torn' = torn
          /\ wmeta'.mark = "VALID" /\ wmeta'.version = v
          /\ top' = IF v > top THEN v ELSE top
      BY <2>3 DEF CheckMemory, Request, ValidMeta
    <3>2. saved = top
      BY <3>1 DEF FloorInv
    <3>3. top' = v
      BY <3>1, <3>2, BoundsAssumption DEF TypeOK, RamType, GhostType
    <3> QED
      BY <3>1, <3>3 DEF FloorInv, Floor
  <2>4. CASE MetaErase
    BY <2>4 DEF MetaErase, FloorInv, Floor, ram, ghost
  <2>5. CASE MetaProgram
    BY <2>5 DEF MetaProgram, FloorInv, Floor, ram, ghost
  <2>6. CASE MetaMarked
    BY <2>6 DEF MetaMarked, PageInv, FloorInv, Floor, RollbackCounter, flash, ram, ghost
  <2>7. CASE SlotErase
    BY <2>7 DEF SlotErase, FloorInv, Floor, RollbackCounter, ram
  <2>8. CASE WriteDword
    BY <2>8 DEF WriteDword, FloorInv, Floor, RollbackCounter, ram
  <2>9. CASE UNCHANGED <<pc, flash, xfer, saved, job, ghost>>
    BY <2>9 DEF FloorInv, Floor, RollbackCounter, flash, job, ghost
  <2> QED
    BY <1>2, <2>1, <2>2, <2>3, <2>4, <2>5, <2>6, <2>7, <2>8, <2>9 DEF JobSteps
<1>3. CASE JobEnds
  <2>1. CASE MetaCertified
    <3>1. /\ pc = "meta" /\ pc' = "drain" /\ meta' = meta /\ meta = wmeta
          /\ wmeta.mark = "VALID" /\ torn' = torn /\ top' = top
      BY <2>1 DEF MetaCertified, PageInv, flash, ghost
    <3>2. xfer' = [xfer EXCEPT !.active = FALSE] /\ xfer \in Transfer
      BY <2>1 DEF MetaCertified, TypeOK, RamType
    <3>3. xfer'.active = FALSE
      BY <3>2 DEF Transfer
    <3> QED
      BY <3>1, <3>3 DEF FloorInv, Floor, RollbackCounter
  <2>2. CASE EraseDone
    BY <2>2 DEF EraseDone, FloorInv, Floor, RollbackCounter, flash, ghost
  <2>3. CASE WriteRefused
    BY <2>3 DEF WriteRefused, FloorInv, Floor, RollbackCounter, flash, ram, ghost
  <2>4. CASE WriteDone
    BY <2>4 DEF WriteDone, JobInv, FloorInv, Floor, RollbackCounter, flash, ghost
  <2>5. CASE MetaFault
    BY <2>5 DEF MetaFault
  <2>6. CASE EraseFault
    BY <2>6 DEF EraseFault, Fault, FloorInv, Floor, RollbackCounter, ram
  <2>7. CASE WriteFault
    BY <2>7 DEF WriteFault, Fault, FloorInv, Floor, RollbackCounter, ram
  <2> QED
    BY <1>3, <2>1, <2>2, <2>3, <2>4, <2>5, <2>6, <2>7 DEF JobEnds
<1>4. CASE TransferExit
  <2>1. xfer' = [xfer EXCEPT !.closed = TRUE] /\ xfer \in Transfer
    BY <1>4 DEF TransferExit, TypeOK, RamType
  <2>2. xfer'.active = xfer.active
    BY <2>1 DEF Transfer
  <2> QED
    BY <1>4, <2>2 DEF TransferExit, Request, FloorInv, Floor, RollbackCounter, flash, ghost
<1>5. CASE PowerLoss
  BY <1>5, NoTransferType
     DEF PowerLoss, RestartRam, FloorInv, Floor, RollbackCounter, flash
<1> QED
  BY <1>1, <1>2, <1>3, <1>4, <1>5, Kinds

-----------------------------------------------------------------------------
(* The bootloader implements UpdateContract *)

Running == pc \in {"app", "handoff"}
MarkBar == IF meta.mark = "VALID" THEN "valid"
           ELSE IF meta.mark = "UPDATING" THEN "updating" ELSE "absent"
ImageBar == IF complete THEN "complete" ELSE "partial"

LEMMA RunsUnlessUpdating ==
    [Next]_vars /\ Running' => Running \/ meta.mark # "UPDATING"
<1> SUFFICES ASSUME [Next]_vars, Running', meta.mark = "UPDATING"
             PROVE  Running
  OBVIOUS
<1>1. CASE PowerOn \/ Boot \/ AppHandoff \/ AppReset
  BY <1>1, Pages DEF PowerOn, Boot, BootOnFlag, BootJump, BootStay, AppHandoff, AppReset,
                     MetaAbsent, AppCrcOk, Running
<1>2. CASE Requests
  BY <1>2 DEF Requests, OtherRequest, SessionControl, EcuReset, Unlock, RequestDownload,
              TransferData, TransferExit, CheckMemory, Request, Running
<1>3. CASE FlashSteps
  BY <1>3 DEF FlashSteps, MetaErase, MetaProgram, MetaMarked, MetaCertified, SlotErase,
              EraseDone, WriteDword, WriteRefused, WriteDone, Running
<1>4. CASE Faults
  BY <1>4 DEF Faults, MetaFault, EraseFault, WriteFault, Fault, Running
<1>5. CASE Superloop
  BY <1>5 DEF Superloop, EndDrain, Tick, SystemReset, SelfHeal, NextPass, AppCrcOk, Running
<1>6. CASE PowerLoss
  BY <1>6 DEF PowerLoss, Running
<1>7. CASE Quiet \/ UNCHANGED vars
  BY <1>7 DEF Quiet, vars, Running
<1> QED
  BY <1>1, <1>2, <1>3, <1>4, <1>5, <1>6, <1>7 DEF Next, SoundNext

LEMMA ContractInit == Init => Contract!Init
BY Pages DEF Init, NewBoard, ValidMeta, Contract!Init

LEMMA ContractStep == IInv /\ [Next]_vars => [Contract!Next]_(Contract!vars)
<1> SUFFICES ASSUME IInv, [Next]_vars
             PROVE  [Contract!Next]_(Contract!vars)
  OBVIOUS
<1> USE DEF Running, MarkBar, ImageBar, Contract!Next, Contract!vars
<1>1. complete \in BOOLEAN
  BY DEF IInv, TypeOK, GhostType
<1>2. ASSUME meta' = meta, complete' = complete
      PROVE  [Contract!Next]_(Contract!vars)
  <2>1. CASE Running' = Running
    BY <1>2, <2>1
  <2>2. CASE ~Running'
    BY <1>2, <2>2 DEF Contract!Stop
  <2>3. CASE Running' /\ ~Running
    BY <1>2, <2>3, RunsUnlessUpdating DEF Contract!Run
  <2> QED
    BY <2>1, <2>2, <2>3
<1>3. ASSUME ~Running, ~Running', meta' = meta, meta.mark # "VALID", Altered
      PROVE  [Contract!Next]_(Contract!vars)
  <2>1. CASE complete' = complete
    BY <1>2, <1>3, <2>1
  <2>2. CASE complete' = FALSE
    BY <1>3, <2>2 DEF Contract!Alter
  <2> QED
    BY <1>1, <1>3, <2>1, <2>2 DEF Altered
<1>4. CASE Calm \/ TransferExit \/ PowerLoss
  BY <1>2, <1>4 DEF Calm, TransferExit, PowerLoss, flash, ghost
<1>5. CASE JobSteps
  <2>1. ASSUME NEW n \in Sizes, RequestDownload(n)
        PROVE  [Contract!Next]_(Contract!vars)
    BY <2>1, <1>2 DEF RequestDownload, flash, ghost
  <2>2. ASSUME NEW seq \in 0..(SeqMod - 1), NEW data \in Blocks, TransferData(seq, data)
        PROVE  [Contract!Next]_(Contract!vars)
    BY <2>2, <1>2 DEF TransferData, flash, ghost
  <2>3. ASSUME NEW v \in 0..MaxVersion, CheckMemory(v)
        PROVE  [Contract!Next]_(Contract!vars)
    <3>1. ~Running /\ ~Running' /\ meta' = meta /\ complete' = TRUE
      BY <2>3 DEF CheckMemory, Request, flash
    <3>2. CASE meta.mark = "VALID"
      BY <3>1, <3>2, <1>1, <1>2 DEF IInv, MarkInv
    <3>3. CASE meta.mark # "VALID"
      BY <3>1, <3>3 DEF Contract!Complete
    <3> QED
      BY <3>2, <3>3
  <2>4. CASE MetaErase
    BY <2>4, Pages DEF MetaErase, ghost, Contract!Unmark
  <2>5. CASE MetaProgram
    <3>1. /\ pc = "meta" /\ pc' = "meta" /\ step \in 1..3 /\ complete' = complete
          /\ meta' = Programmed
      BY <2>5 DEF MetaProgram, ghost
    <3>2. CASE step = 1
      <4>1. meta.mark = "erased" /\ meta'.mark = wmeta.mark
        BY <3>1, <3>2, Pages DEF IInv, PageInv, Programmed
      <4>2. wmeta.mark = "UPDATING" \/ (wmeta.mark = "VALID" /\ complete)
        BY <3>1 DEF IInv, JobInv, MarkInv
      <4> QED
        BY <3>1, <4>1, <4>2 DEF Contract!MarkUpdating, Contract!MarkValid
    <3>3. CASE step # 1
      BY <3>1, <3>3 DEF Programmed
    <3> QED
      BY <3>2, <3>3
  <2>6. CASE MetaMarked
    BY <2>6, <1>2 DEF MetaMarked, flash, ghost
  <2>7. CASE SlotErase
    BY <2>7, <1>3 DEF SlotErase, IInv, MarkInv
  <2>8. CASE WriteDword
    BY <2>8, <1>3 DEF WriteDword, IInv, MarkInv, JobInv
  <2>9. CASE UNCHANGED <<pc, flash, xfer, saved, job, ghost>>
    BY <2>9, <1>2 DEF flash, ghost
  <2> QED
    BY <1>5, <2>1, <2>2, <2>3, <2>4, <2>5, <2>6, <2>7, <2>8, <2>9 DEF JobSteps
<1>6. CASE MetaCertified \/ EraseDone \/ WriteRefused \/ WriteDone
  BY <1>6, <1>2 DEF MetaCertified, EraseDone, WriteRefused, WriteDone, flash, ghost
<1>7. CASE MetaFault
  <2>1. /\ pc = "meta" /\ pc' = "drain" /\ step \in 0..3 /\ complete' = complete
        /\ meta' \in {meta, IF step = 0 THEN ErasedMeta ELSE Programmed}
    BY <1>7 DEF MetaFault, Fault
  <2>2. CASE meta' = meta
    BY <2>1, <2>2, <1>2
  <2>3. CASE step = 0 /\ meta' = ErasedMeta
    BY <2>1, <2>3, Pages DEF Contract!Unmark
  <2>4. CASE step = 1 /\ meta' = Programmed
    <3>1. meta.mark = "erased" /\ meta'.mark = wmeta.mark
      BY <2>1, <2>4, Pages DEF IInv, PageInv, Programmed
    <3>2. wmeta.mark = "UPDATING" \/ (wmeta.mark = "VALID" /\ complete)
      BY <2>1 DEF IInv, JobInv, MarkInv
    <3> QED
      BY <2>1, <3>1, <3>2 DEF Contract!MarkUpdating, Contract!MarkValid
  <2>5. CASE step > 1 /\ meta' = Programmed
    BY <2>1, <2>5 DEF Programmed
  <2> QED
    BY <2>1, <2>2, <2>3, <2>4, <2>5
<1>8. CASE EraseFault
  BY <1>8, <1>3 DEF EraseFault, Fault, IInv, MarkInv
<1>9. CASE WriteFault
  BY <1>9, <1>3 DEF WriteFault, Fault, IInv, MarkInv, JobInv
<1> QED
  BY <1>4, <1>5, <1>6, <1>7, <1>8, <1>9, Kinds DEF JobEnds

-----------------------------------------------------------------------------
(* What follows for every behaviour *)

LEMMA InitInv == Init => IInv
<1> SUFFICES ASSUME Init
             PROVE  IInv
  OBVIOUS
<1>1. TypeOK
  BY InitType
<1>2. JobInv /\ PageInv /\ MarkInv
  BY NoTransferType, Pages DEF Init, NewBoard, JobInv, PageInv, MarkInv
<1>3. CrcInv
  <2>1. meta.mark = "VALID" => meta.size = SlotSize /\ meta.crc = Crc(slot)
    BY Pages DEF Init, NewBoard, ValidMeta
  <2>2. slot = Image(SlotSize)
    BY <1>1 DEF TypeOK, FlashType, Image
  <2> QED
    BY <2>1, <2>2 DEF Init, CrcInv, ValidMatchesSlot
<1>4. FloorInv
  BY NoTransferType, Pages DEF Init, NewBoard, ValidMeta, FloorInv, Floor, RollbackCounter
<1> QED
  BY <1>1, <1>2, <1>3, <1>4 DEF IInv

LEMMA StepInv == IInv /\ [Next]_vars => IInv'
BY TypeStep, JobStep, PageStep, MarkStep, CrcStep, FloorStep DEF IInv

(* The inductive invariant holds throughout.                               *)
THEOREM Invariance == Spec => []IInv
BY InitInv, StepInv, PTL DEF Spec

(* Every variable of the boot code, the flash server and the flash keeps   *)
(* its type; a transfer never runs past the slot.                          *)
THEOREM TypeCorrect == Spec => []TypeOK
<1>1. IInv => TypeOK
  BY DEF IInv
<1> QED
  BY <1>1, Invariance, PTL

(* bl_uds.c: VALID never stands over a slot a download has begun to change.*)
THEOREM ValidIsComplete == Spec => []ValidMeansComplete
<1>1. IInv => ValidMeansComplete
  BY DEF IInv, MarkInv, ValidMeansComplete
<1> QED
  BY <1>1, Invariance, PTL

(* bl_boot.c: what the gate compares under a VALID marker is the CRC of    *)
(* the slot as it is now.                                                  *)
THEOREM ValidHasItsCrc == Spec => []ValidMatchesSlot
<1>1. IInv => ValidMatchesSlot
  BY DEF IInv, CrcInv
<1> QED
  BY <1>1, Invariance, PTL

(* bl_uds.c: as long as no rewrite of the meta page is cut, the rollback   *)
(* floor is the highest version ever certified.                            *)
THEOREM FloorIsKept == Spec => []FloorTracksCertified
<1>1. IInv => FloorTracksCertified
  BY DEF IInv, FloorInv, FloorTracksCertified
<1> QED
  BY <1>1, Invariance, PTL

(* bl_uds.c: 0x36 takes data only while the marker is against the slot.    *)
THEOREM OpenTransfersAreUnmarked == Spec => []OpenTransferIsUnmarked
<1>1. IInv => OpenTransferIsUnmarked
  BY DEF IInv, MarkInv, OpenTransferIsUnmarked
<1> QED
  BY <1>1, Invariance, PTL

(* The bootloader implements its contract.                                 *)
THEOREM Implements == Spec => KeepsContract
<1>1. Spec => Contract!Init
  BY ContractInit DEF Spec
<1>2. Spec => [][Contract!Next]_(Contract!vars)
  BY ContractStep, Invariance, PTL DEF Spec
<1> QED
  BY <1>1, <1>2 DEF KeepsContract, Contract!Spec

=============================================================================
