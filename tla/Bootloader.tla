----------------------------- MODULE Bootloader -----------------------------
(***************************************************************************)
(* The UDS flash bootloader (bl_main.c, bl_boot.c, bl_uds.c, ota_flash.c): *)
(* boot gate, superloop, flash server, and the flash it rewrites.  The     *)
(* power may go at any step; each erased page and each programmed          *)
(* doubleword is a step of its own, so a rewrite can be cut anywhere.      *)
(*                                                                         *)
(* Abstractions.  A "byte" of the app slot is one of the values Byte; the  *)
(* vector table is the first of them.  Crc is a parameter: nothing here    *)
(* depends on which checksum it is.  A cut primitive (one page, one        *)
(* doubleword) either happened or did not.  Seed and key are one step,     *)
(* Unlock (DiagSession models them).  A superloop pass is one tick of      *)
(* time.  Requests that are refused, or that change nothing (0x28, 0x3E,   *)
(* 0x85, a wrong block number, a wrong CRC, a version below the floor),    *)
(* are one action, OtherRequest: their whole effect is to restart S3.      *)
(***************************************************************************)
EXTENDS Integers, Sequences

CONSTANTS
    Byte, FF,       \* contents of a flash byte; the erased one
    VectorBytes,    \* first bytes that bl_app_vectors_ok takes for a vector table
    CrcValue, ErasedCrc, ZeroCrc, Crc(_),
    SlotSize, PageSize, DWord,   \* sizes of the app slot, a page, a doubleword
    Sizes,          \* image sizes a 0x34 may announce
    Blocks,         \* payloads a 0x36 may carry
    Factory,        \* slot contents a board may have left the bench with
    MaxVersion,     \* 0xFFFFFFFF: what an erased version word reads as
    SeqMod,         \* the block counter is a uint8_t
    S3Ticks, ResetTicks          \* 5 s and 200 ms, in superloop passes

ASSUME BytesAssumption == FF \in Byte /\ VectorBytes \subseteq Byte \ {FF}
ASSUME CrcAssumption ==
    /\ ErasedCrc \in CrcValue /\ ZeroCrc \in CrcValue
    /\ \A n \in 0..SlotSize : \A s \in [1..n -> Byte] : Crc(s) \in CrcValue
ASSUME SizesAssumption ==
    /\ SlotSize \in Nat \ {0} /\ PageSize \in Nat \ {0} /\ DWord \in Nat \ {0}
    /\ SlotSize % DWord = 0
    /\ Sizes \subseteq 1..SlotSize
    /\ \A b \in Blocks : b \in Seq(Byte) /\ b # <<>>
    /\ Factory \subseteq [1..SlotSize -> Byte]
ASSUME BoundsAssumption ==
    /\ MaxVersion \in Nat /\ SeqMod \in Nat \ {0} /\ S3Ticks \in Nat \ {0}
    /\ ResetTicks \in Nat \ {0}

VARIABLES
    pc,         \* what the CPU is executing
    meta,       \* the meta page, as its words read back
    slot,       \* the app slot
    flag,       \* the no-init RAM handoff flag
    session, prev, unlocked,   \* diagnostic session, prev_session, security level
    idle,       \* passes since the last request (S3 timer)
    pending, wait,             \* bl_reset_pending; passes towards reset_at
    xfer,       \* s_xfer_*
    saved,      \* s_saved_rollback
    wmeta, wdata, wsize, step, \* the flash job a handler is inside
    quiet,      \* the tester is gone, and the supply steady, for good
    complete,   \* history: the slot holds a factory image or one that passed CheckMemory
    top,        \* history: the highest version ever certified
    torn        \* history: some meta rewrite was cut or failed half-way

flash == <<meta, slot>>
ram   == <<session, prev, unlocked, idle, pending, wait, xfer, saved>>
job   == <<wmeta, wdata, wsize, step>>
ghost == <<complete, top, torn>>
vars  == <<pc, flash, flag, ram, job, quiet, ghost>>

Session == {"DEFAULT", "PROGRAMMING", "EXTENDED"}
Mark    == {"erased", "UPDATING", "VALID"}
InFlash == {"meta", "erase", "write"}
InServer == InFlash \cup {"drain", "tick", "exit"}
PC      == InServer \cup {"off", "reset", "app", "handoff"}

MetaPage == [mark : Mark, version : 0..MaxVersion, size : 0..(SlotSize + 1), crc : CrcValue]
ErasedMeta == [mark |-> "erased", version |-> MaxVersion, size |-> SlotSize + 1, crc |-> ErasedCrc]
UpdatingMeta(v) == [mark |-> "UPDATING", version |-> v, size |-> 0, crc |-> ZeroCrc]
ValidMeta(v, n, c) == [mark |-> "VALID", version |-> v, size |-> n, crc |-> c]

NoTransfer == [active |-> FALSE, closed |-> FALSE, size |-> 0, written |-> 0, seq |-> 0]
Transfer == [active : BOOLEAN, closed : BOOLEAN, size : 0..SlotSize, written : 0..SlotSize,
             seq : 0..(SeqMod - 1)]

-----------------------------------------------------------------------------
(* What the boot code reads from flash *)

Image(n) == [i \in 1..n |-> slot[i]]

MetaAbsent == meta = ErasedMeta

AppCrcOk ==
    /\ meta.mark = "VALID"
    /\ meta.size \in 1..SlotSize
    /\ Crc(Image(meta.size)) = meta.crc

RollbackCounter == IF meta.mark \in {"VALID", "UPDATING"} THEN meta.version ELSE 0

VectorsOk == slot[1] \in VectorBytes

-----------------------------------------------------------------------------
ClearJob ==
    /\ wmeta' = ErasedMeta
    /\ wdata' = <<>>
    /\ wsize' = 0
    /\ step' = 0

RestartRam(s) ==    \* what a start of the server leaves in its variables
    /\ session' = s
    /\ prev' = s
    /\ unlocked' = FALSE
    /\ idle' = 0
    /\ pending' = FALSE
    /\ wait' = 0
    /\ xfer' = NoTransfer
    /\ saved' = 0

NewBoard ==         \* virgin, flashed over SWD without a meta page, or updated before
    \/ /\ meta = ErasedMeta /\ slot = [i \in 1..SlotSize |-> FF]
       /\ complete = FALSE /\ top = 0
    \/ /\ meta = ErasedMeta /\ slot \in Factory
       /\ complete = TRUE /\ top = 0
    \/ \E v \in 0..(MaxVersion - 1) :
          /\ slot \in Factory
          /\ meta = ValidMeta(v, SlotSize, Crc(slot))
          /\ complete = TRUE /\ top = v

Init ==
    /\ pc = "off"
    /\ NewBoard
    /\ flag = FALSE
    /\ session = "DEFAULT" /\ prev = "DEFAULT" /\ unlocked = FALSE
    /\ idle = 0 /\ pending = FALSE /\ wait = 0
    /\ xfer = NoTransfer /\ saved = 0
    /\ wmeta = ErasedMeta /\ wdata = <<>> /\ wsize = 0 /\ step = 0
    /\ quiet = FALSE
    /\ torn = FALSE

-----------------------------------------------------------------------------
Request == pc = "drain" /\ ~quiet

FlashGate == session = "PROGRAMMING" /\ unlocked

(* Faulty variants: bugs these handlers could have had, each of which a     *)
(* property has to notice.  Next does not use them.                         *)

BootJumpOnVectors ==            \* the gate forgets the UPDATING marker
    /\ pc = "reset" /\ ~flag
    /\ VectorsOk
    /\ pc' = "app"
    /\ UNCHANGED <<flash, flag, ram, job, quiet, ghost>>

DownloadWithoutMark(n) ==       \* 0x34 erases before it invalidates the meta page
    /\ Request /\ FlashGate
    /\ saved' = RollbackCounter
    /\ wsize' = n
    /\ step' = 0
    /\ pc' = "erase"
    /\ idle' = 0
    /\ UNCHANGED <<flash, flag, session, prev, unlocked, pending, wait, xfer, wmeta, wdata,
                   quiet, ghost>>

TransferDataUnbounded(seq, data) ==     \* 0x36 takes more than 0x34 announced
    /\ Request /\ FlashGate
    /\ xfer.active /\ ~xfer.closed
    /\ seq = xfer.seq
    /\ wdata' = data
    /\ step' = 0
    /\ pc' = "write"
    /\ idle' = 0
    /\ UNCHANGED <<flash, flag, session, prev, unlocked, pending, wait, xfer, saved,
                   wmeta, wsize, quiet, ghost>>

Certify(v, n) ==                \* 0x31 with no guard on the transfer
    /\ Request /\ FlashGate
    /\ xfer.active /\ xfer.written # 0
    /\ wmeta' = ValidMeta(v, n, Crc(Image(xfer.written)))
    /\ step' = 0
    /\ pc' = "meta"
    /\ idle' = 0
    /\ complete' = TRUE
    /\ top' = IF v > top THEN v ELSE top
    /\ UNCHANGED <<flash, flag, session, prev, unlocked, pending, wait, xfer, saved,
                   wdata, wsize, quiet, torn>>
CheckMemoryBelowFloor(v) == xfer.closed /\ Certify(v, xfer.written)
CheckMemoryAnnounced(v)  == xfer.closed /\ v >= saved /\ Certify(v, xfer.size)
CheckMemoryOpen(v)       == v >= saved /\ Certify(v, xfer.written)

TickWithoutS3 ==                \* the session never times out
    /\ pc = "tick"
    /\ xfer' = IF session # prev /\ session = "DEFAULT" THEN NoTransfer ELSE xfer
    /\ prev' = session
    /\ pc' = "exit"
    /\ UNCHANGED <<flash, flag, session, unlocked, idle, pending, wait, saved, job, quiet, ghost>>

TickKeepsTransfer ==            \* the session ends and the transfer stays
    /\ pc = "tick"
    /\ LET expired == session # "DEFAULT" /\ idle >= S3Ticks
       IN  /\ session' = IF expired THEN "DEFAULT" ELSE session
           /\ unlocked' = (unlocked /\ ~expired)
           /\ idle' = IF expired THEN 0 ELSE idle
    /\ prev' = session'
    /\ pc' = "exit"
    /\ UNCHANGED <<flash, flag, pending, wait, xfer, saved, job, quiet, ghost>>

-----------------------------------------------------------------------------
(* Boot gate *)

PowerOn ==
    /\ pc = "off"
    /\ pc' = "reset"
    /\ UNCHANGED <<flash, flag, ram, job, quiet, ghost>>

BootOnFlag ==       \* the one-shot flag keeps the board in the bootloader
    /\ pc = "reset" /\ flag
    /\ flag' = FALSE
    /\ pc' = "drain"
    /\ RestartRam("PROGRAMMING")
    /\ UNCHANGED <<flash, job, quiet, ghost>>

BootJump ==
    /\ pc = "reset" /\ ~flag
    /\ IF MetaAbsent THEN VectorsOk ELSE AppCrcOk
    /\ pc' = "app"
    /\ UNCHANGED <<flash, flag, ram, job, quiet, ghost>>

BootStay ==
    /\ pc = "reset" /\ ~flag
    /\ IF MetaAbsent THEN ~VectorsOk ELSE ~AppCrcOk
    /\ pc' = "drain"
    /\ RestartRam("DEFAULT")
    /\ UNCHANGED <<flash, flag, job, quiet, ghost>>

-----------------------------------------------------------------------------
(* The application, as far as the bootloader sees it *)

AppHandoff ==       \* 0x10 02 in the app: leave the flag, answer, reset ~50 ms later
    /\ pc = "app" /\ ~quiet
    /\ flag' = TRUE
    /\ pc' = "handoff"
    /\ UNCHANGED <<flash, ram, job, quiet, ghost>>

AppReset ==         \* that reset, or any other (0x11, watchdog)
    /\ pc \in {"app", "handoff"}
    /\ pc' = "reset"
    /\ UNCHANGED <<flash, flag, ram, job, quiet, ghost>>

-----------------------------------------------------------------------------
(* Requests, dispatched while the superloop drains its receive ring *)

OtherRequest ==
    /\ Request
    /\ idle' = 0
    /\ UNCHANGED <<pc, flash, flag, session, prev, unlocked, pending, wait, xfer, saved,
                   job, quiet, ghost>>

SessionControl(s) ==    \* returning to Default locks security
    /\ Request
    /\ session' = s
    /\ unlocked' = (unlocked /\ s # "DEFAULT")
    /\ idle' = 0
    /\ UNCHANGED <<pc, flash, flag, prev, pending, wait, xfer, saved, job, quiet, ghost>>

EcuReset ==
    /\ Request
    /\ pending' = TRUE
    /\ idle' = 0
    /\ UNCHANGED <<pc, flash, flag, session, prev, unlocked, wait, xfer, saved, job, quiet, ghost>>

Unlock ==
    /\ Request
    /\ unlocked' = TRUE
    /\ idle' = 0
    /\ UNCHANGED <<pc, flash, flag, session, prev, pending, wait, xfer, saved, job, quiet, ghost>>

RequestDownload(n) ==   \* 0x34: from here on the marker must say UPDATING
    /\ Request /\ FlashGate
    /\ saved' = RollbackCounter
    /\ wmeta' = UpdatingMeta(RollbackCounter)
    /\ wsize' = n
    /\ step' = 0
    /\ pc' = "meta"
    /\ idle' = 0
    /\ UNCHANGED <<flash, flag, session, prev, unlocked, pending, wait, xfer, wdata, quiet, ghost>>

TransferData(seq, data) ==   \* 0x36
    /\ Request /\ FlashGate
    /\ xfer.active /\ ~xfer.closed
    /\ seq = xfer.seq
    /\ xfer.written + Len(data) <= xfer.size
    /\ wdata' = data
    /\ step' = 0
    /\ pc' = "write"
    /\ idle' = 0
    /\ UNCHANGED <<flash, flag, session, prev, unlocked, pending, wait, xfer, saved,
                   wmeta, wsize, quiet, ghost>>

TransferExit ==         \* 0x37: whether the whole image arrived is not asked
    /\ Request /\ FlashGate
    /\ xfer.active /\ ~xfer.closed
    /\ xfer' = [xfer EXCEPT !.closed = TRUE]
    /\ idle' = 0
    /\ UNCHANGED <<pc, flash, flag, session, prev, unlocked, pending, wait, saved, job, quiet, ghost>>

CheckMemory(v) ==       \* 0x31 0203 that passes the floor and the CRC
    /\ Request /\ FlashGate
    /\ xfer.active /\ xfer.closed /\ xfer.written # 0
    /\ v >= saved
    /\ wmeta' = ValidMeta(v, xfer.written, Crc(Image(xfer.written)))
    /\ step' = 0
    /\ pc' = "meta"
    /\ idle' = 0
    /\ complete' = TRUE
    /\ top' = IF v > top THEN v ELSE top
    /\ UNCHANGED <<flash, flag, session, prev, unlocked, pending, wait, xfer, saved,
                   wdata, wsize, quiet, torn>>

-----------------------------------------------------------------------------
(* bl_meta_write: erase the page, then program its three doublewords.      *)

MetaErase ==
    /\ pc = "meta" /\ step = 0
    /\ meta' = ErasedMeta
    /\ step' = 1
    /\ UNCHANGED <<pc, slot, flag, ram, wmeta, wdata, wsize, quiet, ghost>>

Programmed ==           \* the page once the doubleword of this step is in
    [mark    |-> IF step = 1 THEN wmeta.mark ELSE meta.mark,
     version |-> IF step = 2 THEN wmeta.version ELSE meta.version,
     size    |-> IF step = 2 THEN wmeta.size ELSE meta.size,
     crc     |-> IF step = 3 THEN wmeta.crc ELSE meta.crc]

MetaProgram ==
    /\ pc = "meta" /\ step \in 1..3
    /\ meta' = Programmed
    /\ step' = step + 1
    /\ UNCHANGED <<pc, slot, flag, ram, wmeta, wdata, wsize, quiet, ghost>>

MetaMarked ==           \* 0x34 goes on to erase the slot
    /\ pc = "meta" /\ step = 4 /\ wmeta.mark = "UPDATING"
    /\ pc' = "erase"
    /\ step' = 0
    /\ UNCHANGED <<flash, flag, ram, wmeta, wdata, wsize, quiet, ghost>>

MetaCertified ==        \* 0x31 consumes the transfer
    /\ pc = "meta" /\ step = 4 /\ wmeta.mark = "VALID"
    /\ pc' = "drain"
    /\ xfer' = [xfer EXCEPT !.active = FALSE]
    /\ ClearJob
    /\ UNCHANGED <<flash, flag, session, prev, unlocked, idle, pending, wait, saved, quiet, ghost>>

-----------------------------------------------------------------------------
(* ota_flash_erase, page by page, and ota_flash_write, doubleword by       *)
(* doubleword                                                              *)

ErasePage(p) == [i \in 1..SlotSize |-> IF (i - 1) \div PageSize = p THEN FF ELSE slot[i]]

Altered == complete' = (complete /\ slot' = slot)   \* by what this step did to the slot

SlotErase ==
    /\ pc = "erase" /\ step * PageSize < wsize
    /\ slot' = ErasePage(step)
    /\ Altered
    /\ step' = step + 1
    /\ UNCHANGED <<pc, meta, flag, ram, wmeta, wdata, wsize, quiet, top, torn>>

EraseDone ==            \* 0x34 opens the transfer
    /\ pc = "erase" /\ step * PageSize >= wsize
    /\ xfer' = [active |-> TRUE, closed |-> FALSE, size |-> wsize, written |-> 0,
                seq |-> 1 % SeqMod]
    /\ pc' = "drain"
    /\ ClearJob
    /\ UNCHANGED <<flash, flag, session, prev, unlocked, idle, pending, wait, saved, quiet, ghost>>

Target == xfer.written + step          \* offset of the doubleword being programmed
Cells  == (Target + 1)..(Target + DWord)

Padded(i) ==            \* a short tail is filled with FF
    IF i - xfer.written <= Len(wdata) THEN wdata[i - xfer.written] ELSE FF

Written == [i \in 1..SlotSize |-> IF i \in Cells THEN Padded(i) ELSE slot[i]]

CanProgram ==           \* the controller takes an aligned, still erased doubleword
    /\ Target % DWord = 0
    /\ \A i \in Cells : i <= SlotSize => slot[i] = FF

WriteDword ==
    /\ pc = "write" /\ step < Len(wdata) /\ CanProgram
    /\ slot' = Written
    /\ step' = step + DWord
    /\ Altered
    /\ UNCHANGED <<pc, meta, flag, ram, wmeta, wdata, wsize, quiet, top, torn>>

WriteRefused ==         \* the controller reports an error: NRC 0x72, the transfer stays open
    /\ pc = "write" /\ step < Len(wdata) /\ ~CanProgram
    /\ pc' = "drain"
    /\ ClearJob
    /\ UNCHANGED <<flash, flag, ram, quiet, ghost>>

WriteDone ==
    /\ pc = "write" /\ step >= Len(wdata)
    /\ xfer' = [xfer EXCEPT !.written = @ + Len(wdata), !.seq = (@ + 1) % SeqMod]
    /\ pc' = "drain"
    /\ ClearJob
    /\ UNCHANGED <<flash, flag, session, prev, unlocked, idle, pending, wait, saved, quiet, ghost>>

-----------------------------------------------------------------------------
(* A flash operation that reports an error: the handler answers NRC 0x72   *)
(* and returns; what the operation touched may or may not have changed.    *)

Fault ==
    /\ pc' = "drain"
    /\ ClearJob
    /\ UNCHANGED <<flag, ram, quiet, top>>

MetaFault ==
    /\ pc = "meta" /\ step \in 0..3
    /\ Fault
    /\ meta' \in {meta, IF step = 0 THEN ErasedMeta ELSE Programmed}
    /\ torn' = TRUE
    /\ UNCHANGED <<slot, complete>>

EraseFault ==
    /\ pc = "erase" /\ step * PageSize < wsize
    /\ Fault
    /\ slot' \in {slot, ErasePage(step)}
    /\ Altered
    /\ UNCHANGED <<meta, torn>>

WriteFault ==
    /\ pc = "write" /\ step < Len(wdata) /\ CanProgram
    /\ Fault
    /\ slot' \in {slot, Written}
    /\ Altered
    /\ UNCHANGED <<meta, torn>>

-----------------------------------------------------------------------------
(* The rest of a superloop pass *)

EndDrain ==
    /\ pc = "drain"
    /\ pc' = "tick"
    /\ UNCHANGED <<flash, flag, ram, job, quiet, ghost>>

Tick ==                 \* S3; then a transfer is dropped if the session fell to Default
    /\ pc = "tick"
    /\ LET expired == session # "DEFAULT" /\ idle >= S3Ticks
           now     == IF expired THEN "DEFAULT" ELSE session
       IN  /\ session' = now
           /\ unlocked' = (unlocked /\ ~expired)
           /\ idle' = IF expired THEN 0 ELSE idle
           /\ xfer' = IF now # prev /\ now = "DEFAULT" THEN NoTransfer ELSE xfer
           /\ prev' = now
    /\ pc' = "exit"
    /\ UNCHANGED <<flash, flag, pending, wait, saved, job, quiet, ghost>>

ResetDue == pending /\ wait >= ResetTicks

SystemReset ==
    /\ pc = "exit" /\ ResetDue
    /\ pc' = "reset"
    /\ RestartRam("DEFAULT")
    /\ UNCHANGED <<flash, flag, job, quiet, ghost>>

SelfHeal ==             \* idle in Default over a valid app: boot it
    /\ pc = "exit" /\ ~ResetDue
    /\ session = "DEFAULT" /\ AppCrcOk
    /\ pc' = "app"
    /\ RestartRam("DEFAULT")
    /\ UNCHANGED <<flash, flag, job, quiet, ghost>>

NextPass ==
    /\ pc = "exit" /\ ~ResetDue
    /\ ~(session = "DEFAULT" /\ AppCrcOk)
    /\ idle' = IF idle < S3Ticks THEN idle + 1 ELSE idle
    /\ wait' = IF pending THEN wait + 1 ELSE wait
    /\ pc' = "drain"
    /\ UNCHANGED <<flash, flag, session, prev, unlocked, pending, xfer, saved, job, quiet, ghost>>

-----------------------------------------------------------------------------
(* The environment *)

PowerLoss ==            \* RAM, the flag with it, is gone; flash stays as it is
    /\ pc # "off" /\ ~quiet
    /\ pc' = "off"
    /\ flag' = FALSE
    /\ torn' = (torn \/ pc = "meta")
    /\ RestartRam("DEFAULT")
    /\ ClearJob
    /\ UNCHANGED <<flash, quiet, complete, top>>

Quiet ==
    /\ ~quiet
    /\ quiet' = TRUE
    /\ UNCHANGED <<pc, flash, flag, ram, job, ghost>>

-----------------------------------------------------------------------------
Requests ==
    \/ OtherRequest
    \/ \E s \in Session : SessionControl(s)
    \/ EcuReset
    \/ Unlock
    \/ \E n \in Sizes : RequestDownload(n)
    \/ \E seq \in 0..(SeqMod - 1), data \in Blocks : TransferData(seq, data)
    \/ TransferExit
    \/ \E v \in 0..MaxVersion : CheckMemory(v)

FlashSteps ==
    \/ MetaErase \/ MetaProgram \/ MetaMarked \/ MetaCertified
    \/ SlotErase \/ EraseDone \/ WriteDword \/ WriteRefused \/ WriteDone

Faults == MetaFault \/ EraseFault \/ WriteFault

Boot == BootOnFlag \/ BootJump \/ BootStay

Superloop == EndDrain \/ Tick \/ SystemReset \/ SelfHeal \/ NextPass

SoundNext ==        \* no flash operation fails
    \/ PowerOn \/ Boot \/ AppHandoff \/ AppReset
    \/ Requests \/ FlashSteps \/ Superloop
    \/ PowerLoss \/ Quiet

Next == SoundNext \/ Faults

Spec == Init /\ [][Next]_vars

(* The processor runs: the power comes back, the boot code, the superloop   *)
(* and a flash operation under way go on.  The drain is a loop of its own,  *)
(* and ends again and again: a tester waits for the answer before the next  *)
(* request, so the ring runs empty.  Nothing is asked of the tester, the    *)
(* application, the faults or the power losses.                             *)
LiveSpec ==
    /\ Spec
    /\ WF_vars(PowerOn) /\ WF_vars(Boot) /\ WF_vars(FlashSteps)
    /\ SF_vars(EndDrain) /\ WF_vars(Superloop)
=============================================================================
