---------------------------- MODULE UdsServices ----------------------------
(***************************************************************************)
(* The request dispatcher of the application, UDS_DispatchRequest, and its *)
(* services (Src/uds_service.c), over the session of UdsServer.  Outcome   *)
(* says, for a request in a state, what is answered, what becomes of the   *)
(* data the services keep (app) and what is asked of the session manager;  *)
(* Serve does it.  vCanRxTask serves a request in one step.                *)
(*                                                                         *)
(* A request is a record: sid, addr (physical or functional), len in       *)
(* bytes, sub and quiet (the low seven bits of the second byte, and its    *)
(* top bit), and arg, what follows, as the service reads it.  A byte of an *)
(* answer is known by where it was read.  What 0x19 and modes 03 and 07    *)
(* list is DtcReports' matter: here it is a number in arg.                 *)
(***************************************************************************)
EXTENDS UdsServer, SequencesExt


CONSTANTS
    Vin,            \* length of a VIN
    Strings,        \* the read-only identifiers and the lengths of their strings
    DynIds,         \* identifiers 0xF200..0xF3FF
    PeriodicIds,    \* those that 0x2A can name, 0xF2xx
    DynSlots,       \* UDS_DYN_SLOTS
    MaxRec,         \* UDS_DYN_MAX_REC
    MaxData,        \* UDS_DYN_MAX_DATA
    Slots,          \* UDS_PERIODIC_SLOTS
    MaxResponse,    \* UDS_MAX_RESPONSE_SIZE
    Regions,        \* readable memory: [first, end] of flash and SRAM
    PidLength,      \* the PIDs of mode 01 and the lengths of their answers
    Menus           \* sets of requests: a tester keeps to one of them

ASSUME ServiceAssumption ==
    /\ {Vin, DynSlots, MaxRec, MaxData, Slots, MaxResponse} \subseteq Nat \ {0}
    /\ Vin + 3 <= MaxResponse /\ MaxData + 3 <= MaxResponse
    /\ \A did \in DOMAIN Strings : Strings[did] \in 1..(MaxResponse - 3)
    /\ PeriodicIds \subseteq DynIds

VARIABLES
    menu,   \* what the tester sends
    app     \* what the services keep: see FreshApp

None   == "none"
Memory == "memory"      \* UDS_DYN_SRC_MEM
Free   == [did |-> None, recs |-> <<>>]

(* The identifiers differ from one another and from the marks; a request   *)
(* that is long enough for a VIN or a definition has what it announces.    *)
Pieces(recs) ==
    /\ Len(recs) \in Nat /\ DOMAIN recs = 1..Len(recs)
    /\ \A i \in DOMAIN recs : recs[i].pos \in Nat /\ recs[i].size \in Nat
WellFormed(r) ==
    /\ r.len \in Nat
    /\ r.sid = "2E" /\ r.len >= 4 => r.arg.text \in 0..Vin
    /\ r.sid = "2C" /\ r.sub = 1 /\ r.len >= 8 => Pieces(r.arg.recs)
    /\ r.sid = "2C" /\ r.sub = 2 /\ r.len >= 5 + r.arg.alen + r.arg.slen =>
         Pieces(r.arg.recs) /\ \A i \in DOMAIN r.arg.recs : r.arg.recs[i].src = Memory

ASSUME RequestAssumption ==
    /\ DynIds \cap ({"VIN", None} \cup DOMAIN Strings) = {} /\ Memory \notin DOMAIN Strings
    /\ \A m \in Regions : m.first \in Nat /\ m.end \in Nat
    /\ \A m \in Menus : \A r \in m : WellFormed(r)

(* vin is the length of s_vin as strlen sees it, subs the identifiers with *)
(* an s_periodic entry: their rates are PeriodicData's.                    *)
FreshApp ==
    [vin |-> Vin, io |-> 0, rx |-> TRUE, tx |-> TRUE,
     dyn |-> [i \in 1..DynSlots |-> Free], subs |-> {}]

ServiceInit == Init /\ app = FreshApp /\ menu \in Menus

svars == <<vars, menu, app>>

-----------------------------------------------------------------------------
(* Answers and outcomes *)

Silence       == [kind |-> "none", nrc |-> None, len |-> 0, bytes |-> <<>>]
Negative(nrc) == [kind |-> "negative", nrc |-> nrc, len |-> 3, bytes |-> <<>>]
Positive(n)   == [kind |-> "positive", nrc |-> None, len |-> n, bytes |-> <<>>]
Data(n, bs)   == [Positive(n + Len(bs)) EXCEPT !.bytes = bs]

Nobody      == [to |-> "nobody"]
Give(a)     == [answer |-> a, app |-> app, asks |-> Nobody]
Refuse(nrc) == Give(Negative(nrc))

Length        == "incorrectMessageLength"
SubFunction   == "subFunctionNotSupported"
OutOfRange    == "requestOutOfRange"

-----------------------------------------------------------------------------
(* Data that can be read *)

(* resolve_source: the length of what an identifier names.                 *)
SourceLength(src) ==
    IF src = "VIN" THEN app.vin ELSE IF src = "IO" THEN 1 ELSE Strings[src]
Readable  == {"VIN"} \cup DOMAIN Strings
Sources   == Readable \cup {"IO"}

Slice(rec) == [i \in 1..rec.size |-> <<rec.src, rec.pos + i - 1>>]
Whole(did) == Slice([src |-> did, pos |-> 1, size |-> SourceLength(did)])

TotalSize(recs) == FoldLeft(LAMBDA n, rec : n + rec.size, 0, recs)

Within(rec) ==
    /\ rec.src \in Sources /\ rec.pos # 0
    /\ rec.pos - 1 + rec.size <= SourceLength(rec.src)

InRegion(rec) ==
    \E m \in Regions : rec.pos \in m.first..(m.end - 1) /\ rec.size <= m.end - rec.pos

(* dyn_assemble: nothing, when a source has become too short since.        *)
AssembleUnchecked(recs) == FlattenSeq([i \in 1..Len(recs) |-> Slice(recs[i])])
Assemble(recs) ==
    IF TotalSize(recs) > MaxData \/ \E i \in 1..Len(recs) : recs[i].src # Memory /\ ~Within(recs[i])
    THEN <<>>
    ELSE FlattenSeq([i \in 1..Len(recs) |-> Slice(recs[i])])

SlotsOf(did) == {i \in 1..DynSlots : app.dyn[i].did = did}
Lowest(S)    == CHOOSE i \in S : \A j \in S : i <= j
Records(did) == app.dyn[Lowest(SlotsOf(did))].recs

ReadDataById(r) ==
    IF r.len < 3 THEN Refuse(Length)
    ELSE IF r.arg.did \in Readable THEN Give(Data(3, Whole(r.arg.did)))
    ELSE IF SlotsOf(r.arg.did) = {} \/ Assemble(Records(r.arg.did)) = <<>> THEN Refuse(OutOfRange)
    ELSE Give(Data(3, Assemble(Records(r.arg.did))))

(* The address and size lengths that 0x23 and 0x2C take.                   *)
Lengths == 1..4

ReadMemByAddr(r) ==
    IF r.len < 3 THEN Refuse(Length)
    ELSE IF r.arg.alen \notin Lengths \/ r.arg.slen \notin Lengths THEN Refuse(OutOfRange)
    ELSE IF r.len < 2 + r.arg.alen + r.arg.slen THEN Refuse(Length)
    ELSE IF r.arg.rec.size \notin 1..(MaxResponse - 1) \/ ~InRegion(r.arg.rec) THEN Refuse(OutOfRange)
    ELSE Give(Data(1, Slice(r.arg.rec)))

-----------------------------------------------------------------------------
(* Data that can be written *)

(* Fault: the VIN is copied before its length is looked at.                *)
WriteFirst(r) ==
    LET copied == [app EXCEPT !.vin = r.arg.text]
    IN  IF r.len < 4 THEN Refuse(Length)
        ELSE IF r.arg.did # "VIN" THEN Refuse(OutOfRange)
        ELSE [Give(IF r.len - 3 # Vin THEN Negative(Length) ELSE Positive(3)) EXCEPT !.app = copied]

(* Seventeen bytes, read up to the first that is zero: arg.text of them.   *)
WriteDataById(r) ==
    IF r.len < 4 THEN Refuse(Length)
    ELSE IF r.arg.did # "VIN" THEN Refuse(OutOfRange)
    ELSE IF r.len - 3 # Vin THEN Refuse(Length)
    ELSE [Give(Positive(3)) EXCEPT !.app.vin = r.arg.text]

InputOutputControl(r) ==
    IF r.len < 4 THEN Refuse(Length)
    ELSE IF r.arg.did # "IO" THEN Refuse(OutOfRange)
    ELSE IF r.arg.control \notin {0, 3} THEN Refuse(SubFunction)
    ELSE IF r.arg.control = 0 THEN Give(Positive(5))
    ELSE IF r.len < 5 THEN Refuse(Length)
    ELSE [Give(Positive(5)) EXCEPT !.app.io = r.arg.value]

CommunicationControl(r) ==
    IF r.len < 2 THEN Refuse(Length)
    ELSE IF r.sub \notin 0..3 THEN Refuse(SubFunction)
    ELSE [Give(Positive(2)) EXCEPT !.app.rx = r.sub \in {0, 1}, !.app.tx = r.sub \in {0, 2}]

(* The end of handle_dynamic_define_did: where it is, or the first free.   *)
CommitDefinition(did, recs) ==
    LET room == IF SlotsOf(did) # {} THEN SlotsOf(did) ELSE SlotsOf(None)
    IN  IF room = {} THEN Refuse(OutOfRange)
        ELSE [Give(Positive(4)) EXCEPT !.app.dyn[Lowest(room)] = [did |-> did, recs |-> recs]]

DefineById(r) ==
    LET recs == r.arg.recs
    IN  IF r.len < 8 \/ (r.len - 4) % 4 # 0 THEN Refuse(Length)
        ELSE IF \/ Len(recs) \notin 1..MaxRec
                \/ \E i \in 1..Len(recs) : recs[i].size = 0 \/ ~Within(recs[i])
                \/ TotalSize(recs) > MaxData
        THEN Refuse(OutOfRange)
        ELSE CommitDefinition(r.arg.did, recs)

DefineByMemory(r) ==
    LET recs   == r.arg.recs
        stride == r.arg.alen + r.arg.slen
    IN  IF r.len < 5 THEN Refuse(Length)
        ELSE IF r.arg.alen \notin Lengths \/ r.arg.slen \notin Lengths THEN Refuse(OutOfRange)
        ELSE IF r.len < 5 + stride \/ (r.len - 5) % stride # 0 THEN Refuse(Length)
        ELSE IF \/ Len(recs) \notin 1..MaxRec
                \/ \E i \in 1..Len(recs) : recs[i].size \notin 1..MaxData \/ ~InRegion(recs[i])
                \/ TotalSize(recs) > MaxData
        THEN Refuse(OutOfRange)
        ELSE CommitDefinition(r.arg.did, recs)

ClearDefinition(did) ==
    IF SlotsOf(did) = {} THEN Refuse(OutOfRange)
    ELSE [Give(Positive(4)) EXCEPT !.app.dyn[Lowest(SlotsOf(did))] = Free]

DynamicDefineDid(r) ==
    IF r.len < 4 THEN Refuse(Length)
    ELSE IF r.arg.did \notin DynIds THEN Refuse(OutOfRange)
    ELSE IF r.sub = 1 THEN DefineById(r)
    ELSE IF r.sub = 2 THEN DefineByMemory(r)
    ELSE IF r.sub = 3 THEN ClearDefinition(r.arg.did)
    ELSE Refuse(SubFunction)

(* The identifiers of 0x2A are taken one by one; the first that fails ends *)
(* the request, and those before it stay as they are.                      *)
StopEach(ids) ==
    LET Drop(a, id) == IF ~a.ok \/ id \notin a.subs THEN [a EXCEPT !.ok = FALSE]
                       ELSE [a EXCEPT !.subs = @ \ {id}]
    IN  FoldLeft(Drop, [ok |-> TRUE, subs |-> app.subs], ids)

StartEach(ids) ==
    LET Full(subs)  == Cardinality(subs) = Slots
        Take(a, id) ==
            IF \/ ~a.ok \/ id \notin PeriodicIds \/ SlotsOf(id) = {}
               \/ id \notin a.subs /\ Full(a.subs)
            THEN [a EXCEPT !.ok = FALSE] ELSE [a EXCEPT !.subs = @ \cup {id}]
    IN  FoldLeft(Take, [ok |-> TRUE, subs |-> app.subs], ids)

ReadDataPeriodic(r) ==
    LET Done(a) == [answer |-> IF a.ok THEN Positive(2) ELSE Negative(OutOfRange),
                    app    |-> [app EXCEPT !.subs = a.subs],
                    asks   |-> [to |-> "periodic", arg |-> a.subs # {}]]
    IN  IF r.len < 2 THEN Refuse(Length)
        ELSE IF r.sub = 4 /\ r.len = 2 THEN Done([ok |-> TRUE, subs |-> {}])
        ELSE IF r.sub = 4 THEN Done(StopEach(r.arg.ids))
        ELSE IF r.sub \notin 1..3 THEN Refuse(SubFunction)
        ELSE IF r.len < 3 THEN Refuse(Length)
        ELSE Done(StartEach(r.arg.ids))

-----------------------------------------------------------------------------
(* Session, security and the fault manager *)

Asking(n, to, arg) == [Give(Positive(n)) EXCEPT !.asks = [to |-> to, arg |-> arg]]

SessionNumber == <<"DEFAULT", "PROGRAMMING", "EXTENDED">>

(* The return to Default stops periodic transmission.                      *)
SessionOutcome(r) ==
    IF r.len < 2 THEN Refuse(Length)
    ELSE IF r.sub \notin DOMAIN SessionNumber THEN Refuse(SubFunction)
    ELSE [Asking(6, "session", SessionNumber[r.sub])
            EXCEPT !.app.subs = IF r.sub = 1 THEN {} ELSE @]

ResetOutcome(r) ==
    IF r.len < 2 THEN Refuse(Length)
    ELSE IF r.sub \notin {1, 3} THEN Refuse(SubFunction)
    ELSE Asking(2, "reset", r.sub)

GateRefusal == IF GateDelay THEN "requiredTimeDelayNotExpired" ELSE "exceededNumberOfAttempts"

SeedOutcome ==
    IF GateDelay \/ GateLocked THEN [Refuse(GateRefusal) EXCEPT !.asks = [to |-> "seed"]]
    ELSE [Give(Positive(4)) EXCEPT !.asks = [to |-> "seed"]]

KeyOutcome(right) ==
    LET answer == IF GateDelay \/ GateLocked THEN Negative(GateRefusal)
                  ELSE IF fresh /\ right THEN Positive(2) ELSE Negative("invalidKey")
    IN  [Give(answer) EXCEPT !.asks = [to |-> "key", arg |-> right]]

SecurityOutcome(r) ==
    IF r.len < 2 THEN Refuse(Length)
    ELSE IF r.sub % 2 = 1 THEN SeedOutcome
    ELSE IF r.len < 4 THEN Refuse(Length)
    ELSE KeyOutcome(r.arg.right)

TesterPresent(r) ==
    IF r.len < 2 THEN Refuse(Length)
    ELSE IF r.sub # 0 THEN Refuse(SubFunction)
    ELSE Give(IF r.quiet THEN Silence ELSE Positive(2))

SettingOutcome(r) ==
    IF r.len < 2 THEN Refuse(Length)
    ELSE IF r.sub \notin {1, 2} THEN Refuse(SubFunction)
    ELSE Asking(2, "setting", r.sub = 1)

ClearDtc(r) ==
    IF r.len # 4 THEN Refuse(Length)
    ELSE IF r.arg.group # "all" THEN Refuse(OutOfRange)
    ELSE Asking(1, "dtc", "clear")

(* The sub-function is taken with its top bit, which no routine has.       *)
RoutineControl(r) ==
    IF r.len < 4 THEN Refuse(Length)
    ELSE IF r.quiet \/ r.sub \notin 1..3 THEN Refuse(SubFunction)
    ELSE IF r.arg.routine \notin {"clear", "test"} THEN Refuse(OutOfRange)
    ELSE IF r.sub # 1 THEN Give(Positive(4))
    ELSE Asking(4, "dtc", IF r.arg.routine = "clear" THEN "clear" ELSE "inject")

-----------------------------------------------------------------------------
(* The OBD-II modes: what is not supported is not answered.                *)

CurrentData(r) ==
    IF r.len < 2 THEN Refuse(Length)
    ELSE Give(IF r.arg.pid \in DOMAIN PidLength THEN Positive(PidLength[r.arg.pid]) ELSE Silence)

StoredDtcs(r)  == Give(Positive(2 + 2 * r.arg.n))
PendingDtcs(r) == Give(Positive(1 + 2 * r.arg.n))
ClearDtcs      == Asking(1, "dtc", "clear")

VehicleInfo(r) ==
    IF r.len < 2 THEN Give(Silence)
    ELSE IF r.arg.inf = 0 THEN Give(Positive(6))
    ELSE IF r.arg.inf = 2 THEN Give(Data(3, Whole("VIN")))
    ELSE Give(Silence)

-----------------------------------------------------------------------------
(* Dispatch *)

(* Fault: a broadcast can change the session.                              *)
AddressableToo == {"01", "03", "04", "07", "09", "10", "3E", "28", "85"}
FunctionallyAddressable == {"01", "03", "04", "07", "09", "3E", "28", "85"}

NeedExtended == {"31", "14", "2E", "2F", "23", "2A", "2C", "28", "85"}
NeedSecurity == {"31", "2E", "2F", "23"}

(* DiagSession_CheckAccess.                                                *)
Barred(sid) ==
    IF sid \in NeedExtended /\ session # "EXTENDED" THEN "serviceNotSupportedInActiveSession"
    ELSE IF sid \in NeedSecurity /\ ~unlocked THEN "securityAccessDenied"
    ELSE None

Handle(r) ==
    CASE r.sid = "01" -> CurrentData(r)         [] r.sid = "03" -> StoredDtcs(r)
      [] r.sid = "04" -> ClearDtcs              [] r.sid = "07" -> PendingDtcs(r)
      [] r.sid = "09" -> VehicleInfo(r)         [] r.sid = "10" -> SessionOutcome(r)
      [] r.sid = "11" -> ResetOutcome(r)        [] r.sid = "14" -> ClearDtc(r)
      [] r.sid = "19" -> Give(Positive(r.arg.n)) [] r.sid = "22" -> ReadDataById(r)
      [] r.sid = "23" -> ReadMemByAddr(r)       [] r.sid = "27" -> SecurityOutcome(r)
      [] r.sid = "28" -> CommunicationControl(r) [] r.sid = "2A" -> ReadDataPeriodic(r)
      [] r.sid = "2C" -> DynamicDefineDid(r)    [] r.sid = "2E" -> WriteDataById(r)
      [] r.sid = "2F" -> InputOutputControl(r)  [] r.sid = "31" -> RoutineControl(r)
      [] r.sid = "3E" -> TesterPresent(r)       [] r.sid = "85" -> SettingOutcome(r)
      [] OTHER -> Refuse("serviceNotSupported")

Suppressible == {"10", "11", "27", "31", "3E", "19", "85", "2A", "2C"}
Suppressed(r, answer) ==
    answer.kind = "positive" /\ r.len >= 2 /\ r.quiet /\ r.sid \in Suppressible

Outcome(r) ==
    LET o == IF Barred(r.sid) # None THEN Refuse(Barred(r.sid)) ELSE Handle(r)
    IN  IF Suppressed(r, o.answer) THEN [o EXCEPT !.answer = Silence] ELSE o

Filtered(r) == r.addr = "functional" /\ r.sid \notin FunctionallyAddressable

(* A request that is filtered does nothing, not even for S3.               *)
Serve(r) ==
    /\ ~Filtered(r)
    /\ \E o \in {Outcome(r)} :
        /\ app' = o.app
        /\ \/ o.asks.to \in {"nobody", "dtc"} /\ OtherRequest
           \/ o.asks.to = "session" /\ \E s \in Session : s = o.asks.arg /\ SessionControl(s)
           \/ o.asks.to = "reset" /\ EcuReset
           \/ o.asks.to = "seed" /\ RequestSeed
           \/ o.asks.to = "key" /\ \E right \in BOOLEAN : right = o.asks.arg /\ SendKey(right)
           \/ o.asks.to = "setting" /\ \E on \in BOOLEAN : on = o.asks.arg /\ ControlDtcSetting(on)
           \/ o.asks.to = "periodic" /\ \E start \in BOOLEAN : start = o.asks.arg /\ ReadPeriodic(start)

Receive(r) == Serve(r) \/ (Filtered(r) /\ Serving /\ ~gone /\ UNCHANGED <<vars, app>>)

-----------------------------------------------------------------------------
(* UDS_PeriodicTick gives up subscriptions whose data no longer assembles. *)
Orphans == {id \in app.subs : SlotsOf(id) = {} \/ Assemble(Records(id)) = <<>>}

WalkAndReadClock ==
    /\ ReadClock
    /\ \E lost \in SUBSET Orphans : app' = [app EXCEPT !.subs = @ \ lost]
    /\ periodic' = (app'.subs # {})

ServiceMainTask ==
    \/ WalkAndReadClock
    \/ PeriodicStopAll /\ app' = [app EXCEPT !.subs = {}]
    \/ SystemReset /\ app' = FreshApp
    \/ /\ CheckSession \/ Compare \/ StoreDefault \/ Lock \/ RestoreDtcSetting \/ PollReset
       /\ UNCHANGED app

ServiceNext ==
    /\ \/ \E r \in menu : Receive(r)
       \/ ServiceMainTask
       \/ (Unplug \/ Boot \/ LeaveBootloader \/ Clock) /\ UNCHANGED app
    /\ UNCHANGED menu

ServiceSpec == ServiceInit /\ [][ServiceNext]_svars

(* The main task loops for ever, the board boots, and time passes.         *)
ServiceLiveSpec ==
    /\ ServiceSpec
    /\ WF_svars(ServiceMainTask /\ UNCHANGED menu)
    /\ WF_svars(Boot /\ UNCHANGED <<app, menu>>)
    /\ WF_svars(Clock /\ UNCHANGED <<app, menu>>)
=============================================================================
