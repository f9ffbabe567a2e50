----------------------------- MODULE DtcReports -----------------------------
(***************************************************************************)
(* What the fault table looks like from outside: the reports of 0x19 and   *)
(* of the OBD modes 03 and 07, as functions of its state.  vCanRxTask      *)
(* outranks the task that updates the table, so no report is torn.         *)
(*                                                                         *)
(* A request names an entry by its code, the number of the entry; Unknown  *)
(* is a code no entry has, NoCode the code 0x0000.  A report is a set of   *)
(* records, in the order of the table; echoes, formats and lengths are     *)
(* left out.                                                               *)
(***************************************************************************)
EXTENDS DtcManager

Unknown == 4
Codes == Entries \cup {NoCode, Unknown}
RecordNumbers == 0..2 \cup {255}
Refused == {"requestOutOfRange"}

Severity == << {"checkImmediately", "classA"}, {"checkAtNextHalt", "classA"},
               {"maintenanceOnly", "classA"} >>

Status(i) == StatusByte(dtc[i])
Record(i) == [dtc |-> i, status |-> Status(i)]
Dtcs(report) == {r.dtc : r \in report}

-----------------------------------------------------------------------------
(* By mask of the status, of the severity *)

MaskMatch(i, mask) == Status(i) \cap mask # {}
Matching(mask) == {i \in Entries : MaskMatch(i, mask)}

DtcByMask(mask) == {Record(i) : i \in Matching(mask)}
CountByMask(mask) == Cardinality(Matching(mask))

SeverityMatch(i, severity, mask) == Severity[i] \cap severity # {} /\ MaskMatch(i, mask)
BySeverity(severity, mask) ==
    {[dtc |-> i, status |-> Status(i), severity |-> Severity[i]] :
       i \in {j \in Entries : SeverityMatch(j, severity, mask)}}
CountBySeverity(severity, mask) == Cardinality({i \in Entries : SeverityMatch(i, severity, mask)})

Groups == {"emissions", "all", "other"}     \* functional group identifiers
WwhByMask(group, mask, severity) ==
    IF group = "other" THEN Refused ELSE BySeverity(severity, mask)

-----------------------------------------------------------------------------
(* By code *)

FindByCode(code) == {i \in Entries : i = code}

SeverityInformation(code) ==
    IF FindByCode(code) = {} THEN Refused
    ELSE {[dtc |-> i, status |-> Status(i), severity |-> Severity[i]] : i \in FindByCode(code)}

\* One frame is kept, number 1; 255 asks for all.
FrameNumber(n) == n \in {1, 255}
Frame(i) == [dtc |-> i, status |-> Status(i), frames |-> IF dtc[i].frame THEN {1} ELSE {}]
Snapshot(code, n) ==
    IF FindByCode(code) = {} \/ ~FrameNumber(n) THEN Refused
    ELSE {Frame(i) : i \in FindByCode(code)}
StoredData(n) ==
    IF ~FrameNumber(n) THEN Refused ELSE {Frame(i) : i \in {j \in Entries : dtc[j].frame}}
SnapshotIdentification == {[dtc |-> i, frame |-> 1] : i \in {j \in Entries : dtc[j].frame}}

\* The occurrence counter, left out while it is 0
Counter(code, status, occurrence) ==
    [dtc |-> code, status |-> status, count |-> IF occurrence = 0 THEN {} ELSE {occurrence}]
ExtData(code, n) ==
    IF FindByCode(code) = {} \/ ~FrameNumber(n) THEN Refused
    ELSE {Counter(code, Status(i), dtc[i].occurrence) : i \in FindByCode(code)}
ExtDataByRecord(n) ==
    IF n # 1 THEN Refused
    ELSE {Counter(i, Status(i), dtc[i].occurrence) : i \in {j \in Entries : dtc[j].occurrence # 0}}

-----------------------------------------------------------------------------
(* The mirror memory *)

Archived(mask) == {i \in Entries : mirror[i].code # NoCode /\ mirror[i].status \cap mask # {}}
MirrorByMask(mask) == {[dtc |-> mirror[i].code, status |-> mirror[i].status] : i \in Archived(mask)}
MirrorCountByMask(mask) == Cardinality(Archived(mask))

\* An empty place has the code 0x0000 and is found by it.
MirrorFindByCode(code) == {i \in Entries : mirror[i].code = code}
MirrorExtData(code, n) ==
    LET found == MirrorFindByCode(code)
        first == CHOOSE i \in found : \A j \in found : i <= j
    IN  IF found = {} \/ ~FrameNumber(n) THEN Refused
        ELSE {Counter(code, mirror[first].status, mirror[first].occurrence)}

-----------------------------------------------------------------------------
(* The rest *)

\* The user defined memory, number 1, is the table (0x17, 0x18, 0x19).
UserDefMemory(memory, report) == IF memory # 1 THEN Refused ELSE report

GetConfirmed == {i \in Entries : dtc[i].state = "CONFIRMED"}    \* mode 03
GetPending == {i \in Entries : dtc[i].state = "PENDING"}        \* mode 07
Supported == {Record(i) : i \in Entries}
Permanent == {Record(i) : i \in {j \in Entries : dtc[j].permanent}}
WwhPermanent(group) == IF group = "other" THEN Refused ELSE Permanent

Picks == {"firstFailed", "recentFailed", "firstConfirmed", "recentConfirmed"}
Candidates(which) ==
    IF which \in {"firstFailed", "recentFailed"} THEN EverFailed ELSE EverFailed \cap GetConfirmed
Pick(which) ==
    IF Candidates(which) = {} THEN {}
    ELSE IF which \in {"firstFailed", "firstConfirmed"} THEN {Record(Earliest(Candidates(which)))}
    ELSE {Record(Latest(Candidates(which)))}

FaultDetection ==
    {[dtc |-> i, counter |-> Fdc(dtc[i])] : i \in {j \in Entries : Fdc(dtc[j]) \in 1..(Failed - 1)}}
=============================================================================
