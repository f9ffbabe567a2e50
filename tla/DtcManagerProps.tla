-------------------------- MODULE DtcManagerProps --------------------------
(* What the fault manager keeps, whatever the order of updates, clears,    *)
(* injections and changes of the setting.                                  *)
EXTENDS DtcReports

Bits == {"testFailed", "failedThisCycle", "pending", "failedSinceClear", "confirmed", "warning"}

TypeOK ==
    /\ phase \in {"sim", "check", "update"}
    /\ \A g \in DOMAIN Gauges : sim[g].at \in 0..Gauges[g] /\ sim[g].up \in BOOLEAN
    /\ dtc \in [Entries -> [state : {"INACTIVE", "PENDING", "CONFIRMED"},
                            debounce : 0..CountMax, hold : 0..ConfirmHold, seq : 0..SeqMax,
                            occurrence : 0..CountMax, permanent : BOOLEAN, frame : BOOLEAN]]
    /\ mirror \in [Entries -> [code : Entries \cup {NoCode}, status : SUBSET Bits,
                              occurrence : 0..CountMax]]
    /\ counter \in 0..SeqMax /\ settingOn \in BOOLEAN
    /\ touched \in BOOLEAN /\ late \in Nat /\ cleared \in BOOLEAN

(* What 0x19 reports of an entry hangs together: an entry that has failed  *)
(* is numbered, counted and has its freeze frame, so that 0x02, 0x04 and   *)
(* 0x06 agree about it; the permanent latch (0x15, 0x55) is up exactly     *)
(* while the entry is confirmed.                                           *)
FailureIsRecorded ==
    \A i \in Entries :
        LET d == dtc[i] IN
        /\ d.state # "INACTIVE" => d.seq # 0
        /\ d.seq # 0 <=> d.occurrence # 0
        /\ d.seq # 0 <=> d.frame
        /\ d.permanent <=> d.state = "CONFIRMED"

(* 0x14 lists an entry as prefailed exactly while its condition has been   *)
(* seen and it has not failed: debouncing never runs past the threshold    *)
(* with the entry inactive, where the counter would fall back to 0.        *)
PrefailedShows ==
    \A i \in Entries :
        /\ Fdc(dtc[i]) = 0 <=> dtc[i].state = "INACTIVE" /\ dtc[i].debounce = 0
        /\ dtc[i].state = "PENDING" => dtc[i].debounce >= Thresh

(* All services read one table, each its own fields of it, and their       *)
(* reports of one moment agree: what has failed since the clear (0x02)     *)
(* has a frame (0x03, 0x04, 0x05) and a count (0x06, 0x16) and is what     *)
(* first and last failure are picked from; what is confirmed (mode 03) is  *)
(* what is permanent (0x15, 0x55), and pending (mode 07) only what has     *)
(* failed; and what 0x14 counts towards failure has not matured and shows. *)
SinceClear == Dtcs(DtcByMask({"failedSinceClear"}))
FailedAgree ==
    /\ SinceClear = Dtcs(SnapshotIdentification)
    /\ SinceClear = Dtcs(StoredData(255))
    /\ SinceClear = Dtcs(ExtDataByRecord(1))
    /\ \A w \in {"firstFailed", "recentFailed"} :
          Pick(w) \subseteq DtcByMask({"failedSinceClear"}) /\ (Pick(w) = {} <=> SinceClear = {})
ConfirmedAgree ==
    /\ GetConfirmed = Dtcs(DtcByMask({"confirmed"}))
    /\ GetConfirmed = Dtcs(WwhPermanent("emissions"))
    /\ \A w \in {"firstConfirmed", "recentConfirmed"} :
          Pick(w) \subseteq Permanent /\ (Pick(w) = {} <=> GetConfirmed = {})
OthersAgree ==
    /\ GetPending \subseteq SinceClear \ GetConfirmed
    /\ Dtcs(FaultDetection) \cap (GetPending \cup GetConfirmed) = {}
    /\ Dtcs(FaultDetection) \subseteq Dtcs(DtcByMask({"testFailed"}))
ReportsAgree == FailedAgree /\ ConfirmedAgree /\ OthersAgree /\ PrefailedShows

(* What the mirror memory shows was confirmed, and so had failed and been  *)
(* counted, when the table was cleared (0x0F, 0x10).  No step reads it.    *)
MirrorAgrees ==
    /\ \A m \in MirrorByMask(Bits) : {"confirmed", "failedSinceClear"} \subseteq m.status
    /\ \A i \in Entries :
         IF i \in Dtcs(MirrorByMask(Bits))
         THEN \A r \in MirrorExtData(i, 1) : r.count # {} /\ r.status = mirror[i].status
         ELSE MirrorExtData(i, 1) = Refused

(* 0x0B to 0x0E name, of the entries that have failed and of those that    *)
(* are confirmed, the one that failed longest ago and the one that failed  *)
(* last, until the sequence counter stays at its end.                      *)
PicksInOrder ==
    /\ EverFailed = HasFailed
    /\ \A w \in Picks : LET I == Candidates(w) IN
         I # {} /\ counter < SeqMax =>
           \A i \in I : <<Earliest(I), i>> \in failed /\ <<i, Latest(I)>> \in failed

(* The ramps dwell one tick at their ends: left alone, no monitored fault  *)
(* matures (obd2_simulator.h:199).                                         *)
NothingMaturesAlone == ~touched => \A i \in Entries : dtc[i].state = "INACTIVE"

(* 0x85 off freezes the table, though the update reads the setting before  *)
(* its critical section: after it one update is made at most, the one that *)
(* was decided on, and a table that is cleared meanwhile shows no failure  *)
(* until the setting is on again.                                          *)
OffFreezes ==
    /\ ~settingOn => late <= 1
    /\ cleared => \A i \in Entries : dtc[i].seq = 0 /\ dtc[i].debounce <= 1
=============================================================================
