------------------------- MODULE ApplicationProofs -------------------------
(***************************************************************************)
(* The application's tasks.  First the fault table, for every length of    *)
(* the ramps, every threshold and every limit of the counters: its         *)
(* invariant is one of each entry by itself, and what it adds to the       *)
(* properties is where debounce and hold are while an entry is inactive or *)
(* pending.  Then the watchdog and the RS-485 receiver, for every length   *)
(* of frame, size of queue and patience of the watchdog, and with all rare *)
(* events together.                                                        *)
(***************************************************************************)
EXTENDS DtcManagerProps, RtosTasksProps, FiniteSetTheorems, SequenceTheorems, TLAPS

Entry == [state : {"INACTIVE", "PENDING", "CONFIRMED"}, debounce : 0..CountMax,
          hold : 0..ConfirmHold, seq : 0..SeqMax, occurrence : 0..CountMax,
          permanent : BOOLEAN, frame : BOOLEAN]

Recorded(d) ==
    /\ d.state # "INACTIVE" => d.seq # 0
    /\ d.seq # 0 <=> d.occurrence # 0
    /\ d.seq # 0 <=> d.frame
    /\ d.permanent <=> d.state = "CONFIRMED"

Counting(d) ==
    /\ d.state = "INACTIVE" => d.debounce < Thresh
    /\ d.state = "PENDING" => d.debounce >= Thresh /\ d.hold < ConfirmHold

EntryOK(d) == d \in Entry /\ Recorded(d) /\ Counting(d)

(* A place in the mirror is empty or holds its own entry, as it was when   *)
(* it was confirmed.                                                       *)
Place == [code : Entries \cup {NoCode}, status : SUBSET Bits, occurrence : 0..CountMax]
PlaceOK(i, m) ==
    /\ m \in Place /\ m.code \in {i, NoCode}
    /\ m.code # NoCode =>
         "confirmed" \in m.status /\ "failedSinceClear" \in m.status /\ m.occurrence # 0

IInv ==
    /\ TypeOK
    /\ \A i \in Entries : EntryOK(dtc[i]) /\ PlaceOK(i, mirror[i])

-----------------------------------------------------------------------------
(* A counter steps within its limit.                                       *)
LEMMA UpIsBounded == ASSUME NEW n \in 0..CountMax
                     PROVE  Up(n) \in 1..CountMax /\ Up(n) >= n /\ (n < CountMax => Up(n) = n + 1)
BY CountAssumption DEF Up, Least

(* The table is finite.                                                    *)
LEMMA EntriesFinite == IsFiniteSet(Entries)
<1>1. IsFiniteSet(1..3)
  BY 1 \in Int, 3 \in Int, FS_Interval
<1> QED BY <1>1 DEF Entries

(* A promoted entry gets a number, and within the limit.                   *)
LEMMA NumberIsPositive == ASSUME TypeOK, NEW i \in Promoted
                          PROVE  Number(i) \in 1..SeqMax
<1> DEFINE S == {j \in Promoted : j <= i}
<1>1. IsFiniteSet(Entries)
  BY EntriesFinite
<1>2. S \subseteq Entries /\ i \in S
  BY DEF Promoted, Entries
<1>3. IsFiniteSet(S)
  BY <1>1, <1>2, FS_Subset
<1>4. Cardinality(S) \in Nat /\ Cardinality(S) # 0
  BY <1>2, <1>3, FS_CardinalityType, FS_EmptySet
<1>5. counter \in 0..SeqMax
  BY DEF TypeOK
<1> QED BY <1>4, <1>5, CountAssumption DEF Number, Least

(* The counter of failures stays within its limit.                         *)
LEMMA CountIsBounded == ASSUME TypeOK
                        PROVE  Least(counter + Cardinality(Promoted), SeqMax) \in 0..SeqMax
<1>1. IsFiniteSet(Promoted)
  BY EntriesFinite, FS_Subset DEF Promoted
<1>2. Cardinality(Promoted) \in Nat
  BY <1>1, FS_CardinalityType
<1>3. counter \in 0..SeqMax
  BY DEF TypeOK
<1> QED BY <1>2, <1>3, CountAssumption DEF Least

(* An entry that was never set up or has been cleared is in order.         *)
LEMMA CleanIsOK == EntryOK(Clean)
BY CountAssumption DEF EntryOK, Entry, Recorded, Counting, Clean

(* So is what a clear leaves in the mirror of an entry.                    *)
LEMMA ArchiveIsOK == ASSUME IInv, NEW i \in Entries PROVE PlaceOK(i, Archive(i))
<1>1. EntryOK(dtc[i]) /\ PlaceOK(i, mirror[i])
  BY DEF IInv
<1>2. CASE dtc[i].state = "CONFIRMED"
  <2>1. Archive(i) = [code |-> i, status |-> StatusByte(dtc[i]), occurrence |-> dtc[i].occurrence]
    BY <1>2 DEF Archive
  <2>2. dtc[i].seq # 0 /\ dtc[i].occurrence # 0 /\ dtc[i].occurrence \in 0..CountMax
    BY <1>1, <1>2 DEF EntryOK, Entry, Recorded
  <2>3. /\ StatusByte(dtc[i]) \in SUBSET Bits
        /\ "confirmed" \in StatusByte(dtc[i]) /\ "failedSinceClear" \in StatusByte(dtc[i])
    BY <1>2, <2>2 DEF StatusByte, Bits
  <2>4. i # NoCode /\ Archive(i) \in Place
    BY <2>1, <2>2, <2>3 DEF Place, Entries, NoCode
  <2> QED BY <2>1, <2>2, <2>3, <2>4 DEF PlaceOK
<1>3. CASE dtc[i].state # "CONFIRMED"
  <2>1. Archive(i) = [mirror[i] EXCEPT !.code = NoCode]
    BY <1>3 DEF Archive
  <2> QED BY <1>1, <2>1 DEF PlaceOK, Place
<1> QED BY <1>2, <1>3

(* So is one whose condition was not seen.                                 *)
LEMMA PassesIsOK == ASSUME NEW d, EntryOK(d) PROVE EntryOK(Passes(d))
<1>1. CASE d.state = "PENDING"
  <2>1. Passes(d) = [d EXCEPT !.state = "INACTIVE", !.hold = 0, !.debounce = 0]
    BY <1>1 DEF Passes
  <2>a. d \in Entry
    BY DEF EntryOK
  <2>b. 0 \in 0..CountMax /\ 0 \in 0..ConfirmHold
    BY CountAssumption
  <2>2. Passes(d) \in Entry
    BY <2>1, <2>a, <2>b DEF Entry
  <2>3. Recorded(Passes(d)) /\ Counting(Passes(d))
    <3>1. Recorded(d)
      BY DEF EntryOK
    <3>2. Passes(d).state = "INACTIVE" /\ Passes(d).debounce = 0 /\ Passes(d).seq = d.seq
          /\ Passes(d).occurrence = d.occurrence /\ Passes(d).frame = d.frame
          /\ Passes(d).permanent = d.permanent
      BY <2>1, <2>a DEF Entry
    <3>3. Recorded(Passes(d))
      BY <1>1, <3>1, <3>2 DEF Recorded
    <3>4. Counting(Passes(d))
      BY <3>2, CountAssumption DEF Counting
    <3> QED BY <3>3, <3>4
  <2> QED BY <2>2, <2>3 DEF EntryOK
<1>2. CASE d.state # "PENDING"
  <2>1. Passes(d) = [d EXCEPT !.debounce = 0]
    BY <1>2 DEF Passes
  <2>2. Passes(d) \in Entry
    BY <2>1, CountAssumption DEF EntryOK, Entry
  <2>3. Recorded(Passes(d)) /\ Counting(Passes(d))
    BY <1>2, <2>1, CountAssumption DEF EntryOK, Entry, Recorded, Counting
  <2> QED BY <2>2, <2>3 DEF EntryOK
<1> QED BY <1>1, <1>2

(* And one whose condition was seen, whatever it led to.                   *)
LEMMA FailsIsOK == ASSUME IInv, NEW i \in Entries, Condition(sim, i) PROVE EntryOK(Fails(i))
<1> DEFINE d == [dtc[i] EXCEPT !.debounce = Up(@)]
<1>1. EntryOK(dtc[i])
  BY DEF IInv
<1>2. /\ Up(dtc[i].debounce) \in 1..CountMax
      /\ Up(dtc[i].debounce) >= dtc[i].debounce
  BY <1>1, UpIsBounded DEF EntryOK, Entry
<1>3. /\ Up(dtc[i].occurrence) \in 1..CountMax
  BY <1>1, UpIsBounded DEF EntryOK, Entry
<1>4. d \in Entry /\ Recorded(d) /\ d.debounce = Up(dtc[i].debounce)
      /\ d.state = dtc[i].state /\ d.hold = dtc[i].hold /\ d.occurrence = dtc[i].occurrence
  BY <1>1, <1>2 DEF EntryOK, Entry, Recorded
<1>5. ASSUME NEW e, EntryOK(e), e.state = "PENDING" PROVE EntryOK(HoldOn(e))
  <2>1. e.hold \in Nat /\ e.hold < ConfirmHold
    BY <1>5 DEF EntryOK, Entry, Counting
  <2>2. Up(e.hold) \in 0..ConfirmHold
    BY <2>1, CountAssumption DEF Up, Least
  <2>3. CASE Up(e.hold) >= ConfirmHold
    BY <1>5, <2>2, <2>3 DEF HoldOn, EntryOK, Entry, Recorded, Counting
  <2>4. CASE ~(Up(e.hold) >= ConfirmHold)
    BY <1>5, <2>2, <2>4, CountAssumption DEF HoldOn, EntryOK, Entry, Recorded, Counting
  <2> QED BY <2>3, <2>4
<1>6. CASE i \in Promoted
  <2> DEFINE e == Promote(d, Number(i))
  <2>1. Number(i) \in 1..SeqMax
    BY <1>6, NumberIsPositive DEF IInv
  <2>2. dtc[i].state = "INACTIVE" /\ Up(dtc[i].debounce) >= Thresh
    BY <1>6 DEF Promoted
  <2>a. /\ e.state = "PENDING" /\ e.hold = 0 /\ e.seq = Number(i) /\ e.frame = TRUE
        /\ e.occurrence = Up(dtc[i].occurrence) /\ e.debounce = Up(dtc[i].debounce)
        /\ e.permanent = d.permanent
    BY <1>4 DEF Promote, Entry
  <2>b. ~ d.permanent
    <3> HIDE DEF d
    <3>1. d.state # "CONFIRMED"
      BY <1>4, <2>2
    <3>2. d.permanent <=> d.state = "CONFIRMED"
      BY <1>4, Zenon DEF Recorded
    <3> QED BY <3>1, <3>2, Zenon
  <2>c. e \in Entry
    <3> HIDE DEF d
    <3>1. 0 \in 0..ConfirmHold /\ Number(i) \in 0..SeqMax
      BY <2>1, CountAssumption
    <3>2. d \in Entry /\ Up(d.occurrence) \in 0..CountMax
      BY <1>3, <1>4
    <3> QED BY <3>1, <3>2 DEF Promote, Entry
  <2>d. Recorded(e)
    BY <1>3, <2>1, <2>a, <2>b DEF Recorded
  <2>e. Counting(e)
    BY <2>2, <2>a, CountAssumption DEF Counting
  <2>3. EntryOK(e) /\ e.state = "PENDING"
    BY <2>a, <2>c, <2>d, <2>e DEF EntryOK
  <2>4. Fails(i) = HoldOn(e)
    BY <1>6 DEF Fails
  <2> QED BY <1>5, <2>3, <2>4
<1>7. CASE i \notin Promoted
  <2>1. Fails(i) = HoldOn(d)
    BY <1>7 DEF Fails
  <2>2. dtc[i].state = "INACTIVE" => Up(dtc[i].debounce) < Thresh
    BY <1>7, <1>2, CountAssumption DEF Promoted
  <2>3. EntryOK(d)
    BY <1>1, <1>2, <1>4, <2>2, CountAssumption DEF EntryOK, Entry, Counting
  <2>4. CASE d.state = "PENDING"
    BY <1>5, <2>1, <2>3, <2>4
  <2>5. CASE d.state # "PENDING"
    BY <2>1, <2>3, <2>5 DEF HoldOn
  <2> QED BY <2>4, <2>5
<1> QED BY <1>6, <1>7

-----------------------------------------------------------------------------
(* Every gauge has a length.                                               *)
LEMMA GaugesPositive == \A g \in DOMAIN Gauges : Gauges[g] \in Nat /\ Gauges[g] > 1
<1>1. DOMAIN Gauges = {"temp", "speed", "rpm"}
  BY DEF Gauges
<1>2. Gauges["temp"] = TempMax /\ Gauges["speed"] = SpeedMax /\ Gauges["rpm"] = RpmMax
  BY DEF Gauges
<1> QED BY <1>1, <1>2, RampAssumption

(* A ramp stays on its gauge.                                              *)
LEMMA RampStays == ASSUME NEW max \in Nat, max > 1, NEW g, g.at \in 0..max, g.up \in BOOLEAN
                   PROVE  Ramp(g, max).at \in 0..max /\ Ramp(g, max).up \in BOOLEAN
<1>1. CASE g.up
  <2>1. Ramp(g, max) = [at |-> Least(g.at + 1, max), up |-> g.at + 1 < max]
    BY <1>1 DEF Ramp
  <2> QED BY <2>1 DEF Least
<1>2. CASE ~g.up
  <2>1. Ramp(g, max) = [at |-> IF g.at > 0 THEN g.at - 1 ELSE 0, up |-> g.at <= 1]
    BY <1>2 DEF Ramp
  <2> QED BY <2>1
<1> QED BY <1>1, <1>2

(* The table starts in order and stays in order.                           *)
THEOREM DtcInvariance == Spec => []IInv
<1>1. Init => IInv
  <2> SUFFICES ASSUME Init PROVE IInv
    OBVIOUS
  <2> DEFINE empty == [code |-> NoCode, status |-> {}, occurrence |-> 0]
  <2>c. empty \in Place /\ empty.code = NoCode
    BY CountAssumption DEF Place
  <2>d. \A i \in Entries : mirror[i] = empty
    BY DEF Init
  <2>e. mirror \in [Entries -> Place]
    BY <2>c DEF Init
  <2>1. \A i \in Entries : EntryOK(dtc[i]) /\ PlaceOK(i, mirror[i])
    BY CleanIsOK, <2>c, <2>d DEF Init, PlaceOK
  <2>2. dtc \in [Entries -> Entry]
    BY CleanIsOK DEF Init, EntryOK
  <2>3. \A g \in DOMAIN Gauges : Gauges[g] \in Nat
    BY GaugesPositive
  <2>a. \A g \in DOMAIN Gauges : sim[g] = [at |-> 0, up |-> TRUE]
    BY DEF Init
  <2>b. \A g \in DOMAIN Gauges : sim[g].at = 0 /\ sim[g].up = TRUE
    <3> TAKE g \in DOMAIN Gauges
    <3>1. sim[g] = [at |-> 0, up |-> TRUE]
      BY <2>a
    <3> QED BY <3>1
  <2>4. \A g \in DOMAIN Gauges : sim[g].at \in 0..Gauges[g] /\ sim[g].up \in BOOLEAN
    <3> TAKE g \in DOMAIN Gauges
    <3>1. sim[g].at = 0 /\ sim[g].up = TRUE
      BY <2>b
    <3>2. Gauges[g] \in Nat
      BY <2>3
    <3>3. sim[g].at \in 0..Gauges[g]
      BY <3>1, <3>2
    <3>4. sim[g].up \in BOOLEAN
      BY <3>1
    <3> QED BY <3>3, <3>4
  <2>6. counter \in 0..SeqMax
    BY CountAssumption DEF Init
  <2>7. phase \in {"sim", "check", "update"} /\ settingOn \in BOOLEAN /\ touched \in BOOLEAN
        /\ late \in Nat /\ cleared \in BOOLEAN
    BY DEF Init
  <2>8. TypeOK
    BY <2>2, <2>4, <2>e, <2>6, <2>7 DEF TypeOK, Entry, Place
  <2> QED BY <2>1, <2>8 DEF IInv
<1>2. IInv /\ [Next]_vars => IInv'
  <2> SUFFICES ASSUME IInv, [Next]_vars PROVE IInv'
    OBVIOUS
  <2> USE DEF IInv
  <2>0. ASSUME dtc' \in [Entries -> Entry], \A i \in Entries : EntryOK(dtc'[i]),
               UNCHANGED sim, phase' \in {"sim", "check", "update"},
               mirror' \in [Entries -> Place], \A i \in Entries : PlaceOK(i, mirror'[i]),
               counter' \in 0..SeqMax,
               settingOn' \in BOOLEAN, touched' \in BOOLEAN,
               late' \in Nat, cleared' \in BOOLEAN
        PROVE  IInv'
    <3>1. TypeOK'
      BY <2>0 DEF TypeOK, Entry, Place
    <3>2. \A i \in Entries : EntryOK(dtc[i])' /\ PlaceOK(i, mirror[i])'
      BY <2>0 DEF EntryOK, Recorded, Counting, PlaceOK
    <3> QED BY <3>1, <3>2
  <2>a. mirror' = mirror =>
          mirror' \in [Entries -> Place] /\ \A i \in Entries : PlaceOK(i, mirror'[i])
    BY DEF TypeOK, Place
  <2>1. CASE UpdateSimValues
    <3>1. \A g \in DOMAIN Gauges : Gauges[g] \in Nat /\ Gauges[g] > 1
      BY GaugesPositive
    <3>2. \A g \in DOMAIN Gauges : sim'[g].at \in 0..Gauges[g] /\ sim'[g].up \in BOOLEAN
      BY <2>1, <3>1, RampStays DEF UpdateSimValues, TypeOK
    <3> QED BY <2>1, <3>2 DEF UpdateSimValues, TypeOK, table, ghosts
  <2>2. CASE CheckSetting
    BY <2>2 DEF CheckSetting, TypeOK, table, ghosts
  <2>3. CASE Update
    <3>1. \A i \in Entries : EntryOK(dtc'[i])
      BY <2>3, FailsIsOK, PassesIsOK DEF Update
    <3>2. dtc' \in [Entries -> Entry]
      BY <2>3, <3>1 DEF Update, EntryOK
    <3>3. counter' \in 0..SeqMax
      BY <2>3, CountIsBounded DEF Update
    <3>4. late' \in Nat
      BY <2>3 DEF Update, TypeOK
    <3> QED BY <2>0, <2>a, <2>3, <3>1, <3>2, <3>3, <3>4 DEF Update, TypeOK
  <2>4. CASE InjectDemo
    <3>1. counter' \in 1..SeqMax
      BY <2>4, CountAssumption DEF InjectDemo, TypeOK, Least
    <3>2. \A i \in Entries : EntryOK(dtc'[i])
      BY <2>4, <3>1, CountAssumption
         DEF InjectDemo, TypeOK, EntryOK, Entry, Recorded, Counting
    <3>3. dtc' \in [Entries -> Entry]
      BY <2>4, <3>2 DEF InjectDemo, EntryOK, TypeOK
    <3>4. /\ UNCHANGED sim /\ phase' = phase /\ mirror' = mirror /\ settingOn' = settingOn
          /\ touched' = TRUE /\ late' = late /\ cleared' = FALSE
      BY <2>4 DEF InjectDemo
    <3>5. /\ phase \in {"sim", "check", "update"} /\ settingOn \in BOOLEAN /\ late \in Nat
          /\ counter' \in 0..SeqMax
      BY <3>1 DEF TypeOK
    <3>6. touched' \in BOOLEAN /\ cleared' \in BOOLEAN
      BY <3>4
    <3> QED BY <2>0, <2>a, <3>2, <3>3, <3>4, <3>5, <3>6
  <2>5. CASE Clear
    <3>1. \A i \in Entries : EntryOK(dtc'[i])
      BY <2>5, CleanIsOK DEF Clear
    <3>2. dtc' \in [Entries -> Entry]
      BY <2>5, <3>1 DEF Clear, EntryOK
    <3>3. \A i \in Entries : PlaceOK(i, mirror'[i])
      BY <2>5, ArchiveIsOK DEF Clear
    <3>4. mirror' \in [Entries -> Place]
      BY <2>5, <3>3 DEF Clear, PlaceOK
    <3> QED BY <2>0, <2>5, <3>1, <3>2, <3>3, <3>4, CountAssumption DEF Clear, TypeOK
  <2>6. ASSUME NEW on \in BOOLEAN, SettingControl(on) PROVE IInv'
    BY <2>6 DEF SettingControl, TypeOK, table
  <2>7. CASE UNCHANGED vars
    BY <2>7 DEF vars, table, ghosts, TypeOK
  <2> QED BY <2>1, <2>2, <2>3, <2>4, <2>5, <2>6, <2>7 DEF Next
<1> QED BY <1>1, <1>2, PTL DEF Spec

(* Every state is well typed: in particular the counters stay in a byte    *)
(* and the hold within the time to confirm.                                *)
THEOREM DtcTypeCorrect == Spec => []TypeOK
BY DtcInvariance, PTL DEF IInv

(* What 0x19 reports of an entry hangs together.                           *)
THEOREM DtcFailureIsRecorded == Spec => []FailureIsRecorded
<1>1. IInv => FailureIsRecorded
  BY DEF IInv, EntryOK, Recorded, FailureIsRecorded
<1> QED BY <1>1, DtcInvariance, PTL

(* Of the entries that qualify, one comes first and one last.              *)
LEMMA PicksAreExtreme ==
    ASSUME IInv, NEW I \in SUBSET Entries, I # {}
    PROVE  /\ Earliest(I) \in I /\ \A j \in I : dtc[Earliest(I)].seq <= dtc[j].seq
           /\ Latest(I) \in I /\ \A j \in I : dtc[j].seq <= dtc[Latest(I)].seq
<1>1. \A i \in Entries : dtc[i].seq \in Nat
  BY CountAssumption DEF IInv, EntryOK, Entry
<1>2. Entries = {1, 2, 3}
  BY DEF Entries
<1> DEFINE Oldest(i) == \A j \in I : /\ dtc[i].seq <= dtc[j].seq
                                     /\ dtc[i].seq = dtc[j].seq => i <= j
           Last(i)  == \A j \in I : /\ dtc[i].seq >= dtc[j].seq
                                    /\ dtc[i].seq = dtc[j].seq => i <= j
<1> DEFINE a == dtc[1].seq
           b == dtc[2].seq
           c == dtc[3].seq
<1>a. a \in Nat /\ b \in Nat /\ c \in Nat
  BY <1>1, <1>2
<1>b. \A i \in I : i = 1 \/ i = 2 \/ i = 3
  BY <1>2
<1>c. 1 \in I \/ 2 \in I \/ 3 \in I
  BY <1>b
<1>3. \E i \in I : Oldest(i)
  <2>1. CASE 1 \in I /\ (2 \in I => a <= b) /\ (3 \in I => a <= c)
    <3>1. Oldest(1)
      BY <2>1, <1>a, <1>b
    <3> QED BY <2>1, <3>1
  <2>2. CASE 2 \in I /\ (1 \in I => b < a) /\ (3 \in I => b <= c)
    <3>1. Oldest(2)
      BY <2>2, <1>a, <1>b
    <3> QED BY <2>2, <3>1
  <2>3. CASE 3 \in I /\ (1 \in I => c < a) /\ (2 \in I => c < b)
    <3>1. Oldest(3)
      BY <2>3, <1>a, <1>b
    <3> QED BY <2>3, <3>1
  <2>4. /\ a \in Nat /\ b \in Nat /\ c \in Nat
        /\ 1 \in I \/ 2 \in I \/ 3 \in I
    BY <1>a, <1>c
  <2> HIDE DEF a, b, c, Oldest
  <2> QED BY <2>1, <2>2, <2>3, <2>4
<1>4. \E i \in I : Last(i)
  <2>1. CASE 1 \in I /\ (2 \in I => a >= b) /\ (3 \in I => a >= c)
    <3>1. Last(1)
      BY <2>1, <1>a, <1>b
    <3> QED BY <2>1, <3>1
  <2>2. CASE 2 \in I /\ (1 \in I => b > a) /\ (3 \in I => b >= c)
    <3>1. Last(2)
      BY <2>2, <1>a, <1>b
    <3> QED BY <2>2, <3>1
  <2>3. CASE 3 \in I /\ (1 \in I => c > a) /\ (2 \in I => c > b)
    <3>1. Last(3)
      BY <2>3, <1>a, <1>b
    <3> QED BY <2>3, <3>1
  <2>4. /\ a \in Nat /\ b \in Nat /\ c \in Nat
        /\ 1 \in I \/ 2 \in I \/ 3 \in I
    BY <1>a, <1>c
  <2> HIDE DEF a, b, c, Last
  <2> QED BY <2>1, <2>2, <2>3, <2>4
<1>5. Earliest(I) \in I /\ Oldest(Earliest(I))
  BY <1>3 DEF Earliest
<1>6. Latest(I) \in I /\ Last(Latest(I))
  BY <1>4 DEF Latest
<1>7. \A j \in I : dtc[j].seq \in Int /\ dtc[Latest(I)].seq \in Int
  BY <1>1, <1>6
<1> QED BY <1>5, <1>6, <1>7

LEMMA PicksExist == ASSUME IInv, NEW I \in SUBSET Entries, I # {}
                    PROVE  Earliest(I) \in I /\ Latest(I) \in I
  BY PicksAreExtreme

(* Debouncing stops at the threshold, so 0x14 lists every prefailed entry. *)
LEMMA Prefailing == IInv => PrefailedShows
BY CountAssumption DEF IInv, EntryOK, Entry, Counting, PrefailedShows, Fdc, Failed

(* The reports of one moment agree, for every threshold and every limit.   *)
THEOREM DtcReportsAgree == Spec => []ReportsAgree
<1> SUFFICES IInv => ReportsAgree
  BY DtcInvariance, PTL
<1> SUFFICES ASSUME IInv PROVE ReportsAgree
  OBVIOUS
<1>1. \A i \in Entries : EntryOK(dtc[i])
  BY DEF IInv
<1>a. \A i \in Entries : Record(i).dtc = i /\ Frame(i).dtc = i
  BY DEF Record, Frame
<1>2. \A i \in Entries : /\ "failedSinceClear" \in Status(i) <=> dtc[i].seq # 0
                         /\ "confirmed" \in Status(i) <=> dtc[i].state = "CONFIRMED"
                         /\ "testFailed" \in Status(i) <=> dtc[i].debounce > 0
  BY DEF Status, StatusByte
<1>3. ASSUME NEW b \in Bits PROVE Dtcs(DtcByMask({b})) = {i \in Entries : b \in Status(i)}
  <2>1. \A i \in Entries : MaskMatch(i, {b}) <=> b \in Status(i)
    BY DEF MaskMatch
  <2> QED BY <1>a, <2>1 DEF Dtcs, DtcByMask, Matching
<1>4. SinceClear = EverFailed
  BY <1>2, <1>3 DEF SinceClear, EverFailed, Bits
<1>5. FailedAgree
  <2>1. Dtcs(SnapshotIdentification) = {i \in Entries : dtc[i].frame}
    <3>1. \A i \in Entries : [dtc |-> i, frame |-> 1].dtc = i
      OBVIOUS
    <3> QED BY <3>1 DEF Dtcs, SnapshotIdentification
  <2>2. Dtcs(StoredData(255)) = {i \in Entries : dtc[i].frame}
    BY <1>a DEF Dtcs, StoredData, FrameNumber
  <2>3. Dtcs(ExtDataByRecord(1)) = {i \in Entries : dtc[i].occurrence # 0}
    <3>1. \A i \in Entries : Counter(i, Status(i), dtc[i].occurrence).dtc = i
      BY DEF Counter
    <3> QED BY <3>1 DEF Dtcs, ExtDataByRecord
  <2>4. \A i \in Entries : (dtc[i].seq # 0 <=> dtc[i].frame) /\ (dtc[i].seq # 0 <=> dtc[i].occurrence # 0)
    BY <1>1 DEF EntryOK, Recorded
  <2>5. ASSUME NEW w \in {"firstFailed", "recentFailed"}
        PROVE  Pick(w) \subseteq DtcByMask({"failedSinceClear"}) /\ (Pick(w) = {} <=> SinceClear = {})
    <3>1. Candidates(w) = EverFailed
      BY DEF Candidates
    <3>2. CASE EverFailed = {}
      BY <1>4, <3>1, <3>2 DEF Pick
    <3>3. CASE EverFailed # {}
      <4>1. EverFailed \in SUBSET Entries
        BY DEF EverFailed
      <4>2. Earliest(EverFailed) \in EverFailed /\ Latest(EverFailed) \in EverFailed
        BY <3>3, <4>1, PicksExist
      <4>3. \E i \in EverFailed : Pick(w) = {Record(i)}
        BY <3>1, <3>3, <4>2 DEF Pick
      <4>4. \A i \in EverFailed : Record(i) \in DtcByMask({"failedSinceClear"})
        BY <1>2 DEF EverFailed, DtcByMask, Matching, MaskMatch
      <4> QED BY <1>4, <3>3, <4>3, <4>4
    <3> QED BY <3>2, <3>3
  <2>6. SinceClear = Dtcs(SnapshotIdentification)
    BY <1>4, <2>1, <2>4 DEF EverFailed
  <2>7. SinceClear = Dtcs(StoredData(255))
    BY <1>4, <2>2, <2>4 DEF EverFailed
  <2>8. SinceClear = Dtcs(ExtDataByRecord(1))
    BY <1>4, <2>3, <2>4 DEF EverFailed
  <2> QED BY <2>5, <2>6, <2>7, <2>8 DEF FailedAgree
<1>6. ConfirmedAgree
  <2>1. \A i \in Entries : /\ dtc[i].permanent <=> dtc[i].state = "CONFIRMED"
                           /\ dtc[i].state = "CONFIRMED" => dtc[i].seq # 0
    BY <1>1 DEF EntryOK, Recorded
  <2>2. GetConfirmed = Dtcs(DtcByMask({"confirmed"}))
    BY <1>2, <1>3 DEF GetConfirmed, Bits
  <2>3. GetConfirmed = Dtcs(WwhPermanent("emissions"))
    BY <1>a, <2>1 DEF GetConfirmed, Dtcs, WwhPermanent, Permanent
  <2>4. GetConfirmed = EverFailed \cap GetConfirmed /\ GetConfirmed \in SUBSET Entries
    BY <2>1 DEF GetConfirmed, EverFailed
  <2>5. ASSUME NEW w \in {"firstConfirmed", "recentConfirmed"}
        PROVE  Pick(w) \subseteq Permanent /\ (Pick(w) = {} <=> GetConfirmed = {})
    <3>1. Candidates(w) = GetConfirmed
      BY <2>4 DEF Candidates
    <3>2. CASE GetConfirmed = {}
      BY <3>1, <3>2 DEF Pick
    <3>3. CASE GetConfirmed # {}
      <4>1. Earliest(GetConfirmed) \in GetConfirmed /\ Latest(GetConfirmed) \in GetConfirmed
        BY <2>4, <3>3, PicksExist
      <4>2. \E i \in GetConfirmed : Pick(w) = {Record(i)}
        BY <3>1, <3>3, <4>1 DEF Pick
      <4>3. \A i \in GetConfirmed : Record(i) \in Permanent
        BY <2>1 DEF GetConfirmed, Permanent
      <4> QED BY <3>3, <4>2, <4>3
    <3> QED BY <3>2, <3>3
  <2> QED BY <2>2, <2>3, <2>5 DEF ConfirmedAgree
<1>7. OthersAgree
  <2>1. Dtcs(FaultDetection) = {i \in Entries : Fdc(dtc[i]) \in 1..(Failed - 1)}
    <3>1. \A i \in Entries : [dtc |-> i, counter |-> Fdc(dtc[i])].dtc = i
      OBVIOUS
    <3> QED BY <3>1 DEF Dtcs, FaultDetection
  <2>2. \A i \in Entries : Fdc(dtc[i]) \in 1..(Failed - 1) =>
                            dtc[i].state = "INACTIVE" /\ dtc[i].debounce > 0
    BY <1>1, CountAssumption DEF Fdc, Failed, EntryOK, Entry
  <2>3. GetPending \subseteq SinceClear \ GetConfirmed
    BY <1>1, <1>4 DEF GetPending, GetConfirmed, EverFailed, EntryOK, Recorded
  <2>4. Dtcs(FaultDetection) \cap (GetPending \cup GetConfirmed) = {}
    BY <2>1, <2>2 DEF GetPending, GetConfirmed
  <2>5. Dtcs(FaultDetection) \subseteq Dtcs(DtcByMask({"testFailed"}))
    BY <1>2, <1>3, <2>1, <2>2 DEF Bits
  <2> QED BY <2>3, <2>4, <2>5 DEF OthersAgree
<1> QED BY <1>5, <1>6, <1>7, Prefailing DEF ReportsAgree

(* What is read from the mirror was confirmed and counted.                 *)
THEOREM DtcMirrorAgrees == Spec => []MirrorAgrees
<1> SUFFICES IInv => MirrorAgrees
  BY DtcInvariance, PTL
<1> SUFFICES ASSUME IInv PROVE MirrorAgrees
  OBVIOUS
<1>1. \A i \in Entries : PlaceOK(i, mirror[i]) /\ i # NoCode
  BY DEF IInv, Entries, NoCode
<1>2. Archived(Bits) = {i \in Entries : mirror[i].code = i}
  BY <1>1 DEF Archived, PlaceOK, Place, Bits
<1>3. \A m \in MirrorByMask(Bits) : {"confirmed", "failedSinceClear"} \subseteq m.status
  BY <1>1, <1>2 DEF MirrorByMask, PlaceOK
<1>4. Dtcs(MirrorByMask(Bits)) = Archived(Bits)
  <2>1. \A i \in Archived(Bits) : [dtc |-> mirror[i].code, status |-> mirror[i].status].dtc = i
    BY <1>2
  <2> QED BY <2>1 DEF Dtcs, MirrorByMask
<1>5. ASSUME NEW i \in Entries
      PROVE  MirrorFindByCode(i) = IF i \in Archived(Bits) THEN {i} ELSE {}
  BY <1>1, <1>2 DEF MirrorFindByCode, PlaceOK
<1>6. ASSUME NEW i \in Entries, i \notin Archived(Bits) PROVE MirrorExtData(i, 1) = Refused
  BY <1>5, <1>6 DEF MirrorExtData
<1>7. ASSUME NEW i \in Entries, i \in Archived(Bits), NEW r \in MirrorExtData(i, 1)
      PROVE  r.count # {} /\ r.status = mirror[i].status
  <2>1. MirrorFindByCode(i) = {i} /\ FrameNumber(1)
    BY <1>5, <1>7 DEF FrameNumber
  <2>2. (CHOOSE k \in {i} : \A j \in {i} : k <= j) = i
    BY DEF Entries
  <2>3. r = Counter(i, mirror[i].status, mirror[i].occurrence)
    BY <1>7, <2>1, <2>2 DEF MirrorExtData
  <2>4. mirror[i].occurrence # 0
    BY <1>1, <1>2, <1>7 DEF PlaceOK
  <2> QED BY <2>3, <2>4 DEF Counter
<1> QED BY <1>3, <1>4, <1>6, <1>7 DEF MirrorAgrees

-----------------------------------------------------------------------------
(* An engine left alone.  Its ramps turn at their ends, so no condition    *)
(* holds in two passes in a row: whoever has counted one detection is at   *)
(* the pass that saw it, or at the next one, which does not.               *)
Turning == \A g \in DOMAIN Gauges : /\ sim[g].at = Gauges[g] => ~ sim[g].up
                                    /\ sim[g].at = 0 => sim[g].up

SeenOnce(i) ==
    /\ dtc[i].state = "INACTIVE" /\ dtc[i].debounce \in {0, 1}
    /\ dtc[i].debounce = 1 => (Condition(sim, i) <=> phase = "sim")

Alone ==
    /\ Turning
    /\ ~ touched => settingOn /\ \A i \in Entries : SeenOnce(i)

(* A ramp that turns at its ends leaves them, and turns at them again.     *)
LEMMA RampTurns == ASSUME NEW max \in Nat, max > 1, NEW g, g.at \in 0..max, g.up \in BOOLEAN,
                          g.at = max => ~ g.up, g.at = 0 => g.up
                   PROVE  /\ Ramp(g, max).at = max => ~ Ramp(g, max).up
                          /\ Ramp(g, max).at = 0 => Ramp(g, max).up
                          /\ g.at = max => Ramp(g, max).at # max
                          /\ g.at = 0 => Ramp(g, max).at # 0
<1>1. CASE g.up
  <2>1. Ramp(g, max) = [at |-> Least(g.at + 1, max), up |-> g.at + 1 < max]
    BY <1>1 DEF Ramp
  <2>2. g.at + 1 <= max
    BY <1>1
  <2>3. Ramp(g, max).at = g.at + 1
    BY <2>1, <2>2 DEF Least
  <2>4. Ramp(g, max).up <=> g.at + 1 < max
    <3> DEFINE turn == g.at + 1 < max
    <3>1. Ramp(g, max).up = turn /\ turn \in BOOLEAN
      BY <2>1
    <3> QED BY <3>1, Zenon
  <2> QED BY <2>2, <2>3, <2>4
<1>2. CASE ~ g.up
  <2>1. Ramp(g, max) = [at |-> IF g.at > 0 THEN g.at - 1 ELSE 0, up |-> g.at <= 1]
    BY <1>2 DEF Ramp
  <2>2. g.at > 0
    BY <1>2
  <2>3. Ramp(g, max).at = g.at - 1
    BY <2>1, <2>2
  <2>4. Ramp(g, max).up <=> g.at <= 1
    <3> DEFINE turn == g.at <= 1
    <3>1. Ramp(g, max).up = turn /\ turn \in BOOLEAN
      BY <2>1
    <3> QED BY <3>1, Zenon
  <2> QED BY <2>2, <2>3, <2>4
<1> QED BY <1>1, <1>2

(* Moving the gauges, a condition that held holds no more.                 *)
LEMMA ConditionPasses == ASSUME TypeOK, Turning, UpdateSimValues, NEW i \in Entries,
                                Condition(sim, i)
                         PROVE  ~ Condition(sim', i)
<1>1. \A g \in DOMAIN Gauges : /\ Gauges[g] \in Nat /\ Gauges[g] > 1
                               /\ sim[g].at \in 0..Gauges[g] /\ sim[g].up \in BOOLEAN
                               /\ sim'[g] = Ramp(sim[g], Gauges[g])
  BY GaugesPositive DEF TypeOK, UpdateSimValues
<1>2. \A g \in DOMAIN Gauges : /\ sim[g].at = Gauges[g] => sim'[g].at # Gauges[g]
                               /\ sim[g].at = 0 => sim'[g].at # 0
  BY <1>1, RampTurns DEF Turning
<1>3. "temp" \in DOMAIN Gauges /\ "speed" \in DOMAIN Gauges /\ Gauges["temp"] = TempMax
  BY DEF Gauges
<1>4. sim["temp"].at \in 0..TempMax /\ sim'["temp"].at \in 0..TempMax
  BY <1>1, <1>3, RampStays
<1>5. CASE i = Overtemp
  BY <1>2, <1>3, <1>4, <1>5, RampAssumption DEF Condition, Overtemp, Vss, Thermostat
<1>6. CASE i = Vss
  BY <1>2, <1>3, <1>6 DEF Condition, Overtemp, Vss, Thermostat
<1>7. CASE i = Thermostat
  BY <1>2, <1>3, <1>4, <1>7, RampAssumption DEF Condition, Overtemp, Vss, Thermostat
<1> QED BY <1>5, <1>6, <1>7 DEF Entries, Overtemp, Vss, Thermostat

(* In an update of an engine left alone no entry is promoted: one whose    *)
(* condition is seen has not counted any before.                           *)
LEMMA UpdateAlone == ASSUME IInv, NEW i \in Entries, SeenOnce(i), phase = "update"
                     PROVE  /\ Condition(sim, i) =>
                                 Fails(i).state = "INACTIVE" /\ Fails(i).debounce = 1
                            /\ ~ Condition(sim, i) =>
                                 /\ Passes(dtc[i]).state = "INACTIVE"
                                 /\ Passes(dtc[i]).debounce = 0
<1>0. dtc[i] \in Entry
  BY DEF IInv, EntryOK
<1>1. CASE Condition(sim, i)
  <2>1. dtc[i].debounce = 0
    BY <1>1 DEF SeenOnce
  <2>2. Up(dtc[i].debounce) = 1
    BY <2>1, CountAssumption DEF Up, Least
  <2>3. i \notin Promoted
    BY <2>2, CountAssumption DEF Promoted
  <2>4. Fails(i) = HoldOn([dtc[i] EXCEPT !.debounce = Up(@)])
    BY <2>3 DEF Fails
  <2>5. [dtc[i] EXCEPT !.debounce = Up(@)].state = "INACTIVE"
    BY <1>0 DEF SeenOnce, Entry
  <2>6. Fails(i) = [dtc[i] EXCEPT !.debounce = Up(@)]
    BY <2>4, <2>5 DEF HoldOn
  <2> QED BY <1>0, <1>1, <2>2, <2>5, <2>6 DEF Entry
<1>2. CASE ~ Condition(sim, i)
  <2>1. Passes(dtc[i]) = [dtc[i] EXCEPT !.debounce = 0]
    BY DEF Passes, SeenOnce
  <2> QED BY <1>0, <1>2, <2>1 DEF Entry, SeenOnce
<1> QED BY <1>1, <1>2

(* Left alone, no fault matures, however long the ramps and whatever is    *)
(* cleared when: obd2_simulator.h:199 for every threshold above 1.         *)
THEOREM DtcNothingMaturesAlone == Spec => []NothingMaturesAlone
<1>1. Init => Alone
  <2> SUFFICES ASSUME Init PROVE Alone
    OBVIOUS
  <2>1. \A g \in DOMAIN Gauges : Gauges[g] \in Nat /\ Gauges[g] > 1
    BY GaugesPositive
  <2>2. Turning
    <3> SUFFICES ASSUME NEW g \in DOMAIN Gauges
                 PROVE  /\ sim[g].at = Gauges[g] => ~ sim[g].up
                        /\ sim[g].at = 0 => sim[g].up
      BY DEF Turning
    <3>1. sim[g] = [at |-> 0, up |-> TRUE]
      BY DEF Init
    <3>2. Gauges[g] # 0
      BY <2>1
    <3> QED BY <3>1, <3>2
  <2>3. settingOn /\ \A i \in Entries : SeenOnce(i)
    BY DEF Init, SeenOnce, Clean
  <2> QED BY <2>2, <2>3 DEF Alone
<1>2. IInv /\ Alone /\ [Next]_vars => Alone'
  <2> SUFFICES ASSUME IInv, Alone, [Next]_vars PROVE Alone'
    OBVIOUS
  <2> USE DEF Alone
  <2>0. TypeOK
    BY DEF IInv
  <2>1. CASE UpdateSimValues
    <3>1. \A g \in DOMAIN Gauges : /\ Gauges[g] \in Nat /\ Gauges[g] > 1
                                   /\ sim[g].at \in 0..Gauges[g] /\ sim[g].up \in BOOLEAN
                                   /\ sim'[g] = Ramp(sim[g], Gauges[g])
      BY <2>0, <2>1, GaugesPositive DEF TypeOK, UpdateSimValues
    <3>2. Turning'
      BY <3>1, RampTurns DEF Turning
    <3>3. phase = "sim" /\ phase' = "check" /\ UNCHANGED <<dtc, settingOn, touched>>
      BY <2>1 DEF UpdateSimValues, table, ghosts
    <3>4. ASSUME NEW i \in Entries, SeenOnce(i) PROVE SeenOnce(i)'
      <4>1. dtc[i].debounce = 1 => ~ Condition(sim', i)
        BY <2>0, <2>1, <3>3, <3>4, ConditionPasses DEF SeenOnce
      <4> QED BY <3>3, <3>4, <4>1 DEF SeenOnce, Condition
    <3> QED BY <3>2, <3>3, <3>4
  <2>2. CASE CheckSetting
    <3>1. phase = "check" /\ UNCHANGED <<sim, dtc, settingOn, touched>>
          /\ (settingOn => phase' = "update")
      BY <2>2 DEF CheckSetting, table, ghosts
    <3> QED BY <3>1 DEF Turning, SeenOnce, Condition
  <2>3. CASE Update
    <3>1. phase = "update" /\ phase' = "sim" /\ UNCHANGED <<sim, settingOn, touched>>
      BY <2>3 DEF Update
    <3>2. ASSUME NEW i \in Entries, SeenOnce(i) PROVE SeenOnce(i)'
      <4>1. dtc'[i] = IF Condition(sim, i) THEN Fails(i) ELSE Passes(dtc[i])
        BY <2>3 DEF Update
      <4>2. Condition(sim', i) <=> Condition(sim, i)
        BY <3>1
      <4>3. CASE Condition(sim, i)
        <5>1. dtc'[i].state = "INACTIVE" /\ dtc'[i].debounce = 1
          BY <3>1, <3>2, <4>1, <4>3, UpdateAlone
        <5> QED BY <3>1, <4>2, <4>3, <5>1 DEF SeenOnce
      <4>4. CASE ~ Condition(sim, i)
        <5>1. dtc'[i].state = "INACTIVE" /\ dtc'[i].debounce = 0
          BY <3>1, <3>2, <4>1, <4>4, UpdateAlone
        <5> QED BY <5>1 DEF SeenOnce
      <4> QED BY <4>3, <4>4
    <3> QED BY <3>1, <3>2 DEF Turning
  <2>4. CASE InjectDemo
    BY <2>4 DEF InjectDemo, Turning
  <2>5. CASE Clear
    BY <2>5 DEF Clear, Clean, Turning, SeenOnce
  <2>6. ASSUME NEW on \in BOOLEAN, SettingControl(on) PROVE Alone'
    <3>1. settingOn' = on /\ touched' = (touched \/ ~on) /\ UNCHANGED <<phase, sim, dtc>>
      BY <2>6 DEF SettingControl, table
    <3> QED BY <2>0, <3>1 DEF Turning, SeenOnce, Condition, TypeOK
  <2>7. CASE UNCHANGED vars
    BY <2>7 DEF vars, table, ghosts, Turning, SeenOnce, Condition
  <2> QED BY <2>1, <2>2, <2>3, <2>4, <2>5, <2>6, <2>7 DEF Next
<1>3. Alone => NothingMaturesAlone
  BY DEF Alone, SeenOnce, NothingMaturesAlone
<1> QED BY <1>1, <1>2, <1>3, DtcInvariance, PTL DEF Spec

-----------------------------------------------------------------------------
(* 0x85 off.  An update that was decided on before is still to come while  *)
(* the main task is at it, and it is the only one; a table cleared         *)
(* meanwhile has counted at most what that one saw.                        *)
ClearedOff == ~ settingOn /\ \A i \in Entries : /\ dtc[i].state = "INACTIVE" /\ dtc[i].seq = 0
                                                 /\ dtc[i].debounce <= late
Freezing ==
    /\ settingOn => late = 0
    /\ late <= 1 /\ (phase = "update" => late = 0)
    /\ cleared => ClearedOff

(* One update promotes nothing that was clean before it.                   *)
LEMMA OneUpdateCountsOnce ==
    ASSUME IInv, NEW i \in Entries, dtc[i].state = "INACTIVE", dtc[i].seq = 0, dtc[i].debounce = 0
    PROVE  \A d \in {Fails(i), Passes(dtc[i])} : d.state = "INACTIVE" /\ d.seq = 0 /\ d.debounce <= 1
<1>0. dtc[i] \in Entry
  BY DEF IInv, EntryOK
<1>1. Up(dtc[i].debounce) = 1
  BY CountAssumption DEF Up, Least
<1>2. i \notin Promoted
  BY <1>1, CountAssumption DEF Promoted
<1>3. Fails(i) = HoldOn([dtc[i] EXCEPT !.debounce = Up(@)])
  BY <1>2 DEF Fails
<1>4. [dtc[i] EXCEPT !.debounce = Up(@)].state = "INACTIVE"
  BY <1>0 DEF Entry
<1>5. Fails(i) = [dtc[i] EXCEPT !.debounce = Up(@)]
  BY <1>3, <1>4 DEF HoldOn
<1>6. Fails(i).state = "INACTIVE" /\ Fails(i).seq = 0 /\ Fails(i).debounce = 1
  BY <1>0, <1>1, <1>5 DEF Entry
<1>7. Passes(dtc[i]) = [dtc[i] EXCEPT !.debounce = 0]
  BY DEF Passes
<1>8. Passes(dtc[i]).state = "INACTIVE" /\ Passes(dtc[i]).seq = 0 /\ Passes(dtc[i]).debounce = 0
  BY <1>0, <1>7 DEF Entry
<1> QED BY <1>6, <1>8

(* After 0x85 off at most one update is made, and a table cleared while    *)
(* the setting is off shows no failure, for every ramp and threshold.      *)
THEOREM DtcOffFreezes == Spec => []OffFreezes
<1>1. Init => Freezing
  BY DEF Init, Freezing
<1>2. IInv /\ Freezing /\ [Next]_vars => Freezing'
  <2> SUFFICES ASSUME IInv, Freezing, [Next]_vars PROVE Freezing'
    OBVIOUS
  <2> USE DEF Freezing
  <2>0. TypeOK
    BY DEF IInv
  <2>1. CASE UpdateSimValues
    BY <2>1 DEF UpdateSimValues, table, ghosts, ClearedOff
  <2>2. CASE CheckSetting
    BY <2>2 DEF CheckSetting, table, ghosts, ClearedOff
  <2>3. CASE Update
    <3>1. /\ phase = "update" /\ phase' = "sim" /\ UNCHANGED <<settingOn, cleared>>
          /\ late' = IF settingOn THEN 0 ELSE 1
      BY <2>3 DEF Update
    <3>2. ASSUME cleared PROVE ClearedOff'
      <4>1. \A i \in Entries : dtc'[i] \in {Fails(i), Passes(dtc[i])}
        BY <2>3 DEF Update
      <4>2. ~ settingOn /\ late = 0
        BY <3>1, <3>2 DEF ClearedOff
      <4>3. \A i \in Entries : dtc[i].state = "INACTIVE" /\ dtc[i].seq = 0 /\ dtc[i].debounce = 0
        <5> TAKE i \in Entries
        <5>1. dtc[i].debounce \in Nat
          BY DEF IInv, EntryOK, Entry
        <5> QED BY <3>2, <4>2, <5>1 DEF ClearedOff
      <4>4. \A i \in Entries :
              dtc'[i].state = "INACTIVE" /\ dtc'[i].seq = 0 /\ dtc'[i].debounce <= 1
        BY <4>1, <4>3, OneUpdateCountsOnce
      <4> QED BY <3>1, <4>2, <4>4 DEF ClearedOff
    <3> QED BY <3>1, <3>2
  <2>4. CASE InjectDemo
    BY <2>4 DEF InjectDemo
  <2>5. CASE Clear
    <3>1. \A i \in Entries :
            dtc'[i].state = "INACTIVE" /\ dtc'[i].seq = 0 /\ dtc'[i].debounce = 0
      BY <2>5 DEF Clear, Clean
    <3>2. UNCHANGED <<phase, settingOn, late>> /\ cleared' = ~ settingOn
      BY <2>5 DEF Clear
    <3>3. late \in Nat /\ (cleared' => ~ settingOn)
      <4>1. cleared' => ~ settingOn
        BY <3>2, Zenon
      <4> QED BY <2>0, <4>1 DEF TypeOK
    <3>4. cleared' => ClearedOff'
      <4> SUFFICES ASSUME cleared' PROVE ClearedOff'
        OBVIOUS
      <4>1. ~ settingOn'
        BY <3>2, <3>3
      <4>2. \A i \in Entries : dtc'[i].debounce <= late'
        BY <3>1, <3>2, <3>3
      <4> QED BY <3>1, <4>1, <4>2 DEF ClearedOff
    <3> QED BY <3>2, <3>4
  <2>6. ASSUME NEW on \in BOOLEAN, SettingControl(on) PROVE Freezing'
    <3>1. /\ settingOn' = on /\ UNCHANGED <<phase, dtc>>
          /\ late' = (IF on THEN 0 ELSE late) /\ cleared' = (cleared /\ ~ on)
      BY <2>6 DEF SettingControl, table
    <3> QED BY <2>0, <3>1 DEF ClearedOff, TypeOK
  <2>7. CASE UNCHANGED vars
    BY <2>7 DEF vars, table, ghosts, ClearedOff
  <2> QED BY <2>1, <2>2, <2>3, <2>4, <2>5, <2>6, <2>7 DEF Next
<1>3. IInv /\ Freezing => OffFreezes
  <2> SUFFICES ASSUME IInv, Freezing PROVE OffFreezes
    OBVIOUS
  <2>1. \A i \in Entries : dtc[i].debounce \in Nat
    BY DEF IInv, EntryOK, Entry
  <2>2. late \in Nat /\ late <= 1
    BY DEF IInv, TypeOK, Freezing
  <2> QED BY <2>1, <2>2 DEF Freezing, ClearedOff, OffFreezes
<1> QED BY <1>1, <1>2, <1>3, DtcInvariance, PTL DEF Spec

-----------------------------------------------------------------------------
(* The numbers of failures tell their order, while the counter counts.     *)
Ordered ==
    /\ EverFailed = HasFailed
    /\ counter < SeqMax =>
         /\ \A i \in EverFailed : dtc[i].seq <= counter
         /\ \A i, j \in EverFailed : /\ <<i, j>> \in failed <=> dtc[i].seq <= dtc[j].seq
                                     /\ dtc[i].seq = dtc[j].seq => i = j

(* Entries that fail get numbers above all others', in table order.        *)
LEMMA FailingIsOrdered ==
    ASSUME IInv, IInv', Ordered, NEW I \in SUBSET Entries, failed' = AfterFailing(I),
           counter' >= counter,
           \A i \in I : dtc'[i].seq # 0,
           \A i \in Entries \ I : dtc'[i].seq = dtc[i].seq,
           counter' < SeqMax =>
             /\ \A i \in I : counter < dtc'[i].seq /\ dtc'[i].seq <= counter'
             /\ \A i, j \in I : i < j => dtc'[i].seq < dtc'[j].seq
    PROVE  Ordered'
<1>1. EverFailed' = EverFailed \cup I
  BY DEF EverFailed
<1>2. HasFailed' = HasFailed \cup I
  <2>1. \A i \in Entries : <<i, i>> \in failed' <=> i \in I \/ <<i, i>> \in failed
    BY DEF AfterFailing, Entries
  <2> QED BY <2>1 DEF HasFailed
<1>3. ASSUME counter' < SeqMax, NEW i \in EverFailed', NEW j \in EverFailed'
      PROVE  /\ dtc'[i].seq <= counter'
             /\ <<i, j>> \in failed' <=> dtc'[i].seq <= dtc'[j].seq
             /\ dtc'[i].seq = dtc'[j].seq => i = j
  <2>1. /\ i \in Entries /\ j \in Entries /\ counter \in Nat /\ counter' \in Nat /\ counter < SeqMax
        /\ dtc'[i].seq \in Nat /\ dtc'[j].seq \in Nat /\ i \in Int /\ j \in Int
    BY <1>3, CountAssumption DEF IInv, TypeOK, EntryOK, Entry, EverFailed, Entries
  <2>2. \A x \in EverFailed \ I : dtc'[x].seq = dtc[x].seq /\ dtc[x].seq <= counter
    BY <2>1 DEF Ordered, EverFailed
  <2>3. /\ i \in I \/ i \in EverFailed \ I
        /\ j \in I \/ j \in EverFailed \ I
    BY <1>1
  <2>4. <<i, j>> \in failed' <=> IF j \in I THEN i \in HasFailed \ I \/ (i \in I /\ i <= j)
                                            ELSE i \notin I /\ <<i, j>> \in failed
    BY <2>1 DEF AfterFailing
  <2>5. CASE i \in I /\ j \in I
    BY <1>3, <2>1, <2>4, <2>5
  <2>6. CASE i \in I /\ j \in EverFailed \ I
    BY <1>3, <2>1, <2>2, <2>4, <2>6
  <2>7. CASE i \in EverFailed \ I /\ j \in I
    BY <1>3, <2>1, <2>2, <2>4, <2>7 DEF Ordered
  <2>8. CASE i \in EverFailed \ I /\ j \in EverFailed \ I
    BY <1>3, <2>1, <2>2, <2>4, <2>8 DEF Ordered
  <2> QED BY <2>3, <2>5, <2>6, <2>7, <2>8
<1> QED BY <1>1, <1>2, <1>3 DEF Ordered

(* One pass numbers the entries that fail in it upwards.                   *)
LEMMA NumbersGoUp ==
    ASSUME TypeOK, counter + Cardinality(Promoted) < SeqMax
    PROVE  /\ \A i \in Promoted : counter < Number(i) /\ Number(i) <= counter + Cardinality(Promoted)
           /\ \A i, j \in Promoted : i < j => Number(i) < Number(j)
<1> DEFINE Upto(i) == {j \in Promoted : j <= i}
<1>0. Promoted \subseteq Entries /\ counter \in Nat /\ IsFiniteSet(Promoted)
      /\ Cardinality(Promoted) \in Nat /\ SeqMax \in Nat
  BY EntriesFinite, FS_Subset, FS_CardinalityType, CountAssumption DEF Promoted, TypeOK
<1>1. ASSUME NEW i \in Promoted
      PROVE  /\ IsFiniteSet(Upto(i)) /\ Cardinality(Upto(i)) \in Nat
             /\ 0 < Cardinality(Upto(i)) /\ Cardinality(Upto(i)) <= Cardinality(Promoted)
  <2>1. Upto(i) \subseteq Promoted /\ i \in Upto(i)
    BY <1>0 DEF Entries
  <2> HIDE DEF Upto
  <2>2. IsFiniteSet(Upto(i)) /\ Cardinality(Upto(i)) <= Cardinality(Promoted)
    BY <1>0, <2>1, FS_Subset
  <2>3. Cardinality(Upto(i)) \in Nat /\ Cardinality(Upto(i)) # 0
    BY <2>1, <2>2, FS_CardinalityType, FS_EmptySet
  <2> QED BY <2>2, <2>3
<1>2. ASSUME NEW i \in Promoted
      PROVE  Number(i) = counter + Cardinality(Upto(i))
  BY <1>0, <1>1, <1>2 DEF Number, Least
<1>3. ASSUME NEW i \in Promoted, NEW j \in Promoted, i < j
      PROVE  Cardinality(Upto(i)) < Cardinality(Upto(j))
  <2>1. Upto(i) \subseteq Upto(j) /\ j \in Upto(j) /\ j \notin Upto(i)
    <3>1. i \in Int /\ j \in Int /\ \A x \in Promoted : x \in Int
      BY <1>0 DEF Entries
    <3>2. ASSUME NEW x \in Promoted, x <= i PROVE x <= j
      BY <1>3, <3>1, <3>2
    <3>3. j <= j /\ ~(j <= i)
      BY <1>3, <3>1
    <3> QED BY <3>2, <3>3
  <2>2. IsFiniteSet(Upto(i)) /\ IsFiniteSet(Upto(j)) /\ Cardinality(Upto(i)) \in Nat /\ Cardinality(Upto(j)) \in Nat
    BY <1>1
  <2> HIDE DEF Upto
  <2>3. Cardinality(Upto(i)) <= Cardinality(Upto(j)) /\ Cardinality(Upto(i)) # Cardinality(Upto(j))
    BY <2>1, <2>2, FS_Subset
  <2> QED BY <2>2, <2>3
<1> HIDE DEF Upto
<1> QED BY <1>0, <1>1, <1>2, <1>3

(* What an update does to the number of an entry.                          *)
LEMMA NumberAfterUpdate ==
    ASSUME IInv, Update, NEW i \in Entries
    PROVE  dtc'[i].seq = IF i \in Promoted THEN Number(i) ELSE dtc[i].seq
<1>1. dtc[i] \in Entry
  BY DEF IInv, EntryOK
<1>2. dtc'[i] = IF Condition(sim, i) THEN Fails(i) ELSE Passes(dtc[i])
  BY DEF Update
<1>3. \A d : HoldOn(d).seq = d.seq \/ d \notin Entry
  BY DEF HoldOn, Entry
<1>4. CASE ~Condition(sim, i)
  BY <1>1, <1>2, <1>4 DEF Passes, Entry, Promoted
<1>5. CASE Condition(sim, i)
  <2> DEFINE d == [dtc[i] EXCEPT !.debounce = Up(@)]
  <2>1. d \in Entry /\ d.seq = dtc[i].seq
    BY <1>1, UpIsBounded DEF Entry
  <2>2. CASE i \in Promoted
    <3>1. Promote(d, Number(i)) \in Entry /\ Promote(d, Number(i)).seq = Number(i)
      <4>1. Number(i) \in 0..SeqMax /\ Up(d.occurrence) \in 0..CountMax /\ 0 \in 0..ConfirmHold
        BY <2>1, <2>2, NumberIsPositive, UpIsBounded, CountAssumption DEF IInv, Entry
      <4> HIDE DEF d
      <4> QED BY <2>1, <4>1 DEF Promote, Entry
    <3> QED BY <1>2, <1>3, <1>5, <2>2, <3>1 DEF Fails
  <2>3. CASE i \notin Promoted
    BY <1>2, <1>3, <1>5, <2>1, <2>3 DEF Fails
  <2> QED BY <2>2, <2>3
<1> QED BY <1>4, <1>5

LEMMA OrderedStays == ASSUME IInv, IInv', Ordered, [Next]_vars PROVE Ordered'
<1>0. /\ counter \in 0..SeqMax /\ counter' \in 0..SeqMax /\ SeqMax \in Nat /\ SeqMax # 0
  BY CountAssumption DEF IInv, TypeOK
<1>1. CASE Update
  <2> DEFINE n == Cardinality(Promoted)
  <2>1. Promoted \in SUBSET Entries /\ n \in Nat
    BY EntriesFinite, FS_Subset, FS_CardinalityType DEF Promoted
  <2>2. counter' = Least(counter + n, SeqMax) /\ failed' = AfterFailing(Promoted)
    BY <1>1 DEF Update
  <2>3. \A i \in Entries : dtc'[i].seq = IF i \in Promoted THEN Number(i) ELSE dtc[i].seq
    BY <1>1, NumberAfterUpdate
  <2>4. \A i \in Promoted : Number(i) # 0
    BY NumberIsPositive, <1>0 DEF IInv
  <2>5. counter' >= counter /\ (counter' < SeqMax => counter' = counter + n /\ counter + n < SeqMax)
    BY <1>0, <2>1, <2>2 DEF Least
  <2>6. counter' < SeqMax =>
          /\ \A i \in Promoted : counter < Number(i) /\ Number(i) <= counter'
          /\ \A i, j \in Promoted : i < j => Number(i) < Number(j)
    BY <2>5, NumbersGoUp DEF IInv
  <2> HIDE DEF n
  <2>7. /\ \A i \in Promoted : dtc'[i].seq # 0
        /\ \A i \in Entries \ Promoted : dtc'[i].seq = dtc[i].seq
        /\ counter' < SeqMax =>
             /\ \A i \in Promoted : counter < dtc'[i].seq /\ dtc'[i].seq <= counter'
             /\ \A i, j \in Promoted : i < j => dtc'[i].seq < dtc'[j].seq
    BY <2>1, <2>3, <2>4, <2>6
  <2> QED BY <2>1, <2>2, <2>5, <2>7, FailingIsOrdered
<1>2. CASE InjectDemo
  <2>1. counter' = Least(counter + 1, SeqMax) /\ failed' = AfterFailing({Overtemp})
    BY <1>2 DEF InjectDemo
  <2>2. /\ dtc'[Overtemp].seq = counter' /\ \A i \in Entries \ {Overtemp} : dtc'[i].seq = dtc[i].seq
    BY <1>2 DEF InjectDemo, IInv, TypeOK, Entries, Overtemp
  <2>3. counter' >= counter /\ counter' # 0 /\ (counter' < SeqMax => counter < counter')
    BY <1>0, <2>1 DEF Least
  <2>4. {Overtemp} \in SUBSET Entries
    BY DEF Overtemp, Entries
  <2>5. \A i, j \in {Overtemp} : ~(i < j)
    BY DEF Overtemp
  <2> QED BY <1>0, <2>1, <2>2, <2>3, <2>4, <2>5, FailingIsOrdered
<1>3. CASE Clear
  <2>1. \A i \in Entries : dtc'[i].seq = 0
    BY <1>3 DEF Clear, Clean
  <2>2. EverFailed' = {} /\ HasFailed' = {}
    BY <1>3, <2>1 DEF EverFailed, HasFailed, Clear
  <2> QED BY <2>2 DEF Ordered
<1>4. CASE \/ UpdateSimValues \/ CheckSetting \/ (\E on \in BOOLEAN : SettingControl(on))
           \/ UNCHANGED vars
  <2>1. UNCHANGED <<dtc, counter, failed>>
    BY <1>4 DEF UpdateSimValues, CheckSetting, SettingControl, vars, table, ghosts
  <2> QED BY <2>1 DEF Ordered, EverFailed, HasFailed
<1> QED BY <1>1, <1>2, <1>3, <1>4 DEF Next

(* The reports of the first and of the most recent failure name the entry  *)
(* that did fail first or last, whatever fails in one pass, is injected or *)
(* is cleared in between, until the counter stays at its end.              *)
THEOREM DtcPicksInOrder == Spec => []PicksInOrder
<1>1. Init => Ordered
  <2> SUFFICES ASSUME Init PROVE Ordered
    OBVIOUS
  <2>1. \A i \in Entries : dtc[i].seq = 0
    BY DEF Init, Clean
  <2>2. EverFailed = {} /\ HasFailed = {}
    BY <2>1 DEF EverFailed, HasFailed, Init
  <2> QED BY <2>2 DEF Ordered
<1>2. IInv /\ Ordered => PicksInOrder
  <2> SUFFICES ASSUME IInv, Ordered, NEW w \in Picks, counter < SeqMax,
                      Candidates(w) # {}, NEW i \in Candidates(w)
               PROVE  /\ <<Earliest(Candidates(w)), i>> \in failed
                      /\ <<i, Latest(Candidates(w))>> \in failed
    BY DEF PicksInOrder, Ordered
  <2> DEFINE I == Candidates(w)
  <2>1. I \subseteq EverFailed /\ I \in SUBSET Entries
    BY DEF Candidates, EverFailed
  <2> HIDE DEF I
  <2>2. /\ Earliest(I) \in I /\ dtc[Earliest(I)].seq <= dtc[i].seq
        /\ Latest(I) \in I /\ dtc[i].seq <= dtc[Latest(I)].seq
    BY <2>1, PicksAreExtreme DEF I
  <2>3. <<Earliest(I), i>> \in failed /\ <<i, Latest(I)>> \in failed
    BY <2>1, <2>2 DEF Ordered, I
  <2> QED BY <2>3 DEF I
<1> QED BY <1>1, <1>2, OrderedStays, DtcInvariance, PTL DEF Spec


-----------------------------------------------------------------------------
(* The receiver and the peer                                               *)

PeerOK ==
  /\ peer \in [frame : Frames, pos : Nat]
  /\ peer.pos < Len(peer.frame)
  /\ whole \in BOOLEAN

LineInv == PeerOK /\ InStep

LEMMA LineStarts == Rs485Init => LineInv
<1> SUFFICES ASSUME Rs485Init PROVE LineInv
  OBVIOUS
<1>1. peer.frame \in Frames /\ peer.pos = 0 /\ peer \in [frame : Frames, pos : Nat]
  BY DEF Rs485Init
<1>2. Len(peer.frame) > 0
  BY <1>1, Rs485Assumption
<1>3. SubSeq(peer.frame, 1, 0) = <<>>
  BY SubSeqEmpty
<1> QED BY <1>1, <1>2, <1>3 DEF Rs485Init, LineInv, PeerOK, InStep

\* What has been heard of a frame, with one more byte.
LEMMA OneMoreByte ==
  ASSUME NEW f \in Frames, NEW n \in 1..Len(f)
  PROVE  /\ SubSeq(f, 1, n) = Append(SubSeq(f, 1, n - 1), f[n])
         /\ Len(SubSeq(f, 1, n - 1)) = n - 1
<1>1. f \in Seq(Nat)
  BY Rs485Assumption
<1>2. Len(SubSeq(f, 1, n - 1)) = n - 1 /\ SubSeq(f, 1, n - 1) \in Seq(Nat)
  BY <1>1
<1>3. f[n] \in Nat
  BY <1>1
<1>4. SubSeq(f, 1, n) = SubSeq(f, 1, n - 1) \o <<f[n]>>
  BY <1>1, SubSeqRecursiveSecond
<1> QED BY <1>2, <1>3, <1>4, AppendIsConcat

LEMMA PeerKeepsLine == ASSUME LineInv, NEW heard \in BOOLEAN, PeerSends(heard) PROVE LineInv'
<1> DEFINE f == peer.frame
           n == peer.pos + 1
<1>1. f \in Frames /\ n \in 1..Len(f) /\ f \in Seq(Nat)
  BY Rs485Assumption DEF LineInv, PeerOK
<1>2. IF n = Len(f) THEN peer' \in [frame : Frames, pos : {0}]
      ELSE peer' = [peer EXCEPT !.pos = n]
  BY DEF PeerSends
<1>3. PeerOK'
  <2>1. whole' \in BOOLEAN
    BY DEF PeerSends
  <2>2. CASE n = Len(f)
    <3>1. peer'.frame \in Frames /\ peer'.pos = 0 /\ peer' \in [frame : Frames, pos : Nat]
      BY <1>2, <2>2
    <3>2. Len(peer'.frame) > 0
      BY <3>1, Rs485Assumption
    <3> QED BY <2>1, <3>1, <3>2 DEF PeerOK
  <2>3. CASE n # Len(f)
    BY <1>1, <1>2, <2>1, <2>3 DEF LineInv, PeerOK
  <2> QED BY <2>2, <2>3
<1>4. CASE peer'.pos = 0 /\ buf' = <<>>
  <2>1. SubSeq(peer'.frame, 1, 0) = <<>>
    BY SubSeqEmpty
  <2> QED BY <1>3, <1>4, <2>1 DEF LineInv, InStep
<1>5. CASE whole /\ heard
  <2> DEFINE s == SubSeq(f, 1, n)
  <2>1. buf = SubSeq(f, 1, n - 1)
    BY <1>5 DEF LineInv, PeerOK, InStep
  <2>2. Len(buf) = n - 1 /\ s = Append(buf, f[n])
    BY <1>1, <2>1, OneMoreByte
  <2>3. Len(f) = 3 + f[3] /\ f[3] \in 0..MaxDlc /\ MaxDlc \in Nat
    BY <1>1, Rs485Assumption
  <2> HIDE DEF f, n
  <2>4. Stored(f[n]) = s
    <3>1. Len(buf) < 3 + MaxDlc
      BY <1>1, <2>2, <2>3
    <3> QED BY <2>2, <3>1 DEF Stored
  <2>5. buf' = IF Complete(s) \/ Dropped(s) THEN <<>> ELSE s
    BY <1>5, <2>4 DEF PeerSends, RxCplt, f, n
  <2>6. Len(s) = n /\ (n >= 3 => s[3] = f[3])
    BY <1>1
  <2>7. CASE n = Len(f)
    <3>1. Complete(s)
      BY <2>3, <2>6, <2>7 DEF Complete
    <3>2. peer'.pos = 0
      BY <1>2, <2>7
    <3>3. buf' = <<>>
      BY <2>5, <3>1
    <3> QED BY <1>4, <3>2, <3>3
  <2>8. CASE n # Len(f)
    <3> HIDE DEF s
    <3>1. n < Len(f)
      BY <1>1, <2>8
    <3>2. Len(s) < 3 \/ (s[3] <= MaxDlc /\ Len(s) < 3 + s[3])
      BY <1>1, <2>3, <2>6, <3>1
    <3>3. ~Complete(s) /\ ~Dropped(s)
      BY <2>3, <2>6, <3>2 DEF Complete, Dropped
    <3>4. peer'.frame = f /\ peer'.pos = n
      BY <1>2, <2>8 DEF LineInv, PeerOK, f, n
    <3> QED BY <1>3, <2>5, <3>3, <3>4 DEF LineInv, InStep, s
  <2> QED BY <2>7, <2>8
<1>6. CASE ~whole'
  BY <1>3, <1>6 DEF LineInv, InStep
<1> QED BY <1>4, <1>5, <1>6 DEF PeerSends

LEMMA RestartKeepsLine == ASSUME LineInv, Rs485Restart PROVE LineInv'
<1>1. SubSeq(peer.frame, 1, 0) = <<>>
  BY SubSeqEmpty
<1> QED BY <1>1 DEF LineInv, PeerOK, InStep, Rs485Restart

LEMMA QuietKeepsLine == ASSUME LineInv, UNCHANGED <<buf, peer, whole>> PROVE LineInv'
BY DEF LineInv, PeerOK, InStep

\* No task but vRS485Task, which only takes from the queue, changes what the
\* receiver keeps.
LEMMA TasksKeepLine == ASSUME NEW t \in Task, Step(t) \/ Wake(t) \/ Stall(t)
                       PROVE  UNCHANGED <<buf, peer, whole>>
<1>1. ASSUME Common(t) PROVE UNCHANGED <<buf, peer, whole>>
  BY <1>1 DEF Common, TakeMutex, WaitForMutex, WaitMasked, GiveMutex, Load, Store, rs485
<1>2. ASSUME MainStep PROVE UNCHANGED <<buf, peer, whole>>
  BY <1>2 DEF MainStep, IsoTpTick, IsoTpTickEnds, Led, Refresh, NoRefresh, ClearFlags, ErrorPassive,
              Restart, BusOffSeen, StopChip, StartChip, Sleep, rs485
<1>3. ASSUME CanStep PROVE UNCHANGED <<buf, peer, whole>>
  BY <1>3 DEF CanStep, CanReceive, CanUnmask, Transmitted, rs485
<1>4. ASSUME RsReceive PROVE UNCHANGED <<buf, peer, whole>>
  BY <1>4 DEF RsReceive
<1>5. ASSUME Wake(t) \/ Stall(t) PROVE UNCHANGED <<buf, peer, whole>>
  BY <1>5 DEF Wake, Stall, rs485
<1> QED BY <1>1, <1>2, <1>3, <1>4, <1>5 DEF Step

(* rs485.c, HAL_UART_RxCpltCallback: as long as no byte was missed, the    *)
(* receiver has of a frame what the peer has sent of it.                   *)
THEOREM LineInStep == BoardSpec => []InStep
<1>1. BoardInit => LineInv
  BY LineStarts DEF BoardInit
<1>2. LineInv /\ [BoardNext]_board => LineInv'
  <2> SUFFICES ASSUME LineInv, [BoardNext]_board PROVE LineInv'
    OBVIOUS
  <2>1. ASSUME NEW t \in Task, Step(t) \/ Wake(t) \/ Stall(t) PROVE LineInv'
    BY <2>1, TasksKeepLine, QuietKeepsLine
  <2>2. CASE CanFrame \/ BusOff \/ ErrorCallback \/ UartError \/ Elapse
    BY <2>2, QuietKeepsLine DEF CanFrame, BusOff, ErrorCallback, UartError, Elapse, rs485
  <2>3. CASE PeerByte
    BY <2>3, PeerKeepsLine DEF PeerByte
  <2>4. CASE Bite
    BY <2>4, RestartKeepsLine DEF Bite
  <2>5. CASE UNCHANGED board
    BY <2>5, QuietKeepsLine DEF board, rs485
  <2> QED BY <2>1, <2>2, <2>3, <2>4, <2>5 DEF BoardNext
<1>3. LineInv => InStep
  BY DEF LineInv
<1> QED BY <1>1, <1>2, <1>3, PTL DEF BoardSpec

-----------------------------------------------------------------------------
(* The tasks and the flags                                                 *)

InPrint == {"print", "sending", "blocked"}
MainPlaces == InPrint \cup {"tick", "tickend", "led", "load", "store", "test", "clear",
  "recover", "restart", "busoff", "stop", "start", "sleep", "safe", "delay", "stalled"}
CanPlaces == InPrint \cup {"load", "store", "wait", "transmit", "unmask", "stalled"}
RsPlaces == InPrint \cup {"load", "store", "wait", "stalled"}

TasksOK ==
  /\ pc \in [Task -> MainPlaces \cup CanPlaces \cup RsPlaces]
  /\ pc[Main] \in MainPlaces /\ pc[Can] \in CanPlaces /\ pc[Rs] \in RsPlaces
  /\ back \in [Task -> MainPlaces \cup CanPlaces \cup RsPlaces]
  /\ back[Main] \in {"load", "tickend", "restart", "stop", "sleep", "safe"}
  /\ back[Can] \in {"load", "unmask", "transmit"} /\ back[Rs] = "load"
  /\ reg \in [Task -> SUBSET Task] /\ alive \in SUBSET Task
  /\ passed \in BOOLEAN

\* Who masks interrupts is between the two ends of its critical section.
Masked(t, end) == (pc[t] \in {"print", "sending"} /\ back[t] = end) \/ pc[t] = end
MaskOK ==
  /\ mask \in {None, Main, Can}
  /\ mask = Main => Masked(Main, "tickend")
  /\ mask = Can => Masked(Can, "unmask")

\* The CAN task has the highest priority: nobody comes between its load of
\* the flags and its store.
CanIsAtomic == pc[Can] = "store" => mask = None /\ reg[Can] = alive

\* Until the RS-485 task comes by, its bit is neither in the flags nor in
\* what the main task has loaded of them, but for the step from the refresh
\* to the clear.
BitIsFresh == ~passed =>
  /\ pc[Main] # "clear" => Rs \notin alive
  /\ pc[Main] = "store" => Rs \notin reg[Main]

FlagsInv == TasksOK /\ MaskOK /\ CanIsAtomic /\ BitIsFresh

LEMMA FlagsStart == TasksInit => FlagsInv
BY TasksAssumption DEF TasksInit, FlagsInv, TasksOK, MaskOK, CanIsAtomic, BitIsFresh, Fresh,
   MainPlaces, CanPlaces, RsPlaces, Task

LEMMA OthersWaitForCan ==
  ASSUME FlagsInv, NEW t \in Task, t # Can, Runs(t)
  PROVE  pc[Can] # "store"
<1> SUFFICES ASSUME pc[Can] = "store" PROVE FALSE
  OBVIOUS
<1>1. mask = None
  BY DEF FlagsInv, CanIsAtomic
<1>2. Waits(Can) \/ Priority(Can) <= Priority(t)
  BY <1>1 DEF Runs, Task
<1>3. ~Waits(Can)
  BY DEF Waits
<1>4. Priority(Can) = 3 /\ Priority(t) = 2
  BY DEF Priority, BasePriority
<1> QED BY <1>2, <1>3, <1>4

LEMMA UnmaskedIsNobody ==
  ASSUME FlagsInv, NEW t \in Task, Runs(t), mask # None
  PROVE  mask = t
BY DEF Runs

LEMMA CommonKeepsFlags == ASSUME FlagsInv, NEW t \in Task, Common(t) PROVE FlagsInv'
<1> USE TasksAssumption DEF FlagsInv, TasksOK, MaskOK, Masked, CanIsAtomic, BitIsFresh, Runs, At, Goto, Prints,
      MainPlaces, CanPlaces, RsPlaces, InPrint, Task
<1>1. CASE TakeMutex(t)
  BY <1>1, OthersWaitForCan DEF TakeMutex
<1>2. CASE WaitForMutex(t)
  BY <1>2, OthersWaitForCan DEF WaitForMutex
<1>3. CASE WaitMasked(t)
  BY <1>3, OthersWaitForCan DEF WaitMasked
<1>4. CASE GiveMutex(t)
  BY <1>4, OthersWaitForCan DEF GiveMutex, Blocked, First
<1>5. CASE Load(t)
  BY <1>5, OthersWaitForCan DEF Load
<1>6. CASE Store(t)
  <2>1. CASE t = Main
    BY <1>6, <2>1, OthersWaitForCan DEF Store
  <2>2. CASE t = Can
    <3>1. TasksOK' /\ MaskOK' /\ CanIsAtomic'
      BY <1>6, <2>2 DEF Store
    <3>2. BitIsFresh'
      BY <1>6, <2>2 DEF Store
    <3> QED BY <3>1, <3>2
  <2>3. CASE t = Rs
    <3>1. TasksOK' /\ MaskOK'
      BY <1>6, <2>3 DEF Store
    <3>2. CanIsAtomic'
      BY <1>6, <2>3, OthersWaitForCan DEF Store
    <3>3. BitIsFresh'
      BY <1>6, <2>3 DEF Store
    <3> QED BY <3>1, <3>2, <3>3
  <2> QED BY <2>1, <2>2, <2>3
<1> QED BY <1>1, <1>2, <1>3, <1>4, <1>5, <1>6 DEF Common

LEMMA MainKeepsFlags == ASSUME FlagsInv, MainStep PROVE FlagsInv'
<1> USE TasksAssumption DEF FlagsInv, TasksOK, MaskOK, Masked, CanIsAtomic, BitIsFresh, Runs, At, Goto, Prints,
      MainPlaces, CanPlaces, RsPlaces, InPrint, Task
<1>1. CASE IsoTpTick
  BY <1>1, OthersWaitForCan DEF IsoTpTick
<1>2. CASE IsoTpTickEnds
  BY <1>2, OthersWaitForCan DEF IsoTpTickEnds
<1>3. CASE Led
  BY <1>3, OthersWaitForCan DEF Led
<1>4. CASE Refresh
  BY <1>4, OthersWaitForCan DEF Refresh
<1>5. CASE NoRefresh
  BY <1>5, OthersWaitForCan DEF NoRefresh
<1>6. CASE ClearFlags
  BY <1>6, OthersWaitForCan DEF ClearFlags
<1>7. CASE ErrorPassive
  BY <1>7, OthersWaitForCan DEF ErrorPassive
<1>8. CASE Restart
  BY <1>8, OthersWaitForCan DEF Restart
<1>9. CASE BusOffSeen
  BY <1>9, OthersWaitForCan DEF BusOffSeen
<1>10. CASE StopChip
  BY <1>10, OthersWaitForCan DEF StopChip
<1>11. CASE StartChip
  BY <1>11, OthersWaitForCan DEF StartChip
<1>12. CASE Sleep
  BY <1>12, OthersWaitForCan DEF Sleep
<1> QED BY <1>1, <1>2, <1>3, <1>4, <1>5, <1>6, <1>7, <1>8, <1>9, <1>10, <1>11, <1>12 DEF MainStep

LEMMA CanKeepsFlags == ASSUME FlagsInv, CanStep PROVE FlagsInv'
<1> USE TasksAssumption DEF FlagsInv, TasksOK, MaskOK, Masked, CanIsAtomic, BitIsFresh, Runs, At, Goto, Prints,
      MainPlaces, CanPlaces, RsPlaces, InPrint, Task
<1>1. CASE CanReceive
  BY <1>1, OthersWaitForCan DEF CanReceive
<1>2. CASE CanUnmask
  BY <1>2, OthersWaitForCan DEF CanUnmask
<1>3. CASE Transmitted
  BY <1>3, OthersWaitForCan DEF Transmitted
<1> QED BY <1>1, <1>2, <1>3 DEF CanStep

LEMMA RsKeepsFlags == ASSUME FlagsInv, RsReceive PROVE FlagsInv'
<1> USE TasksAssumption DEF FlagsInv, TasksOK, MaskOK, Masked, CanIsAtomic, BitIsFresh, Runs, At, Goto, Prints,
      MainPlaces, CanPlaces, RsPlaces, InPrint, Task
<1> QED BY OthersWaitForCan DEF RsReceive

LEMMA WaitingKeepsFlags == ASSUME FlagsInv, NEW t \in Task, Wake(t) \/ Stall(t) PROVE FlagsInv'
<1> USE TasksAssumption DEF FlagsInv, TasksOK, MaskOK, Masked, CanIsAtomic, BitIsFresh, Runs, At, Goto, Prints,
      MainPlaces, CanPlaces, RsPlaces, InPrint, Task
<1>1. CASE Wake(t)
  BY <1>1, OthersWaitForCan DEF Wake
<1>2. CASE Stall(t)
  BY <1>2, OthersWaitForCan DEF Stall
<1> QED BY <1>1, <1>2

LEMMA BiteKeepsFlags == ASSUME Bite PROVE FlagsInv'
BY TasksAssumption DEF Bite, FlagsInv, TasksOK, MaskOK, CanIsAtomic, BitIsFresh, Fresh,
   MainPlaces, CanPlaces, RsPlaces, Task

LEMMA FlagsUntouched ==
  ASSUME FlagsInv, UNCHANGED <<pc, back, mask, alive, reg, passed>>
  PROVE  FlagsInv'
BY DEF FlagsInv, TasksOK, MaskOK, Masked, CanIsAtomic, BitIsFresh

LEMMA FlagsHold == BoardSpec => []FlagsInv
<1>1. BoardInit => FlagsInv
  BY FlagsStart DEF BoardInit
<1>2. FlagsInv /\ [BoardNext]_board => FlagsInv'
  <2> SUFFICES ASSUME FlagsInv, [BoardNext]_board PROVE FlagsInv'
    OBVIOUS
  <2>1. ASSUME NEW t \in Task, Step(t) PROVE FlagsInv'
    BY <2>1, CommonKeepsFlags, MainKeepsFlags, CanKeepsFlags, RsKeepsFlags DEF Step
  <2>2. ASSUME NEW t \in Task, Wake(t) \/ Stall(t) PROVE FlagsInv'
    BY <2>2, WaitingKeepsFlags
  <2>3. CASE CanFrame \/ BusOff \/ ErrorCallback \/ UartError \/ PeerByte \/ Elapse
    BY <2>3, FlagsUntouched DEF CanFrame, BusOff, ErrorCallback, UartError, PeerByte, Elapse, own
  <2>4. CASE Bite
    BY <2>4, BiteKeepsFlags
  <2>5. CASE UNCHANGED board
    BY <2>5, FlagsUntouched DEF board, own
  <2> QED BY <2>1, <2>2, <2>3, <2>4, <2>5 DEF BoardNext
<1> QED BY <1>1, <1>2, PTL DEF BoardSpec

\* The only way from the test of the flags to the clear.
LEMMA RefreshedByRefresh ==
  ASSUME TasksOK, [BoardNext]_board, Refreshed
  PROVE  Refresh
<1> USE TasksAssumption DEF TasksOK, Refreshed, At, Goto, Prints, MainPlaces, CanPlaces, RsPlaces, InPrint, Task
<1>1. ASSUME NEW t \in Task, Common(t) PROVE FALSE
  BY <1>1 DEF Common, TakeMutex, WaitForMutex, WaitMasked, GiveMutex, Load, Store, Blocked, First
<1>2. ASSUME MainStep PROVE Refresh
  BY <1>2 DEF MainStep, IsoTpTick, IsoTpTickEnds, Led, NoRefresh, ClearFlags, ErrorPassive,
              Restart, BusOffSeen, StopChip, StartChip, Sleep
<1>3. ASSUME CanStep \/ RsReceive PROVE FALSE
  BY <1>3 DEF CanStep, CanReceive, CanUnmask, Transmitted, RsReceive
<1>4. ASSUME NEW t \in Task, Wake(t) \/ Stall(t) PROVE FALSE
  BY <1>4 DEF Wake, Stall
<1>5. CASE CanFrame \/ BusOff \/ ErrorCallback \/ UartError \/ PeerByte \/ Elapse \/ UNCHANGED board
  BY <1>5 DEF CanFrame, BusOff, ErrorCallback, UartError, PeerByte, Elapse, own, board
<1>6. CASE Bite
  BY <1>6 DEF Bite, Fresh
<1> QED BY <1>1, <1>2, <1>3, <1>4, <1>5, <1>6 DEF BoardNext, Step

(* main.c, vMainTask: the watchdog is refreshed only when the main task    *)
(* and the RS-485 task have both passed the head of their loops since the  *)
(* refresh before.                                                         *)
THEOREM RefreshIsEarned == BoardSpec => RefreshVouches
<1>1. FlagsInv /\ [BoardNext]_board => [Refreshed => passed]_board
  <2> SUFFICES ASSUME FlagsInv, [BoardNext]_board, Refreshed PROVE passed
    OBVIOUS
  <2>1. pc[Main] = "test" /\ alive = Task
    BY RefreshedByRefresh DEF FlagsInv, Refresh, At
  <2>2. Rs \in alive
    BY <2>1 DEF Task
  <2> QED BY <2>1, <2>2 DEF FlagsInv, BitIsFresh
<1> QED BY <1>1, FlagsHold, PTL DEF BoardSpec, RefreshVouches

=============================================================================
