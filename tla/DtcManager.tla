----------------------------- MODULE DtcManager -----------------------------
(***************************************************************************)
(* The simulated engine and the fault manager that watches it,             *)
(* Src/obd2_simulator.c.  vMainTask moves the simulation and then updates  *)
(* the table, one pass every 10 ms; vCanRxTask clears the table, injects   *)
(* the demo fault and switches the DTC setting, between any two steps of   *)
(* the main task.  The update is a critical section, but the setting is    *)
(* read before it.                                                         *)
(*                                                                         *)
(* A gauge counts in steps of its ramp from its minimum, which is 0.  Of a *)
(* freeze frame only that there is one is kept: its contents are a copy of *)
(* the gauges that nothing reads but 0x19.                                 *)
(*                                                                         *)
(* Ghosts: failed, the order in which entries last failed since the clear, *)
(* as the pairs whose first did not fail after its second; touched,        *)
(* whether the tester has ever switched the setting off or injected the    *)
(* fault since the last boot; late, the updates made since the setting was *)
(* switched off; cleared, whether the table was cleared since then and the *)
(* fault not injected after that.                                          *)
(***************************************************************************)
EXTENDS Integers, FiniteSets

CONSTANTS
    TempMax, SpeedMax, RpmMax,      \* the ramps, in their steps
    RpmHigh,                        \* 2500 rpm, in steps of its ramp
    Thresh,         \* OBD2_DTC_DEBOUNCE_THRESH
    ConfirmHold,    \* OBD2_DTC_CONFIRM_HOLD
    CountMax,       \* 0xFF, where debounce, hold and occurrence stay
    SeqMax          \* 0xFFFF, where s_fail_seq_counter stays

ASSUME RampAssumption ==
    /\ TempMax \in Nat /\ TempMax > 1 /\ SpeedMax \in Nat /\ SpeedMax > 1
    /\ RpmMax \in Nat /\ RpmMax > 1 /\ RpmHigh \in 0..RpmMax
ASSUME CountAssumption ==
    /\ Thresh \in Nat \ {0, 1} /\ ConfirmHold \in Nat \ {0}
    /\ CountMax \in Nat /\ CountMax >= Thresh /\ CountMax >= ConfirmHold
    /\ SeqMax \in Nat \ {0}

VARIABLES
    phase,      \* vMainTask: "sim", "check" or "update"
    sim,        \* g_sim_state
    dtc,        \* g_dtc_table
    mirror,     \* g_dtc_mirror
    counter,    \* s_fail_seq_counter
    settingOn,  \* s_dtc_setting_on
    failed, touched, late, cleared

table  == <<dtc, mirror, counter>>
ghosts == <<failed, touched, late, cleared>>
vars   == <<phase, sim, table, settingOn, ghosts>>

Overtemp   == 1     \* places in g_dtc_table
Vss        == 2
Thermostat == 3
Entries    == 1..3

NoCode     == 0     \* of an empty place in the mirror

Least(a, b) == IF a < b THEN a ELSE b

Clean == [state |-> "INACTIVE", debounce |-> 0, hold |-> 0, seq |-> 0, occurrence |-> 0,
          permanent |-> FALSE, frame |-> FALSE]

Gauges == [temp |-> TempMax, speed |-> SpeedMax, rpm |-> RpmMax]

Init ==
    /\ phase = "sim"
    /\ sim = [g \in DOMAIN Gauges |-> [at |-> 0, up |-> TRUE]]
    /\ dtc = [i \in Entries |-> Clean]
    /\ mirror = [i \in Entries |-> [code |-> NoCode, status |-> {}, occurrence |-> 0]]
    /\ counter = 0 /\ settingOn = TRUE
    /\ failed = {} /\ touched = FALSE /\ late = 0 /\ cleared = FALSE

-----------------------------------------------------------------------------
(* Fault: a ramp turns one step late and so stays at its ends.             *)
RampDwells(g, max) ==
    IF g.up THEN [at |-> Least(g.at + 1, max), up |-> g.at < max]
            ELSE [at |-> IF g.at > 0 THEN g.at - 1 ELSE 0, up |-> g.at = 0]

Ramp(g, max) ==
    IF g.up THEN [at |-> Least(g.at + 1, max), up |-> g.at + 1 < max]
            ELSE [at |-> IF g.at > 0 THEN g.at - 1 ELSE 0, up |-> g.at <= 1]

Condition(s, i) ==
    CASE i = Overtemp   -> s.temp.at >= TempMax
      [] i = Vss        -> s.speed.at = 0 /\ s.rpm.at > RpmHigh
      [] i = Thermostat -> s.temp.at <= 0

UpdateSimValues ==
    /\ phase = "sim" /\ phase' = "check"
    /\ sim' = [g \in DOMAIN Gauges |-> Ramp(sim[g], Gauges[g])]
    /\ UNCHANGED <<table, settingOn, ghosts>>

(* Fault: the setting is not looked at.                                    *)
CheckNothing ==
    /\ phase = "check" /\ phase' = "update"
    /\ UNCHANGED <<sim, table, settingOn, ghosts>>

CheckSetting ==
    /\ phase = "check"
    /\ phase' = IF settingOn THEN "update" ELSE "sim"
    /\ UNCHANGED <<sim, table, settingOn, ghosts>>

-----------------------------------------------------------------------------
(* The update.  Entries that fail in one pass are numbered in table order. *)

Up(n) == Least(n + 1, CountMax)

(* Fault: the threshold is passed, not reached.                            *)
PromotedLate == {i \in Entries : /\ Condition(sim, i) /\ dtc[i].state = "INACTIVE"
                                 /\ Up(dtc[i].debounce) > Thresh}
Promoted == {i \in Entries : /\ Condition(sim, i) /\ dtc[i].state = "INACTIVE"
                             /\ Up(dtc[i].debounce) >= Thresh}

Number(i) == Least(counter + Cardinality({j \in Promoted : j <= i}), SeqMax)

Promote(d, n) ==
    [d EXCEPT !.state = "PENDING", !.hold = 0, !.seq = n, !.occurrence = Up(@), !.frame = TRUE]

HoldOn(d) ==
    IF d.state # "PENDING" THEN d
    ELSE IF Up(d.hold) >= ConfirmHold
    THEN [d EXCEPT !.hold = Up(@), !.state = "CONFIRMED", !.permanent = TRUE]
    ELSE [d EXCEPT !.hold = Up(@)]

Fails(i) ==
    LET d == [dtc[i] EXCEPT !.debounce = Up(@)]
    IN  HoldOn(IF i \in Promoted THEN Promote(d, Number(i)) ELSE d)

(* Fault: a pass does not restart the count of detections.                 *)
PassesKeeping(d) ==
    IF d.state = "PENDING" THEN [d EXCEPT !.state = "INACTIVE", !.hold = 0] ELSE d

Passes(d) ==
    IF d.state = "PENDING" THEN [d EXCEPT !.state = "INACTIVE", !.hold = 0, !.debounce = 0]
                           ELSE [d EXCEPT !.debounce = 0]

\* The entries of I fail, in the order of the table.
HasFailed == {i \in Entries : <<i, i>> \in failed}
AfterFailing(I) ==
    {p \in Entries \X Entries :
       IF p[2] \in I THEN p[1] \in HasFailed \ I \/ (p[1] \in I /\ p[1] <= p[2])
                     ELSE p[1] \notin I /\ p \in failed}

Update ==
    /\ phase = "update" /\ phase' = "sim"
    /\ dtc' = [i \in Entries |-> IF Condition(sim, i) THEN Fails(i) ELSE Passes(dtc[i])]
    /\ counter' = Least(counter + Cardinality(Promoted), SeqMax)
    /\ failed' = AfterFailing(Promoted)
    /\ late' = IF settingOn THEN 0 ELSE late + 1
    /\ UNCHANGED <<sim, mirror, settingOn, touched, cleared>>

-----------------------------------------------------------------------------
(* Reading the table *)

(* Fault detection counter, in quarters of the threshold's steps.          *)
Failed == 127
Fdc(d) ==
    IF d.state # "INACTIVE" THEN Failed
    ELSE IF d.debounce < Thresh THEN d.debounce ELSE 0

(* Of two with the same number the one that comes first in the table.      *)
Earliest(I) == CHOOSE i \in I : \A j \in I : /\ dtc[i].seq <= dtc[j].seq
                                             /\ dtc[i].seq = dtc[j].seq => i <= j
Latest(I)   == CHOOSE i \in I : \A j \in I : /\ dtc[i].seq >= dtc[j].seq
                                             /\ dtc[i].seq = dtc[j].seq => i <= j

EverFailed == {i \in Entries : dtc[i].seq # 0}

-----------------------------------------------------------------------------
(* Requests *)

(* Fault: the sequence counter is not advanced by the injection.           *)
InjectDemoUncounted ==
    /\ counter' = counter
    /\ dtc' = [dtc EXCEPT ![Overtemp] =
                 [state |-> "CONFIRMED", debounce |-> 1, hold |-> 0, seq |-> Least(counter + 1, SeqMax),
                  occurrence |-> 1, permanent |-> TRUE, frame |-> TRUE]]
    /\ failed' = AfterFailing({Overtemp})
    /\ touched' = TRUE /\ cleared' = FALSE
    /\ UNCHANGED <<phase, sim, mirror, settingOn, late>>

InjectDemo ==
    /\ counter' = Least(counter + 1, SeqMax)
    /\ dtc' = [dtc EXCEPT ![Overtemp] =
                 [state |-> "CONFIRMED", debounce |-> 1, hold |-> 0, seq |-> counter',
                  occurrence |-> 1, permanent |-> TRUE, frame |-> TRUE]]
    /\ failed' = AfterFailing({Overtemp})
    /\ touched' = TRUE /\ cleared' = FALSE
    /\ UNCHANGED <<phase, sim, mirror, settingOn, late>>

(* The status byte as the set of its bits; availability 0xFF leaves all.   *)
StatusByte(d) ==
    (IF d.debounce > 0 THEN {"testFailed"} ELSE {})
    \cup (IF d.seq # 0 THEN {"failedThisCycle", "pending", "failedSinceClear"} ELSE {})
    \cup (IF d.state = "CONFIRMED" THEN {"confirmed", "warning"} ELSE {})

(* What is archived of an entry; an empty place keeps the rest of the last *)
(* archive.                                                                *)
Archive(i) ==
    IF dtc[i].state = "CONFIRMED"
    THEN [code |-> i, status |-> StatusByte(dtc[i]), occurrence |-> dtc[i].occurrence]
    ELSE [mirror[i] EXCEPT !.code = NoCode]

Clear ==
    /\ mirror' = [i \in Entries |-> Archive(i)]
    /\ dtc' = [i \in Entries |-> Clean]
    /\ counter' = 0
    /\ failed' = {} /\ cleared' = ~settingOn
    /\ UNCHANGED <<phase, sim, settingOn, touched, late>>

SettingControl(on) ==
    /\ settingOn' = on
    /\ touched' = (touched \/ ~on)
    /\ late' = IF on THEN 0 ELSE late
    /\ cleared' = (cleared /\ ~on)
    /\ UNCHANGED <<phase, sim, table, failed>>

Next ==
    \/ UpdateSimValues \/ CheckSetting \/ Update
    \/ InjectDemo \/ Clear \/ \E on \in BOOLEAN : SettingControl(on)

Spec == Init /\ [][Next]_vars
=============================================================================
