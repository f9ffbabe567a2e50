----------------------------- MODULE UdsServer -----------------------------
(***************************************************************************)
(* Session and security of the application (Src/diag_session.c) under the  *)
(* requests of Src/uds_service.c that change them, and what rides on the   *)
(* session: the DTC setting (0x85), periodic transmission (0x2A), the      *)
(* reset and the hand-off to the bootloader.                               *)
(*                                                                         *)
(* vCanRxTask serves a request in one step: it outranks vMainTask and does *)
(* not give way to it inside a handler.  vMainTask runs S3 and the reset   *)
(* in as many steps as it has points where a request can come in between;  *)
(* pc is its place in the loop.  Time is kept as ages, counted while the   *)
(* code looks at them: idle since last_activity_tick, bootAge since        *)
(* s_boot_tick, lockAge since s_lockout_start, lag since the main task     *)
(* read the clock it will compare with.                                    *)
(*                                                                         *)
(* The seed and the key are abstract: a key is right or wrong for the last *)
(* seed.  Functional requests that are suppressed change nothing and are   *)
(* not modelled.                                                           *)
(***************************************************************************)
EXTENDS Integers

CONSTANTS
    S3,             \* DIAG_S3_TIMEOUT_MS
    BootDelay,      \* DIAG_BOOT_DELAY_MS
    Lockout,        \* DIAG_LOCKOUT_TIME_MS
    MaxFail,        \* DIAG_MAX_FAIL_ATTEMPTS
    MaxLag          \* bound: ticks the main task is held up before it compares

ASSUME TimeAssumption ==
    /\ S3 \in Nat \ {0} /\ BootDelay \in Nat /\ Lockout \in Nat \ {0}
    /\ MaxFail \in Nat \ {0} /\ MaxLag \in Nat

VARIABLES
    pc,             \* vMainTask: see PC
    lag,            \* since it read the clock, or NotRead
    session, unlocked, fresh,       \* s_session
    fails,                          \* s_fail_count
    idle, bootAge, lockAge,
    dtcOn,          \* s_dtc_setting_on
    periodic,       \* some s_periodic[].divider is not 0
    reset,          \* g_soft_reset_requested
    handoff,        \* the RAM flag the bootloader reads
    gone,           \* the tester has been unplugged, for good
    wrong           \* wrong[n]: ticks since the n-th last wrong key, up to Lockout;
                    \* a right key or a reset begins anew

ram     == <<session, unlocked, fresh, fails, dtcOn, periodic, reset>>
ages    == <<idle, bootAge, lockAge>>
vars    == <<pc, lag, ram, ages, handoff, gone, wrong>>

Session == {"DEFAULT", "PROGRAMMING", "EXTENDED"}
PC      == {"boot", "loop", "check", "compare", "store", "lock", "dtc", "stop", "poll", "delay",
            "bootloader"}
NotRead == -1
Serving == pc \notin {"boot", "bootloader"}

(* The keys found wrong, the latest first: one more than may be.            *)
Latest    == 1..(MaxFail + 1)
NoneWrong == [n \in Latest |-> Lockout]
WrongAgain == [n \in Latest |-> IF n = 1 THEN 0 ELSE wrong[n - 1]]
Least(a, b) == IF a < b THEN a ELSE b

FreshRam ==
    /\ session' = "DEFAULT" /\ unlocked' = FALSE /\ fresh' = FALSE /\ fails' = 0
    /\ dtcOn' = TRUE /\ periodic' = FALSE /\ reset' = FALSE
    /\ idle' = 0 /\ bootAge' = 0 /\ lockAge' = 0
    /\ lag' = NotRead
    /\ wrong' = NoneWrong

Init ==
    /\ pc = "boot" /\ lag = NotRead
    /\ session = "DEFAULT" /\ unlocked = FALSE /\ fresh = FALSE /\ fails = 0
    /\ idle = 0 /\ bootAge = 0 /\ lockAge = 0
    /\ dtcOn = TRUE /\ periodic = FALSE /\ reset = FALSE
    /\ handoff = FALSE /\ gone = FALSE
    /\ wrong = NoneWrong

-----------------------------------------------------------------------------
(* Requests.  Every one that is not suppressed restarts S3 first.          *)

Request == Serving /\ ~gone /\ idle' = 0
MainUntouched == UNCHANGED <<pc, lag, gone>>

(* Fault: the return to DEFAULT forgets the DTC setting.                  *)
SessionControlForgets(s) ==
    /\ Request
    /\ session' = s
    /\ unlocked' = (unlocked /\ s # "DEFAULT") /\ periodic' = (periodic /\ s # "DEFAULT")
    /\ handoff' = (handoff \/ s = "PROGRAMMING") /\ reset' = (reset \/ s = "PROGRAMMING")
    /\ MainUntouched
    /\ UNCHANGED <<fresh, fails, bootAge, lockAge, dtcOn, wrong>>

(* Fault: the hand-off does not ask for the reset.                        *)
SessionControlStays(s) ==
    /\ Request
    /\ session' = s
    /\ unlocked' = (unlocked /\ s # "DEFAULT") /\ periodic' = (periodic /\ s # "DEFAULT")
    /\ dtcOn' = (dtcOn \/ s = "DEFAULT")
    /\ handoff' = (handoff \/ s = "PROGRAMMING")
    /\ MainUntouched
    /\ UNCHANGED <<fresh, fails, bootAge, lockAge, reset, wrong>>

SessionControl(s) ==
    /\ Request
    /\ session' = s
    /\ \/ /\ s = "DEFAULT"
          /\ unlocked' = FALSE /\ dtcOn' = TRUE /\ periodic' = FALSE
          /\ UNCHANGED <<reset, handoff>>
       \/ /\ s = "EXTENDED"
          /\ UNCHANGED <<unlocked, dtcOn, periodic, reset, handoff>>
       \/ /\ s = "PROGRAMMING"
          /\ handoff' = TRUE /\ reset' = TRUE
          /\ UNCHANGED <<unlocked, dtcOn, periodic>>
    /\ MainUntouched
    /\ UNCHANGED <<fresh, fails, bootAge, lockAge, wrong>>

EcuReset ==
    /\ Request
    /\ reset' = TRUE
    /\ MainUntouched
    /\ UNCHANGED <<session, unlocked, fresh, fails, bootAge, lockAge, dtcOn, periodic,
                   handoff, wrong>>

(* DiagSession_CheckSecurityGate: the delay after boot, then the lockout,  *)
(* whose end clears the count.                                             *)
GateDelay  == bootAge < BootDelay
GateLocked == ~GateDelay /\ fails >= MaxFail /\ lockAge < Lockout
GateFails  == IF ~GateDelay /\ fails >= MaxFail /\ lockAge >= Lockout THEN 0 ELSE fails

RequestSeed ==
    /\ Request
    /\ fails' = GateFails
    /\ fresh' = (fresh \/ ~(GateDelay \/ GateLocked))
    /\ MainUntouched
    /\ UNCHANGED <<session, unlocked, bootAge, lockAge, dtcOn, periodic, reset, handoff, wrong>>

(* Fault: a lockout is not stamped with its start.                        *)
SendKeyUnstamped(right) ==
    /\ Request
    /\ \/ /\ GateDelay \/ GateLocked \/ ~fresh
          /\ fails' = GateFails
          /\ UNCHANGED <<unlocked, fresh, wrong>>
       \/ /\ ~(GateDelay \/ GateLocked) /\ fresh
          /\ fresh' = FALSE
          /\ unlocked' = (unlocked \/ right)
          /\ fails' = IF right THEN 0 ELSE GateFails + 1
          /\ wrong' = IF right THEN NoneWrong ELSE WrongAgain
    /\ MainUntouched
    /\ UNCHANGED <<session, bootAge, lockAge, dtcOn, periodic, reset, handoff>>

SendKey(right) ==
    /\ Request
    /\ \/ /\ GateDelay \/ GateLocked \/ ~fresh
          /\ fails' = GateFails
          /\ UNCHANGED <<unlocked, fresh, lockAge, wrong>>
       \/ /\ ~(GateDelay \/ GateLocked) /\ fresh /\ right
          /\ unlocked' = TRUE /\ fails' = 0 /\ fresh' = FALSE
          /\ wrong' = NoneWrong
          /\ UNCHANGED lockAge
       \/ /\ ~(GateDelay \/ GateLocked) /\ fresh /\ ~right
          /\ fresh' = FALSE
          /\ fails' = GateFails + 1
          /\ lockAge' = IF fails' >= MaxFail THEN 0 ELSE lockAge
          /\ wrong' = WrongAgain
          /\ UNCHANGED unlocked
    /\ MainUntouched
    /\ UNCHANGED <<session, bootAge, dtcOn, periodic, reset, handoff>>

(* 0x85 and 0x2A ask for the extended session.                             *)
ControlDtcSetting(on) ==
    /\ Request
    /\ dtcOn' = IF session = "EXTENDED" THEN on ELSE dtcOn
    /\ MainUntouched
    /\ UNCHANGED <<session, unlocked, fresh, fails, bootAge, lockAge, periodic, reset, handoff,
                   wrong>>

ReadPeriodic(start) ==
    /\ Request
    /\ periodic' = IF session = "EXTENDED" THEN start ELSE periodic
    /\ MainUntouched
    /\ UNCHANGED <<session, unlocked, fresh, fails, bootAge, lockAge, dtcOn, reset, handoff,
                   wrong>>

(* 0x3E and every service that leaves all this alone.                      *)
OtherRequest ==
    /\ Request
    /\ MainUntouched
    /\ UNCHANGED <<ram, bootAge, lockAge, handoff, wrong>>

Unplug ==
    /\ ~gone /\ gone' = TRUE
    /\ UNCHANGED <<pc, lag, ram, ages, handoff, wrong>>

-----------------------------------------------------------------------------
(* vMainTask *)

Goto(from, to) == pc = from /\ pc' = to
MainLocal == UNCHANGED <<ages, handoff, gone, wrong>>

ReadClock ==        \* UDS_PeriodicTick drops what has no data; DiagSession_Tick(HAL_GetTick())
    /\ Goto("loop", "check")
    /\ periodic' \in {periodic, FALSE}
    /\ lag' = 0
    /\ UNCHANGED <<session, unlocked, fresh, fails, dtcOn, reset>> /\ MainLocal

CheckSession ==
    /\ pc = "check"
    /\ IF session = "DEFAULT" THEN pc' = "poll" /\ lag' = NotRead
                              ELSE pc' = "compare" /\ UNCHANGED lag
    /\ UNCHANGED ram /\ MainLocal

(* now - last_activity_tick on uint32_t: below zero it is huge.            *)
Expired == idle < lag \/ idle - lag >= S3

(* Fault: looking at the timer counts as activity.                        *)
CompareRefreshes ==
    /\ pc = "compare"
    /\ pc' = IF Expired THEN "store" ELSE "poll"
    /\ lag' = NotRead
    /\ idle' = 0
    /\ UNCHANGED <<ram, bootAge, lockAge, handoff, gone, wrong>>

Compare ==
    /\ pc = "compare"
    /\ pc' = IF Expired THEN "store" ELSE "poll"
    /\ lag' = NotRead
    /\ UNCHANGED ram /\ MainLocal

StoreDefault ==
    /\ Goto("store", "lock")
    /\ session' = "DEFAULT"
    /\ idle' = 0
    /\ UNCHANGED <<lag, unlocked, fresh, fails, dtcOn, periodic, reset, bootAge, lockAge,
                   handoff, gone, wrong>>

Lock ==
    /\ Goto("lock", "dtc")
    /\ unlocked' = FALSE
    /\ UNCHANGED <<lag, session, fresh, fails, dtcOn, periodic, reset>> /\ MainLocal

RestoreDtcSetting ==
    /\ Goto("dtc", "stop")
    /\ dtcOn' = TRUE
    /\ UNCHANGED <<lag, session, unlocked, fresh, fails, periodic, reset>> /\ MainLocal

PeriodicStopAll ==
    /\ Goto("stop", "poll")
    /\ periodic' = FALSE
    /\ UNCHANGED <<lag, session, unlocked, fresh, fails, dtcOn, reset>> /\ MainLocal

PollReset ==        \* the end of the loop, or the 50 ms before a reset
    /\ pc = "poll"
    /\ pc' = IF reset THEN "delay" ELSE "loop"
    /\ reset' = FALSE
    /\ UNCHANGED <<lag, session, unlocked, fresh, fails, dtcOn, periodic>> /\ MainLocal

SystemReset ==
    /\ Goto("delay", "boot")
    /\ FreshRam
    /\ UNCHANGED <<handoff, gone>>

(* The boot gate consumes the flag.                                        *)
Boot ==
    /\ pc = "boot"
    /\ pc' = IF handoff THEN "bootloader" ELSE "loop"
    /\ handoff' = FALSE
    /\ UNCHANGED <<lag, ram, ages, gone, wrong>>

LeaveBootloader ==
    /\ Goto("bootloader", "boot")
    /\ UNCHANGED <<lag, ram, ages, handoff, gone, wrong>>

-----------------------------------------------------------------------------
Clock ==
    /\ Serving /\ lag < MaxLag
    /\ idle' = Least(idle + 1, S3 + MaxLag)
    /\ bootAge' = Least(bootAge + 1, BootDelay)
    /\ lockAge' = IF fails >= MaxFail THEN Least(lockAge + 1, Lockout) ELSE lockAge
    /\ lag' = IF lag = NotRead THEN lag ELSE lag + 1
    /\ wrong' = [n \in Latest |-> Least(wrong[n] + 1, Lockout)]
    /\ UNCHANGED <<pc, ram, handoff, gone>>

Tester ==
    \/ \E s \in Session : SessionControl(s)
    \/ \E b \in BOOLEAN : SendKey(b) \/ ControlDtcSetting(b) \/ ReadPeriodic(b)
    \/ EcuReset \/ RequestSeed \/ OtherRequest \/ Unplug

MainTask ==
    \/ ReadClock \/ CheckSession \/ Compare \/ StoreDefault \/ Lock \/ RestoreDtcSetting
    \/ PeriodicStopAll \/ PollReset \/ SystemReset

Next == Tester \/ MainTask \/ Boot \/ LeaveBootloader \/ Clock

Spec == Init /\ [][Next]_vars

(* The main task loops for ever, and time passes.                          *)
LiveSpec == Spec /\ WF_vars(MainTask) /\ WF_vars(Boot) /\ WF_vars(Clock)
=============================================================================
