--------------------------- MODULE UdsServerProps ---------------------------
(* What the session, its timer and the lockout promise.                    *)
EXTENDS UdsServer

TypeOK ==
    /\ pc \in PC /\ lag \in NotRead..MaxLag
    /\ session \in Session /\ unlocked \in BOOLEAN /\ fresh \in BOOLEAN
    /\ fails \in 0..MaxFail
    /\ idle \in 0..(S3 + MaxLag) /\ bootAge \in 0..BootDelay /\ lockAge \in 0..Lockout
    /\ dtcOn \in BOOLEAN /\ periodic \in BOOLEAN /\ reset \in BOOLEAN
    /\ handoff \in BOOLEAN /\ gone \in BOOLEAN
    /\ wrong \in [Latest -> 0..Lockout]

(* Within one boot no span as long as the lockout sees more wrong keys in  *)
(* a row than the limit, however requests and waits are mixed: the last    *)
(* but MaxFail of them is a lockout old.                                   *)
AttemptsBounded == wrong[MaxFail + 1] = Lockout

(* In the default session, but for the moment the main task takes to get   *)
(* there, DTC setting is on and nothing is sent periodically.              *)
ReturnRestores ==
    session = "DEFAULT" /\ pc \notin {"lock", "dtc", "stop"} => dtcOn /\ ~periodic

(* Unplug the tester and the ECU comes back to its normal state: S3 ends   *)
(* the session, and everything the tester had set up in it.                *)
SessionEnds == gone ~> session = "DEFAULT" /\ dtcOn /\ ~periodic

(* A programming session reaches the bootloader, whatever is requested in  *)
(* the 50 ms before the reset.                                             *)
HandoffReached == handoff ~> pc = "bootloader"
=============================================================================
