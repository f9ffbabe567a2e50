-------------------------- MODULE PeriodicDataProps --------------------------
(* What the tables of 0x2C and 0x2A and the walk over them promise.        *)
EXTENDS PeriodicData

TypeOK ==
    /\ dyn \in [1..DynSlots -> Dids \cup {None}]
    /\ sub \in [1..Slots -> [pdid : Dids \cup {None}, divider : Dividers \cup {0}, counter : Nat]]
    /\ pc \in {"wait", "look", "count", "compare", "find", "assemble", "stop", "send"}
    /\ at \in 1..Slots /\ divider \in Dividers \cup {0} /\ counter \in Nat
    /\ gone \in BOOLEAN /\ short \in BOOLEAN /\ late \in -1..2

(* However requests fail half way and meet the walk, an identifier is      *)
(* defined once and subscribed once.                                       *)
NothingTwice ==
    /\ \A i, j \in 1..DynSlots : dyn[i] = dyn[j] /\ dyn[i] # None => i = j
    /\ \A s, t \in 1..Slots : Active(s) /\ Active(t) /\ sub[s].pdid = sub[t].pdid => s = t

(* Once everything has been stopped, by request, by the default session or *)
(* by S3, at most the frame that was under way still goes out.             *)
OneLateFrame == late <= 1

(* "Active 0x2A subs on this DID stop themselves", uds_service.c:1590, and *)
(* so do those whose source no longer holds what was defined.              *)
OrphansStop ==
    gone ~> \A s \in 1..Slots : Active(s) => Defined(sub[s].pdid) /\ ~Stale(sub[s].pdid)

(* Left alone, no subscription starves: each is sent again and again, as   *)
(* long as it is there.                                                    *)
EachIsServed == \A s \in 1..Slots : []<>(gone => ~Active(s) \/ (pc = "send" /\ at = s))

(* Every subscription is served or ends: nobody waits for a slot, for      *)
(* ever, that an orphan keeps.                                             *)
AllServed == OrphansStop /\ EachIsServed
=============================================================================
