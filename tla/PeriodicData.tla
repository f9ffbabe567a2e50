---------------------------- MODULE PeriodicData ----------------------------
(***************************************************************************)
(* Dynamically defined identifiers (0x2C) and their periodic transmission  *)
(* (0x2A), Src/uds_service.c.  vCanRxTask, which outranks the main task    *)
(* and does not give way to it inside a handler, serves a request in one   *)
(* step and writes both tables.  vMainTask walks the table of              *)
(* subscriptions every 10 ms and can be interrupted between any two of its *)
(* accesses: pc, at and the registers are its place in the walk.  Only     *)
(* assembling the data and giving a subscription up are critical sections. *)
(*                                                                         *)
(* A definition's data is known by the identifier it was defined for.  Its *)
(* records assemble as long as their sources are long enough: only the VIN *)
(* can become shorter, when it is written (0x2E) with a zero in it.  The   *)
(* session that permits the requests is UdsServer's; here its end (Default *)
(* or S3) is UDS_PeriodicStopAll at any time the code may call it.         *)
(*                                                                         *)
(* Ghost: late counts the frames sent since everything was stopped, until  *)
(* something is subscribed again.                                          *)
(***************************************************************************)
EXTENDS Integers, Sequences

CONSTANTS
    Dids,       \* identifiers 0xF2xx, by their low byte
    DynSlots,   \* UDS_DYN_SLOTS
    Slots,      \* UDS_PERIODIC_SLOTS
    Dividers,   \* of the transmission modes
    OnVin,      \* identifiers whose definition takes the end of the VIN
    None        \* no identifier, no definition

ASSUME TableAssumption ==
    /\ DynSlots \in Nat \ {0} /\ Slots \in Nat \ {0}
    /\ Dividers \subseteq Nat \ {0}
    /\ None \notin Dids /\ OnVin \subseteq Dids

VARIABLES
    dyn,        \* s_dyn[].did
    sub,        \* s_periodic
    short,      \* the VIN is too short for those of OnVin
    pc,         \* "wait", "look", "count", "compare", "find", "assemble", "stop", "send"
    at,         \* the slot the walk is at
    divider, counter,       \* what it read of that slot
    found,      \* the definition it found, by its place in s_dyn, or None
    data,       \* the identifier the assembled data was defined for
    gone,       \* the tester has been unplugged, for good
    late

tables    == <<dyn, sub, short>>
registers == <<divider, counter, found, data>>
vars      == <<tables, pc, at, registers, gone, late>>

Free == [pdid |-> None, divider |-> 0, counter |-> 0]

Init ==
    /\ dyn = [i \in 1..DynSlots |-> None]
    /\ sub = [s \in 1..Slots |-> Free] /\ short = FALSE
    /\ pc = "wait" /\ at = 1
    /\ divider = 0 /\ counter = 0 /\ found = None /\ data = None
    /\ gone = FALSE /\ late = -1

Active(s) == sub[s].divider # 0
First(S)  == CHOOSE i \in S : \A j \in S : i <= j

Places(did)  == {i \in 1..DynSlots : dyn[i] = did}
Defined(did) == Places(did) # {}
Stale(did)   == did \in OnVin /\ short

-----------------------------------------------------------------------------
(* Requests *)

Requested == ~gone /\ UNCHANGED <<pc, at, registers, gone>>

(* An identifier that is defined is defined anew where it is.              *)
Define(did) ==
    /\ Requested
    /\ ~Stale(did)
    /\ Defined(did) \/ Defined(None)
    /\ dyn' = [dyn EXCEPT ![First(Places(IF Defined(did) THEN did ELSE None))] = did]
    /\ UNCHANGED <<sub, short, late>>

ClearDefinition(did) ==
    /\ Requested
    /\ Defined(did)
    /\ dyn' = [dyn EXCEPT ![First(Places(did))] = None]
    /\ UNCHANGED <<sub, short, late>>

(* Fault: a subscription in place is not looked for.                       *)
RoomTwice(t, pdid) == {s \in 1..Slots : t[s].divider = 0}

(* Where a subscription goes: where it is, or else what is free.           *)
Room(t, pdid) ==
    LET own == {s \in 1..Slots : t[s].divider # 0 /\ t[s].pdid = pdid}
    IN  IF own # {} THEN own ELSE {s \in 1..Slots : t[s].divider = 0}

(* The identifiers of one request are taken one by one; the first that     *)
(* fails ends it, and those before it stay.  A request names one or two.   *)
Started == [ok |-> TRUE, table |-> sub]

Subscribed(a, pdid, div) ==
    IF ~a.ok \/ ~Defined(pdid) \/ Room(a.table, pdid) = {}
    THEN [ok |-> FALSE, table |-> a.table]
    ELSE [ok |-> TRUE,
          table |-> [a.table EXCEPT ![First(Room(a.table, pdid))] =
                        [pdid |-> pdid, divider |-> div, counter |-> 0]]]

Subscribe(pdids, div) ==
    LET one == Subscribed(Started, pdids[1], div)
        all == IF Len(pdids) = 1 THEN one ELSE Subscribed(one, pdids[2], div)
    IN  /\ Requested
        /\ sub' = all.table
        /\ late' = IF sub' = sub THEN late ELSE -1
        /\ UNCHANGED <<dyn, short>>

Dropped(a, pdid) ==
    IF ~a.ok \/ ~ \E s \in 1..Slots : a.table[s].divider # 0 /\ a.table[s].pdid = pdid
    THEN [ok |-> FALSE, table |-> a.table]
    ELSE [ok |-> TRUE,
          table |-> [s \in 1..Slots |->
                        IF a.table[s].pdid = pdid THEN [a.table[s] EXCEPT !.divider = 0]
                        ELSE a.table[s]]]

Unsubscribe(pdids) ==
    LET one == Dropped(Started, pdids[1])
    IN  /\ Requested
        /\ sub' = (IF Len(pdids) = 1 THEN one ELSE Dropped(one, pdids[2])).table
        /\ UNCHANGED <<dyn, short, late>>

(* Fault: the last slot is left out.                                       *)
StoppedButLast == [s \in 1..Slots |-> IF s < Slots THEN [sub[s] EXCEPT !.divider = 0] ELSE sub[s]]
Stopped == [s \in 1..Slots |-> [sub[s] EXCEPT !.divider = 0]]

(* 0x2A 04, and 0x10 01.                                                   *)
StopAll ==
    /\ Requested
    /\ sub' = Stopped /\ late' = 0
    /\ UNCHANGED <<dyn, short>>

(* 0x2E.                                                                   *)
WriteVin(tooShort) ==
    /\ Requested
    /\ short' = tooShort
    /\ UNCHANGED <<dyn, sub, late>>

(* S3, in vMainTask, between two walks.                                    *)
SessionExpires ==
    /\ pc = "wait"
    /\ sub' = Stopped /\ late' = 0
    /\ UNCHANGED <<dyn, short, pc, at, registers, gone>>

Unplug ==
    /\ ~gone /\ gone' = TRUE
    /\ UNCHANGED <<tables, pc, at, registers, late>>

-----------------------------------------------------------------------------
(* UDS_PeriodicTick *)

StartWalk ==
    /\ pc = "wait"
    /\ pc' = "look" /\ at' = 1
    /\ UNCHANGED <<tables, registers, gone, late>>

Advance ==
    /\ pc' = IF at < Slots THEN "look" ELSE "wait"
    /\ at' = IF at < Slots THEN at + 1 ELSE 1
    /\ divider' = 0 /\ counter' = 0 /\ found' = None /\ data' = None

(* Fault: a free slot ends the walk.                                       *)
LookUntilFree ==
    /\ pc = "look"
    /\ \/ ~Active(at) /\ pc' = "wait" /\ at' = 1 /\ UNCHANGED registers
       \/ /\ Active(at)
          /\ pc' = "count"
          /\ divider' = sub[at].divider /\ counter' = sub[at].counter
          /\ UNCHANGED <<at, found, data>>
    /\ UNCHANGED <<tables, gone, late>>

Look ==
    /\ pc = "look"
    /\ \/ ~Active(at) /\ Advance
       \/ /\ Active(at)
          /\ pc' = "count"
          /\ divider' = sub[at].divider /\ counter' = sub[at].counter
          /\ UNCHANGED <<at, found, data>>
    /\ UNCHANGED <<tables, gone, late>>

(* ++counter < divider, on fields that are not volatile: what is stored is *)
(* one more than what was read, and the divider it is compared with is the *)
(* one read before or the one there now.                                   *)
Count ==
    /\ pc = "count"
    /\ pc' = "compare"
    /\ counter' = counter + 1
    /\ sub' = [sub EXCEPT ![at].counter = counter + 1]
    /\ UNCHANGED <<dyn, short, at, divider, found, data, gone, late>>

Compare ==
    /\ pc = "compare"
    /\ \E div \in {divider, sub[at].divider} :
        \/ counter < div /\ Advance /\ UNCHANGED sub
        \/ /\ counter >= div
           /\ sub' = [sub EXCEPT ![at].counter = 0]
           /\ pc' = "find"
           /\ divider' = 0 /\ counter' = 0
           /\ UNCHANGED <<at, found, data>>
    /\ UNCHANGED <<dyn, short, gone, late>>

Find ==
    /\ pc = "find"
    /\ pc' = IF Defined(sub[at].pdid) THEN "assemble" ELSE "stop"
    /\ found' = IF Defined(sub[at].pdid) THEN First(Places(sub[at].pdid)) ELSE None
    /\ UNCHANGED <<tables, at, divider, counter, data, gone, late>>

(* An entry that was cleared since it was found, or whose source has become*)
(* too short, assembles to nothing.                                        *)
Assemble ==
    /\ pc = "assemble"
    /\ data' = dyn[found]
    /\ pc' = IF dyn[found] = None \/ Stale(dyn[found]) THEN "stop" ELSE "send"
    /\ found' = None
    /\ UNCHANGED <<tables, at, divider, counter, gone, late>>

GiveUp ==
    /\ pc = "stop"
    /\ sub' = [sub EXCEPT ![at].divider = 0]
    /\ Advance
    /\ UNCHANGED <<dyn, short, gone, late>>

(* A frame carries the pdid that is in the slot when it is sent.           *)
Send ==
    /\ pc = "send"
    /\ late' = IF late = -1 THEN late ELSE IF late < 2 THEN late + 1 ELSE late
    /\ Advance
    /\ UNCHANGED <<tables, gone>>

-----------------------------------------------------------------------------
(* Requests that name one identifier, or two.                              *)
Named == {<<a>> : a \in Dids} \cup {<<a, b>> : a, b \in Dids}

Tester ==
    \/ \E did \in Dids : Define(did) \/ ClearDefinition(did)
    \/ \E pdids \in Named : Unsubscribe(pdids) \/ \E div \in Dividers : Subscribe(pdids, div)
    \/ \E b \in BOOLEAN : WriteVin(b)
    \/ StopAll \/ Unplug

Walk == StartWalk \/ Look \/ Count \/ Compare \/ Find \/ Assemble \/ GiveUp \/ Send

Next == Tester \/ SessionExpires \/ Walk

Spec == Init /\ [][Next]_vars

(* The main task runs for ever.                                            *)
LiveSpec == Spec /\ WF_vars(Walk)
=============================================================================
