------------------------- MODULE PeriodicDataProofs -------------------------
(***************************************************************************)
(* The tables of 0x2C and 0x2A, for every number of identifiers and places *)
(* and every divider: nothing is entered twice, and nothing goes out once  *)
(* everything was stopped but the frame under way.                         *)
(***************************************************************************)
EXTENDS PeriodicDataProps, WellFoundedInduction, TLAPS

LEMMA FirstIsIn == ASSUME NEW S \in SUBSET Nat, S # {} PROVE First(S) \in S
<1>1. \E i \in S : \A j \in S : ~ (<<j, i>> \in OpToRel(<, Nat))
  BY NatLessThanWellFounded, WFMin
<1>2. ASSUME NEW i \in Nat, NEW j \in Nat, j < i PROVE <<j, i>> \in OpToRel(<, Nat)
  BY <1>2, Zenon DEF OpToRel
<1>3. \E i \in S : \A j \in S : ~ (j < i)
  BY <1>1, <1>2
<1>4. \E i \in S : \A j \in S : i <= j
  BY <1>3
<1> QED BY <1>4 DEF First

-----------------------------------------------------------------------------
(* What a table of subscriptions must be.  A table with fewer active slots *)
(* and the same identifiers in them is as good.                            *)
Entry == [pdid : Dids \cup {None}, divider : Dividers \cup {0}, counter : Nat]
Table(t) == t \in [1..Slots -> Entry]
Distinct(t) ==
    \A s, u \in 1..Slots :
        t[s].divider # 0 /\ t[u].divider # 0 /\ t[s].pdid = t[u].pdid => s = u
AllOff(t) == \A s \in 1..Slots : t[s].divider = 0
Within(t, o) ==
    \A s \in 1..Slots : t[s].divider # 0 => o[s].divider # 0 /\ t[s].pdid = o[s].pdid

LEMMA WithinIsDistinct == ASSUME NEW t, NEW o, Within(t, o), Distinct(o) PROVE Distinct(t)
BY DEF Within, Distinct

LEMMA SubscribedIsGood ==
    ASSUME NEW a, NEW pdid \in Dids, NEW div \in Dividers, Table(a.table), Distinct(a.table)
    PROVE  Table(Subscribed(a, pdid, div).table) /\ Distinct(Subscribed(a, pdid, div).table)
<1> DEFINE t == a.table
           r == Room(t, pdid)
           u == [t EXCEPT ![First(r)] = [pdid |-> pdid, divider |-> div, counter |-> 0]]
<1>1. CASE ~a.ok \/ ~Defined(pdid) \/ r = {}
  BY <1>1 DEF Subscribed
<1>2. CASE ~(~a.ok \/ ~Defined(pdid) \/ r = {})
  <2>1. Subscribed(a, pdid, div).table = u
    BY <1>2 DEF Subscribed
  <2>2. r \subseteq 1..Slots
    BY DEF Room
  <2>3. First(r) \in r
    BY <1>2, <2>2, FirstIsIn, TableAssumption
  <2>4. Table(u)
    BY <2>2, <2>3, TableAssumption DEF Table, Entry
  <2>5. ASSUME NEW s \in 1..Slots, s # First(r), t[s].divider # 0 PROVE t[s].pdid # pdid
    BY <2>2, <2>3, <2>5 DEF Room, Distinct
  <2>6. Distinct(u)
    BY <2>2, <2>3, <2>5 DEF Distinct, Table
  <2> QED BY <2>1, <2>4, <2>6
<1> QED BY <1>1, <1>2

LEMMA DroppedIsGood ==
    ASSUME NEW a, NEW pdid \in Dids, Table(a.table)
    PROVE  Table(Dropped(a, pdid).table) /\ Within(Dropped(a, pdid).table, a.table)
BY TableAssumption DEF Dropped, Table, Entry, Within

LEMMA WithinTwice == ASSUME NEW t, NEW o, NEW p, Within(t, o), Within(o, p) PROVE Within(t, p)
BY DEF Within

LEMMA RequestsName ==
    ASSUME NEW pdids \in Named
    PROVE  pdids[1] \in Dids /\ (Len(pdids) # 1 => pdids[2] \in Dids)
BY DEF Named

LEMMA SubscribeIsGood ==
    ASSUME NEW pdids \in Named, NEW div \in Dividers, Subscribe(pdids, div),
           Table(sub), Distinct(sub)
    PROVE  Table(sub') /\ Distinct(sub')
<1> DEFINE one == Subscribed(Started, pdids[1], div)
<1>1. Table(one.table) /\ Distinct(one.table)
  BY SubscribedIsGood, RequestsName DEF Started
<1>2. Len(pdids) # 1 => Table(Subscribed(one, pdids[2], div).table)
                        /\ Distinct(Subscribed(one, pdids[2], div).table)
  BY <1>1, SubscribedIsGood, RequestsName
<1>3. sub' = (IF Len(pdids) = 1 THEN one ELSE Subscribed(one, pdids[2], div)).table
  BY DEF Subscribe
<1> QED BY <1>1, <1>2, <1>3

LEMMA UnsubscribeIsGood ==
    ASSUME NEW pdids \in Named, Unsubscribe(pdids), Table(sub)
    PROVE  Table(sub') /\ Within(sub', sub)
<1> DEFINE one == Dropped(Started, pdids[1])
<1>1. Table(one.table) /\ Within(one.table, sub)
  BY DroppedIsGood, RequestsName DEF Started
<1>2. Len(pdids) # 1 => /\ Table(Dropped(one, pdids[2]).table)
                        /\ Within(Dropped(one, pdids[2]).table, one.table)
  BY <1>1, DroppedIsGood, RequestsName
<1>3. sub' = (IF Len(pdids) = 1 THEN one ELSE Dropped(one, pdids[2])).table
  BY DEF Unsubscribe
<1> QED BY <1>1, <1>2, <1>3, WithinTwice

-----------------------------------------------------------------------------
(* An identifier is defined once.  Once everything was stopped no slot is  *)
(* active, so the frame under way is the last, and the walk that has sent  *)
(* it finds nothing more.                                                  *)
DefinedOnce == \A i, j \in 1..DynSlots : dyn[i] = dyn[j] /\ dyn[i] # None => i = j

Silent ==
    /\ late # -1 => AllOff(sub)
    /\ late = 1 => pc \in {"wait", "look"}
    /\ late # 2

IInv == TypeOK /\ DefinedOnce /\ Distinct(sub) /\ Silent

LEMMA TypedTable == TypeOK => Table(sub)
BY DEF TypeOK, Table, Entry

LEMMA AdvanceIsTyped ==
    ASSUME TypeOK, Advance
    PROVE  /\ pc' \in {"wait", "look"} /\ at' \in 1..Slots
           /\ divider' \in Dividers \cup {0} /\ counter' \in Nat
BY TableAssumption DEF TypeOK, Advance

LEMMA OffStaysOff == ASSUME NEW t, NEW o, Within(t, o), AllOff(o) PROVE AllOff(t)
BY DEF Within, AllOff

LEMMA DefineIsGood ==
    ASSUME IInv, NEW did \in Dids, Define(did)
    PROVE  dyn' \in [1..DynSlots -> Dids \cup {None}] /\ DefinedOnce'
<1> DEFINE P == Places(IF Defined(did) THEN did ELSE None)
<1>1. P \subseteq 1..DynSlots /\ P # {}
  BY DEF Define, Defined, Places
<1>2. First(P) \in P
  BY <1>1, FirstIsIn, TableAssumption
<1>3. dyn' = [dyn EXCEPT ![First(P)] = did]
  BY DEF Define
<1>4. dyn' \in [1..DynSlots -> Dids \cup {None}]
  BY <1>1, <1>2, <1>3 DEF IInv, TypeOK
<1>5. ASSUME NEW i \in 1..DynSlots, i # First(P) PROVE dyn[i] # did
  BY <1>2, <1>5, TableAssumption DEF Places, Defined, IInv, DefinedOnce
<1> QED BY <1>1, <1>2, <1>3, <1>4, <1>5 DEF IInv, TypeOK, DefinedOnce

LEMMA ClearIsGood ==
    ASSUME IInv, NEW did \in Dids, ClearDefinition(did)
    PROVE  dyn' \in [1..DynSlots -> Dids \cup {None}] /\ DefinedOnce'
<1>1. dyn' = [dyn EXCEPT ![First(Places(did))] = None]
  BY DEF ClearDefinition
<1>2. dyn' \in [1..DynSlots -> Dids \cup {None}]
  BY <1>1 DEF IInv, TypeOK
<1> QED BY <1>1, <1>2 DEF IInv, TypeOK, DefinedOnce

(* A request leaves the walk where it is.                                  *)
LEMMA RequestsKeep == ASSUME IInv, Tester PROVE IInv'
<1>1. CASE \E did \in Dids : Define(did) \/ ClearDefinition(did)
  <2>1. dyn' \in [1..DynSlots -> Dids \cup {None}] /\ DefinedOnce'
    BY <1>1, DefineIsGood, ClearIsGood
  <2>2. UNCHANGED <<sub, short, late, pc, at, registers, gone>>
    BY <1>1 DEF Define, ClearDefinition, Requested
  <2> QED BY <2>1, <2>2 DEF IInv, TypeOK, Distinct, Silent, AllOff, registers
<1>2. CASE \E pdids \in Named : Unsubscribe(pdids)
  <2>1. Table(sub') /\ Within(sub', sub)
    BY <1>2, UnsubscribeIsGood, TypedTable DEF IInv
  <2>2. Distinct(sub') /\ (AllOff(sub) => AllOff(sub'))
    BY <2>1, WithinIsDistinct, OffStaysOff DEF IInv
  <2>3. UNCHANGED <<dyn, short, late, pc, at, registers, gone>>
    BY <1>2 DEF Unsubscribe, Requested
  <2> QED BY <2>1, <2>2, <2>3 DEF IInv, TypeOK, DefinedOnce, Silent, Table, Entry, registers
<1>3. CASE \E pdids \in Named : \E div \in Dividers : Subscribe(pdids, div)
  <2>1. Table(sub') /\ Distinct(sub')
    BY <1>3, SubscribeIsGood, TypedTable DEF IInv
  <2>2. /\ late' = IF sub' = sub THEN late ELSE -1
        /\ UNCHANGED <<dyn, short, pc, at, registers, gone>>
    BY <1>3 DEF Subscribe, Requested
  <2> QED BY <2>1, <2>2 DEF IInv, TypeOK, DefinedOnce, Silent, Table, Entry, registers
<1>4. CASE \E b \in BOOLEAN : WriteVin(b)
  BY <1>4 DEF WriteVin, Requested, IInv, TypeOK, DefinedOnce, Distinct, Silent, AllOff, registers
<1>5. CASE StopAll
  <2>1. Table(sub') /\ Within(sub', sub) /\ AllOff(sub')
    BY <1>5, TypedTable DEF StopAll, Stopped, IInv, Table, Entry, Within, AllOff
  <2>2. Distinct(sub')
    BY <2>1, WithinIsDistinct DEF IInv
  <2>3. late' = 0 /\ UNCHANGED <<dyn, short, pc, at, registers, gone>>
    BY <1>5 DEF StopAll, Requested
  <2> QED BY <2>1, <2>2, <2>3 DEF IInv, TypeOK, DefinedOnce, Silent, Table, Entry, registers
<1>6. CASE Unplug
  BY <1>6 DEF Unplug, tables, registers, IInv, TypeOK, DefinedOnce, Distinct, Silent, AllOff
<1> QED BY <1>1, <1>2, <1>3, <1>4, <1>5, <1>6 DEF Tester

LEMMA ExpiryKeeps == ASSUME IInv, SessionExpires PROVE IInv'
<1>1. Table(sub') /\ Within(sub', sub) /\ AllOff(sub')
  BY TypedTable DEF SessionExpires, Stopped, IInv, Table, Entry, Within, AllOff
<1>2. Distinct(sub')
  BY <1>1, WithinIsDistinct DEF IInv
<1> QED BY <1>1, <1>2
        DEF SessionExpires, IInv, TypeOK, DefinedOnce, Silent, Table, Entry, registers

(* A step of the walk takes subscriptions away, and counts.                *)
LEMMA WalkKeeps == ASSUME IInv, Walk PROVE IInv'
<1>1. Table(sub') /\ Within(sub', sub)
  <2>1. CASE UNCHANGED sub
    BY <2>1, TypedTable DEF IInv, Within, Table
  <2>2. CASE \E n \in Nat : sub' = [sub EXCEPT ![at].counter = n]
    BY <2>2, TypedTable DEF IInv, TypeOK, Within, Table, Entry
  <2>3. CASE sub' = [sub EXCEPT ![at].divider = 0]
    BY <2>3, TypedTable DEF IInv, TypeOK, Within, Table, Entry
  <2>4. Count => \E n \in Nat : sub' = [sub EXCEPT ![at].counter = n]
    <3>1. Count => sub' = [sub EXCEPT ![at].counter = counter + 1]
      BY DEF Count
    <3>2. counter + 1 \in Nat
      BY DEF IInv, TypeOK
    <3> QED BY <3>1, <3>2
  <2>5. Compare => UNCHANGED sub \/ \E n \in Nat : sub' = [sub EXCEPT ![at].counter = n]
    BY DEF Compare
  <2> QED BY <2>1, <2>2, <2>3, <2>4, <2>5
          DEF Walk, StartWalk, Look, Find, Assemble, GiveUp, Send, tables
<1>2. Distinct(sub') /\ (AllOff(sub) => AllOff(sub'))
  BY <1>1, WithinIsDistinct, OffStaysOff DEF IInv
<1>3. UNCHANGED <<dyn, short, gone>>
  BY DEF Walk, StartWalk, Look, Count, Compare, Find, Assemble, GiveUp, Send, tables
<1>4. /\ pc' \in {"wait", "look", "count", "compare", "find", "assemble", "stop", "send"}
      /\ at' \in 1..Slots /\ divider' \in Dividers \cup {0} /\ counter' \in Nat
      /\ late' \in -1..2
  <2>1. CASE StartWalk
    BY <2>1, TableAssumption DEF StartWalk, registers, IInv, TypeOK
  <2>2. CASE Look
    BY <2>2, AdvanceIsTyped DEF Look, IInv, TypeOK
  <2>3. CASE Count
    BY <2>3 DEF Count, IInv, TypeOK
  <2>4. CASE Compare
    BY <2>4, AdvanceIsTyped DEF Compare, IInv, TypeOK
  <2>5. CASE Find \/ Assemble
    BY <2>5 DEF Find, Assemble, IInv, TypeOK
  <2>6. CASE GiveUp \/ Send
    BY <2>6, AdvanceIsTyped DEF GiveUp, Send, IInv, TypeOK
  <2> QED BY <2>1, <2>2, <2>3, <2>4, <2>5, <2>6 DEF Walk
<1>5. Silent'
  <2>1. CASE Send
    BY <2>1, <1>2 DEF Send, Advance, IInv, Silent, TypeOK, AllOff
  <2>2. CASE Look
    BY <2>2, <1>2 DEF Look, Advance, Active, IInv, Silent, TypeOK, AllOff
  <2>3. CASE StartWalk \/ Count \/ Compare \/ Find \/ Assemble \/ GiveUp
    <3>1. UNCHANGED late /\ (pc \in {"wait", "look"} => pc' = "look")
      BY <2>3 DEF StartWalk, Count, Compare, Find, Assemble, GiveUp
    <3> QED BY <1>2, <3>1 DEF IInv, Silent
  <2> QED BY <2>1, <2>2, <2>3 DEF Walk
<1> QED BY <1>1, <1>2, <1>3, <1>4, <1>5 DEF IInv, TypeOK, DefinedOnce, Table, Entry

THEOREM PeriodicInvariance == Spec => []IInv
<1>1. Init => IInv
  <2> SUFFICES ASSUME Init PROVE IInv
    OBVIOUS
  <2>1. TypeOK
    <3>1. Free \in Entry
      BY DEF Free, Entry
    <3>2. sub \in [1..Slots -> Entry] /\ dyn \in [1..DynSlots -> Dids \cup {None}]
      BY <3>1 DEF Init
    <3>3. 1 \in 1..Slots /\ -1 \in -1..2
      BY TableAssumption
    <3> QED BY <3>2, <3>3 DEF Init, TypeOK, Entry
  <2>2. DefinedOnce /\ Distinct(sub)
    BY DEF Init, Free, DefinedOnce, Distinct
  <2>3. Silent
    BY DEF Init, Silent
  <2> QED BY <2>1, <2>2, <2>3 DEF IInv
<1>2. IInv /\ [Next]_vars => IInv'
  <2>1. IInv /\ Next => IInv'
    BY RequestsKeep, ExpiryKeeps, WalkKeeps DEF Next
  <2>2. IInv /\ UNCHANGED vars => IInv'
    BY DEF vars, tables, registers, IInv, TypeOK, DefinedOnce, Distinct, Silent, AllOff
  <2> QED BY <2>1, <2>2
<1> QED BY <1>1, <1>2, PTL DEF Spec

(* However requests fail half way and meet the walk, nothing is defined or *)
(* subscribed twice, for tables of every size.                             *)
THEOREM NothingIsTwice == Spec => []NothingTwice
<1>1. IInv => NothingTwice
  BY DEF IInv, DefinedOnce, Distinct, NothingTwice, Active
<1> QED BY <1>1, PeriodicInvariance, PTL

(* Once everything was stopped, one frame at most still goes out.          *)
THEOREM OneFrameIsLate == Spec => []OneLateFrame
<1>1. IInv => OneLateFrame
  BY DEF IInv, Silent, TypeOK, OneLateFrame
<1> QED BY <1>1, PeriodicInvariance, PTL
=============================================================================
