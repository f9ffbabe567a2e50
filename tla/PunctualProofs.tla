--------------------------- MODULE PunctualProofs ---------------------------
(***************************************************************************)
(* Blocking calls keep their time, for every set of programs, tasks and    *)
(* queues and every width of the tick.  KernelProofs has shown that nobody *)
(* sleeps beyond its tick; here nobody is let go before it.                *)
(***************************************************************************)
EXTENDS KernelProofs

(* Blocking calls keep their time, in a program whose waits nobody         *)
(* crosses: who may clear notifications is the only one to wait for them,  *)
(* and with vTaskSuspend about nobody waits for one for ever.              *)

Uncrossed == \A t, u \in Task : Called(u, Waits) # {} =>
  /\ "nclear" \in scene.calls[t] => u = t
  /\ "suspend" \in scene.calls[t] => MaxTick \notin scene.waits[u]

\* What the call of a task was asked for: a time, or to wait for ever.
Finite(l) == l.api = "delay" \/ l.asked # MaxTick
Done(q, t, l) == Finite(l) /\ q.spent[t] >= l.asked

\* A sleeper has at least the time before it that it still has to wait.
Ahead(q, t) == q.wake[t] - q.tick + (IF q.at[t] = "overflow" THEN MaxTick + 1 ELSE 0)
Asleep(q, t, l) ==
  IF Finite(l) THEN q.at[t] \in {"delayed", "overflow"} /\ l.asked <= q.spent[t] + Ahead(q, t)
  ELSE q.at[t] = "suspended"

\* A wait for a queue measures its time with TimeOut_t, capped by the count.
Past(q, l) == (q.tick - l.entry.tick) % (MaxTick + 1)
Clocked(q, t, l) ==
  /\ q.spent[t] < l.asked => l.asked <= q.spent[t] + l.ticks - Past(q, l)
  /\ q.ovf # l.entry.ovf /\ q.tick >= l.entry.tick => q.spent[t] >= l.asked

Ends(p, l, last) == p = last \/ (p \in {"resume", "resumed"} /\ l.then = last)
Told(q, t, l) == q.ns[t] = "received" \/ (l.api = "ntake" /\ q.nv[t] # 0)

OnQueue(p) == p \in InQueue \cup {"resume", "resumed"}

LocalsOK(s, t, p, l) ==
  /\ {"api", "asked", "timed"} \subseteq DOMAIN l /\ l.asked \in Time /\ l.timed \in BOOLEAN
  /\ l.entry.tick \in Time
  /\ l.asked = MaxTick => MaxTick \in s.waits[t]
  /\ l.timed => OnQueue(p) \/ p \in {"app", "none"}
  /\ p \in {"delay", "nlook", "nhold", "narm", "nplace"} => l.ticks = l.asked
  /\ p = "delay" \/ Ends(p, l, "slept") => l.api = "delay"
  /\ p \in {"nlook", "nhold", "narm", "nplace"} \/ Ends(p, l, "nend") => l.api \in s.calls[t] \cap Waits
  /\ p \in InQueue => l.then \notin {"slept", "nend"}
  /\ p \in {"hold", "lock", "check", "test", "inherit", "place", "untx", "unrx", "expired"} => l.timed
  /\ p \in {"resume", "resumed"} /\ l.then \in {"try", "expired"} => l.timed
  /\ l.timed \/ p = "try" => l.api \notin Waits \cup {"delay"}
  /\ p = "try" /\ ~l.timed => l.ticks = l.asked
  /\ l.timed /\ l.ticks # 0 /\ l.asked = MaxTick => l.ticks = MaxTick

Patient(q, t, p, l) ==
  /\ Ends(p, l, "slept") => Done(q, t, l) \/ (Asleep(q, t, l) /\ q.ev[t] = "none")
  /\ p = "nplace" => q.ns[t] \in {"waiting", "received"}
  /\ Ends(p, l, "nend") => Told(q, t, l) \/ Done(q, t, l) \/ (Asleep(q, t, l) /\ q.ns[t] = "waiting")
  /\ OnQueue(p) /\ l.timed /\ l.ticks # 0 /\ l.asked # MaxTick => Clocked(q, t, l)
  /\ p \in {"untx", "unrx"} /\ l.then # "try" => Done(q, t, l)

Patience ==
  /\ k.spent \in [Task -> Nat] /\ DOMAIN k.nv = Task
  /\ \A t \in Task : LocalsOK(scene, t, pc[t], loc[t]) /\ Patient(k, t, pc[t], loc[t])

-----------------------------------------------------------------------------
(* What leaves the waits of the tasks alone.  A task may move when it is   *)
(* in a list of waiters, when it is suspended and waits for no             *)
(* notification, or when it does not sleep at all.                         *)

Undisturbed(q, r) ==
  /\ r.tick = q.tick /\ r.ovf = q.ovf /\ r.spent = q.spent /\ r.wake = q.wake
  /\ r.ns = q.ns /\ r.nv = q.nv /\ r.cur = q.cur
Alike(q, r) == Data(r) /\ Undisturbed(q, r) /\ r.at = q.at /\ r.ev = q.ev

Loose(q, u) ==
  \/ q.ev[u] # "none" \/ (q.at[u] = "suspended" /\ q.ns[u] # "waiting")
  \/ q.at[u] \notin {"delayed", "overflow", "suspended"}
Spares(q, r, u) ==
  /\ r.tick = q.tick /\ r.ovf = q.ovf /\ r.spent[u] = q.spent[u]
  /\ r.ns[u] = "received" \/ (r.ns[u] = q.ns[u] /\ r.nv[u] = q.nv[u])
  /\ \/ Loose(q, u) \/ (q.ns[u] = "waiting" /\ r.ns[u] = "received")
     \/ r.at[u] = q.at[u] /\ r.ev[u] = q.ev[u] /\ r.wake[u] = q.wake[u]
Gentle(q, r) ==
  DOMAIN r.nv = DOMAIN q.nv /\ r.spent = q.spent /\ \A u \in Task : Spares(q, r, u)

LEMMA SparesKeeps ==
  ASSUME NEW q, NEW r, NEW u, NEW p, NEW l, NEW x, Spares(q, r, u), NoteOK(q, u, p, l), LocalsOK(x, u, p, l),
         Patient(q, u, p, l)
  PROVE  Patient(r, u, p, l)
<1>1. (Done(q, u, l) <=> Done(r, u, l)) /\ (Clocked(q, u, l) <=> Clocked(r, u, l))
  BY DEF Spares, Done, Clocked, Past
<1>2. Told(q, u, l) => Told(r, u, l)
  BY DEF Spares, Told
<1>3. Asleep(q, u, l) /\ r.at[u] = q.at[u] /\ r.wake[u] = q.wake[u] => Asleep(r, u, l)
  BY DEF Spares, Asleep, Ahead
<1>4. CASE Ends(p, l, "slept")
  <2>1. Finite(l) /\ q.ns[u] # "waiting"
    BY <1>4 DEF LocalsOK, Finite, Ends, NoteOK
  <2>2. ~Ends(p, l, "nend") /\ p \notin {"nplace", "untx", "unrx"}
    BY <1>4 DEF Ends
  <2>3. Asleep(q, u, l) /\ q.ev[u] = "none" => Asleep(r, u, l) /\ r.ev[u] = "none"
    BY <1>3, <2>1 DEF Spares, Loose, Asleep
  <2> QED BY <1>1, <2>2, <2>3 DEF Patient
<1>5. CASE Ends(p, l, "nend")
  <2>1. ~Ends(p, l, "slept") /\ p \notin {"nplace", "untx", "unrx"}
    BY <1>5 DEF Ends
  <2>2. Asleep(q, u, l) /\ q.ns[u] = "waiting" => Told(r, u, l) \/ (Asleep(r, u, l) /\ r.ns[u] = "waiting")
    BY <1>3 DEF Spares, Loose, Asleep, NoteOK, Told
  <2> QED BY <1>1, <1>2, <2>1, <2>2 DEF Patient
<1>6. CASE ~Ends(p, l, "slept") /\ ~Ends(p, l, "nend")
  BY <1>1, <1>6 DEF Patient, Spares
<1> QED BY <1>4, <1>5, <1>6

LEMMA SparesTwice ==
  ASSUME NEW q, NEW r, NEW s, NEW u, Spares(q, r, u), Spares(r, s, u)
  PROVE  Spares(q, s, u)
<1>1. /\ s.tick = q.tick /\ s.ovf = q.ovf /\ s.spent[u] = q.spent[u]
      /\ s.ns[u] = "received" \/ (s.ns[u] = q.ns[u] /\ s.nv[u] = q.nv[u])
  BY DEF Spares
<1>2. \/ Loose(q, u) \/ (q.ns[u] = "waiting" /\ s.ns[u] = "received")
      \/ s.at[u] = q.at[u] /\ s.ev[u] = q.ev[u] /\ s.wake[u] = q.wake[u]
  BY DEF Spares, Loose
<1> QED BY <1>1, <1>2 DEF Spares

LEMMA GentleTwice == ASSUME NEW q, NEW r, NEW s, Gentle(q, r), Gentle(r, s) PROVE Gentle(q, s)
BY SparesTwice DEF Gentle

LEMMA GentleItself == ASSUME NEW q PROVE Gentle(q, q)
BY DEF Gentle, Spares

LEMMA AlikeGentle == ASSUME NEW q, NEW r, Alike(q, r) PROVE Gentle(q, r)
BY DEF Alike, Undisturbed, Gentle, Spares

LEMMA AlikeTwice == ASSUME NEW q, NEW r, NEW s, Alike(q, r), Alike(r, s) PROVE Alike(q, s)
BY DEF Alike, Undisturbed

LEMMA StillTwice == ASSUME NEW q, NEW r, NEW s, Undisturbed(q, r), Undisturbed(r, s) PROVE Undisturbed(q, s)
BY DEF Undisturbed

\* One task moves, and it may.
LEMMA MovesGentle ==
  ASSUME NEW q, NEW r, NEW t, Undisturbed(q, r), \A u \in Task : u # t => r.at[u] = q.at[u] /\ r.ev[u] = q.ev[u],
         t \in Task => Loose(q, t)
  PROVE  Gentle(q, r)
BY DEF Undisturbed, Gentle, Spares

-----------------------------------------------------------------------------
(* The helpers, seen from the waits.                                       *)

LEMMA UnlistStill ==
  ASSUME NEW q, Data(q), NEW t
  PROVE  LET r == Unlist(q, t)
         IN  Data(r) /\ Undisturbed(q, r) /\ r.at = [q.at EXCEPT ![t] = "none"] /\ r.ev = q.ev /\ r.prio = q.prio
BY ZenonT(40) DEF Data, Fields, Unlist, Undisturbed

LEMMA AddReadyStill ==
  ASSUME NEW q, Data(q), NEW t
  PROVE  LET r == AddReady(q, t)
         IN  Data(r) /\ Undisturbed(q, r) /\ r.at = [q.at EXCEPT ![t] = "ready"] /\ r.ev = q.ev /\ r.prio = q.prio
BY ZenonT(40) DEF Data, Fields, AddReady, Undisturbed

LEMMA UnwaitStill ==
  ASSUME NEW q, Data(q), NEW t
  PROVE  LET r == Unwait(q, t)
         IN  /\ Data(r) /\ Undisturbed(q, r) /\ r.at = q.at /\ r.prio = q.prio
             /\ r.ev \in {q.ev, [q.ev EXCEPT ![t] = "none"]}
<1>1. CASE q.ev[t] = "none"
  <2>1. Unwait(q, t) = q
    BY <1>1 DEF Unwait
  <2> QED BY <2>1 DEF Undisturbed
<1>2. CASE q.ev[t] # "none"
  BY <1>2, ZenonT(40) DEF Data, Fields, Unwait, Undisturbed
<1> QED BY <1>1, <1>2

LEMMA PendStill ==
  ASSUME NEW q, Data(q), NEW t
  PROVE  LET r == Pend(q, t)
         IN  /\ Data(r) /\ Undisturbed(q, r) /\ r.at = q.at /\ r.prio = q.prio
             /\ r.ev = [q.ev EXCEPT ![t] = "pending"]
BY ZenonT(40) DEF Data, Fields, Pend, Undisturbed

LEMMA ResetNextAlike == ASSUME NEW q, Data(q) PROVE Alike(q, ResetNext(q))
BY ZenonT(40) DEF Data, Fields, ResetNext, Undisturbed, Alike

LEMMA YieldAlike == ASSUME NEW q, Data(q) PROVE Alike(q, Yield(q))
BY ZenonT(40) DEF Data, Fields, Yield, Undisturbed, Alike

LEMMA OweAlike == ASSUME NEW q, Data(q), NEW t PROVE Alike(q, Owe(q, t))
BY ZenonT(40) DEF Data, Fields, Owe, Undisturbed, Alike

LEMMA YieldsToAlike == ASSUME NEW q, Data(q), NEW t PROVE Alike(q, YieldsTo(q, t))
<1>1. Alike(q, Yield(q))
  BY YieldAlike
<1>2. Alike(q, q)
  BY DEF Alike, Undisturbed
<1> QED BY <1>1, <1>2 DEF YieldsTo

LEMMA RevalueAlike == ASSUME NEW q, Data(q), NEW t, NEW p PROVE Alike(q, Revalue(q, t, p))
BY ZenonT(40) DEF Data, Fields, Revalue, Undisturbed, Alike

LEMMA SuspendAlike == ASSUME NEW q, Data(q) PROVE Alike(q, SuspendedAll(q))
BY ZenonT(40) DEF Data, Fields, SuspendedAll, Undisturbed, Alike

LEMMA PendedAlike == ASSUME NEW q, Data(q), NEW n PROVE Alike(q, [q EXCEPT !.pended = n])
BY ZenonT(40) DEF Data, Fields, Undisturbed, Alike

LEMMA HeldAlike == ASSUME NEW q, Data(q), NEW t, NEW n PROVE Alike(q, [q EXCEPT !.held[t] = n])
BY ZenonT(40) DEF Data, Fields, Undisturbed, Alike

LEMMA LoopAlike == ASSUME NEW q, Data(q), NEW o PROVE Alike(q, [q EXCEPT !.loop = o])
BY ZenonT(40) DEF Data, Fields, Undisturbed, Alike

LEMMA PrioAlike == ASSUME NEW q, Data(q), NEW t, NEW p PROVE Alike(q, [q EXCEPT !.prio[t] = p])
BY ZenonT(40) DEF Data, Fields, Undisturbed, Alike

LEMMA BaseAlike == ASSUME NEW q, Data(q), NEW t, NEW p PROVE Alike(q, [q EXCEPT !.base[t] = p])
BY ZenonT(40) DEF Data, Fields, Undisturbed, Alike

LEMMA ValueAlike == ASSUME NEW q, Data(q), NEW t, NEW p PROVE Alike(q, [q EXCEPT !.evp[t] = p])
BY ZenonT(40) DEF Data, Fields, Undisturbed, Alike

\* A task that may move becomes ready.
LEMMA ReadyStill ==
  ASSUME NEW q, Data(q), DOMAIN q.at = Task, NEW t
  PROVE  LET r == AddReady(Unlist(q, t), t)
         IN  /\ Data(r) /\ Undisturbed(q, r) /\ DOMAIN r.at = Task /\ r.ev = q.ev /\ r.prio = q.prio
             /\ \A u \in Task : r.at[u] = IF u = t THEN "ready" ELSE q.at[u]
<1> DEFINE v == Unlist(q, t)
           r == AddReady(v, t)
<1>1. Data(v) /\ Undisturbed(q, v) /\ v.at = [q.at EXCEPT ![t] = "none"] /\ v.ev = q.ev /\ v.prio = q.prio
  BY UnlistStill, Zenon
<1> HIDE DEF v
<1>2. Data(r) /\ Undisturbed(v, r) /\ r.at = [v.at EXCEPT ![t] = "ready"] /\ r.ev = v.ev /\ r.prio = v.prio
  BY <1>1, AddReadyStill, Zenon
<1> HIDE DEF r
<1>3. Undisturbed(q, r)
  BY <1>1, <1>2, StillTwice
<1>4. DOMAIN r.at = Task /\ \A u \in Task : r.at[u] = IF u = t THEN "ready" ELSE q.at[u]
  BY <1>1, <1>2
<1> QED BY <1>1, <1>2, <1>3, <1>4 DEF r, v

LEMMA ReadyGentle ==
  ASSUME NEW q, Data(q), DOMAIN q.at = Task, NEW t, t \in Task => Loose(q, t)
  PROVE  LET r == AddReady(Unlist(q, t), t)
         IN  Data(r) /\ Gentle(q, r) /\ DOMAIN r.at = Task /\ r.cur = q.cur
<1> DEFINE r == AddReady(Unlist(q, t), t)
<1>1. /\ Data(r) /\ Undisturbed(q, r) /\ DOMAIN r.at = Task /\ r.ev = q.ev
      /\ \A u \in Task : r.at[u] = IF u = t THEN "ready" ELSE q.at[u]
  BY ReadyStill
<1> HIDE DEF r
<1>2. Gentle(q, r)
  BY <1>1, MovesGentle
<1> QED BY <1>1, <1>2 DEF r, Undisturbed

LEMMA ReprioGentle ==
  ASSUME NEW q, Data(q), DOMAIN q.at = Task, NEW t, NEW p
  PROVE  LET r == Reprio(q, t, p)
         IN  Data(r) /\ Undisturbed(q, r) /\ DOMAIN r.at = Task /\ r.ev = q.ev /\ \A u \in Task : r.at[u] = q.at[u]
<1> DEFINE r == Reprio(q, t, p)
<1>1. CASE q.at[t] = "ready"
  <2> DEFINE v == Unlist(q, t)
             w == [v EXCEPT !.prio[t] = p]
  <2>1. Data(v) /\ Undisturbed(q, v) /\ v.at = [q.at EXCEPT ![t] = "none"] /\ v.ev = q.ev
    BY UnlistStill, Zenon
  <2> HIDE DEF v
  <2>2. Alike(v, w)
    BY <2>1, PrioAlike, Zenon
  <2> HIDE DEF w
  <2>3. r = AddReady(w, t)
    BY <1>1 DEF Reprio, w, v
  <2> HIDE DEF r
  <2>4. Data(w)
    BY <2>2 DEF Alike
  <2>5. Data(r) /\ Undisturbed(w, r) /\ r.at = [w.at EXCEPT ![t] = "ready"] /\ r.ev = w.ev
    BY <2>3, <2>4, AddReadyStill, Zenon
  <2>6. Undisturbed(q, r)
    BY <2>1, <2>2, <2>5, StillTwice DEF Alike
  <2>7. r.at = [[q.at EXCEPT ![t] = "none"] EXCEPT ![t] = "ready"]
    BY <2>1, <2>2, <2>5 DEF Alike
  <2>8. DOMAIN r.at = Task /\ \A u \in Task : r.at[u] = q.at[u]
    BY <1>1, <2>7
  <2>9. r.ev = q.ev
    BY <2>1, <2>2, <2>5 DEF Alike
  <2> QED BY <2>5, <2>6, <2>8, <2>9 DEF r
<1>2. CASE q.at[t] # "ready"
  <2>1. r = [q EXCEPT !.prio[t] = p]
    BY <1>2 DEF Reprio
  <2> HIDE DEF r
  <2>2. Alike(q, r)
    BY <2>1, PrioAlike, Zenon
  <2> QED BY <2>2 DEF Alike, r
<1> QED BY <1>1, <1>2

LEMMA DataOf == ASSUME NEW q, Good(q) PROVE Data(q) /\ DOMAIN q.at = Task /\ DOMAIN q.ev = Task /\ q.cur \in Task /\ q.tick \in Time
BY DEF Good, Shape, ListTypes, SwitchTypes, TimeTypes, WaitTypes

LEMMA RemoveGentle ==
  ASSUME NEW q, Good(q), NEW l \in EventList, q.wait[l] # <<>>
  PROVE  LET r == RemoveFromEventList(q, l) IN Data(r) /\ Gentle(q, r)
<1> DEFINE t == Woken(q, l)
           u == Unwait(q, t)
           a == AddReady(Unlist(u, t), t)
           b == Pend(u, t)
           v == IF q.susp = 0 THEN a ELSE b
           r == Owe(v, t)
<1>1. t \in Task /\ q.ev[t] # "none"
  <2>1. l \in Lists /\ l # "none"
    BY SchedulerAssumption DEF Lists
  <2> QED BY <2>1, HeadWaits DEF Woken
<1> HIDE DEF t
<1>2. /\ Data(u) /\ Undisturbed(q, u) /\ u.at = q.at
      /\ u.ev \in {q.ev, [q.ev EXCEPT ![t] = "none"]}
  BY DataOf, UnwaitStill
<1> HIDE DEF u
<1>3. /\ DOMAIN u.at = Task /\ DOMAIN u.ev = Task
      /\ \A x \in Task : x # t => u.ev[x] = q.ev[x] /\ u.at[x] = q.at[x]
  BY <1>2, DataOf
<1>4. Data(v) /\ Undisturbed(q, v) /\ \A x \in Task : x # t => v.at[x] = q.at[x] /\ v.ev[x] = q.ev[x]
  <2>1. CASE q.susp = 0
    <3>1. /\ Data(a) /\ Undisturbed(u, a) /\ a.ev = u.ev
          /\ \A x \in Task : a.at[x] = IF x = t THEN "ready" ELSE u.at[x]
      BY <1>2, <1>3, ReadyStill
    <3> HIDE DEF a
    <3>2. Undisturbed(q, a)
      BY <1>2, <3>1, StillTwice
    <3> QED BY <1>3, <2>1, <3>1, <3>2
  <2>2. CASE q.susp # 0
    <3>1. Data(b) /\ Undisturbed(u, b) /\ b.at = u.at /\ b.ev = [u.ev EXCEPT ![t] = "pending"]
      BY <1>2, PendStill
    <3> HIDE DEF b
    <3>2. Undisturbed(q, b)
      BY <1>2, <3>1, StillTwice
    <3> QED BY <1>3, <2>2, <3>1, <3>2
  <2> QED BY <2>1, <2>2
<1>5. RemoveFromEventList(q, l) = r
  BY DEF RemoveFromEventList, t, u, v, a, b, r
<1> HIDE DEF v
<1>6. Gentle(q, v)
  <2>1. Loose(q, t)
    BY <1>1 DEF Loose
  <2> QED BY <1>4, <2>1, MovesGentle
<1>7. Alike(v, r)
  BY <1>4, OweAlike
<1> HIDE DEF r
<1> QED BY <1>5, <1>6, <1>7, AlikeGentle, GentleTwice DEF Alike

LEMMA WakeFirstGentle ==
  ASSUME NEW q, Good(q), NEW l \in EventList
  PROVE  Gentle(q, WakeFirst(q, l))
<1>1. CASE q.wait[l] = <<>>
  <2>1. WakeFirst(q, l) = q
    BY <1>1 DEF WakeFirst
  <2> QED BY <2>1, GentleItself
<1>2. CASE q.wait[l] # <<>>
  <2> DEFINE u == RemoveFromEventList(q, l)
  <2>1. Data(u) /\ Gentle(q, u)
    BY <1>2, RemoveGentle
  <2>2. WakeFirst(q, l) = Yield(u) \/ WakeFirst(q, l) = u
    BY <1>2 DEF WakeFirst
  <2> HIDE DEF u
  <2>3. Gentle(u, Yield(u))
    BY <2>1, YieldAlike, AlikeGentle
  <2> QED BY <2>1, <2>2, <2>3, GentleTwice
<1> QED BY <1>1, <1>2

LEMMA ReprioAllGentle ==
  ASSUME NEW q, Data(q), DOMAIN q.at = Task, NEW t, NEW p
  PROVE  LET r == Reprio(q, t, p) IN Data(r) /\ Gentle(q, r) /\ DOMAIN r.at = Task
<1> DEFINE r == Reprio(q, t, p)
<1>1. Data(r) /\ Undisturbed(q, r) /\ DOMAIN r.at = Task /\ r.ev = q.ev /\ \A u \in Task : r.at[u] = q.at[u]
  BY ReprioGentle
<1> HIDE DEF r
<1>2. Gentle(q, r)
  BY <1>1 DEF Undisturbed, Gentle, Spares
<1> QED BY <1>1, <1>2 DEF r

LEMMA PriorityInheritGentle ==
  ASSUME NEW q, Data(q), DOMAIN q.at = Task, NEW h
  PROVE  Gentle(q, PriorityInherit(q, h))
<1> DEFINE p == q.prio[q.cur]
           u == Revalue(q, h, p)
<1>1. Alike(q, u)
  BY RevalueAlike
<1>2. PriorityInherit(q, h) = q \/ PriorityInherit(q, h) = Reprio(u, h, p)
  BY DEF PriorityInherit
<1> HIDE DEF u, p
<1>3. Data(u) /\ DOMAIN u.at = Task /\ Gentle(q, u)
  BY <1>1, AlikeGentle DEF Alike
<1>4. Gentle(u, Reprio(u, h, p))
  BY <1>3, ReprioAllGentle
<1>5. Gentle(q, Reprio(u, h, p))
  BY <1>3, <1>4, GentleTwice
<1> QED BY <1>2, <1>5, GentleItself

LEMMA DisinheritGentle ==
  ASSUME NEW q, Data(q), DOMAIN q.at = Task, NEW h, NEW highest
  PROVE  Gentle(q, DisinheritAfterTimeout(q, h, highest))
<1> DEFINE p == IF q.base[h] < highest THEN highest ELSE q.base[h]
           u == Revalue(q, h, p)
<1>1. DisinheritAfterTimeout(q, h, highest) = q \/ DisinheritAfterTimeout(q, h, highest) = Reprio(u, h, p)
  BY DEF DisinheritAfterTimeout
<1> HIDE DEF p
<1>2. Alike(q, u)
  BY RevalueAlike
<1> HIDE DEF u
<1>3. Data(u) /\ DOMAIN u.at = Task /\ Gentle(q, u)
  BY <1>2, AlikeGentle DEF Alike
<1>4. Gentle(u, Reprio(u, h, p))
  BY <1>3, ReprioAllGentle
<1>5. Gentle(q, Reprio(u, h, p))
  BY <1>3, <1>4, GentleTwice
<1> QED BY <1>1, <1>5, GentleItself

LEMMA PriorityDisinheritGentle ==
  ASSUME NEW q, Data(q), DOMAIN q.at = Task, NEW h
  PROVE  Gentle(q, PriorityDisinherit(q, h))
<1> DEFINE n == q.held[h] - 1
           u == [q EXCEPT !.held[h] = n]
           p == q.base[h]
           v == Reprio(u, h, p)
           w == [v EXCEPT !.evp[h] = p]
<1>1. PriorityDisinherit(q, h) = u \/ PriorityDisinherit(q, h) = w
  BY DEF PriorityDisinherit
<1> HIDE DEF n, p
<1>2. Alike(q, u)
  BY HeldAlike, Zenon
<1> HIDE DEF u
<1>3. Data(u) /\ DOMAIN u.at = Task /\ Gentle(q, u)
  BY <1>2, AlikeGentle DEF Alike
<1>4. Data(v) /\ Gentle(u, v)
  BY <1>3, ReprioAllGentle
<1> HIDE DEF v
<1>5. Gentle(v, w)
  BY <1>4, ValueAlike, AlikeGentle, Zenon
<1> HIDE DEF w
<1>6. Gentle(q, w)
  BY <1>3, <1>4, <1>5, GentleTwice
<1> QED BY <1>1, <1>3, <1>6

-----------------------------------------------------------------------------
(* A notification.                                                         *)

LEMMA GivenSpares ==
  ASSUME NEW q, Good(q), DOMAIN q.nv = Task, NEW x \in Task, NEW a, NEW v
  PROVE  LET u == Given(q, x, a, v)
         IN  /\ Data(u) /\ DOMAIN u.at = Task /\ u.at = q.at /\ u.ev = q.ev /\ u.ns[x] = "received" /\ Gentle(q, u)
             /\ u.susp = q.susp /\ DOMAIN u.ev = Task
<1> DEFINE n == NewValue(q, x, a, v)
           s == "received"
           u == [q EXCEPT !.ns[x] = s, !.nv[x] = n]
<1>0. Data(q) /\ DOMAIN q.at = Task /\ DOMAIN q.ev = Task /\ q.ns \in [Task -> {"not", "waiting", "received"}]
  BY DataOf DEF Good, Shape, NoteTypes
<1>1. Given(q, x, a, v) = u
  BY DEF Given
<1> HIDE DEF n, s
<1>2. /\ Data(u) /\ u.at = q.at /\ u.ev = q.ev /\ u.ns = [q.ns EXCEPT ![x] = s] /\ u.nv = [q.nv EXCEPT ![x] = n]
      /\ u.tick = q.tick /\ u.ovf = q.ovf /\ u.spent = q.spent /\ u.wake = q.wake /\ u.susp = q.susp
  BY <1>0, ZenonT(40) DEF Data, Fields
<1> HIDE DEF u
<1>3. u.ns[x] = "received"
  BY <1>0, <1>2 DEF s
<1>4. ASSUME NEW y \in Task PROVE Spares(q, u, y)
  <2>1. CASE y = x
    BY <1>2, <1>3, <2>1 DEF Spares
  <2>2. CASE y # x
    <3>1. u.ns[y] = q.ns[y] /\ u.nv[y] = q.nv[y]
      BY <1>0, <1>2, <2>2
    <3> QED BY <1>2, <3>1 DEF Spares
  <2> QED BY <2>1, <2>2
<1>5. Gentle(q, u)
  BY <1>2, <1>4 DEF Gentle
<1> QED BY <1>0, <1>1, <1>2, <1>3, <1>5

\* The waiter gets ready, or is pending.
LEMMA AnsweredGentle ==
  ASSUME NEW q, NEW u, Gentle(q, u), NEW r, Undisturbed(u, r), NEW x \in Task, q.ns[x] = "waiting", u.ns[x] = "received",
         \A y \in Task : y # x => r.at[y] = u.at[y] /\ r.ev[y] = u.ev[y]
  PROVE  Gentle(q, r)
<1>1. ASSUME NEW y \in Task, y # x PROVE Spares(q, r, y)
  <2>1. Spares(q, u, y) /\ Spares(u, r, y)
    BY <1>1 DEF Gentle, Spares, Undisturbed
  <2> QED BY <2>1, SparesTwice
<1>2. Spares(q, r, x)
  BY DEF Gentle, Spares, Undisturbed
<1>3. DOMAIN r.nv = DOMAIN q.nv /\ r.spent = q.spent
  BY DEF Gentle, Undisturbed
<1> QED BY <1>1, <1>2, <1>3 DEF Gentle

LEMMA NotifiedGentle ==
  ASSUME NEW q, Good(q), DOMAIN q.nv = Task, NEW x \in Task, NEW a, NEW v
  PROVE  Gentle(q, Notified(q, x, a, v))
<1> DEFINE u == Given(q, x, a, v)
           r == AddReady(Unlist(u, x), x)
           s == YieldsTo(r, x)
<1>1. Data(u) /\ DOMAIN u.at = Task /\ DOMAIN u.ev = Task /\ u.ns[x] = "received" /\ Gentle(q, u)
  BY GivenSpares
<1>2. Notified(q, x, a, v) = IF q.ns[x] = "waiting" THEN s ELSE u
  BY DEF Notified
<1> HIDE DEF u
<1>3. CASE q.ns[x] = "waiting"
  <2>1. /\ Data(r) /\ Undisturbed(u, r) /\ r.ev = u.ev
        /\ \A y \in Task : r.at[y] = IF y = x THEN "ready" ELSE u.at[y]
    BY <1>1, ReadyStill
  <2> HIDE DEF r
  <2>2. Gentle(q, r)
    BY <1>1, <1>3, <2>1, AnsweredGentle
  <2>3. Gentle(r, s)
    BY <2>1, YieldsToAlike, AlikeGentle
  <2> QED BY <1>2, <1>3, <2>2, <2>3, GentleTwice
<1>4. CASE q.ns[x] # "waiting"
  BY <1>1, <1>2, <1>4
<1> QED BY <1>3, <1>4

LEMMA NotifiedFromISRGentle ==
  ASSUME NEW q, Good(q), DOMAIN q.nv = Task, NEW x \in Task, NEW a, NEW v
  PROVE  Gentle(q, NotifiedFromISR(q, x, a, v))
<1> DEFINE u == Given(q, x, a, v)
           b == AddReady(Unlist(u, x), x)
           c == Pend(u, x)
           r == IF q.susp = 0 THEN b ELSE c
           o == Owe(r, x)
           s == YieldsTo(o, x)
<1>1. Data(u) /\ DOMAIN u.at = Task /\ DOMAIN u.ev = Task /\ u.ns[x] = "received" /\ Gentle(q, u)
  BY GivenSpares
<1>2. NotifiedFromISR(q, x, a, v) = IF q.ns[x] # "waiting" THEN u ELSE s
  BY DEF NotifiedFromISR
<1> HIDE DEF u
<1>3. CASE q.ns[x] = "waiting"
  <2>1. Data(r) /\ Undisturbed(u, r) /\ \A y \in Task : y # x => r.at[y] = u.at[y] /\ r.ev[y] = u.ev[y]
    <3>1. CASE q.susp = 0
      <4>1. /\ Data(b) /\ Undisturbed(u, b) /\ b.ev = u.ev
            /\ \A y \in Task : b.at[y] = IF y = x THEN "ready" ELSE u.at[y]
        BY <1>1, ReadyStill
      <4> HIDE DEF b
      <4> QED BY <3>1, <4>1
    <3>2. CASE q.susp # 0
      <4>1. Data(c) /\ Undisturbed(u, c) /\ c.at = u.at /\ c.prio = u.prio /\ c.ev = [u.ev EXCEPT ![x] = "pending"]
        BY <1>1, PendStill, Zenon
      <4> HIDE DEF b, c
      <4>2. r = c
        BY <3>2
      <4> HIDE DEF r
      <4> QED BY <1>1, <4>1, <4>2
    <3> QED BY <3>1, <3>2
  <2> HIDE DEF r
  <2>2. Gentle(q, r)
    BY <1>1, <1>3, <2>1, AnsweredGentle
  <2>3. Alike(r, o)
    BY <2>1, OweAlike
  <2> HIDE DEF o
  <2>4. Alike(o, s)
    BY <2>3, YieldsToAlike DEF Alike
  <2> HIDE DEF s
  <2>5. Gentle(q, s)
    BY <2>2, <2>3, <2>4, AlikeGentle, GentleTwice
  <2> QED BY <1>2, <1>3, <2>5
<1>4. CASE q.ns[x] # "waiting"
  BY <1>1, <1>2, <1>4
<1> QED BY <1>3, <1>4

-----------------------------------------------------------------------------
(* Time.                                                                   *)

LEMMA PastIs ==
  ASSUME NEW q, q.tick \in Time, NEW l, l.entry.tick \in Time
  PROVE  /\ Past(q, l) = IF q.tick >= l.entry.tick THEN q.tick - l.entry.tick
                         ELSE q.tick - l.entry.tick + MaxTick + 1
         /\ Past(q, l) \in 0..MaxTick
<1> DEFINE a == q.tick
           b == l.entry.tick
<1>1. PICK n \in Nat : n = MaxTick + 1
  BY SchedulerAssumption
<1>2. a \in 0..MaxTick /\ b \in 0..MaxTick /\ MaxTick \in Nat
  BY SchedulerAssumption DEF Time
<1>3. Past(q, l) = (a - b) % n
  BY <1>1 DEF Past
<1> HIDE DEF a, b
<1>4. (a - b) % n = IF a >= b THEN a - b ELSE a - b + n
  <2>1. CASE a >= b
    <3>1. a - b \in 0..(n - 1)
      BY <1>1, <1>2, <2>1
    <3> QED BY <1>1, <2>1, <3>1
  <2>2. CASE ~(a >= b)
    <3>1. a - b + n \in 0..(n - 1) /\ a - b \in Int
      BY <1>1, <1>2, <2>2
    <3> QED BY <1>1, <1>2, <2>2, <3>1
  <2> QED BY <2>1, <2>2
<1>5. (IF a >= b THEN a - b ELSE a - b + n) \in 0..MaxTick
  BY <1>1, <1>2
<1>6. (IF a >= b THEN a - b ELSE a - b + n) = IF a >= b THEN a - b ELSE a - b + MaxTick + 1
  BY <1>1, <1>2
<1> QED BY <1>3, <1>4, <1>5, <1>6 DEF a, b

\* The running task goes to sleep for the time it asks for.
Sleeps(r, t, ticks, forever) ==
  IF ticks = MaxTick /\ forever THEN r.at[t] = "suspended"
  ELSE r.at[t] \in {"delayed", "overflow"} /\ Ahead(r, t) = ticks

LEMMA AddCurrentIs ==
  ASSUME NEW q, Good(q), NEW ticks \in Time, ticks # 0, NEW forever
  PROVE  LET r == AddCurrentToDelayed(q, ticks, forever)
         IN  /\ Data(r) /\ r.spent = q.spent /\ r.nv = q.nv /\ r.ns = q.ns /\ r.ev = q.ev
             /\ r.tick = q.tick /\ r.ovf = q.ovf
             /\ \A u \in Task : u # q.cur => Spares(q, r, u)
             /\ Sleeps(r, q.cur, ticks, forever)
<1> DEFINE r == AddCurrentToDelayed(q, ticks, forever)
           t == q.cur
           u == Unlist(q, t)
           w == (q.tick + ticks) % (MaxTick + 1)
           d == [u EXCEPT !.wake[t] = w]
           s1 == [u EXCEPT !.at[t] = "suspended"]
           s2 == [d EXCEPT !.overflow = InsertSorted(@, t, d.wake), !.at[t] = "overflow"]
           s3 == [d EXCEPT !.delayed = InsertSorted(@, t, d.wake), !.at[t] = "delayed",
                           !.next = IF w < @ THEN w ELSE @]
           Known(z) == /\ Data(z) /\ z.tick = q.tick /\ z.ovf = q.ovf /\ z.spent = q.spent /\ z.ns = q.ns /\ z.nv = q.nv
                       /\ z.ev = q.ev
<1>1. t \in Task /\ q.tick \in Time /\ q.at \in [Task -> Places] /\ q.wake \in [Task -> Time] /\ Data(q)
  BY DataOf DEF Good, Shape, TimeTypes, ListTypes
<1>2. Data(u) /\ Undisturbed(q, u) /\ u.at = [q.at EXCEPT ![t] = "none"] /\ u.ev = q.ev /\ u.prio = q.prio
  BY <1>1, UnlistStill, Zenon
<1>3. /\ MaxTick \in Nat /\ w \in 0..MaxTick
      /\ w = IF q.tick + ticks <= MaxTick THEN q.tick + ticks ELSE q.tick + ticks - (MaxTick + 1)
  <2>1. MaxTick \in Nat
    BY SchedulerAssumption
  <2> QED BY <1>1, <2>1, WrapSum, Zenon DEF Time
<1>4. r = IF ticks = MaxTick /\ forever THEN s1 ELSE IF w < q.tick THEN s2 ELSE s3
  BY DEF AddCurrentToDelayed
<1> HIDE DEF r, u, w, t
<1>5. Known(u) /\ u.wake = q.wake
  BY <1>2 DEF Undisturbed
<1>6. Known(d) /\ d.at = u.at /\ d.wake = [q.wake EXCEPT ![t] = w]
  BY <1>5, ZenonT(40) DEF Data, Fields
<1>7. Known(s1) /\ s1.at = [u.at EXCEPT ![t] = "suspended"] /\ s1.wake = q.wake
  BY <1>5, ZenonT(40) DEF Data, Fields
<1> DEFINE o == InsertSorted(d.overflow, t, d.wake)
           e == InsertSorted(d.delayed, t, d.wake)
           x == IF w < d.next THEN w ELSE d.next
<1>8. /\ s2 = [d EXCEPT !.overflow = o, !.at[t] = "overflow"]
      /\ s3 = [d EXCEPT !.delayed = e, !.at[t] = "delayed", !.next = x]
  OBVIOUS
<1> HIDE DEF d, o, e, x, s2, s3
<1>9. Known(s2) /\ s2.at = [d.at EXCEPT ![t] = "overflow"] /\ s2.wake = d.wake
  BY <1>6, <1>8, ZenonT(40) DEF Data, Fields
<1>10. Known(s3) /\ s3.at = [d.at EXCEPT ![t] = "delayed"] /\ s3.wake = d.wake
  BY <1>6, <1>8, ZenonT(40) DEF Data, Fields
<1> HIDE DEF s1
<1>11. CASE ticks = MaxTick /\ forever
  <2>1. r = s1
    BY <1>4, <1>11
  <2>2. r.at[t] = "suspended" /\ \A y \in Task : y # t => r.at[y] = q.at[y] /\ r.wake[y] = q.wake[y]
    BY <1>1, <1>2, <1>7, <2>1
  <2>3. \A y \in Task : y # t => Spares(q, r, y)
    BY <1>7, <2>1, <2>2 DEF Spares
  <2>4. Sleeps(r, t, ticks, forever)
    BY <1>11, <2>2 DEF Sleeps
  <2> QED BY <1>7, <2>1, <2>3, <2>4 DEF r, t
<1>12. CASE ~(ticks = MaxTick /\ forever) /\ w < q.tick
  <2>1. r = s2
    BY <1>4, <1>12
  <2>2. /\ r.at[t] = "overflow" /\ r.wake[t] = w /\ r.tick = q.tick
        /\ \A y \in Task : y # t => r.at[y] = q.at[y] /\ r.wake[y] = q.wake[y]
    BY <1>1, <1>2, <1>6, <1>9, <2>1
  <2>3. \A y \in Task : y # t => Spares(q, r, y)
    BY <1>9, <2>1, <2>2 DEF Spares
  <2>4. Ahead(r, t) = ticks
    BY <1>1, <1>3, <1>12, <2>2 DEF Ahead, Time
  <2>5. Sleeps(r, t, ticks, forever)
    BY <1>12, <2>2, <2>4 DEF Sleeps
  <2> QED BY <1>9, <2>1, <2>3, <2>5 DEF r, t
<1>13. CASE ~(ticks = MaxTick /\ forever) /\ ~(w < q.tick)
  <2>1. r = s3
    BY <1>4, <1>13
  <2>2. /\ r.at[t] = "delayed" /\ r.wake[t] = w /\ r.tick = q.tick
        /\ \A y \in Task : y # t => r.at[y] = q.at[y] /\ r.wake[y] = q.wake[y]
    BY <1>1, <1>2, <1>6, <1>10, <2>1
  <2>3. \A y \in Task : y # t => Spares(q, r, y)
    BY <1>10, <2>1, <2>2 DEF Spares
  <2>4. Ahead(r, t) = ticks
    BY <1>1, <1>3, <1>13, <2>2 DEF Ahead, Time
  <2>5. Sleeps(r, t, ticks, forever)
    BY <1>13, <2>2, <2>4 DEF Sleeps
  <2> QED BY <1>10, <2>1, <2>3, <2>5 DEF r, t
<1> QED BY <1>11, <1>12, <1>13

LEMMA PlaceSpares ==
  ASSUME NEW q, Good(q), NEW l \in EventList, q.ev[q.cur] = "none", NEW ticks \in Time, ticks # 0
  PROVE  LET r == PlaceOnEventList(q, l, ticks)
         IN  /\ r.spent = q.spent /\ r.nv = q.nv /\ r.tick = q.tick /\ r.ovf = q.ovf
             /\ \A u \in Task : u # q.cur => Spares(q, r, u)
<1> DEFINE t == q.cur
           e == InsertSorted(q.wait[l], t, [u \in Task |-> MaxPrio - q.evp[u]])
           v == [q EXCEPT !.wait[l] = e, !.ev[t] = l]
           r == AddCurrentToDelayed(v, ticks, TRUE)
<1>0. Data(q) /\ DOMAIN q.ev = Task
  BY DataOf
<1>1. Good(v)
  BY PlaceGood
<1>2. PlaceOnEventList(q, l, ticks) = r
  BY DEF PlaceOnEventList
<1> HIDE DEF e, t
<1>3. Undisturbed(q, v) /\ v.at = q.at /\ v.ev = [q.ev EXCEPT ![t] = l]
  BY <1>0, ZenonT(40) DEF Data, Fields, Undisturbed
<1> HIDE DEF v
<1>4. v.cur = q.cur /\ v.spent = q.spent /\ v.nv = q.nv /\ v.tick = q.tick /\ v.ovf = q.ovf
  BY <1>3 DEF Undisturbed
<1>5. ASSUME NEW u \in Task, u # t PROVE Spares(q, v, u)
  <2>1. v.ev[u] = q.ev[u]
    BY <1>0, <1>3, <1>5
  <2> QED BY <1>3, <2>1 DEF Undisturbed, Spares
<1>6. /\ r.spent = v.spent /\ r.nv = v.nv /\ r.tick = v.tick /\ r.ovf = v.ovf
      /\ \A u \in Task : u # v.cur => Spares(v, r, u)
  BY <1>1, AddCurrentIs
<1> HIDE DEF r
<1>7. \A u \in Task : u # t => Spares(q, r, u)
  BY <1>4, <1>5, <1>6, SparesTwice DEF t
<1> QED BY <1>2, <1>4, <1>6, <1>7 DEF t

LEMMA TimingStill ==
  ASSUME NEW q, Data(q), NEW t
  PROVE  LET r == Timing(q, t)
         IN  /\ Data(r) /\ r.tick = q.tick /\ r.ovf = q.ovf /\ r.wake = q.wake /\ r.ns = q.ns /\ r.nv = q.nv
             /\ r.at = q.at /\ r.ev = q.ev /\ r.spent = [q.spent EXCEPT ![t] = 0]
BY ZenonT(40) DEF Data, Fields, Timing

LEMMA TimingSpares ==
  ASSUME NEW q, Data(q), NEW t \in Task, q.spent \in [Task -> Nat]
  PROVE  LET r == Timing(q, t)
         IN  /\ Data(r) /\ r.tick = q.tick /\ r.ovf = q.ovf /\ r.nv = q.nv /\ r.ns = q.ns
             /\ r.spent \in [Task -> Nat] /\ r.spent[t] = 0
             /\ \A u \in Task : u # t => Spares(q, r, u)
<1> DEFINE r == Timing(q, t)
<1>1. /\ Data(r) /\ r.tick = q.tick /\ r.ovf = q.ovf /\ r.wake = q.wake /\ r.ns = q.ns /\ r.nv = q.nv
      /\ r.at = q.at /\ r.ev = q.ev /\ r.spent = [q.spent EXCEPT ![t] = 0]
  BY TimingStill, Zenon
<1> HIDE DEF r
<1>2. r.spent \in [Task -> Nat] /\ r.spent[t] = 0 /\ \A u \in Task : u # t => r.spent[u] = q.spent[u]
  BY <1>1
<1>3. \A u \in Task : u # t => Spares(q, r, u)
  BY <1>1, <1>2 DEF Spares
<1> QED BY <1>1, <1>2, <1>3 DEF r

LEMMA NewTaskSpares ==
  ASSUME NEW q, Good(q), DOMAIN q.nv = Task, NEW t \in Task
  PROVE  LET r == NewTask(q, t)
         IN  /\ Data(r) /\ r.spent = q.spent /\ DOMAIN r.nv = Task
             /\ \A u \in Task : u # t => Spares(q, r, u)
<1> DEFINE p == scene.prio[t]
           n == "not"
           z == 0
           v == [q EXCEPT !.prio[t] = p, !.base[t] = p, !.evp[t] = p, !.held[t] = z, !.ns[t] = n, !.nv[t] = z]
           r == AddReady(v, t)
<1>0. Data(q) /\ DOMAIN q.at = Task /\ DOMAIN q.ns = Task
  BY DataOf DEF Good, Shape, NoteTypes
<1>1. NewTask(q, t) = r
  BY DEF NewTask
<1> HIDE DEF p, n, z
<1>2. /\ Data(v) /\ v.tick = q.tick /\ v.ovf = q.ovf /\ v.spent = q.spent /\ v.wake = q.wake /\ v.at = q.at /\ v.ev = q.ev
      /\ v.ns = [q.ns EXCEPT ![t] = n] /\ v.nv = [q.nv EXCEPT ![t] = z]
  BY <1>0, ZenonT(60) DEF Data, Fields
<1> HIDE DEF v
<1>3. Data(r) /\ Undisturbed(v, r) /\ r.at = [v.at EXCEPT ![t] = "ready"] /\ r.ev = v.ev /\ r.prio = v.prio
  BY <1>2, AddReadyStill, Zenon
<1> HIDE DEF r
<1>4. ASSUME NEW u \in Task, u # t PROVE Spares(q, r, u)
  <2>1. r.at[u] = q.at[u] /\ r.ns[u] = q.ns[u] /\ r.nv[u] = q.nv[u]
    BY <1>0, <1>2, <1>3, <1>4 DEF Undisturbed
  <2> QED BY <1>2, <1>3, <2>1 DEF Spares, Undisturbed
<1>5. r.spent = q.spent /\ DOMAIN r.nv = Task
  BY <1>2, <1>3 DEF Undisturbed
<1> QED BY <1>1, <1>3, <1>4, <1>5

-----------------------------------------------------------------------------
(* A tick.                                                                 *)

Counted(n, l) == IF n < l.asked THEN n + 1 ELSE n
Swapped(at) == CASE at = "overflow" -> "delayed" [] at = "delayed" -> "overflow" [] OTHER -> at

\* One tick later, seen by task u with the locals l.
Ticks(q, r, u, l) ==
  /\ r.ns[u] = q.ns[u] /\ r.nv[u] = q.nv[u] /\ r.ev[u] = q.ev[u] /\ r.wake[u] = q.wake[u]
  /\ r.spent[u] = Counted(q.spent[u], l)
  /\ \/ q.tick # MaxTick /\ r.tick = q.tick + 1 /\ r.ovf = q.ovf /\ r.at[u] = q.at[u]
     \/ q.tick = MaxTick /\ r.tick = 0 /\ r.at[u] = Swapped(q.at[u])

LEMMA TickUpTimes ==
  ASSUME NEW q, Data(q), q.tick \in Time, NEW loop
  PROVE  LET r == TickUp(q, loop)
         IN  /\ r.nv = q.nv
             /\ r.spent = [t \in Task |-> Counted(q.spent[t], loc[t])]
             /\ \A u \in Task : Ticks(q, r, u, loc[u])
<1> DEFINE n == (q.tick + 1) % (MaxTick + 1)
           sp == [t \in Task |-> IF q.spent[t] < loc[t].asked THEN q.spent[t] + 1 ELSE q.spent[t]]
           s == [q EXCEPT !.tick = n, !.loop = loop, !.sw = FALSE,
                     !.spent = [t \in Task |-> IF @[t] < loc[t].asked THEN @[t] + 1 ELSE @[t]]]
           at == [t \in Task |-> CASE s.at[t] = "overflow" -> "delayed"
                                   [] s.at[t] = "delayed" -> "overflow"
                                   [] OTHER -> s.at[t]]
           o == (s.ovf + 1) % Overflows
           w == [s EXCEPT !.delayed = q.overflow, !.overflow = q.delayed,
                   !.at = [t \in Task |-> CASE @[t] = "overflow" -> "delayed"
                                      [] @[t] = "delayed" -> "overflow"
                                      [] OTHER -> @[t]],
                   !.ovf = (@ + 1) % Overflows]
           v == ResetNext(w)
           r == TickUp(q, loop)
           Known(z) == /\ Data(z) /\ z.tick = n /\ z.ns = q.ns /\ z.nv = q.nv /\ z.ev = q.ev /\ z.wake = q.wake
                       /\ z.spent = sp
<1>1. r = IF n # 0 THEN s ELSE v
  BY DEF TickUp
<1>2. sp = [t \in Task |-> Counted(q.spent[t], loc[t])]
  BY DEF Counted
<1>3. n = (IF q.tick = MaxTick THEN 0 ELSE q.tick + 1) /\ (q.tick = MaxTick <=> n = 0)
  <2>1. MaxTick \in Nat \ {0} /\ q.tick \in 0..MaxTick /\ 1 \in 0..MaxTick
    BY SchedulerAssumption DEF Time
  <2>2. n = IF q.tick + 1 <= MaxTick THEN q.tick + 1 ELSE q.tick + 1 - (MaxTick + 1)
    BY <2>1, WrapSum
  <2> HIDE DEF n
  <2> QED BY <2>1, <2>2
<1>4. Known(s) /\ s.at = q.at /\ s.ovf = q.ovf
  <2> DEFINE f == FALSE
  <2>1. s = [q EXCEPT !.tick = n, !.loop = loop, !.sw = f, !.spent = sp]
    OBVIOUS
  <2> HIDE DEF s, sp, n, f
  <2> QED BY <2>1, ZenonT(40) DEF Data, Fields
<1>5. w = [s EXCEPT !.delayed = q.overflow, !.overflow = q.delayed, !.at = at, !.ovf = o]
  OBVIOUS
<1> HIDE DEF s, o, w
<1>6. \A u \in Task : at[u] = Swapped(s.at[u])
  BY DEF Swapped
<1> HIDE DEF at, n, sp
<1>7. Known(w) /\ w.at = at
  BY <1>4, <1>5, ZenonT(40) DEF Data, Fields
<1>8. Undisturbed(w, v) /\ v.at = w.at /\ v.ev = w.ev
  BY <1>7, ResetNextAlike DEF Alike
<1> HIDE DEF v, r
<1>9. CASE q.tick # MaxTick
  <2>1. r = s /\ n = q.tick + 1
    BY <1>1, <1>3, <1>9
  <2> QED BY <1>2, <1>4, <1>9, <2>1 DEF Ticks, r
<1>10. CASE q.tick = MaxTick
  <2>1. r = v /\ n = 0
    BY <1>1, <1>3, <1>10
  <2>2. r.tick = 0 /\ r.ns = q.ns /\ r.nv = q.nv /\ r.ev = q.ev /\ r.wake = q.wake /\ r.spent = sp /\ r.at = at
    BY <1>7, <1>8, <2>1 DEF Undisturbed
  <2> QED BY <1>2, <1>4, <1>6, <1>10, <2>2 DEF Ticks, r
<1> QED BY <1>9, <1>10

LEMMA TicksKeeps ==
  ASSUME NEW q, q.tick \in Time, NEW r, NEW u, NEW l, Ticks(q, r, u, l), NEW p, NEW x, LocalsOK(x, u, p, l),
         Patient(q, u, p, l), q.spent[u] \in Nat, q.wake[u] \in Time, l.ticks \in Time,
         q.at[u] = "delayed" => q.wake[u] > q.tick
  PROVE  Patient(r, u, p, l)
<1>0. MaxTick \in Nat /\ l.asked \in 0..MaxTick /\ q.tick \in 0..MaxTick /\ q.wake[u] \in 0..MaxTick /\ l.ticks \in 0..MaxTick
  BY SchedulerAssumption DEF Time, LocalsOK
<1>1. Done(q, u, l) => Done(r, u, l)
  BY <1>0 DEF Ticks, Counted, Done
<1>2. Told(q, u, l) => Told(r, u, l)
  BY DEF Ticks, Told
<1>3. Asleep(q, u, l) => Asleep(r, u, l) \/ Done(r, u, l)
  <2> SUFFICES ASSUME Asleep(q, u, l), ~Done(r, u, l) PROVE Asleep(r, u, l)
    OBVIOUS
  <2>1. CASE ~Finite(l)
    BY <2>1 DEF Asleep, Ticks, Swapped
  <2>2. CASE Finite(l)
    <3>1. q.spent[u] < l.asked /\ r.spent[u] = q.spent[u] + 1
      BY <1>0, <2>2 DEF Ticks, Counted, Done
    <3>2. q.at[u] \in {"delayed", "overflow"} /\ l.asked <= q.spent[u] + Ahead(q, u)
      BY <2>2 DEF Asleep
    <3>3. CASE q.tick # MaxTick
      <4>1. r.at[u] = q.at[u] /\ r.tick = q.tick + 1 /\ r.wake[u] = q.wake[u]
        BY <3>3 DEF Ticks
      <4> QED BY <1>0, <2>2, <3>1, <3>2, <4>1 DEF Asleep, Ahead
    <3>4. CASE q.tick = MaxTick
      <4>1. q.at[u] = "overflow"
        BY <1>0, <3>2, <3>4
      <4>2. r.at[u] = "delayed" /\ r.tick = 0 /\ r.wake[u] = q.wake[u]
        BY <1>0, <3>4, <4>1 DEF Ticks, Swapped
      <4> QED BY <1>0, <2>2, <3>1, <3>2, <3>4, <4>1, <4>2 DEF Asleep, Ahead
    <3> QED BY <3>3, <3>4
  <2> QED BY <2>1, <2>2
<1>4. Clocked(q, u, l) => Clocked(r, u, l)
  <2> SUFFICES ASSUME Clocked(q, u, l), ~(r.spent[u] >= l.asked) PROVE Clocked(r, u, l)
    BY <1>0 DEF Ticks, Counted, Clocked
  <2>1. q.spent[u] < l.asked /\ r.spent[u] = q.spent[u] + 1
    BY <1>0 DEF Ticks, Counted
  <2>2. l.entry.tick \in 0..MaxTick
    BY DEF LocalsOK, Time
  <2>3. /\ Past(q, l) = IF q.tick >= l.entry.tick THEN q.tick - l.entry.tick
                        ELSE q.tick - l.entry.tick + MaxTick + 1
        /\ Past(q, l) \in 0..MaxTick
    BY PastIs DEF LocalsOK
  <2>4. r.tick \in Time
    BY <1>0 DEF Ticks, Time
  <2>5. Past(r, l) = IF r.tick >= l.entry.tick THEN r.tick - l.entry.tick
                     ELSE r.tick - l.entry.tick + MaxTick + 1
    BY <2>4, PastIs DEF LocalsOK
  <2>6. l.asked <= q.spent[u] + l.ticks - Past(q, l) /\ ~(q.ovf # l.entry.ovf /\ q.tick >= l.entry.tick)
    BY <1>0, <2>1 DEF Clocked
  <2> DEFINE a == Past(q, l)
             b == Past(r, l)
  <2>7. a # MaxTick
    BY <1>0, <2>1, <2>3, <2>6
  <2>8. b = a + 1 /\ ~(r.ovf # l.entry.ovf /\ r.tick >= l.entry.tick)
    <3>1. CASE q.tick # MaxTick
      <4>1. r.tick = q.tick + 1 /\ r.ovf = q.ovf
        BY <3>1 DEF Ticks
      <4> HIDE DEF a, b
      <4> QED BY <1>0, <2>2, <2>3, <2>5, <2>6, <2>7, <4>1 DEF a, b
    <3>2. CASE q.tick = MaxTick
      <4>1. r.tick = 0
        BY <1>0, <3>2 DEF Ticks
      <4>2. l.entry.tick # 0
        BY <1>0, <2>2, <2>3, <2>7, <3>2
      <4> HIDE DEF a, b
      <4> QED BY <1>0, <2>2, <2>3, <2>5, <3>2, <4>1, <4>2 DEF a, b
    <3> QED BY <3>1, <3>2
  <2>9. a \in 0..MaxTick
    BY <2>3
  <2>10. l.asked <= r.spent[u] + l.ticks - b
    <3>1. l.asked <= q.spent[u] + l.ticks - a
      BY <2>6
    <3> HIDE DEF a, b
    <3> QED BY <1>0, <2>1, <2>8, <2>9, <3>1
  <2> QED BY <2>8, <2>10 DEF Clocked
<1>5. (p = "nplace" => q.ns[u] \in {"waiting", "received"}) => (p = "nplace" => r.ns[u] \in {"waiting", "received"})
  BY DEF Ticks
<1>6. r.ns[u] = q.ns[u] /\ r.ev[u] = q.ev[u]
  BY DEF Ticks
<1> QED BY <1>1, <1>2, <1>3, <1>4, <1>6 DEF Patient

-----------------------------------------------------------------------------
(* What a step has to show.                                                *)

CallData == CallFields \cup {"asked", "timed"}
LEMMA PatienceFacts ==
  ASSUME IInv, Patience, NEW t \in Task
  PROVE  /\ CallData \subseteq DOMAIN loc[t] /\ LocalsOK(scene, t, pc[t], loc[t]) /\ Patient(k, t, pc[t], loc[t])
         /\ k.spent \in [Task -> Nat] /\ DOMAIN k.nv = Task /\ k.spent[t] \in Nat
         /\ loc[t].ticks \in Time /\ loc[t].asked \in Nat
<1>1. loc[t].asked \in Nat
  BY SchedulerAssumption DEF Patience, LocalsOK, Time
<1> QED BY <1>1, PlanFields DEF Patience, LocalsOK, CallData, CallFields

\* Nobody's call goes on.
LEMMA GentleStep ==
  ASSUME IInv, Patience, scene' = scene, pc' = pc, loc' = loc, Gentle(k, k')
  PROVE  Patience'
<1>1. ASSUME NEW u \in Task PROVE Patient(k', u, pc[u], loc[u])
  <2>1. Spares(k, k', u) /\ NoteOK(k, u, pc[u], loc[u])
    BY TaskFacts DEF Gentle
  <2> QED BY <2>1, PatienceFacts, SparesKeeps
<1>2. k'.spent \in [Task -> Nat] /\ DOMAIN k'.nv = Task
  BY DEF Gentle, Patience
<1> QED BY <1>1, <1>2 DEF Patience

\* The call of t goes on.
LEMMA CallPatient ==
  ASSUME IInv, Patience, scene' = scene, NEW t \in Task, NEW p, NEW l, Becomes(t, p, l), LocalsOK(scene, t, p, l),
         Patient(k', t, p, l), k'.spent \in [Task -> Nat], DOMAIN k'.nv = Task,
         \A u \in Task : u # t => Spares(k, k', u)
  PROVE  Patience'
<1>1. ASSUME NEW u \in Task PROVE LocalsOK(scene, u, pc'[u], loc'[u]) /\ Patient(k', u, pc'[u], loc'[u])
  <2>1. CASE u = t
    BY <2>1 DEF Becomes
  <2>2. CASE u # t
    <3>1. pc'[u] = pc[u] /\ loc'[u] = loc[u] /\ Spares(k, k', u)
      BY <2>2 DEF Becomes
    <3>2. NoteOK(k, u, pc[u], loc[u])
      BY TaskFacts
    <3>3. LocalsOK(scene, u, pc[u], loc[u]) /\ Patient(k, u, pc[u], loc[u])
      BY PatienceFacts
    <3>4. Patient(k', u, pc[u], loc[u])
      BY <3>1, <3>2, <3>3, SparesKeeps
    <3> QED BY <3>1, <3>3, <3>4
  <2> QED BY <2>1, <2>2
<1> QED BY <1>1 DEF Patience

LEMMA CallGentle ==
  ASSUME IInv, Patience, scene' = scene, NEW t \in Task, NEW p, NEW l, Becomes(t, p, l), LocalsOK(scene, t, p, l),
         Patient(k', t, p, l), Gentle(k, k')
  PROVE  Patience'
<1>1. /\ k'.spent \in [Task -> Nat] /\ DOMAIN k'.nv = Task
      /\ \A u \in Task : u # t => Spares(k, k', u)
  BY DEF Gentle, Patience
<1> QED BY <1>1, CallPatient

\* In no call there is nothing to wait for.
Resting == {"app", "none", "dead", "suspend"}
LEMMA RestPatient == ASSUME NEW q, NEW t, NEW p \in Resting, NEW l PROVE Patient(q, t, p, l)
BY DEF Resting, Patient, Ends, OnQueue, InQueue

LEMMA RestLocals ==
  ASSUME NEW s, NEW t, NEW p \in Resting, NEW l, {"api", "asked", "timed"} \subseteq DOMAIN l, l.asked \in Time,
         l.asked = MaxTick => MaxTick \in s.waits[t], l.timed \in BOOLEAN, ~l.timed, l.entry.tick \in Time
  PROVE  LocalsOK(s, t, p, l)
BY DEF Resting, LocalsOK, Ends, InQueue

LEMMA NoCallAsks ==
  /\ {"api", "asked", "timed"} \subseteq DOMAIN NoCall
  /\ NoCall.asked = 0 /\ NoCall.timed \in BOOLEAN /\ ~NoCall.timed /\ NoCall.entry.tick = 0 /\ 0 \in Time /\ MaxTick # 0
  /\ NoCall.api = "none"
<1> DEFINE f == FALSE
           n == [api |-> "none", obj |-> "none", val |-> 0, ticks |-> 0, asked |-> 0,
                 entry |-> [ovf |-> 0, tick |-> 0], timed |-> f,
                 inherited |-> f, then |-> "app", back |-> "app", yields |-> f, yielded |-> f]
<1>1. NoCall = n
  BY Zenon DEF NoCall
<1>2. f \in BOOLEAN /\ ~f
  OBVIOUS
<1> HIDE DEF f
<1>3. n.timed = f /\ n.asked = 0 /\ n.entry.tick = 0 /\ {"api", "asked", "timed"} \subseteq DOMAIN n /\ n.api = "none"
  OBVIOUS
<1> HIDE DEF n
<1>4. 0 \in Time /\ MaxTick # 0
  BY SchedulerAssumption DEF Time
<1> QED BY <1>1, <1>2, <1>3, <1>4, Zenon

LEMMA NoCallRests == ASSUME NEW s, NEW t, NEW p \in Resting PROVE LocalsOK(s, t, p, NoCall)
BY NoCallAsks, RestLocals

LEMMA ReturnGentle ==
  ASSUME IInv, Patience, scene' = scene, NEW t \in Task, NEW from, Return(t, from), Gentle(k, k')
  PROVE  Patience'
<1>1. Becomes(t, "app", NoCall)
  BY Returns
<1>2. "app" \in Resting
  BY DEF Resting
<1> QED BY <1>1, <1>2, NoCallRests, RestPatient, CallGentle

LEMMA SimpleGentle ==
  ASSUME IInv, Patience, scene' = scene, NEW t \in Task, NEW api, NEW q, Simple(t, api, q), Gentle(k, q)
  PROVE  Patience'
BY GentleStep DEF Simple

\* Other fields of the locals do not matter.
Agree(l, m) ==
  /\ DOMAIN m = DOMAIN l /\ m.api = l.api /\ m.asked = l.asked /\ m.timed = l.timed /\ m.ticks = l.ticks
  /\ m.entry = l.entry /\ m.then = l.then

LEMMA AgreeKeeps ==
  ASSUME NEW q, NEW s, NEW t, NEW p, NEW l, NEW m, Agree(l, m), LocalsOK(s, t, p, l), Patient(q, t, p, l)
  PROVE  LocalsOK(s, t, p, m) /\ Patient(q, t, p, m)
<1>1. LocalsOK(s, t, p, m)
  BY DEF Agree, LocalsOK, Ends
<1>2. /\ Done(q, t, l) <=> Done(q, t, m)
      /\ Asleep(q, t, l) <=> Asleep(q, t, m)
      /\ Clocked(q, t, l) <=> Clocked(q, t, m)
      /\ Told(q, t, l) <=> Told(q, t, m)
  BY DEF Agree, Done, Finite, Asleep, Clocked, Past, Told
<1>3. Patient(q, t, p, m)
  BY <1>2 DEF Agree, Patient, Ends
<1> QED BY <1>1, <1>3

LEMMA ItselfAgrees == ASSUME NEW l PROVE Agree(l, l)
BY DEF Agree

LEMMA YieldedAgrees == ASSUME NEW l, CallData \subseteq DOMAIN l PROVE \A x : Agree(l, [l EXCEPT !.yielded = x])
BY DEF Agree, CallData, CallFields

LEMMA YieldsAgrees == ASSUME NEW l, CallData \subseteq DOMAIN l PROVE \A x : Agree(l, [l EXCEPT !.yields = x])
BY DEF Agree, CallData, CallFields

LEMMA InheritedAgrees == ASSUME NEW l, CallData \subseteq DOMAIN l PROVE \A x : Agree(l, [l EXCEPT !.inherited = x])
BY DEF Agree, CallData, CallFields

-----------------------------------------------------------------------------
(* The tick.                                                               *)

LEMMA TickPatient ==
  ASSUME IInv, Patience, scene' = scene, pc' = pc, loc' = loc, NEW q, Good(q), q.loop \notin {"due", "owed"},
         Alike(k, q), NEW loop, k' = TickUp(q, loop)
  PROVE  Patience'
<1>1. k'.nv = q.nv /\ k'.spent = [t \in Task |-> Counted(q.spent[t], loc[t])] /\ \A u \in Task : Ticks(q, k', u, loc[u])
  BY DataOf, TickUpTimes
<1>2. q.nv = k.nv /\ q.spent = k.spent /\ Gentle(k, q)
  BY AlikeGentle DEF Alike, Undisturbed
<1>3. ASSUME NEW u \in Task PROVE k'.spent[u] \in Nat
  BY <1>1, <1>2, PatienceFacts DEF Counted
<1>4. k'.spent \in [Task -> Nat] /\ DOMAIN k'.nv = Task
  BY <1>1, <1>2, <1>3 DEF Patience
<1>5. ASSUME NEW u \in Task PROVE Patient(k', u, pc[u], loc[u])
  <2>1. Spares(k, q, u) /\ NoteOK(k, u, pc[u], loc[u])
    BY <1>2, TaskFacts DEF Gentle
  <2>2. Patient(q, u, pc[u], loc[u])
    BY <2>1, PatienceFacts, SparesKeeps
  <2>3. q.tick \in Time /\ q.wake[u] \in Time /\ (q.at[u] = "delayed" => q.wake[u] > q.tick)
    BY DEF Good, Shape, TimeTypes, Timely
  <2>4. q.spent[u] \in Nat
    BY <1>2, PatienceFacts
  <2> QED BY <1>1, <2>2, <2>3, <2>4, PatienceFacts, TicksKeeps
<1> QED BY <1>4, <1>5 DEF Patience

LEMMA SysTickPatient ==
  ASSUME IInv, Patience, scene' = scene, SysTick
  PROVE  Patience'
<1>0. pc' = pc /\ loc' = loc /\ k.loop = "none" /\ Data(k)
  BY DataFacts DEF SysTick, Interrupts
<1>1. CASE k.susp # 0
  <2> DEFINE n == k.pended + 1
  <2>1. k' = [k EXCEPT !.pended = n]
    BY <1>1 DEF SysTick
  <2> HIDE DEF n
  <2>2. Gentle(k, k')
    BY <1>0, <2>1, PendedAlike, AlikeGentle, Zenon
  <2> QED BY <1>0, <2>2, GentleStep
<1>2. CASE k.susp = 0
  <2>1. k' = TickUp(k, "due")
    BY <1>2 DEF SysTick
  <2>2. Good(k) /\ Alike(k, k)
    BY <1>0, SuspNat DEF Alike, Undisturbed
  <2>3. k.loop \notin {"due", "owed"}
    BY <1>0
  <2> QED BY <1>0, <2>1, <2>2, <2>3, TickPatient
<1> QED BY <1>1, <1>2

LEMMA UnlinkStill ==
  ASSUME NEW q, Data(q), NEW x
  PROVE  LET u == Unwait(Unlist(q, x), x)
         IN  /\ Data(u) /\ Undisturbed(q, u) /\ u.at = [q.at EXCEPT ![x] = "none"]
             /\ u.ev \in {q.ev, [q.ev EXCEPT ![x] = "none"]}
<1> DEFINE v == Unlist(q, x)
           u == Unwait(v, x)
<1>1. Data(v) /\ Undisturbed(q, v) /\ v.at = [q.at EXCEPT ![x] = "none"] /\ v.ev = q.ev
  BY UnlistStill, Zenon
<1> HIDE DEF v
<1>2. Data(u) /\ Undisturbed(v, u) /\ u.at = v.at /\ u.ev \in {v.ev, [v.ev EXCEPT ![x] = "none"]}
  BY <1>1, UnwaitStill, Zenon
<1> HIDE DEF u
<1>3. Undisturbed(q, u)
  BY <1>1, <1>2, StillTwice
<1>4. u.at = [q.at EXCEPT ![x] = "none"] /\ u.ev \in {q.ev, [q.ev EXCEPT ![x] = "none"]}
  BY <1>1, <1>2
<1> QED BY <1>2, <1>3, <1>4 DEF u, v

\* Who sleeps and is due has had its time.
LEMMA DueDone ==
  ASSUME NEW q, NEW t, NEW l, Asleep(q, t, l), q.at[t] = "delayed", q.wake[t] <= q.tick,
         q.tick \in Time, q.wake[t] \in Time, q.spent[t] \in Nat, l.asked \in Nat
  PROVE  Done(q, t, l)
<1>1. Finite(l) /\ l.asked <= q.spent[t] + q.wake[t] - q.tick
  <2>1. Finite(l)
    BY DEF Asleep
  <2>2. Ahead(q, t) = q.wake[t] - q.tick + 0
    BY DEF Ahead
  <2> QED BY <2>1, <2>2, SchedulerAssumption DEF Asleep, Time
<1> QED BY <1>1, SchedulerAssumption DEF Done, Time

LEMMA DuePatient ==
  ASSUME IInv, Patience, scene' = scene, Due
  PROVE  Patience'
<1> DEFINE t == Head(k.delayed)
           u == Unwait(Unlist(k, t), t)
           a == AddReady(u, t)
           b == a.sw \/ k.prio[t] > k.prio[k.cur]
<1>1. /\ pc' = pc /\ loc' = loc /\ k' = [a EXCEPT !.sw = b] /\ k.delayed # <<>> /\ k.wake[t] <= k.tick
  BY DEF Due, HeadIsDue
<1>2. t \in Task /\ k.at[t] = "delayed"
  BY <1>1, SuspNat, HeadDelayed
<1> HIDE DEF t
<1>3. /\ Data(u) /\ Undisturbed(k, u) /\ u.at = [k.at EXCEPT ![t] = "none"]
      /\ u.ev \in {k.ev, [k.ev EXCEPT ![t] = "none"]}
  BY DataFacts, UnlinkStill, Zenon
<1> HIDE DEF u
<1>4. Data(a) /\ Undisturbed(u, a) /\ a.at = [u.at EXCEPT ![t] = "ready"] /\ a.ev = u.ev
  BY <1>3, AddReadyStill, Zenon
<1> HIDE DEF a, b
<1>5. Undisturbed(a, k') /\ k'.at = a.at /\ k'.ev = a.ev
  BY <1>1, <1>4, ZenonT(40) DEF Data, Fields, Undisturbed
<1>6. /\ Undisturbed(k, k') /\ k'.ev[t] \in {k.ev[t], "none"}
      /\ \A y \in Task : y # t => k'.at[y] = k.at[y] /\ k'.ev[y] = k.ev[y]
  <2>1. Undisturbed(k, k')
    BY <1>3, <1>4, <1>5, StillTwice
  <2>2. DOMAIN k.at = Task /\ DOMAIN k.ev = Task
    BY SuspNat, DataOf
  <2> QED BY <1>2, <1>3, <1>4, <1>5, <2>1, <2>2
<1>7. ASSUME NEW y \in Task PROVE Patient(k', y, pc[y], loc[y])
  <2>0. LocalsOK(scene, y, pc[y], loc[y]) /\ Patient(k, y, pc[y], loc[y]) /\ NoteOK(k, y, pc[y], loc[y])
    BY PatienceFacts, TaskFacts
  <2>1. CASE y # t
    <3>1. Spares(k, k', y)
      BY <1>6, <2>1 DEF Spares, Undisturbed
    <3> QED BY <2>0, <3>1, SparesKeeps
  <2>2. CASE y = t
    <3>1. k.tick \in Time /\ k.wake[t] \in Time /\ k.spent[t] \in Nat /\ loc[t].asked \in Nat
      BY <1>2, SuspNat, PatienceFacts DEF Good, Shape, TimeTypes
    <3>2. Asleep(k, t, loc[t]) => Done(k, t, loc[t])
      BY <1>1, <1>2, <3>1, DueDone
    <3>3. /\ Done(k', t, loc[t]) <=> Done(k, t, loc[t])
          /\ Clocked(k', t, loc[t]) <=> Clocked(k, t, loc[t])
          /\ Told(k', t, loc[t]) <=> Told(k, t, loc[t])
          /\ k'.ns[t] = k.ns[t]
      BY <1>6 DEF Undisturbed, Done, Clocked, Past, Told
    <3> QED BY <2>0, <2>2, <3>2, <3>3 DEF Patient
  <2> QED BY <2>1, <2>2
<1>8. k'.spent \in [Task -> Nat] /\ DOMAIN k'.nv = Task
  BY <1>6 DEF Undisturbed, Patience
<1> QED BY <1>1, <1>7, <1>8 DEF Patience

LEMMA NoneDuePatient ==
  ASSUME IInv, Patience, scene' = scene, NoneDue
  PROVE  Patience'
<1> DEFINE q == IF k.tick >= k.next THEN ResetNext(k) ELSE k
           switch == k.sw \/ Slices(k) \/ k.yp
           s == q.pendsv \/ switch
           z == q.yp \/ switch
           f == FALSE
<1>1. /\ pc' = pc /\ loc' = loc
      /\ k' \in {[q EXCEPT !.loop = "none", !.sw = f, !.pendsv = s], [q EXCEPT !.loop = "drain", !.sw = f, !.yp = z]}
  BY DEF NoneDue
<1>2. Alike(k, q)
  <2>1. Alike(k, ResetNext(k)) /\ Alike(k, k)
    BY DataFacts, ResetNextAlike DEF Alike, Undisturbed
  <2> QED BY <2>1
<1> HIDE DEF q, s, z, f
<1>3. Data(q)
  BY <1>2 DEF Alike
<1>4. /\ Alike(q, [q EXCEPT !.loop = "none", !.sw = f, !.pendsv = s])
      /\ Alike(q, [q EXCEPT !.loop = "drain", !.sw = f, !.yp = z])
  BY <1>3, ZenonT(40) DEF Data, Fields, Undisturbed, Alike
<1>5. Gentle(k, k')
  BY <1>1, <1>2, <1>4, AlikeTwice, AlikeGentle
<1> QED BY <1>1, <1>5, GentleStep

LEMMA DrainPatient ==
  ASSUME IInv, Patience, scene' = scene, Drain
  PROVE  Patience'
<1> DEFINE t == Head(k.wait["pending"])
           u == Unwait(k, t)
           r == AddReady(Unlist(u, t), t)
           o == Owe(r, t)
<1>1. pc' = pc /\ loc' = loc /\ k' = ResetNext(o) /\ k.wait["pending"] # <<>>
  BY DEF Drain
<1>2. t \in Task /\ k.ev[t] = "pending"
  BY <1>1, SuspNat, HeadWaits DEF Lists
<1> HIDE DEF t
<1>3. Data(u) /\ Undisturbed(k, u) /\ u.at = k.at /\ u.prio = k.prio /\ u.ev \in {k.ev, [k.ev EXCEPT ![t] = "none"]}
  BY DataFacts, UnwaitStill, Zenon
<1> HIDE DEF u
<1>4. /\ Data(r) /\ Undisturbed(u, r) /\ r.ev = u.ev
      /\ \A x \in Task : r.at[x] = IF x = t THEN "ready" ELSE u.at[x]
  <2>1. DOMAIN u.at = Task
    BY <1>3, DataFacts
  <2> QED BY <1>3, <2>1, ReadyStill
<1> HIDE DEF r
<1>5. Gentle(k, r)
  <2>1. Undisturbed(k, r) /\ DOMAIN k.ev = Task
    BY <1>3, <1>4, StillTwice, SuspNat, DataOf
  <2>2. \A x \in Task : x # t => r.at[x] = k.at[x] /\ r.ev[x] = k.ev[x]
    BY <1>3, <1>4, <2>1
  <2>3. Loose(k, t)
    BY <1>2 DEF Loose
  <2> QED BY <2>1, <2>2, <2>3, MovesGentle
<1>6. Alike(r, o)
  BY <1>4, OweAlike
<1> HIDE DEF o
<1>7. Alike(o, k')
  BY <1>1, <1>6, ResetNextAlike DEF Alike
<1>8. Gentle(k, k')
  BY <1>5, <1>6, <1>7, AlikeGentle, GentleTwice
<1> QED BY <1>1, <1>8, GentleStep

LEMMA CatchUpPatient ==
  ASSUME IInv, Patience, scene' = scene, CatchUp
  PROVE  Patience'
<1> DEFINE n == k.pended - 1
           q == [k EXCEPT !.pended = n]
<1>1. k.loop = "drain" /\ pc' = pc /\ loc' = loc /\ k' = TickUp(q, "owed")
  BY DEF CatchUp
<1> HIDE DEF n
<1>2. Alike(k, q)
  BY DataFacts, PendedAlike, Zenon
<1>3. Good(q) /\ q.loop = k.loop
  <2>1. Sound(q)
    BY Domains, PendedRests, Zenon
  <2>2. q.loop = k.loop
    BY DataFacts, ZenonT(40) DEF Data, Fields
  <2> QED BY <2>1, <2>2 DEF Sound
<1> HIDE DEF q
<1>4. q.loop \notin {"due", "owed"}
  BY <1>1, <1>3
<1> QED BY <1>1, <1>2, <1>3, <1>4, TickPatient

LEMMA DrainedPatient ==
  ASSUME IInv, Patience, scene' = scene, Drained
  PROVE  Patience'
<1> DEFINE t == k.cur
           y == k.yp
           m == [loc[t] EXCEPT !.yielded = y]
           s == k.pendsv \/ k.yp
<1>1. /\ pc' = pc /\ loc' = [loc EXCEPT ![t] = m] /\ k' = [k EXCEPT !.loop = "none", !.pendsv = s]
  BY DEF Drained
<1>2. t \in Task
  BY SuspNat
<1> HIDE DEF y, s, t
<1>3. Agree(loc[t], m)
  BY <1>2, PatienceFacts, YieldedAgrees, Zenon
<1> HIDE DEF m
<1>4. Becomes(t, pc[t], m)
  BY <1>1, <1>2, Domains DEF Becomes
<1>5. Alike(k, k')
  BY <1>1, DataFacts, ZenonT(40) DEF Data, Fields, Undisturbed, Alike
<1>6. Gentle(k, k')
  BY <1>5, AlikeGentle
<1>7. Patient(k', t, pc[t], loc[t])
  BY <1>2, <1>6, TaskFacts, PatienceFacts, SparesKeeps DEF Gentle
<1>8. LocalsOK(scene, t, pc[t], m) /\ Patient(k', t, pc[t], m)
  BY <1>2, <1>3, <1>7, PatienceFacts, AgreeKeeps
<1> QED BY <1>2, <1>4, <1>6, <1>8, CallGentle

LEMMA PendSVPatient ==
  ASSUME IInv, Patience, scene' = scene, PendSV
  PROVE  Patience'
<1>1. k' = SwitchContext(k) /\ pc' = pc /\ loc' = loc
  BY DEF PendSV
<1> DEFINE p == CHOOSE p \in k.top : \A o \in k.top : o <= p
           i == NextIdx(k.ready[p])
           c == k.ready[p].items[i]
           y == TRUE
           n == FALSE
<1>2. \/ k' = [k EXCEPT !.yp = y, !.pendsv = n]
      \/ k' = [k EXCEPT !.yp = n, !.pendsv = n, !.ready[p].idx = i, !.cur = c]
  BY <1>1 DEF SwitchContext
<1> HIDE DEF p, i, c, y, n
<1>3. /\ k'.tick = k.tick /\ k'.ovf = k.ovf /\ k'.spent = k.spent /\ k'.ns = k.ns /\ k'.nv = k.nv
      /\ k'.at = k.at /\ k'.ev = k.ev /\ k'.wake = k.wake
  BY <1>2, DataFacts, ZenonT(40) DEF Data, Fields
<1>4. Gentle(k, k')
  BY <1>3 DEF Gentle, Spares
<1> QED BY <1>1, <1>4, GentleStep

LEMMA ResumeFromISRPatient ==
  ASSUME IInv, Patience, scene' = scene, NEW x \in Task, ResumeFromISR(x)
  PROVE  Patience'
<1> DEFINE r == AddReady(Unlist(k, x), x)
           o == Owe(r, x)
           s == YieldsTo(o, x)
           b == Pend(k, x)
<1>1. /\ pc' = pc /\ loc' = loc /\ (k' = s \/ k' = b) /\ IsSuspended(x)
  BY DEF ResumeFromISR
<1>2. Loose(k, x)
  BY <1>1 DEF IsSuspended, Loose
<1>3. Data(r) /\ Gentle(k, r)
  BY <1>2, DataFacts, ReadyGentle
<1> HIDE DEF r
<1>4. Alike(r, o)
  BY <1>3, OweAlike
<1> HIDE DEF o
<1>5. Alike(o, s)
  BY <1>4, YieldsToAlike DEF Alike
<1> HIDE DEF s
<1>6. Gentle(k, s)
  BY <1>3, <1>4, <1>5, AlikeGentle, GentleTwice
<1>7. Gentle(k, b)
  <2>1. Data(b) /\ Undisturbed(k, b) /\ b.at = k.at /\ b.prio = k.prio /\ b.ev = [k.ev EXCEPT ![x] = "pending"]
    BY DataFacts, PendStill, Zenon
  <2> HIDE DEF b
  <2>2. DOMAIN k.ev = Task
    BY SuspNat, DataOf
  <2>3. \A u \in Task : u # x => b.at[u] = k.at[u] /\ b.ev[u] = k.ev[u]
    BY <2>1, <2>2
  <2>4. Undisturbed(k, b)
    BY <2>1
  <2> QED BY <1>2, <2>3, <2>4, MovesGentle
<1> HIDE DEF b
<1> QED BY <1>1, <1>6, <1>7, GentleStep

-----------------------------------------------------------------------------
(* The task functions.                                                     *)

\* On the way to a wait, or in no call.
Aloof == Resting \cup {"delay", "nlook", "nhold", "narm"}
LEMMA AloofPatient == ASSUME NEW q, NEW t, NEW p \in Aloof, NEW l PROVE Patient(q, t, p, l)
BY DEF Aloof, Resting, Patient, Ends, OnQueue, InQueue

LEMMA AppLocals ==
  ASSUME NEW s, NEW t, NEW p, NEW l, LocalsOK(s, t, p, l)
  PROVE  LocalsOK(s, t, "app", l)
BY DEF LocalsOK, Ends, InQueue

LEMMA TaskYieldPatient ==
  ASSUME IInv, Patience, scene' = scene, NEW t \in Task, TaskYield(t)
  PROVE  Patience'
<1>1. Gentle(k, Yield(k))
  BY DataFacts, YieldAlike, AlikeGentle
<1> QED BY <1>1, SimpleGentle DEF TaskYield

LEMMA LockSchedulerPatient ==
  ASSUME IInv, Patience, scene' = scene, NEW t \in Task, LockScheduler(t)
  PROVE  Patience'
<1>1. Gentle(k, SuspendedAll(k))
  BY DataFacts, SuspendAlike, AlikeGentle
<1> QED BY <1>1, SimpleGentle DEF LockScheduler

LEMMA ResumePatient ==
  ASSUME IInv, Patience, scene' = scene, NEW t \in Task, NEW x \in Task, Resume(t, x)
  PROVE  Patience'
<1> DEFINE r == AddReady(Unlist(k, x), x)
<1>1. IsSuspended(x) /\ Simple(t, "resume", YieldsTo(r, x))
  BY DEF Resume
<1>2. Loose(k, x)
  BY <1>1 DEF IsSuspended, Loose
<1>3. Data(r) /\ Gentle(k, r)
  BY <1>2, DataFacts, ReadyGentle
<1> HIDE DEF r
<1>4. Gentle(k, YieldsTo(r, x))
  BY <1>3, YieldsToAlike, AlikeGentle, GentleTwice
<1> QED BY <1>1, <1>4, SimpleGentle

LEMMA PrioritySetPatient ==
  ASSUME IInv, Patience, scene' = scene, NEW t \in Task, NEW x \in Task, NEW p \in Prio, PrioritySet(t, x, p)
  PROVE  Patience'
<1> DEFINE n == IF k.base[x] = k.prio[x] \/ p > k.prio[x] THEN p ELSE k.prio[x]
           q == Reprio(k, x, n)
           b == [q EXCEPT !.base[x] = p]
           r == Revalue(b, x, p)
<1>1. Simple(t, "prioset", Yield(r)) \/ Simple(t, "prioset", r)
  <2>1. CASE k.base[x] = k.prio[x] \/ p > k.prio[x]
    <3>1. n = p
      BY <2>1
    <3> QED BY <2>1, <3>1, Zenon DEF PrioritySet
  <2>2. CASE ~(k.base[x] = k.prio[x] \/ p > k.prio[x])
    <3>1. n = k.prio[x]
      BY <2>2
    <3> QED BY <2>2, <3>1, Zenon DEF PrioritySet
  <2> QED BY <2>1, <2>2
<1> HIDE DEF n
<1>2. Data(q) /\ Gentle(k, q)
  BY DataFacts, ReprioAllGentle
<1> HIDE DEF q
<1>3. Alike(q, b)
  BY <1>2, BaseAlike
<1> HIDE DEF b
<1>4. Alike(b, r)
  BY <1>3, RevalueAlike DEF Alike
<1> HIDE DEF r
<1>5. Gentle(k, r) /\ Data(r)
  BY <1>2, <1>3, <1>4, AlikeGentle, GentleTwice DEF Alike
<1>6. Gentle(k, Yield(r))
  BY <1>5, YieldAlike, AlikeGentle, GentleTwice
<1> QED BY <1>1, <1>5, <1>6, SimpleGentle

LEMMA DelayPatient ==
  ASSUME IInv, Patience, scene' = scene, NEW t \in Task, Delay(t)
  PROVE  Patience'
<1> DEFINE y == TRUE
           c(n) == [NoCall EXCEPT !.ticks = n, !.asked = n, !.yields = y, !.then = "slept"]
<1>1. PICK api \in Called(t, {"delay"}), n \in scene.waits[t] :
        Enter(t, api, c(n), "delay") /\ k' = SuspendedAll(Timing(k, t))
  BY Zenon DEF Delay
<1> HIDE DEF y
<1> DEFINE l == [c(n) EXCEPT !.api = api]
           q == Timing(k, t)
<1>2. Becomes(t, "delay", l) /\ n \in Time /\ api = "delay"
  BY <1>1, Calls, SceneFacts, Zenon DEF Called
<1>3. DOMAIN l = DOMAIN NoCall /\ l.ticks = n /\ l.asked = n /\ l.timed = NoCall.timed /\ l.entry = NoCall.entry /\ l.api = api
  BY NoCallPlan
<1> HIDE DEF l
<1>4. LocalsOK(scene, t, "delay", l)
  <2>1. l.timed \in BOOLEAN /\ ~l.timed
    BY <1>3, NoCallAsks, Zenon
  <2> QED BY <1>1, <1>2, <1>3, <2>1, NoCallAsks DEF LocalsOK, Ends, InQueue
<1>5. /\ Data(q) /\ q.nv = k.nv /\ q.spent \in [Task -> Nat] /\ \A u \in Task : u # t => Spares(k, q, u)
  BY DataFacts, PatienceFacts, TimingSpares
<1> HIDE DEF q
<1>6. Alike(q, k')
  BY <1>1, <1>5, SuspendAlike DEF q
<1>7. k'.spent \in [Task -> Nat] /\ DOMAIN k'.nv = Task
  BY <1>5, <1>6 DEF Alike, Undisturbed, Patience
<1>8. \A u \in Task : u # t => Spares(k, k', u)
  BY <1>5, <1>6, AlikeGentle, SparesTwice DEF Gentle
<1>9. Patient(k', t, "delay", l)
  BY AloofPatient DEF Aloof
<1> QED BY <1>2, <1>4, <1>7, <1>8, <1>9, CallPatient

LEMMA DelayBlocksPatient ==
  ASSUME IInv, Patience, scene' = scene, NEW t \in Task, DelayBlocks(t)
  PROVE  Patience'
<1> DEFINE l == loc[t]
           y == FALSE
<1>1. /\ Go(t, "delay", "resume") /\ loc' = loc /\ Runs(t) /\ pc[t] = "delay" /\ k.cur = t
      /\ k' = AddCurrentToDelayed(k, l.ticks, y)
  BY DEF DelayBlocks, Go, Runs
<1>2. l.then = "slept" /\ l.ticks # 0 /\ l.ticks \in Time /\ l.ticks = l.asked /\ l.api = "delay"
  BY <1>1, TaskFacts, PatienceFacts DEF PlanOK, LocalsOK
<1>a. ~y
  OBVIOUS
<1> HIDE DEF y
<1>3. /\ k'.spent = k.spent /\ k'.nv = k.nv /\ k'.ev = k.ev
      /\ \A u \in Task : u # k.cur => Spares(k, k', u)
      /\ Sleeps(k', k.cur, l.ticks, y)
  BY <1>1, <1>2, SuspNat, AddCurrentIs
<1>4. k'.ev[t] = "none"
  BY <1>1, <1>3, RunsHere DEF Settled, Here
<1>5. Asleep(k', t, l)
  <2>1. k'.at[t] \in {"delayed", "overflow"} /\ Ahead(k', t) = l.ticks
    BY <1>1, <1>3, <1>a DEF Sleeps
  <2>2. k'.spent[t] \in Nat /\ l.asked \in Nat
    BY <1>3, PatienceFacts
  <2> QED BY <1>2, <2>1, <2>2 DEF Asleep, Finite
<1>6. ~l.timed
  BY <1>1, PatienceFacts DEF LocalsOK, OnQueue, InQueue
<1>7. Patient(k', t, "resume", l)
  BY <1>2, <1>4, <1>5, <1>6 DEF Patient, Ends
<1>8. LocalsOK(scene, t, "resume", l)
  BY <1>1, <1>2, <1>6, PatienceFacts DEF LocalsOK, Ends, InQueue
<1>9. Becomes(t, "resume", l)
  BY <1>1, GoKeeps
<1>10. k'.spent \in [Task -> Nat] /\ DOMAIN k'.nv = Task
  BY <1>3 DEF Patience
<1> QED BY <1>1, <1>3, <1>7, <1>8, <1>9, <1>10, CallPatient

LEMMA DelayEndsPatient ==
  ASSUME IInv, Patience, scene' = scene, NEW t \in Task, DelayEnds(t)
  PROVE  Patience'
<1>1. Return(t, "slept") /\ Gentle(k, k')
  BY GentleItself DEF DelayEnds
<1> QED BY <1>1, ReturnGentle

\* A call with nothing but its name.
LEMMA BareCall ==
  ASSUME NEW s, NEW t, NEW api, NEW p \in Resting \cup {"resume"}, NEW q
  PROVE  LET l == [NoCall EXCEPT !.api = api] IN LocalsOK(s, t, p, l) /\ Patient(q, t, p, l)
<1> DEFINE l == [NoCall EXCEPT !.api = api]
<1>1. DOMAIN l = DOMAIN NoCall /\ l.asked = NoCall.asked /\ l.timed = NoCall.timed /\ l.entry = NoCall.entry /\ l.then = NoCall.then
  BY NoCallPlan
<1> HIDE DEF l
<1>2. l.timed \in BOOLEAN /\ ~l.timed
  BY <1>1, NoCallAsks, Zenon
<1>3. l.then = "app" /\ l.asked = 0 /\ l.entry.tick = 0 /\ {"api", "asked", "timed"} \subseteq DOMAIN l
  BY <1>1, NoCallAsks, NoCallPlan
<1>4. LocalsOK(s, t, p, l)
  BY <1>2, <1>3, NoCallAsks DEF LocalsOK, Ends, InQueue, Resting
<1>5. Patient(q, t, p, l)
  BY <1>2, <1>3 DEF Patient, Ends, Resting, OnQueue, InQueue
<1> QED BY <1>4, <1>5 DEF l

LEMMA UnlockSchedulerPatient ==
  ASSUME IInv, Patience, scene' = scene, NEW t \in Task, UnlockScheduler(t) \/ CatchUpTicks(t)
  PROVE  Patience'
<1> DEFINE n == k.pended + 1
           q == [k EXCEPT !.pended = n]
<1>1. PICK api : Enter(t, api, NoCall, "resume") /\ (k' = k \/ k' = SuspendedAll(q))
  BY Zenon DEF UnlockScheduler, CatchUpTicks
<1> HIDE DEF n
<1> DEFINE l == [NoCall EXCEPT !.api = api]
<1>2. Becomes(t, "resume", l)
  BY <1>1, Calls, Zenon
<1>3. LocalsOK(scene, t, "resume", l) /\ Patient(k', t, "resume", l)
  BY BareCall
<1> HIDE DEF l
<1>4. Alike(k, q)
  BY DataFacts, PendedAlike, Zenon
<1> HIDE DEF q
<1>5. Gentle(k, k')
  BY <1>1, <1>4, SuspendAlike, AlikeTwice, AlikeGentle, GentleItself DEF Alike
<1> QED BY <1>2, <1>3, <1>5, CallGentle

LEMMA ResumeAllPatient ==
  ASSUME IInv, Patience, scene' = scene, NEW t \in Task, ResumeAll(t)
  PROVE  Patience'
<1> DEFINE y == FALSE
           l == loc[t]
           m == [l EXCEPT !.yielded = y]
           s == k.susp - 1
           o == IF k.susp = 1 THEN "drain" ELSE k.loop
<1>1. /\ Go(t, "resume", "resumed") /\ loc' = [loc EXCEPT ![t] = m] /\ pc[t] = "resume"
      /\ k' = [k EXCEPT !.susp = s, !.loop = o]
  BY Zenon DEF ResumeAll, Go
<1> HIDE DEF y, s, o
<1>2. Becomes(t, "resumed", m)
  BY <1>1, GoesOn, Zenon
<1>3. Agree(l, m)
  BY PatienceFacts, YieldedAgrees, Zenon
<1> HIDE DEF m
<1>4. Gentle(k, k')
  <2>1. Alike(k, k')
    BY <1>1, DataFacts, ZenonT(40) DEF Data, Fields, Undisturbed, Alike
  <2> QED BY <2>1, AlikeGentle
<1>5. Patient(k', t, "resume", l) /\ LocalsOK(scene, t, "resume", l)
  BY <1>1, <1>4, TaskFacts, PatienceFacts, SparesKeeps DEF Gentle
<1>6. Patient(k', t, "resumed", l) /\ LocalsOK(scene, t, "resumed", l)
  BY <1>5 DEF Patient, LocalsOK, Ends, OnQueue, InQueue
<1>7. Patient(k', t, "resumed", m) /\ LocalsOK(scene, t, "resumed", m)
  BY <1>3, <1>6, AgreeKeeps
<1> QED BY <1>2, <1>4, <1>7, CallGentle

LEMMA ResumedPatient ==
  ASSUME IInv, Patience, scene' = scene, NEW t \in Task, Resumed(t)
  PROVE  Patience'
<1> DEFINE l == loc[t]
<1>1. Go(t, "resumed", l.then) /\ pc[t] = "resumed"
  BY DEF Resumed, Go
<1>2. Gentle(k, k')
  <2>1. k' = Yield(k) \/ k' = k
    BY Zenon DEF Resumed
  <2> QED BY <2>1, DataFacts, YieldAlike, AlikeGentle, GentleItself
<1>3. CASE l.then = "app"
  <2>1. Return(t, "resumed")
    BY <1>1, <1>3 DEF Resumed, Return
  <2> QED BY <1>2, <2>1, ReturnGentle
<1>4. CASE l.then # "app"
  <2>1. loc' = loc
    BY <1>4 DEF Resumed
  <2>2. l.then \in {"try", "expired", "slept", "nend"}
    BY <1>4, TaskFacts DEF PlanOK
  <2>3. Patient(k', t, "resumed", l) /\ LocalsOK(scene, t, "resumed", l)
    BY <1>1, <1>2, TaskFacts, PatienceFacts, SparesKeeps DEF Gentle
  <2>4. LocalsOK(scene, t, l.then, l)
    BY <2>2, <2>3 DEF LocalsOK, Ends, OnQueue, InQueue
  <2>5. Patient(k', t, l.then, l)
    BY <2>2, <2>3 DEF Patient, Ends, OnQueue, InQueue
  <2>6. Becomes(t, l.then, l)
    BY <1>1, <2>1, GoKeeps
  <2> QED BY <1>2, <2>4, <2>5, <2>6, CallGentle
<1> QED BY <1>3, <1>4

\* Who is suspended goes on as if its time were over.
LEMMA SuspendedOthers ==
  ASSUME IInv, Patience, Uncrossed, NEW t \in Task, NEW x \in Task, x # k.cur, "suspend" \in scene.calls[t],
         NEW r, r.spent[x] = loc[x].asked
  PROVE  Patient(r, x, pc[x], loc[x])
<1> DEFINE p == pc[x]
           l == loc[x]
<1>1. LocalsOK(scene, x, p, l) /\ p \notin {"nplace", "untx", "unrx"} /\ l.asked \in Nat
  BY PatienceFacts, TaskFacts DEF Closed, Alone
<1>2. Finite(l) => Done(r, x, l)
  BY <1>1 DEF Done
<1>3. Ends(p, l, "slept") => Finite(l)
  BY <1>1 DEF LocalsOK, Finite
<1>4. Ends(p, l, "nend") => Finite(l)
  <2> SUFFICES ASSUME Ends(p, l, "nend") PROVE l.asked # MaxTick
    BY DEF Finite
  <2>1. l.api \in Called(x, Waits)
    BY <1>1 DEF LocalsOK, Called
  <2>2. MaxTick \notin scene.waits[x]
    BY <2>1 DEF Uncrossed
  <2> QED BY <1>1, <2>2 DEF LocalsOK
<1>5. Clocked(r, x, l)
  BY <1>1 DEF Clocked
<1> QED BY <1>1, <1>2, <1>3, <1>4, <1>5 DEF Patient

LEMMA SuspendPatient ==
  ASSUME IInv, Patience, Uncrossed, scene' = scene, NEW t \in Task, NEW x \in Task, Suspend(t, x)
  PROVE  Patience'
<1> DEFINE c == [NoCall EXCEPT !.obj = x]
           l == [c EXCEPT !.api = "suspend"]
           u == Unwait(Unlist(k, x), x)
           s == IF u.ns[x] = "waiting" THEN "not" ELSE u.ns[x]
           e == loc[x].asked
<1>1. /\ Becomes(t, "suspend", l) /\ k.cur = t /\ k' = [u EXCEPT !.at[x] = "suspended", !.ns[x] = s, !.spent[x] = e]
      /\ "suspend" \in scene.calls[t]
  <2>1. Enter(t, "suspend", c, "suspend") /\ k' = [u EXCEPT !.at[x] = "suspended", !.ns[x] = s, !.spent[x] = e]
    BY DEF Suspend
  <2>2. May(t, "suspend")
    BY <2>1, Zenon DEF Enter
  <2> QED BY <2>1, <2>2, Calls, Zenon DEF May
<1>2. DOMAIN l = DOMAIN NoCall /\ l.asked = NoCall.asked /\ l.timed = NoCall.timed /\ l.entry = NoCall.entry
  BY NoCallPlan
<1> HIDE DEF l, c
<1>3. LocalsOK(scene, t, "suspend", l)
  <2>1. l.timed \in BOOLEAN /\ ~l.timed
    BY <1>2, NoCallAsks, Zenon
  <2> QED BY <1>2, <2>1, NoCallAsks, RestLocals DEF Resting
<1>4. /\ Data(u) /\ Undisturbed(k, u) /\ u.at = [k.at EXCEPT ![x] = "none"]
      /\ u.ev \in {k.ev, [k.ev EXCEPT ![x] = "none"]}
  BY DataFacts, UnlinkStill, Zenon
<1> HIDE DEF u, s, e
<1>5. /\ k'.tick = u.tick /\ k'.ovf = u.ovf /\ k'.wake = u.wake /\ k'.nv = u.nv /\ k'.ev = u.ev
      /\ k'.at = [u.at EXCEPT ![x] = "suspended"] /\ k'.ns = [u.ns EXCEPT ![x] = s]
      /\ k'.spent = [u.spent EXCEPT ![x] = e]
  BY <1>1, <1>4, ZenonT(40) DEF Data, Fields
<1>6. /\ k'.nv = k.nv /\ k'.spent = [k.spent EXCEPT ![x] = e] /\ k.spent \in [Task -> Nat] /\ e \in Nat
  BY <1>4, <1>5, PatienceFacts DEF Undisturbed, e
<1>7. ASSUME NEW y \in Task, y # x PROVE Spares(k, k', y)
  <2>1. k'.at[y] = k.at[y] /\ k'.ev[y] = k.ev[y] /\ k'.ns[y] = k.ns[y] /\ k'.spent[y] = k.spent[y]
    BY <1>4, <1>5, <1>7, DataFacts DEF Undisturbed
  <2> QED BY <1>4, <1>5, <2>1 DEF Spares, Undisturbed
<1>8. ASSUME NEW y \in Task PROVE LocalsOK(scene, y, pc'[y], loc'[y]) /\ Patient(k', y, pc'[y], loc'[y])
  <2>1. CASE y = t
    BY <1>1, <1>3, <2>1, RestPatient DEF Becomes, Resting
  <2>2. CASE y # t
    <3>1. pc'[y] = pc[y] /\ loc'[y] = loc[y]
      BY <1>1, <2>2 DEF Becomes
    <3>2. LocalsOK(scene, y, pc[y], loc[y]) /\ Patient(k, y, pc[y], loc[y]) /\ NoteOK(k, y, pc[y], loc[y])
      BY PatienceFacts, TaskFacts
    <3>3. CASE y = x
      <4>1. k'.spent[x] = loc[x].asked
        BY <1>6 DEF e
      <4> QED BY <1>1, <2>2, <3>1, <3>2, <3>3, <4>1, SuspendedOthers
    <3>4. CASE y # x
      BY <1>7, <3>1, <3>2, <3>4, SparesKeeps
    <3> QED BY <3>3, <3>4
  <2> QED BY <2>1, <2>2
<1>9. k'.spent \in [Task -> Nat] /\ DOMAIN k'.nv = Task
  BY <1>6 DEF Patience
<1> QED BY <1>8, <1>9 DEF Patience

LEMMA SuspendEndsPatient ==
  ASSUME IInv, Patience, scene' = scene, NEW t \in Task, SuspendEnds(t)
  PROVE  Patience'
<1> DEFINE q == ResetNext(k)
<1>1. Alike(k, q)
  BY DataFacts, ResetNextAlike
<1>2. Return(t, "suspend") /\ (k' = Yield(q) \/ k' = q)
  BY Zenon DEF SuspendEnds
<1> HIDE DEF q
<1>3. Gentle(k, k')
  BY <1>1, <1>2, YieldAlike, AlikeTwice, AlikeGentle DEF Alike
<1> QED BY <1>2, <1>3, ReturnGentle

LEMMA DeletePatient ==
  ASSUME IInv, Patience, scene' = scene, NEW t \in Task, NEW x \in Task, Delete(t, x)
  PROVE  Patience'
<1> DEFINE u == Unwait(Unlist(k, x), x)
<1>1. k' = ResetNext(u) /\ pc' = [pc EXCEPT ![x] = "none"] /\ loc' = [loc EXCEPT ![x] = NoCall]
  BY DEF Delete
<1>2. /\ Data(u) /\ Undisturbed(k, u) /\ u.at = [k.at EXCEPT ![x] = "none"]
      /\ u.ev \in {k.ev, [k.ev EXCEPT ![x] = "none"]}
  BY DataFacts, UnlinkStill, Zenon
<1> HIDE DEF u
<1>3. Alike(u, k')
  BY <1>1, <1>2, ResetNextAlike
<1>4. ASSUME NEW y \in Task, y # x PROVE Spares(k, k', y)
  <2>0. DOMAIN k.at = Task /\ DOMAIN k.ev = Task
    BY SuspNat, DataOf
  <2>1. k'.at[y] = k.at[y] /\ k'.ev[y] = k.ev[y]
    BY <1>2, <1>3, <1>4, <2>0 DEF Alike
  <2> QED BY <1>2, <1>3, <2>1 DEF Alike, Undisturbed, Spares
<1>5. k'.spent \in [Task -> Nat] /\ DOMAIN k'.nv = Task
  BY <1>2, <1>3 DEF Alike, Undisturbed, Patience
<1>6. Becomes(x, "none", NoCall)
  BY <1>1, GoBecomes, Domains
<1>7. LocalsOK(scene, x, "none", NoCall) /\ Patient(k', x, "none", NoCall)
  BY NoCallRests, RestPatient DEF Resting
<1> QED BY <1>4, <1>5, <1>6, <1>7, CallPatient

LEMMA DeleteSelfPatient ==
  ASSUME IInv, Patience, scene' = scene, NEW t \in Task, DeleteSelf(t)
  PROVE  Patience'
<1> DEFINE u == Unlist(k, t)
           l == [NoCall EXCEPT !.api = "delete"]
<1>1. Enter(t, "delete", NoCall, "dead") /\ k' = [u EXCEPT !.at[t] = "termination"]
  BY DEF DeleteSelf
<1>2. Becomes(t, "dead", l)
  BY <1>1, Calls, Zenon
<1>3. LocalsOK(scene, t, "dead", l) /\ Patient(k', t, "dead", l)
  BY BareCall DEF Resting
<1> HIDE DEF l
<1>4. Data(u) /\ Undisturbed(k, u) /\ u.at = [k.at EXCEPT ![t] = "none"] /\ u.ev = k.ev
  BY DataFacts, UnlistStill, Zenon
<1> HIDE DEF u
<1>5. Undisturbed(u, k') /\ k'.at = [u.at EXCEPT ![t] = "termination"] /\ k'.ev = u.ev
  BY <1>1, <1>4, ZenonT(40) DEF Data, Fields, Undisturbed
<1>6. ASSUME NEW y \in Task, y # t PROVE Spares(k, k', y)
  <2>1. k'.at[y] = k.at[y] /\ k'.ev[y] = k.ev[y]
    BY <1>4, <1>5, <1>6, DataFacts
  <2> QED BY <1>4, <1>5, <2>1 DEF Undisturbed, Spares
<1>7. k'.spent \in [Task -> Nat] /\ DOMAIN k'.nv = Task
  BY <1>4, <1>5 DEF Undisturbed, Patience
<1> QED BY <1>2, <1>3, <1>6, <1>7, CallPatient

LEMMA DiesPatient ==
  ASSUME IInv, Patience, scene' = scene, NEW t \in Task, Dies(t)
  PROVE  Patience'
<1>1. Go(t, "dead", "none") /\ loc' = loc /\ k' = Yield(k)
  BY DEF Dies
<1>2. Becomes(t, "none", loc[t]) /\ pc[t] = "dead"
  BY <1>1, GoKeeps
<1>3. LocalsOK(scene, t, "none", loc[t])
  BY <1>2, PatienceFacts DEF LocalsOK, Ends, InQueue, OnQueue
<1>4. Gentle(k, k')
  BY <1>1, DataFacts, YieldAlike, AlikeGentle
<1> QED BY <1>2, <1>3, <1>4, RestPatient, CallGentle DEF Resting

LEMMA IdleTaskPatient ==
  ASSUME IInv, Patience, scene' = scene, IdleTask
  PROVE  Patience'
<1>1. CASE k' = Yield(k) /\ pc' = pc /\ loc' = loc
  BY <1>1, DataFacts, YieldAlike, AlikeGentle, GentleStep
<1>2. ASSUME NEW x \in Task, k' = [k EXCEPT !.at[x] = "none"], loc' = [loc EXCEPT ![x] = NoCall],
             pc' = [pc EXCEPT ![x] = "none"]
      PROVE  Patience'
  <2>1. Undisturbed(k, k') /\ k'.at = [k.at EXCEPT ![x] = "none"] /\ k'.ev = k.ev
    BY <1>2, DataFacts, ZenonT(40) DEF Data, Fields, Undisturbed
  <2>2. \A y \in Task : y # x => Spares(k, k', y)
    BY <2>1, DataFacts DEF Undisturbed, Spares
  <2>3. k'.spent \in [Task -> Nat] /\ DOMAIN k'.nv = Task
    BY <2>1 DEF Undisturbed, Patience
  <2>4. Becomes(x, "none", NoCall)
    BY <1>2, GoBecomes, Domains
  <2>5. LocalsOK(scene, x, "none", NoCall) /\ Patient(k', x, "none", NoCall)
    BY NoCallRests, RestPatient DEF Resting
  <2> QED BY <2>2, <2>3, <2>4, <2>5, CallPatient
<1> QED BY <1>1, <1>2 DEF IdleTask

LEMMA CreatePatient ==
  ASSUME IInv, Patience, scene' = scene, NEW t \in Task, NEW x \in Task, Create(t, x)
  PROVE  Patience'
<1> DEFINE u == NewTask(k, x)
<1>1. k' = YieldsTo(u, x) /\ pc' = [pc EXCEPT ![x] = "app"] /\ loc' = loc
  BY DEF Create
<1>2. /\ Data(u) /\ u.spent = k.spent /\ DOMAIN u.nv = Task
      /\ \A y \in Task : y # x => Spares(k, u, y)
  BY SuspNat, PatienceFacts, NewTaskSpares
<1> HIDE DEF u
<1>3. Alike(u, k')
  BY <1>1, <1>2, YieldsToAlike
<1>4. \A y \in Task : y # x => Spares(k, k', y)
  BY <1>2, <1>3, AlikeGentle, SparesTwice DEF Gentle
<1>5. k'.spent \in [Task -> Nat] /\ DOMAIN k'.nv = Task
  BY <1>2, <1>3 DEF Alike, Undisturbed, Patience
<1>6. Becomes(x, "app", loc[x])
  BY <1>1, Domains DEF Becomes
<1>7. LocalsOK(scene, x, "app", loc[x]) /\ Patient(k', x, "app", loc[x])
  BY PatienceFacts, AppLocals, RestPatient DEF Resting
<1> QED BY <1>4, <1>5, <1>6, <1>7, CallPatient

\* Before the scheduler runs nobody is in a call.
LEMMA BootPatient ==
  ASSUME IInv, Patience, scene' = scene, ~k.on, NEW x \in Task, pc' = [pc EXCEPT ![x] = "app"], loc' = loc,
         k'.spent = k.spent, DOMAIN k'.nv = Task
  PROVE  Patience'
<1>1. ASSUME NEW y \in Task PROVE LocalsOK(scene, y, pc'[y], loc'[y]) /\ Patient(k', y, pc'[y], loc'[y])
  <2>1. pc'[y] \in {"app", "none"} /\ pc'[y] \in {"app", pc[y]}
    BY BootFacts, Domains
  <2>2. LocalsOK(scene, y, pc[y], loc[y]) /\ LocalsOK(scene, y, "app", loc[y])
    BY PatienceFacts, AppLocals
  <2> QED BY <2>1, <2>2, RestPatient DEF Resting
<1> QED BY <1>1 DEF Patience

LEMMA CreateAtBootPatient ==
  ASSUME IInv, Patience, scene' = scene, NEW x \in Task, CreateAtBoot(x)
  PROVE  Patience'
<1> DEFINE u == NewTask(k, x)
           c == IF scene.prio[k.cur] <= scene.prio[x] THEN x ELSE u.cur
<1>1. ~k.on /\ k' = [u EXCEPT !.cur = c] /\ pc' = [pc EXCEPT ![x] = "app"] /\ loc' = loc
  BY DEF CreateAtBoot
<1>2. Data(u) /\ u.spent = k.spent /\ DOMAIN u.nv = Task
  BY SuspNat, PatienceFacts, NewTaskSpares
<1> HIDE DEF u, c
<1>3. k'.spent = u.spent /\ k'.nv = u.nv
  BY <1>1, <1>2, ZenonT(40) DEF Data, Fields
<1> QED BY <1>1, <1>2, <1>3, BootPatient

LEMMA StartSchedulerPatient ==
  ASSUME IInv, Patience, scene' = scene, StartScheduler
  PROVE  Patience'
<1> DEFINE u == NewTask(k, Idle)
           c == IF k.prio[k.cur] <= 0 THEN Idle ELSE u.cur
           y == TRUE
<1>1. /\ ~k.on /\ k' = [u EXCEPT !.on = y, !.next = MaxTick, !.tick = 0, !.cur = c]
      /\ pc' = [pc EXCEPT ![Idle] = "app"] /\ loc' = loc /\ Idle \in Task
  BY SchedulerAssumption DEF StartScheduler
<1>2. Data(u) /\ u.spent = k.spent /\ DOMAIN u.nv = Task
  BY <1>1, SuspNat, PatienceFacts, NewTaskSpares
<1> HIDE DEF u, c, y
<1>3. k'.spent = u.spent /\ k'.nv = u.nv
  BY <1>1, <1>2, ZenonT(40) DEF Data, Fields
<1> QED BY <1>1, <1>2, <1>3, BootPatient

-----------------------------------------------------------------------------
(* The calls on queues.                                                    *)

LEMMA CallTimed ==
  ASSUME IInv, Patience, scene' = scene, NEW t \in Task, NEW api, api \notin Waits \cup {"delay"}, NEW o, NEW v,
         NEW n \in scene.waits[t] \cup {0}, Call(t, api, o, v, n)
  PROVE  Patience'
<1> DEFINE c == [NoCall EXCEPT !.obj = o, !.val = v, !.ticks = n, !.asked = n]
           l == [c EXCEPT !.api = api]
           q == Timing(k, t)
<1>1. Becomes(t, "try", l) /\ k' = q
  BY Calls, Zenon DEF Call
<1>2. /\ DOMAIN l = DOMAIN NoCall /\ l.ticks = n /\ l.asked = n /\ l.timed = NoCall.timed /\ l.entry = NoCall.entry
      /\ l.then = NoCall.then /\ l.api = api
  BY NoCallPlan
<1> HIDE DEF l, c
<1>3. l.timed \in BOOLEAN /\ ~l.timed
  BY <1>2, NoCallAsks, Zenon
<1>4. LocalsOK(scene, t, "try", l)
  <2>1. n \in Time /\ (n = MaxTick => n \in scene.waits[t]) /\ l.then = "app"
    BY <1>2, SceneFacts, NoCallAsks, NoCallPlan
  <2> QED BY <1>2, <1>3, <2>1, NoCallAsks DEF LocalsOK, Ends, InQueue
<1>5. Patient(k', t, "try", l)
  BY <1>3 DEF Patient, Ends
<1>6. /\ q.nv = k.nv /\ q.spent \in [Task -> Nat] /\ \A u \in Task : u # t => Spares(k, q, u)
  BY DataFacts, PatienceFacts, TimingSpares
<1> HIDE DEF q
<1>7. DOMAIN k'.nv = Task
  BY <1>1, <1>6 DEF Patience
<1> QED BY <1>1, <1>4, <1>5, <1>6, <1>7, CallPatient

LEMMA EntriesPatient ==
  ASSUME IInv, Patience, scene' = scene, NEW t \in Task, Send(t) \/ Give(t) \/ Receive(t) \/ Take(t)
  PROVE  Patience'
<1>1. CASE Send(t)
  <2>1. PICK api \in Called(t, Posts), o \in scene.uses[t], m \in Msg, n \in scene.waits[t] : Call(t, api, o, m, n)
    BY <1>1, Zenon DEF Send
  <2>2. api \notin Waits \cup {"delay"}
    BY DEF Called, Posts, Waits
  <2> QED BY <2>1, <2>2, CallTimed
<1>2. CASE Give(t)
  <2>1. PICK o : Call(t, "give", o, 0, 0)
    BY <1>2 DEF Give, Called
  <2>2. "give" \notin Waits \cup {"delay"}
    BY DEF Waits
  <2> QED BY <2>1, <2>2, CallTimed
<1>3. CASE Receive(t)
  <2>1. PICK api \in Called(t, {"receive", "peek"}), o \in scene.uses[t], n \in scene.waits[t] : Call(t, api, o, 0, n)
    BY <1>3, Zenon DEF Receive
  <2>2. api \notin Waits \cup {"delay"}
    BY DEF Called, Waits
  <2> QED BY <2>1, <2>2, CallTimed
<1>4. CASE Take(t)
  <2>1. PICK api \in Called(t, {"take"}), o \in scene.uses[t], n \in scene.waits[t] : Call(t, api, o, 0, n)
    BY <1>4, Zenon DEF Take
  <2>2. api \notin Waits \cup {"delay"}
    BY DEF Called, Waits
  <2> QED BY <2>1, <2>2, CallTimed
<1> QED BY <1>1, <1>2, <1>3, <1>4

LEMMA ResetPatient ==
  ASSUME IInv, Patience, scene' = scene, NEW t \in Task, Reset(t)
  PROVE  Patience'
<1>1. PICK o \in scene.uses[t] : Simple(t, "reset", WakeFirst(k, TxList[o]))
  BY Zenon DEF Reset
<1>2. TxList[o] \in EventList
  BY SceneFacts, QueueAssumption
<1>3. Gentle(k, WakeFirst(k, TxList[o]))
  BY <1>2, SuspNat, WakeFirstGentle
<1> QED BY <1>1, <1>3, SimpleGentle

LEMMA SentPatient ==
  ASSUME IInv, Patience, scene' = scene, NEW t \in Task, Sent(t)
  PROVE  Patience'
<1> DEFINE o == loc[t].obj
           d == PriorityDisinherit(k, t)
           q == IF Kind[o] = "mutex" THEN d ELSE k
<1>1. /\ Return(t, "try") /\ pc[t] \in InQueue
      /\ k' = Yield(q) \/ k' = WakeFirst(q, RxList[o])
  BY Zenon DEF Sent, Return, Go, InQueue
<1>2. RxList[o] \in EventList /\ Sound(k)
  BY <1>1, CallerFacts
<1>3. Sound(d) /\ Gentle(k, d)
  BY <1>2, DataFacts, PriorityDisinheritSound, PriorityDisinheritGentle
<1> HIDE DEF d, o
<1>4. Sound(q) /\ Gentle(k, q)
  BY <1>2, <1>3, GentleItself
<1> HIDE DEF q
<1>5. Good(q) /\ Data(q)
  BY <1>4, DataOf DEF Sound
<1>6. Gentle(q, k')
  BY <1>1, <1>2, <1>5, YieldAlike, AlikeGentle, WakeFirstGentle
<1>7. Gentle(k, k')
  BY <1>4, <1>6, GentleTwice
<1> QED BY <1>1, <1>7, ReturnGentle

LEMMA ReceivedPatient ==
  ASSUME IInv, Patience, scene' = scene, NEW t \in Task, Received(t)
  PROVE  Patience'
<1> DEFINE o == loc[t].obj
           n == k.held[t] + 1
           h == [k EXCEPT !.held[t] = n]
           q == IF Kind[o] = "mutex" THEN h ELSE k
<1>1. Return(t, "try") /\ pc[t] \in InQueue /\ k' = WakeFirst(q, TxList[o])
  BY DEF Received, Return, Go, InQueue
<1>2. TxList[o] \in EventList /\ Sound(k)
  BY <1>1, CallerFacts
<1> HIDE DEF n
<1>3. Sound(h) /\ Gentle(k, h)
  BY <1>2, DataFacts, HeldRests, HeldAlike, AlikeGentle
<1> HIDE DEF h, o
<1>4. Good(q) /\ Gentle(k, q)
  BY <1>2, <1>3, GentleItself DEF Sound
<1> HIDE DEF q
<1>5. Gentle(k, k')
  BY <1>1, <1>2, <1>4, WakeFirstGentle, GentleTwice
<1> QED BY <1>1, <1>5, ReturnGentle

LEMMA PeekedPatient ==
  ASSUME IInv, Patience, scene' = scene, NEW t \in Task, Peeked(t) \/ Refused(t)
  PROVE  Patience'
<1>1. Return(t, "try") /\ pc[t] \in InQueue /\ (k' = k \/ k' = WakeFirst(k, RxList[loc[t].obj]))
  BY DEF Peeked, Refused, Return, Go, InQueue
<1>2. RxList[loc[t].obj] \in EventList
  BY <1>1, CallerFacts
<1>3. Gentle(k, k')
  BY <1>1, <1>2, SuspNat, WakeFirstGentle, GentleItself
<1> QED BY <1>1, <1>3, ReturnGentle

\* From one step of a waiting call to the next.
Akin(l, m) ==
  /\ DOMAIN m = DOMAIN l /\ m.api = l.api /\ m.asked = l.asked /\ m.timed = l.timed /\ m.ticks = l.ticks
  /\ m.entry = l.entry

LEMMA MovesOn ==
  ASSUME NEW q, NEW s, NEW t, NEW p \in InQueue, NEW l, LocalsOK(s, t, p, l), Patient(q, t, p, l), l.timed,
         NEW x \in InQueue, NEW m, Akin(l, m), m.then \notin {"slept", "nend"},
         x \in {"untx", "unrx"} => m.then = "try" \/ Done(q, t, l)
  PROVE  LocalsOK(s, t, x, m) /\ Patient(q, t, x, m)
<1>1. LocalsOK(s, t, x, m)
  BY DEF LocalsOK, Akin, InQueue, OnQueue, Ends
<1>2. /\ Done(q, t, l) <=> Done(q, t, m)
      /\ Clocked(q, t, l) <=> Clocked(q, t, m)
  BY DEF Akin, Done, Finite, Clocked, Past
<1>3. ~Ends(x, m, "slept") /\ ~Ends(x, m, "nend") /\ x # "nplace" /\ OnQueue(p)
  BY DEF Ends, InQueue, OnQueue
<1>4. Patient(q, t, x, m)
  BY <1>2, <1>3 DEF Akin, Patient
<1> QED BY <1>1, <1>4

LEMMA ItselfAkin == ASSUME NEW l PROVE Akin(l, l)
BY DEF Akin

LEMMA StartedIs ==
  ASSUME NEW l, CallData \subseteq DOMAIN l, NEW e
  PROVE  LET m == Started(l, e)
         IN  /\ DOMAIN m = DOMAIN l /\ m.api = l.api /\ m.asked = l.asked /\ m.timed \in BOOLEAN /\ m.timed
             /\ m.ticks = l.ticks /\ m.entry = e /\ m.then = l.then
<1> DEFINE y == TRUE
           m == [l EXCEPT !.timed = y, !.entry = e]
<1> HIDE DEF y
<1>1. /\ DOMAIN m = DOMAIN l /\ m.api = l.api /\ m.asked = l.asked /\ m.timed = y
      /\ m.ticks = l.ticks /\ m.entry = e /\ m.then = l.then
  BY DEF CallData, CallFields
<1> HIDE DEF m
<1>2. m.timed \in BOOLEAN /\ m.timed
  BY <1>1, Zenon DEF y
<1>3. m = Started(l, e)
  BY Zenon DEF m, y, Started
<1> QED BY <1>1, <1>2, <1>3

LEMMA SameTickPast ==
  ASSUME NEW q, q.tick \in Time, NEW l, l.entry.tick = q.tick
  PROVE  Past(q, l) = 0
<1>1. q.tick - q.tick = 0 /\ q.tick >= q.tick
  BY SchedulerAssumption DEF Time
<1> QED BY <1>1, PastIs

LEMMA StartWaitPatient ==
  ASSUME IInv, Patience, scene' = scene, NEW t \in Task, StartWait(t)
  PROVE  Patience'
<1> DEFINE l == loc[t]
           e == IF l.ticks = MaxTick THEN l.entry ELSE Now
           m == Started(l, e)
           q == Timing(k, t)
<1>1. Go(t, "try", "hold") /\ pc[t] = "try" /\ pc[t] \in InQueue
  BY DEF StartWait, Go, InQueue
<1>2. \/ l.timed /\ loc' = loc /\ k' = k
      \/ ~l.timed /\ loc' = [loc EXCEPT ![t] = m] /\ k' = q
  BY Zenon DEF StartWait, Started
<1>3. /\ LocalsOK(scene, t, "try", l) /\ Patient(k, t, "try", l) /\ CallData \subseteq DOMAIN l /\ l.asked \in Nat
      /\ l.ticks \in Time
  BY <1>1, PatienceFacts
<1>4. CASE l.timed /\ loc' = loc /\ k' = k
  <2>1. LocalsOK(scene, t, "hold", l) /\ Patient(k, t, "hold", l)
    <3>1. "try" \in InQueue /\ "hold" \in InQueue /\ "hold" \notin {"untx", "unrx"}
      BY DEF InQueue
    <3>2. l.then \notin {"slept", "nend"}
      BY <1>3, <3>1 DEF LocalsOK
    <3> HIDE DEF l
    <3> QED BY <1>3, <1>4, <3>1, <3>2, ItselfAkin, MovesOn
  <2>2. Becomes(t, "hold", l)
    BY <1>1, <1>4, GoKeeps
  <2> QED BY <1>4, <2>1, <2>2, GentleItself, CallGentle
<1>5. CASE ~l.timed /\ loc' = [loc EXCEPT ![t] = m] /\ k' = q
  <2>1. /\ DOMAIN m = DOMAIN l /\ m.api = l.api /\ m.asked = l.asked /\ m.timed \in BOOLEAN /\ m.timed
        /\ m.ticks = l.ticks /\ m.entry = e /\ m.then = l.then
    BY <1>3, StartedIs
  <2> HIDE DEF m
  <2>2. Becomes(t, "hold", m)
    BY <1>1, <1>5, GoesOn, Zenon
  <2>3. k.tick \in Time /\ Now.tick = k.tick /\ Now.ovf = k.ovf
    BY SuspNat, DataOf DEF Now
  <2>4. l.ticks = l.asked
    BY <1>3, <1>5 DEF LocalsOK
  <2>5. LocalsOK(scene, t, "hold", m)
    BY <1>3, <2>1, <2>3, <2>4 DEF LocalsOK, OnQueue, InQueue, Ends
  <2>6. /\ q.tick = k.tick /\ q.ovf = k.ovf /\ q.nv = k.nv /\ q.spent \in [Task -> Nat] /\ q.spent[t] = 0
        /\ \A u \in Task : u # t => Spares(k, q, u)
    BY DataFacts, PatienceFacts, TimingSpares
  <2> HIDE DEF q
  <2>7. m.asked # MaxTick => Clocked(q, t, m)
    <3> SUFFICES ASSUME m.asked # MaxTick PROVE Clocked(q, t, m)
      OBVIOUS
    <3>1. m.entry = Now
      BY <2>1, <2>4
    <3>2. Past(q, m) = 0
      BY <2>3, <2>6, <3>1, SameTickPast
    <3>3. m.asked <= 0 + m.ticks - 0
      BY <1>3, <2>1, <2>4
    <3> QED BY <2>3, <2>6, <3>1, <3>2, <3>3 DEF Clocked
  <2>8. Patient(k', t, "hold", m)
    BY <1>5, <2>7 DEF Patient, Ends
  <2>9. DOMAIN q.nv = Task
    BY <2>6 DEF Patience
  <2> QED BY <1>5, <2>2, <2>5, <2>6, <2>8, <2>9, CallPatient
<1> QED BY <1>2, <1>4, <1>5

LEMMA HoldPatient ==
  ASSUME IInv, Patience, scene' = scene, NEW t \in Task, Hold(t) \/ LockQueue(t)
  PROVE  Patience'
<1> DEFINE l == loc[t]
<1>1. PICK from \in {"hold", "lock"}, p \in {"lock", "check"} : Go(t, from, p) /\ loc' = loc
  BY DEF Hold, LockQueue
<1>2. pc[t] = from /\ from \in InQueue /\ p \in InQueue /\ Becomes(t, p, l)
  BY <1>1, GoKeeps DEF InQueue
<1>3. Gentle(k, k')
  BY DataFacts, SuspendAlike, AlikeGentle, GentleItself DEF Hold, LockQueue
<1>4. LocalsOK(scene, t, from, l) /\ Patient(k', t, from, l)
  BY <1>2, <1>3, TaskFacts, PatienceFacts, SparesKeeps DEF Gentle
<1>5. l.timed /\ l.then \notin {"slept", "nend"}
  BY <1>2, <1>4 DEF LocalsOK
<1>6. LocalsOK(scene, t, p, l) /\ Patient(k', t, p, l)
  BY <1>1, <1>2, <1>4, <1>5, ItselfAkin, MovesOn
<1> QED BY <1>2, <1>3, <1>6, CallGentle

LEMMA EndedIs ==
  ASSUME NEW l, CallData \subseteq DOMAIN l, NEW x
  PROVE  LET m == Ended(l, x)
         IN  /\ DOMAIN m = DOMAIN l /\ m.api = l.api /\ m.asked = l.asked /\ m.timed = l.timed
             /\ m.ticks = 0 /\ m.entry = l.entry /\ m.then = x
<1> DEFINE y == FALSE
           m == [l EXCEPT !.ticks = 0, !.yields = y, !.then = x]
<1> HIDE DEF y
<1>1. /\ DOMAIN m = DOMAIN l /\ m.api = l.api /\ m.asked = l.asked /\ m.timed = l.timed
      /\ m.ticks = 0 /\ m.entry = l.entry /\ m.then = x
  BY DEF CallData, CallFields
<1> HIDE DEF m
<1>2. m = Ended(l, x)
  BY Zenon DEF m, y, Ended
<1> QED BY <1>1, <1>2

LEMMA LeftIs ==
  ASSUME NEW l, CallData \subseteq DOMAIN l, NEW x, NEW e
  PROVE  LET m == Left(l, x, e)
         IN  /\ DOMAIN m = DOMAIN l /\ m.api = l.api /\ m.asked = l.asked /\ m.timed = l.timed
             /\ m.ticks = x /\ m.entry = e /\ m.then = l.then
BY DEF CallData, CallFields, Left

LEMMA TryingIs ==
  ASSUME NEW l, CallData \subseteq DOMAIN l
  PROVE  Akin(l, Trying(l)) /\ Trying(l).then = "try"
<1> DEFINE y == FALSE
           m == [l EXCEPT !.then = "try", !.yields = y]
<1> HIDE DEF y
<1>1. Akin(l, m) /\ m.then = "try"
  BY DEF CallData, CallFields, Akin
<1> HIDE DEF m
<1>2. m = Trying(l)
  BY Zenon DEF m, y, Trying
<1> QED BY <1>1, <1>2

LEMMA WaitingIs ==
  ASSUME NEW l, CallData \subseteq DOMAIN l
  PROVE  Akin(l, Waiting(l)) /\ Waiting(l).then = "try"
<1> DEFINE y == TRUE
           m == [l EXCEPT !.then = "try", !.yields = y]
<1> HIDE DEF y
<1>1. Akin(l, m) /\ m.then = "try"
  BY DEF CallData, CallFields, Akin
<1> HIDE DEF m
<1>2. m = Waiting(l)
  BY Zenon DEF m, y, Waiting
<1> QED BY <1>1, <1>2

LEMMA ExpiresDone ==
  ASSUME IInv, Patience, NEW t \in Task, pc[t] = "check", loc[t].ticks # 0, TimedOut(loc[t].entry, loc[t].ticks)
  PROVE  Done(k, t, loc[t])
<1> DEFINE l == loc[t]
<1>1. /\ l.ticks # MaxTick
      /\ (k.ovf # l.entry.ovf /\ k.tick >= l.entry.tick) \/ Past(k, l) >= l.ticks
  BY DEF TimedOut, Elapsed, Past
<1>2. /\ LocalsOK(scene, t, "check", l) /\ Patient(k, t, "check", l) /\ k.spent[t] \in Nat /\ l.asked \in Nat
      /\ l.ticks \in Nat /\ k.tick \in Time
  BY PatienceFacts, SchedulerAssumption, SuspNat, DataOf DEF Time
<1>3. l.timed /\ l.asked # MaxTick /\ OnQueue("check")
  BY <1>1, <1>2 DEF LocalsOK, OnQueue, InQueue
<1>4. Clocked(k, t, l)
  BY <1>2, <1>3 DEF Patient
<1>5. Past(k, l) \in Nat
  BY <1>2, PastIs, SchedulerAssumption DEF LocalsOK
<1>6. k.spent[t] >= l.asked
  <2> DEFINE a == Past(k, l)
  <2>1. \/ k.spent[t] >= l.asked
        \/ a >= l.ticks /\ l.asked <= k.spent[t] + l.ticks - a
    BY <1>1, <1>2, <1>4 DEF Clocked
  <2>2. a \in Nat
    BY <1>5
  <2> HIDE DEF a
  <2> QED BY <1>2, <2>1, <2>2
<1> QED BY <1>3, <1>6 DEF Done, Finite

LEMMA LeftPatient ==
  ASSUME IInv, Patience, NEW t \in Task, pc[t] = "check", loc[t].ticks # MaxTick, loc[t].ticks # 0,
         NEW m, m = Left(loc[t], loc[t].ticks - Elapsed(loc[t].entry), Now)
  PROVE  LocalsOK(scene, t, "test", m) /\ Patient(k, t, "test", m)
<1> DEFINE l == loc[t]
           a == Past(k, l)
<1>1. /\ LocalsOK(scene, t, "check", l) /\ Patient(k, t, "check", l) /\ k.spent[t] \in Nat /\ l.asked \in Nat
      /\ l.ticks \in Nat /\ k.tick \in Time /\ CallData \subseteq DOMAIN l
  BY PatienceFacts, SchedulerAssumption, SuspNat, DataOf DEF Time
<1>2. l.timed /\ l.asked # MaxTick /\ OnQueue("check") /\ l.then \notin {"slept", "nend"}
      /\ l.api \notin Waits \cup {"delay"}
  BY <1>1 DEF LocalsOK, OnQueue, InQueue
<1>3. Clocked(k, t, l) /\ a \in Nat
  BY <1>1, <1>2, PastIs, SchedulerAssumption DEF Patient, LocalsOK
<1>4. Elapsed(l.entry) = a
  BY DEF Elapsed, Past
<1>5. /\ DOMAIN m = DOMAIN l /\ m.api = l.api /\ m.asked = l.asked /\ m.timed = l.timed
      /\ m.ticks = l.ticks - a /\ m.entry = Now /\ m.then = l.then
  BY <1>1, <1>4, LeftIs
<1>6. Now.tick = k.tick /\ Now.ovf = k.ovf
  BY DEF Now
<1>7. LocalsOK(scene, t, "test", m)
  BY <1>1, <1>2, <1>5, <1>6 DEF LocalsOK, OnQueue, InQueue, Ends
<1>8. Past(k, m) = 0
  BY <1>1, <1>5, <1>6, SameTickPast
<1>9. Clocked(k, t, m)
  <2>1. k.spent[t] < l.asked => l.asked <= k.spent[t] + l.ticks - a
    BY <1>3 DEF Clocked
  <2> HIDE DEF a, l
  <2>2. k.spent[t] < m.asked => m.asked <= k.spent[t] + m.ticks - 0
    BY <1>1, <1>3, <1>5, <2>1
  <2> QED BY <1>5, <1>6, <1>8, <2>2 DEF Clocked
<1>10. Patient(k, t, "test", m)
  BY <1>9 DEF Patient, Ends
<1> QED BY <1>7, <1>10

LEMMA CheckForTimeOutPatient ==
  ASSUME IInv, Patience, scene' = scene, NEW t \in Task, CheckForTimeOut(t)
  PROVE  Patience'
<1> DEFINE l == loc[t]
<1>1. pc[t] = "check" /\ k' = k
  BY DEF CheckForTimeOut
<1>2. /\ LocalsOK(scene, t, "check", l) /\ Patient(k, t, "check", l) /\ CallData \subseteq DOMAIN l /\ l.ticks # 0
  BY <1>1, PatienceFacts, TaskFacts DEF PlanOK
<1>3. l.timed /\ l.then \notin {"slept", "nend"} /\ "check" \in InQueue /\ "test" \in InQueue
  BY <1>2 DEF LocalsOK, InQueue
<1>4. CASE TimedOut(l.entry, l.ticks)
  <2> DEFINE x == IF l.api \in Sends THEN "app" ELSE "expired"
             m == Ended(l, x)
  <2>1. Go(t, "check", "untx") /\ loc' = [loc EXCEPT ![t] = m]
    BY <1>4, Zenon DEF CheckForTimeOut, Ended
  <2>2. /\ DOMAIN m = DOMAIN l /\ m.api = l.api /\ m.asked = l.asked /\ m.timed = l.timed
        /\ m.ticks = 0 /\ m.entry = l.entry /\ m.then = x
    BY <1>2, EndedIs
  <2>3. x \in {"app", "expired"} /\ Becomes(t, "untx", m)
    BY <2>1, GoesOn, Zenon
  <2> HIDE DEF m, x
  <2>4. Done(k, t, l)
    BY <1>1, <1>2, <1>4, ExpiresDone
  <2>5. LocalsOK(scene, t, "untx", m)
    BY <1>2, <1>3, <2>2, <2>3 DEF LocalsOK, OnQueue, InQueue, Ends
  <2>6. Done(k, t, m)
    BY <2>2, <2>4 DEF Done, Finite
  <2>7. Patient(k', t, "untx", m)
    BY <1>1, <2>2, <2>6 DEF Patient, Ends
  <2> QED BY <1>1, <2>3, <2>5, <2>7, GentleItself, CallGentle
<1>5. CASE ~TimedOut(l.entry, l.ticks)
  <2> DEFINE m == StillWaiting(l)
  <2>1. Go(t, "check", "test") /\ loc' = [loc EXCEPT ![t] = m]
    BY <1>5 DEF CheckForTimeOut
  <2>2. m = l \/ (l.ticks # MaxTick /\ m = Left(l, l.ticks - Elapsed(l.entry), Now))
    BY DEF StillWaiting, Left
  <2> HIDE DEF m
  <2>3. Becomes(t, "test", m)
    BY <2>1, GoesOn, Zenon
  <2>4. LocalsOK(scene, t, "test", l) /\ Patient(k, t, "test", l)
    <3>1. "test" \notin {"untx", "unrx"}
      OBVIOUS
    <3> HIDE DEF l
    <3> QED BY <1>2, <1>3, <3>1, ItselfAkin, MovesOn
  <2>5. LocalsOK(scene, t, "test", m) /\ Patient(k, t, "test", m)
    BY <1>1, <1>2, <2>2, <2>4, LeftPatient
  <2> QED BY <1>1, <2>3, <2>5, GentleItself, CallGentle
<1> QED BY <1>4, <1>5

LEMMA TestPatient ==
  ASSUME IInv, Patience, scene' = scene, NEW t \in Task, Test(t)
  PROVE  Patience'
<1> DEFINE l == loc[t]
           m == Trying(l)
           p == IF Kind[l.obj] = "mutex" THEN "inherit" ELSE "place"
<1>1. pc[t] = "test" /\ k' = k
  BY DEF Test
<1>2. LocalsOK(scene, t, "test", l) /\ Patient(k', t, "test", l) /\ CallData \subseteq DOMAIN l
  BY <1>1, PatienceFacts
<1>3. l.timed /\ l.then \notin {"slept", "nend"} /\ "test" \in InQueue
  BY <1>2 DEF LocalsOK, InQueue
<1>4. Gentle(k, k')
  BY <1>1, GentleItself
<1>5. CASE Go(t, "test", p) /\ loc' = loc
  <2>1. p \in InQueue /\ p \notin {"untx", "unrx"}
    BY DEF InQueue
  <2>2. Becomes(t, p, l)
    BY <1>5, GoKeeps
  <2> HIDE DEF p, l
  <2>3. LocalsOK(scene, t, p, l) /\ Patient(k', t, p, l)
    BY <1>2, <1>3, <2>1, ItselfAkin, MovesOn
  <2> QED BY <1>4, <2>2, <2>3, CallGentle
<1>6. CASE Go(t, "test", "untx") /\ loc' = [loc EXCEPT ![t] = m]
  <2>1. Becomes(t, "untx", m)
    BY <1>6, GoesOn, Zenon
  <2>2. Akin(l, m) /\ m.then = "try" /\ "untx" \in InQueue
    BY <1>2, TryingIs DEF InQueue
  <2> HIDE DEF m, l
  <2>3. LocalsOK(scene, t, "untx", m) /\ Patient(k', t, "untx", m)
    BY <1>2, <1>3, <2>2, MovesOn
  <2> QED BY <1>4, <2>1, <2>3, CallGentle
<1> QED BY <1>5, <1>6, Zenon DEF Test, Trying

LEMMA InheritPatient ==
  ASSUME IInv, Patience, scene' = scene, NEW t \in Task, Inherit(t)
  PROVE  Patience'
<1> DEFINE l == loc[t]
           h == qs[l.obj].holder
           b == h # NoTask /\ Inherits(k, h)
           m == [l EXCEPT !.inherited = b]
<1>1. /\ Go(t, "inherit", "place") /\ pc[t] = "inherit" /\ loc' = [loc EXCEPT ![t] = m]
      /\ k' = IF h = NoTask THEN k ELSE PriorityInherit(k, h)
  BY DEF Inherit, Go
<1> HIDE DEF b, h
<1>2. Gentle(k, k')
  BY <1>1, DataFacts, GentleItself, PriorityInheritGentle
<1>3. LocalsOK(scene, t, "inherit", l) /\ Patient(k', t, "inherit", l) /\ CallData \subseteq DOMAIN l
  BY <1>1, <1>2, TaskFacts, PatienceFacts, SparesKeeps DEF Gentle
<1>4. Becomes(t, "place", m)
  BY <1>1, GoesOn, Zenon
<1>5. Agree(l, m)
  BY <1>3, InheritedAgrees, Zenon
<1> HIDE DEF m, l
<1>6. l.timed /\ l.then \notin {"slept", "nend"} /\ "inherit" \in InQueue /\ "place" \in InQueue
  BY <1>3 DEF LocalsOK, InQueue
<1>7. LocalsOK(scene, t, "place", l) /\ Patient(k', t, "place", l)
  BY <1>3, <1>6, ItselfAkin, MovesOn
<1>8. LocalsOK(scene, t, "place", m) /\ Patient(k', t, "place", m)
  BY <1>5, <1>7, AgreeKeeps
<1> QED BY <1>2, <1>4, <1>8, CallGentle

LEMMA PlacePatient ==
  ASSUME IInv, Patience, scene' = scene, NEW t \in Task, Place(t)
  PROVE  Patience'
<1> DEFINE l == loc[t]
           w == WaitsIn(l)
           n == l.ticks
           m == Waiting(l)
           r == PlaceOnEventList(k, w, n)
<1>1. Go(t, "place", "untx") /\ pc[t] = "place" /\ loc' = [loc EXCEPT ![t] = m] /\ k' = r
  BY Zenon DEF Place, Go, Waiting
<1>2. /\ PlanOK("place", l) /\ l.obj \in Queues /\ Good(k)
      /\ LocalsOK(scene, t, "place", l) /\ Patient(k, t, "place", l) /\ CallData \subseteq DOMAIN l
  BY <1>1, TaskFacts, PlanFields, SuspNat, PatienceFacts DEF InQueue
<1>3. Runs(t) /\ Becomes(t, "untx", m)
  BY <1>1, GoesOn, Zenon
<1>4. w \in EventList /\ n \in Time /\ n # 0
  BY <1>2, QueueAssumption DEF PlanOK, WaitsIn
<1>5. k.cur = t /\ k.ev[k.cur] = "none"
  BY <1>1, <1>3, RunsHere DEF Settled, Runs, Here
<1>6. Akin(l, m) /\ m.then = "try" /\ "place" \in InQueue /\ "untx" \in InQueue
  BY <1>2, WaitingIs DEF InQueue
<1>7. l.timed
  BY <1>2 DEF LocalsOK
<1> HIDE DEF m, l, w, n
<1>8. /\ r.spent = k.spent /\ r.nv = k.nv /\ r.tick = k.tick /\ r.ovf = k.ovf
      /\ \A u \in Task : u # k.cur => Spares(k, r, u)
  BY <1>2, <1>4, <1>5, PlaceSpares
<1> HIDE DEF r
<1>9. Patient(k', t, "place", l)
  BY <1>1, <1>2, <1>8 DEF Patient, Done, Clocked, Past, Ends
<1>10. LocalsOK(scene, t, "untx", m) /\ Patient(k', t, "untx", m)
  BY <1>2, <1>6, <1>7, <1>9, MovesOn
<1>11. k'.spent \in [Task -> Nat] /\ DOMAIN k'.nv = Task
  BY <1>1, <1>8 DEF Patience
<1> QED BY <1>1, <1>3, <1>5, <1>8, <1>10, <1>11, CallPatient

LEMMA Releases ==
  ASSUME NEW q, NEW s, NEW t, NEW p \in {"untx", "unrx"}, NEW l, LocalsOK(s, t, p, l), Patient(q, t, p, l),
         NEW x \in {"untx", "unrx", "resume"}
  PROVE  LocalsOK(s, t, x, l) /\ Patient(q, t, x, l)
<1>1. l.timed /\ l.then \notin {"slept", "nend"} /\ l.api \notin Waits \cup {"delay"}
  BY DEF LocalsOK, InQueue
<1>2. LocalsOK(s, t, x, l)
  BY <1>1 DEF LocalsOK, InQueue, OnQueue, Ends
<1>3. ~Ends(x, l, "slept") /\ ~Ends(x, l, "nend") /\ x # "nplace" /\ OnQueue(p)
  BY <1>1 DEF Ends, InQueue, OnQueue
<1>4. Patient(q, t, x, l)
  BY <1>3 DEF Patient
<1> QED BY <1>2, <1>4

\* One turn of the unlocking.
LEMMA UnlockPatient ==
  ASSUME IInv, Patience, scene' = scene, NEW t \in Task, NEW at \in {"untx", "unrx"}, Unlocks(t, at),
         NEW e \in EventList, NEW x, NEW p \in {"untx", "unrx", "resume"}, Becomes(t, p, loc[t]),
         \/ k.wait[e] # <<>> /\ k' = [RemoveFromEventList(k, e) EXCEPT !.loop = x]
         \/ k' = [k EXCEPT !.loop = x]
  PROVE  Patience'
<1>1. pc[t] = at
  BY DEF Unlocks
<1> DEFINE r == RemoveFromEventList(k, e)
<1>2. k.wait[e] # <<>> => Data(r) /\ Gentle(k, r)
  BY SuspNat, RemoveGentle
<1> HIDE DEF r
<1>3. Gentle(k, k')
  <2>1. CASE k.wait[e] # <<>> /\ k' = [r EXCEPT !.loop = x]
    <3>1. Gentle(r, k')
      BY <1>2, <2>1, LoopAlike, AlikeGentle
    <3> QED BY <1>2, <2>1, <3>1, GentleTwice
  <2>2. CASE k' = [k EXCEPT !.loop = x]
    BY <2>2, DataFacts, LoopAlike, AlikeGentle
  <2> QED BY <2>1, <2>2 DEF r
<1>4. LocalsOK(scene, t, at, loc[t]) /\ Patient(k', t, at, loc[t])
  BY <1>1, <1>3, TaskFacts, PatienceFacts, SparesKeeps DEF Gentle
<1>5. LocalsOK(scene, t, p, loc[t]) /\ Patient(k', t, p, loc[t])
  BY <1>4, Releases
<1> QED BY <1>3, <1>5, CallGentle

LEMMA UnlocksPatient ==
  ASSUME IInv, Patience, scene' = scene, NEW t \in Task, UnlockTx(t) \/ UnlockRx(t)
  PROVE  Patience'
<1> DEFINE o == loc[t].obj
<1>0. DOMAIN pc = Task /\ DOMAIN loc = Task
  BY Domains
<1>1. CASE UnlockTx(t)
  <2>1. Unlocks(t, "untx") /\ pc[t] = "untx" /\ loc' = loc
    BY <1>1 DEF UnlockTx, Unlocks
  <2>2. RxList[o] \in EventList
    BY <2>1, CallerFacts DEF InQueue
  <2>3. \/ /\ k.wait[RxList[o]] # <<>> /\ k' = [RemoveFromEventList(k, RxList[o]) EXCEPT !.loop = "unlock"]
           /\ pc' = pc
        \/ k' = [k EXCEPT !.loop = "none"] /\ pc' = [pc EXCEPT ![t] = "unrx"]
    BY <1>1, Zenon DEF UnlockTx
  <2>4. Becomes(t, "untx", loc[t]) \/ pc' # pc
    BY <1>0, <2>1 DEF Becomes
  <2>5. Becomes(t, "unrx", loc[t]) \/ pc' # [pc EXCEPT ![t] = "unrx"]
    BY <1>0, <2>1 DEF Becomes
  <2> HIDE DEF o
  <2> QED BY <2>1, <2>2, <2>3, <2>4, <2>5, UnlockPatient
<1>2. CASE UnlockRx(t)
  <2>1. Unlocks(t, "unrx") /\ pc[t] = "unrx" /\ loc' = loc
    BY <1>2 DEF UnlockRx, Unlocks
  <2>2. TxList[o] \in EventList
    BY <2>1, CallerFacts DEF InQueue
  <2>3. \/ /\ k.wait[TxList[o]] # <<>> /\ k' = [RemoveFromEventList(k, TxList[o]) EXCEPT !.loop = "unlock"]
           /\ pc' = pc
        \/ k' = [k EXCEPT !.loop = "none"] /\ pc' = [pc EXCEPT ![t] = "resume"]
    BY <1>2, Zenon DEF UnlockRx
  <2>4. Becomes(t, "unrx", loc[t]) \/ pc' # pc
    BY <1>0, <2>1 DEF Becomes
  <2>5. Becomes(t, "resume", loc[t]) \/ pc' # [pc EXCEPT ![t] = "resume"]
    BY <1>0, <2>1 DEF Becomes
  <2> HIDE DEF o
  <2> QED BY <2>1, <2>2, <2>3, <2>4, <2>5, UnlockPatient
<1> QED BY <1>1, <1>2

LEMMA ExpiredPatient ==
  ASSUME IInv, Patience, scene' = scene, NEW t \in Task, Expired(t)
  PROVE  Patience'
<1> DEFINE l == loc[t]
<1>1. pc[t] = "expired" /\ Gentle(k, k')
  BY GentleItself DEF Expired
<1>2. Return(t, "expired") \/ \E p \in {"disinherit", "try"} : Go(t, "expired", p) /\ loc' = loc
  BY DEF Expired
<1>3. CASE Return(t, "expired")
  BY <1>1, <1>3, ReturnGentle
<1>4. ASSUME NEW p \in {"disinherit", "try"}, Go(t, "expired", p), loc' = loc PROVE Patience'
  <2>1. LocalsOK(scene, t, "expired", l) /\ Patient(k', t, "expired", l)
    BY <1>1, PatienceFacts DEF Expired
  <2>2. /\ l.timed /\ l.then \notin {"slept", "nend"} /\ "expired" \in InQueue
        /\ p \in InQueue /\ p \notin {"untx", "unrx"}
    BY <2>1 DEF LocalsOK, InQueue
  <2>3. Becomes(t, p, l)
    BY <1>4, GoKeeps
  <2> HIDE DEF l
  <2>4. LocalsOK(scene, t, p, l) /\ Patient(k', t, p, l)
    BY <2>1, <2>2, ItselfAkin, MovesOn
  <2> QED BY <1>1, <2>3, <2>4, CallGentle
<1> QED BY <1>2, <1>3, <1>4

LEMMA DisinheritPatient ==
  ASSUME IInv, Patience, scene' = scene, NEW t \in Task, Disinherit(t)
  PROVE  Patience'
<1>1. /\ Return(t, "disinherit")
      /\ k' = k \/ \E h, n : k' = DisinheritAfterTimeout(k, h, n)
  BY DEF Disinherit
<1>2. Gentle(k, k')
  BY <1>1, DataFacts, GentleItself, DisinheritGentle
<1> QED BY <1>1, <1>2, ReturnGentle

LEMMA FromISRPatient ==
  ASSUME IInv, Patience, scene' = scene, NEW o \in scene.uses["isr"],
         \/ \E where, m : SendFromISR(o, where, m)
         \/ GiveFromISR(o) \/ ReceiveFromISR(o)
  PROVE  Patience'
<1>1. pc' = pc /\ loc' = loc
  BY DEF SendFromISR, GiveFromISR, ReceiveFromISR
<1>2. k' = k \/ k' = WakeFirst(k, RxList[o]) \/ k' = WakeFirst(k, TxList[o])
  BY Zenon DEF SendFromISR, GiveFromISR, ReceiveFromISR
<1>3. RxList[o] \in EventList /\ TxList[o] \in EventList /\ Good(k)
  BY SuspNat, SceneFacts, QueueAssumption
<1>4. Gentle(k, k')
  BY <1>2, <1>3, WakeFirstGentle, GentleItself
<1> QED BY <1>1, <1>4, GentleStep

LEMMA QueueNextPatient ==
  ASSUME IInv, Patience, QueueNext
  PROVE  Patience'
<1>0. scene' = scene
  BY DEF QueueNext
<1>1. CASE QueueHandlers
  BY <1>0, <1>1, FromISRPatient DEF QueueHandlers
<1>2. ASSUME NEW t \in Task, QueueStep(t) PROVE Patience'
  <2>1. CASE Send(t) \/ Give(t) \/ Receive(t) \/ Take(t)
    BY <1>0, <2>1, EntriesPatient
  <2>2. CASE Reset(t)
    BY <1>0, <2>2, ResetPatient
  <2>3. CASE Sent(t) \/ Received(t) \/ Peeked(t) \/ Refused(t)
    BY <1>0, <2>3, SentPatient, ReceivedPatient, PeekedPatient
  <2>4. CASE StartWait(t) \/ Hold(t) \/ LockQueue(t) \/ CheckForTimeOut(t) \/ Test(t)
    BY <1>0, <2>4, StartWaitPatient, HoldPatient, CheckForTimeOutPatient, TestPatient
  <2>5. CASE Inherit(t) \/ Place(t) \/ UnlockTx(t) \/ UnlockRx(t) \/ Expired(t) \/ Disinherit(t)
    BY <1>0, <2>5, InheritPatient, PlacePatient, UnlocksPatient, ExpiredPatient, DisinheritPatient
  <2> QED BY <1>2, <2>1, <2>2, <2>3, <2>4, <2>5 DEF QueueStep
<1> QED BY <1>1, <1>2 DEF QueueNext

-----------------------------------------------------------------------------
(* The wait for a notification.                                            *)

Marked(q, t, s, v) == [q EXCEPT !.ns[t] = s, !.nv[t] = v]
LEMMA NoteSpares ==
  ASSUME NEW q, Good(q), DOMAIN q.nv = Task, NEW t \in Task, NEW s, NEW v
  PROVE  LET r == Marked(q, t, s, v)
         IN  /\ r.spent = q.spent /\ DOMAIN r.nv = Task /\ r.at = q.at /\ r.ev = q.ev /\ r.ns[t] = s
             /\ r.tick = q.tick /\ r.ovf = q.ovf /\ r.wake = q.wake
             /\ \A u \in Task : u # t => Spares(q, r, u)
<1> DEFINE r == Marked(q, t, s, v)
<1>0. r = [q EXCEPT !.ns[t] = s, !.nv[t] = v]
  BY DEF Marked
<1> HIDE DEF r
<1>1. Data(q) /\ DOMAIN q.ns = Task
  BY DataOf DEF Good, Shape, NoteTypes
<1>2. /\ r.spent = q.spent /\ r.at = q.at /\ r.ev = q.ev /\ r.wake = q.wake /\ r.tick = q.tick
      /\ r.ovf = q.ovf /\ r.ns = [q.ns EXCEPT ![t] = s] /\ r.nv = [q.nv EXCEPT ![t] = v]
  BY <1>0, <1>1, ZenonT(40) DEF Data, Fields
<1>3. DOMAIN r.nv = Task /\ r.ns[t] = s
  BY <1>1, <1>2
<1>4. ASSUME NEW u \in Task, u # t PROVE Spares(q, r, u)
  <2>1. r.ns[u] = q.ns[u] /\ r.nv[u] = q.nv[u]
    BY <1>1, <1>2, <1>4
  <2> QED BY <1>2, <2>1 DEF Spares
<1> QED BY <1>2, <1>3, <1>4 DEF r

LEMMA ThenIs ==
  ASSUME NEW l, CallData \subseteq DOMAIN l, NEW x
  PROVE  LET m == [l EXCEPT !.then = x]
         IN  /\ DOMAIN m = DOMAIN l /\ m.api = l.api /\ m.asked = l.asked /\ m.timed = l.timed
             /\ m.ticks = l.ticks /\ m.entry = l.entry /\ m.then = x
BY DEF CallData, CallFields

LEMMA NotifyWaitPatient ==
  ASSUME IInv, Patience, scene' = scene, NEW t \in Task, NotifyWait(t)
  PROVE  Patience'
<1> DEFINE c(n, b) == [NoCall EXCEPT !.val = b, !.ticks = n, !.asked = n]
<1>1. PICK api \in Called(t, Waits), n \in scene.waits[t], b \in {0, 1} :
        Enter(t, api, c(n, b), "nlook") /\ k' = Timing(k, t)
  BY Zenon DEF NotifyWait
<1> DEFINE l == [c(n, b) EXCEPT !.api = api]
           q == Timing(k, t)
<1>2. Becomes(t, "nlook", l)
  BY <1>1, Calls, Zenon
<1>3. n \in Time /\ api \in scene.calls[t] \cap Waits
  BY SceneFacts DEF Called
<1>4. /\ DOMAIN l = DOMAIN NoCall /\ l.ticks = n /\ l.asked = n /\ l.timed = NoCall.timed /\ l.entry = NoCall.entry
      /\ l.then = NoCall.then /\ l.api = api
  BY NoCallPlan
<1> HIDE DEF l
<1>5. l.timed \in BOOLEAN /\ ~l.timed
  BY <1>4, NoCallAsks, Zenon
<1>6. LocalsOK(scene, t, "nlook", l)
  BY <1>3, <1>4, <1>5, NoCallAsks DEF LocalsOK, Ends, InQueue
<1>7. /\ q.nv = k.nv /\ q.spent \in [Task -> Nat] /\ \A u \in Task : u # t => Spares(k, q, u)
  BY DataFacts, PatienceFacts, TimingSpares
<1> HIDE DEF q
<1>8. DOMAIN k'.nv = Task
  BY <1>1, <1>7 DEF Patience, q
<1>9. Patient(k', t, "nlook", l)
  BY AloofPatient DEF Aloof
<1> QED BY <1>1, <1>2, <1>6, <1>7, <1>8, <1>9, CallPatient DEF q

LEMMA LookPatient ==
  ASSUME IInv, Patience, scene' = scene, NEW t \in Task, Look(t)
  PROVE  Patience'
<1> DEFINE l == loc[t]
<1>1. k' = k /\ loc' = loc /\ pc[t] = "nlook"
  BY DEF Look, Go
<1>2. /\ LocalsOK(scene, t, "nlook", l) /\ k.spent[t] \in Nat
  BY <1>1, PatienceFacts
<1>3. CASE (Noted(t) \/ l.ticks = 0) /\ Go(t, "nlook", "nend")
  <2>1. l.api \in Waits /\ l.ticks = l.asked /\ ~l.timed
    BY <1>2 DEF LocalsOK, OnQueue, InQueue
  <2>2. Noted(t) => Told(k, t, l)
    BY DEF Noted, Told
  <2>3. l.ticks = 0 => Done(k, t, l)
    BY <1>2, <2>1, NoCallAsks DEF Done, Finite
  <2>4. LocalsOK(scene, t, "nend", l)
    BY <1>2, <2>1 DEF LocalsOK, Ends, OnQueue, InQueue
  <2>5. Patient(k, t, "nend", l)
    BY <1>3, <2>1, <2>2, <2>3 DEF Patient, Ends
  <2>6. Becomes(t, "nend", l)
    BY <1>1, <1>3, GoKeeps
  <2> QED BY <1>1, <2>4, <2>5, <2>6, GentleItself, CallGentle
<1>4. CASE Go(t, "nlook", "nhold")
  <2>1. LocalsOK(scene, t, "nhold", l)
    BY <1>2 DEF LocalsOK, Ends, OnQueue, InQueue
  <2>2. Patient(k, t, "nhold", l)
    BY AloofPatient DEF Aloof
  <2>3. Becomes(t, "nhold", l)
    BY <1>1, <1>4, GoKeeps
  <2> QED BY <1>1, <2>1, <2>2, <2>3, GentleItself, CallGentle
<1> QED BY <1>3, <1>4 DEF Look

LEMMA HoldToArmPatient ==
  ASSUME IInv, Patience, scene' = scene, NEW t \in Task, HoldToArm(t)
  PROVE  Patience'
<1> DEFINE l == loc[t]
           m == [l EXCEPT !.then = "nend"]
<1>1. Go(t, "nhold", "narm") /\ pc[t] = "nhold" /\ loc' = [loc EXCEPT ![t] = m] /\ k' = SuspendedAll(k)
  BY Zenon DEF HoldToArm, Go
<1>2. LocalsOK(scene, t, "nhold", l) /\ CallData \subseteq DOMAIN l
  BY <1>1, PatienceFacts
<1>3. /\ DOMAIN m = DOMAIN l /\ m.api = l.api /\ m.asked = l.asked /\ m.timed = l.timed
      /\ m.ticks = l.ticks /\ m.entry = l.entry /\ m.then = "nend"
  BY <1>2, ThenIs
<1> HIDE DEF m
<1>4. Becomes(t, "narm", m)
  BY <1>1, GoesOn, Zenon
<1>5. LocalsOK(scene, t, "narm", m)
  BY <1>2, <1>3 DEF LocalsOK, Ends, OnQueue, InQueue
<1>6. Patient(k', t, "narm", m)
  BY AloofPatient DEF Aloof
<1>7. Gentle(k, k')
  BY <1>1, DataFacts, SuspendAlike, AlikeGentle
<1> QED BY <1>4, <1>5, <1>6, <1>7, CallGentle

LEMMA ArmPatient ==
  ASSUME IInv, Patience, scene' = scene, NEW t \in Task, Arm(t)
  PROVE  Patience'
<1> DEFINE l == loc[t]
           y == ~Noted(t)
           m == [l EXCEPT !.yields = y]
           v == IF l.api = "nwait" THEN Cleared(k.nv[t], l.val) ELSE k.nv[t]
           s == "waiting"
           r == Marked(k, t, s, v)
<1>1. pc[t] = "narm" /\ loc' = [loc EXCEPT ![t] = m]
  BY DEF Arm, Go
<1>2. \/ Noted(t) /\ Go(t, "narm", "resume") /\ k' = k
      \/ Go(t, "narm", "nplace") /\ k' = r
  BY DEF Arm, Marked
<1>3. /\ LocalsOK(scene, t, "narm", l) /\ CallData \subseteq DOMAIN l /\ l.then = "nend"
  BY <1>1, TaskFacts, PatienceFacts DEF PlanOK
<1>4. l.api \in scene.calls[t] \cap Waits /\ ~l.timed
  BY <1>3 DEF LocalsOK, OnQueue, InQueue
<1> HIDE DEF y, v
<1>5. Agree(l, m)
  BY <1>3, YieldsAgrees, Zenon
<1> HIDE DEF m
<1>6. CASE Noted(t) /\ Go(t, "narm", "resume") /\ k' = k
  <2>1. Told(k, t, l)
    BY <1>6 DEF Noted, Told
  <2>2. LocalsOK(scene, t, "resume", l)
    BY <1>3, <1>4 DEF LocalsOK, Ends, OnQueue, InQueue
  <2>3. Patient(k, t, "resume", l)
    BY <1>3, <1>4, <2>1 DEF Patient, Ends
  <2>4. LocalsOK(scene, t, "resume", m) /\ Patient(k, t, "resume", m)
    BY <1>5, <2>2, <2>3, AgreeKeeps
  <2>5. Becomes(t, "resume", m)
    BY <1>1, <1>6, GoesOn, Zenon
  <2> QED BY <1>6, <2>4, <2>5, GentleItself, CallGentle
<1>7. CASE Go(t, "narm", "nplace") /\ k' = r
  <2>0. Good(k) /\ DOMAIN k.nv = Task
    BY SuspNat, PatienceFacts
  <2>a. s = "waiting"
    OBVIOUS
  <2> HIDE DEF s
  <2>1. /\ r.spent = k.spent /\ DOMAIN r.nv = Task /\ r.ns[t] = s
        /\ \A u \in Task : u # t => Spares(k, r, u)
    BY <2>0, NoteSpares
  <2> HIDE DEF r
  <2>2. LocalsOK(scene, t, "nplace", l)
    BY <1>3, <1>4 DEF LocalsOK, Ends, OnQueue, InQueue
  <2>3. Patient(r, t, "nplace", l)
    BY <2>1, <2>a DEF Patient, Ends, OnQueue, InQueue
  <2>4. LocalsOK(scene, t, "nplace", m) /\ Patient(r, t, "nplace", m)
    BY <1>5, <2>2, <2>3, AgreeKeeps
  <2>5. Becomes(t, "nplace", m)
    BY <1>1, <1>7, GoesOn, Zenon
  <2>6. r.spent \in [Task -> Nat]
    BY <2>1 DEF Patience
  <2> QED BY <1>7, <2>1, <2>4, <2>5, <2>6, CallPatient
<1> QED BY <1>2, <1>6, <1>7

LEMMA FileToWaitPatient ==
  ASSUME IInv, Patience, scene' = scene, NEW t \in Task, FileToWait(t)
  PROVE  Patience'
<1> DEFINE l == loc[t]
           y == TRUE
<1>1. /\ Go(t, "nplace", "resume") /\ loc' = loc /\ pc[t] = "nplace" /\ k.cur = t
      /\ k' = AddCurrentToDelayed(k, l.ticks, y)
  BY DEF FileToWait, Go, Runs
<1>2. l.then = "nend" /\ l.ticks # 0 /\ l.ticks \in Time
  BY <1>1, TaskFacts DEF PlanOK
<1>3. LocalsOK(scene, t, "nplace", l) /\ Patient(k, t, "nplace", l) /\ l.asked \in Nat /\ k.spent \in [Task -> Nat]
  BY <1>1, PatienceFacts
<1>4. l.ticks = l.asked /\ l.api \in scene.calls[t] \cap Waits /\ l.api # "delay" /\ ~l.timed
  BY <1>3 DEF LocalsOK, OnQueue, InQueue, Waits
<1>a. y
  OBVIOUS
<1> HIDE DEF y
<1>5. /\ k'.spent = k.spent /\ k'.nv = k.nv /\ k'.ns = k.ns
      /\ \A u \in Task : u # k.cur => Spares(k, k', u)
      /\ Sleeps(k', k.cur, l.ticks, y)
  BY <1>1, <1>2, SuspNat, AddCurrentIs
<1>6. Asleep(k', t, l)
  <2>1. CASE l.ticks = MaxTick
    BY <1>1, <1>4, <1>5, <1>a, <2>1 DEF Sleeps, Asleep, Finite
  <2>2. CASE l.ticks # MaxTick
    <3>1. k'.at[t] \in {"delayed", "overflow"} /\ Ahead(k', t) = l.ticks
      BY <1>1, <1>5, <2>2 DEF Sleeps
    <3>2. k'.spent[t] \in Nat
      BY <1>3, <1>5
    <3> QED BY <1>3, <1>4, <2>2, <3>1, <3>2 DEF Asleep, Finite
  <2> QED BY <2>1, <2>2
<1>7. Told(k', t, l) \/ k'.ns[t] = "waiting"
  BY <1>3, <1>5 DEF Patient, Told
<1>8. Patient(k', t, "resume", l)
  BY <1>2, <1>4, <1>6, <1>7 DEF Patient, Ends
<1>9. LocalsOK(scene, t, "resume", l)
  BY <1>2, <1>3, <1>4 DEF LocalsOK, Ends, OnQueue, InQueue
<1>10. Becomes(t, "resume", l)
  BY <1>1, GoKeeps
<1>11. k'.spent \in [Task -> Nat] /\ DOMAIN k'.nv = Task
  BY <1>3, <1>5 DEF Patience
<1> QED BY <1>1, <1>5, <1>8, <1>9, <1>10, <1>11, CallPatient

LEMMA NotifyEndsPatient ==
  ASSUME IInv, Patience, scene' = scene, NEW t \in Task, NotifyEnds(t)
  PROVE  Patience'
<1> DEFINE v == k.nv[t]
           left == CASE loc[t].api = "ntake" /\ v = 0 -> 0
                   [] loc[t].api = "ntake" -> IF loc[t].val = 1 THEN 0 ELSE v - 1
                   [] OTHER -> IF k.ns[t] = "received" THEN Cleared(v, loc[t].val) ELSE v
           s == "not"
           r == Marked(k, t, s, left)
<1>1. loc[t].back = "app"
  BY PlanFields
<1>2. Return(t, "nend") /\ k' = r
  BY <1>1 DEF NotifyEnds, Return, Marked
<1> HIDE DEF left, s
<1>0. Good(k) /\ DOMAIN k.nv = Task
  BY SuspNat, PatienceFacts
<1>3. /\ r.spent = k.spent /\ DOMAIN r.nv = Task
      /\ \A u \in Task : u # t => Spares(k, r, u)
  BY <1>0, NoteSpares
<1> HIDE DEF r
<1>4. Becomes(t, "app", NoCall)
  BY <1>2, Returns
<1>5. "app" \in Resting
  BY DEF Resting
<1>6. r.spent \in [Task -> Nat]
  BY <1>3 DEF Patience
<1>7. LocalsOK(scene, t, "app", NoCall) /\ Patient(k', t, "app", NoCall)
  BY <1>5, NoCallRests, RestPatient
<1> QED BY <1>2, <1>3, <1>4, <1>6, <1>7, CallPatient

LEMMA NotifiesPatient ==
  ASSUME IInv, Patience, scene' = scene, NEW x \in Task, NotifyFromISR(x) \/ \E t \in Task : TaskNotify(t, x)
  PROVE  Patience'
<1>1. pc' = pc /\ loc' = loc
  BY DEF NotifyFromISR, TaskNotify, Simple
<1>2. \E a : k' = Notified(k, x, a, 1) \/ k' = NotifiedFromISR(k, x, a, 1)
  BY Zenon DEF NotifyFromISR, TaskNotify, Simple
<1>3. Good(k) /\ DOMAIN k.nv = Task
  BY SuspNat DEF Patience
<1>4. Gentle(k, k')
  BY <1>2, <1>3, NotifiedGentle, NotifiedFromISRGentle
<1> QED BY <1>1, <1>4, GentleStep

\* Who clears a notification is the one to wait for it.
LEMMA NotifyClearPatient ==
  ASSUME IInv, Patience, Uncrossed, scene' = scene, NEW t \in Task, NEW x \in Task,
         NotifyStateClear(t, x) \/ NotifyValueClear(t, x)
  PROVE  Patience'
<1>1. pc' = pc /\ loc' = loc /\ pc[t] = "app" /\ "nclear" \in scene.calls[t]
  BY DEF NotifyStateClear, NotifyValueClear, Simple, Called, May
<1>2. (\E s : k' = [k EXCEPT !.ns[x] = s]) \/ (\E v : k' = [k EXCEPT !.nv[x] = v])
  BY Zenon DEF NotifyStateClear, NotifyValueClear, Simple
<1>3. /\ k'.tick = k.tick /\ k'.ovf = k.ovf /\ k'.spent = k.spent /\ k'.wake = k.wake /\ k'.at = k.at /\ k'.ev = k.ev
      /\ k'.ns = k.ns \/ \E s : k'.ns = [k.ns EXCEPT ![x] = s]
      /\ k'.nv = k.nv \/ \E v : k'.nv = [k.nv EXCEPT ![x] = v]
  BY <1>2, DataFacts, ZenonT(40) DEF Data, Fields
<1>4. DOMAIN k.ns = Task /\ DOMAIN k.nv = Task
  BY SuspNat DEF Good, Shape, NoteTypes, Patience
<1>5. ASSUME NEW u \in Task PROVE Patient(k', u, pc[u], loc[u])
  <2>1. LocalsOK(scene, u, pc[u], loc[u]) /\ Patient(k, u, pc[u], loc[u])
    BY DEF Patience
  <2>2. CASE u # x
    <3>1. k'.ns[u] = k.ns[u] /\ k'.nv[u] = k.nv[u]
      BY <1>3, <1>4, <2>2
    <3> QED BY <1>3, <2>1, <3>1 DEF Patient, Done, Asleep, Ahead, Told, Clocked, Past
  <2>3. CASE u = x /\ x = t
    BY <1>1, <2>3, RestPatient DEF Resting
  <2>4. CASE u = x /\ x # t
    <3>1. Called(x, Waits) = {}
      BY <1>1, <2>4 DEF Uncrossed
    <3>2. pc[x] # "nplace" /\ ~Ends(pc[x], loc[x], "nend")
      BY <2>1, <2>4, <3>1 DEF LocalsOK, Called
    <3> QED BY <1>3, <2>1, <2>4, <3>2 DEF Patient, Done, Asleep, Ahead, Clocked, Past
  <2> QED BY <2>2, <2>3, <2>4
<1>6. k'.spent \in [Task -> Nat] /\ DOMAIN k'.nv = Task
  BY <1>3, <1>4 DEF Patience
<1> QED BY <1>1, <1>5, <1>6 DEF Patience

LEMMA NotifyNextPatient ==
  ASSUME IInv, Patience, Uncrossed, NotifyNext
  PROVE  Patience'
<1>0. scene' = scene
  BY DEF NotifyNext
<1>1. CASE NotifyHandlers
  BY <1>0, <1>1, NotifiesPatient DEF NotifyHandlers
<1>2. ASSUME NEW t \in Task, NotifyStep(t) PROVE Patience'
  <2>1. CASE NotifyWait(t) \/ Look(t) \/ HoldToArm(t)
    BY <1>0, <2>1, NotifyWaitPatient, LookPatient, HoldToArmPatient
  <2>2. CASE Arm(t) \/ FileToWait(t) \/ NotifyEnds(t)
    BY <1>0, <2>2, ArmPatient, FileToWaitPatient, NotifyEndsPatient
  <2>3. CASE \E x \in Task : TaskNotify(t, x) \/ NotifyStateClear(t, x) \/ NotifyValueClear(t, x)
    BY <1>0, <2>3, NotifiesPatient, NotifyClearPatient
  <2> QED BY <1>2, <2>1, <2>2, <2>3 DEF NotifyStep
<1> QED BY <1>1, <1>2 DEF NotifyNext

-----------------------------------------------------------------------------
(* Every step of a program whose waits nobody crosses keeps Patience.      *)

LEMMA TaskStepPatient ==
  ASSUME IInv, Patience, Uncrossed, scene' = scene, NEW t \in Task, TaskStep(t)
  PROVE  Patience'
<1>1. CASE TaskYield(t) \/ Delay(t) \/ DelayBlocks(t) \/ DelayEnds(t)
  BY <1>1, TaskYieldPatient, DelayPatient, DelayBlocksPatient, DelayEndsPatient
<1>2. CASE LockScheduler(t) \/ UnlockScheduler(t) \/ CatchUpTicks(t) \/ ResumeAll(t) \/ Resumed(t)
  BY <1>2, LockSchedulerPatient, UnlockSchedulerPatient, ResumeAllPatient, ResumedPatient
<1>3. CASE \E x \in Task : Suspend(t, x) \/ Resume(t, x) \/ Delete(t, x) \/ Create(t, x)
  BY <1>3, SuspendPatient, ResumePatient, DeletePatient, CreatePatient
<1>4. CASE \E x \in Task, p \in Prio : PrioritySet(t, x, p)
  BY <1>4, PrioritySetPatient
<1>5. CASE SuspendEnds(t) \/ DeleteSelf(t) \/ Dies(t)
  BY <1>5, SuspendEndsPatient, DeleteSelfPatient, DiesPatient
<1> QED BY <1>1, <1>2, <1>3, <1>4, <1>5 DEF TaskStep

LEMMA SchedNextPatient ==
  ASSUME IInv, Patience, Uncrossed, SchedNext
  PROVE  Patience'
<1>1. scene' = scene
  BY DEF SchedNext
<1>2. CASE Boot
  BY <1>1, <1>2, StartSchedulerPatient, CreateAtBootPatient DEF Boot
<1>3. CASE Handlers
  BY <1>1, <1>3, PendSVPatient, SysTickPatient, ResumeFromISRPatient DEF Handlers
<1>4. CASE Loops
  BY <1>1, <1>4, DuePatient, NoneDuePatient, DrainPatient, CatchUpPatient, DrainedPatient DEF Loops
<1>5. CASE IdleTask
  BY <1>1, <1>5, IdleTaskPatient
<1>6. ASSUME NEW t \in Task, TaskStep(t) PROVE Patience'
  BY <1>1, <1>6, TaskStepPatient
<1> QED BY <1>2, <1>3, <1>4, <1>5, <1>6 DEF SchedNext

LEMMA PatienceHolds == Init => Patience
<1> SUFFICES ASSUME Init PROVE Patience
  OBVIOUS
<1>1. /\ k.spent = [t \in Task |-> 0] /\ k.nv = [t \in Task |-> 0]
      /\ pc = [t \in Task |-> "none"] /\ loc = [t \in Task |-> NoCall]
  BY Zenon DEF Init, SchedInit
<1>2. ASSUME NEW t \in Task PROVE LocalsOK(scene, t, pc[t], loc[t]) /\ Patient(k, t, pc[t], loc[t])
  <2>1. pc[t] = "none" /\ loc[t] = NoCall /\ "none" \in Resting
    BY <1>1 DEF Resting
  <2> QED BY <2>1, NoCallRests, RestPatient
<1>3. k.spent \in [Task -> Nat] /\ DOMAIN k.nv = Task
  BY <1>1
<1> QED BY <1>2, <1>3 DEF Patience

KInv == IInv /\ (Uncrossed => Patience)

LEMMA PatienceKeeps == KInv /\ [Next]_vars => KInv'
<1> SUFFICES ASSUME KInv, [Next]_vars PROVE KInv'
  OBVIOUS
<1>1. IInv /\ IInv'
  BY IInvKeeps DEF KInv
<1>2. scene' = scene
  BY DEF Next, SchedNext, QueueNext, NotifyNext, vars
<1>3. Uncrossed' <=> Uncrossed
  BY <1>2 DEF Uncrossed, Called
<1>4. ASSUME Uncrossed PROVE Patience'
  <2>1. Patience
    BY <1>4 DEF KInv
  <2>2. CASE Next
    BY <1>1, <1>4, <2>1, <2>2, SchedNextPatient, QueueNextPatient, NotifyNextPatient DEF Next
  <2>3. CASE UNCHANGED vars
    <3>1. k' = k /\ pc' = pc /\ loc' = loc /\ scene' = scene
      BY <2>3 DEF vars
    <3> QED BY <1>1, <2>1, <3>1, GentleItself, GentleStep
  <2> QED BY <2>2, <2>3
<1> QED BY <1>1, <1>3, <1>4 DEF KInv

LEMMA NobodyGivesUpEarly ==
  ASSUME IInv, Patience, NEW t \in Task, GivesUp(t)
  PROVE  Over(t)
<1> DEFINE l == loc[t]
<1>1. LocalsOK(scene, t, pc[t], l) /\ Patient(k, t, pc[t], l)
  BY PatienceFacts
<1>2. Runs(t) /\ pc[t] \in {"slept", "nend"} => ~Asleep(k, t, l)
  BY RunsHere DEF Settled, Here, Asleep
<1>3. Done(k, t, l)
  <2>1. CASE pc[t] = "slept" /\ Runs(t)
    BY <1>1, <1>2, <2>1 DEF Patient, Ends
  <2>2. CASE pc[t] \in {"untx", "unrx"} /\ l.timed /\ l.then # "try"
    BY <1>1, <2>2 DEF Patient
  <2>3. CASE pc[t] = "nend" /\ Runs(t) /\ ~Noted(t) /\ k.ns[t] # "received"
    <3>1. ~Told(k, t, l)
      BY <2>3 DEF Told, Noted
    <3> QED BY <1>1, <1>2, <2>3, <3>1 DEF Patient, Ends
  <2> QED BY <2>1, <2>2, <2>3 DEF GivesUp
<1> QED BY <1>3 DEF Done, Finite, Over

(* Blocking calls keep their time, for every program whose waits nobody    *)
(* crosses: none ends before the time it was asked for, and none asked to  *)
(* wait for ever ends by time (tasks.c: xTaskCheckForTimeOut, vTaskDelay,  *)
(* ulTaskGenericNotifyTake), and nobody is left asleep beyond its tick.    *)
THEOREM PunctualUnlessCrossed == Spec => [](Uncrossed => Punctual)
<1>1. KInv => (Uncrossed => Punctual)
  <2>1. IInv => NoneOverdue
    BY DEF IInv, Good, Timely, NoneOverdue, At
  <2> QED BY <2>1, NobodyGivesUpEarly DEF KInv, Punctual, NoEarlyTimeout
<1>2. Init => KInv
  BY IInvHolds, PatienceHolds DEF KInv
<1> QED BY <1>1, <1>2, PatienceKeeps, PTL DEF Spec
=============================================================================
