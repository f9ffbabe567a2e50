-------------------------------- MODULE Queue --------------------------------
(***************************************************************************)
(* FreeRTOS queues, counting semaphores and mutexes: queue.c on top of     *)
(* the scheduler.  A blocking call tries inside a critical section; when   *)
(* it must wait it suspends the scheduler and locks the queue, so that an  *)
(* interrupt may move data but not touch the lists of waiters, looks       *)
(* again, files itself and unlocks, which makes up for the wake-ups the    *)
(* interrupts owe.                                                         *)
(***************************************************************************)
EXTENDS Scheduler

CONSTANTS
  Queues,           \* the queues, semaphores and mutexes
  Kind,             \* "queue", "count" or "mutex" of each
  Length,           \* uxLength of each
  RxList, TxList,   \* its lists of tasks that wait to receive and to send
  Msg               \* the values a queue carries

NoTask == "nobody"

ASSUME QueueAssumption ==
  /\ Kind \in [Queues -> {"queue", "count", "mutex"}]
  /\ Length \in [Queues -> Nat \ {0}]
  /\ \A o \in Queues : Kind[o] = "mutex" => Length[o] = 1
  /\ RxList \in [Queues -> EventList] /\ TxList \in [Queues -> EventList]
  /\ NoTask \notin Task
  /\ \A p \in Programs : \A c \in Task \cup {"isr"} : p.uses[c] \subseteq Queues

VARIABLE
  qs       \* the control block of each queue

-----------------------------------------------------------------------------
(* The ring of items.  wr is the slot written next, rd the slot read last; *)
(* items without a size are only counted.                                  *)

Full(o) == qs[o].count = Length[o]
Empty(o) == qs[o].count = 0

NewQueue(o) ==
  [slot |-> [i \in 0..(Length[o] - 1) |-> CHOOSE m \in Msg : TRUE],
   wr |-> 0, rd |-> Length[o] - 1, count |-> IF Kind[o] = "mutex" THEN 1 ELSE 0,
   tx |-> -1, rx |-> -1, holder |-> NoTask]

After(o, i) == (i + 1) % Length[o]
Before(o, i) == (i + Length[o] - 1) % Length[o]

\* Mutant: at the front, rd steps back before the copy.
WrittenEarly(o, where, m) ==
  LET c == qs[o]
      n == IF where = "overwrite" /\ c.count > 0 THEN c.count ELSE c.count + 1
  IN  CASE Kind[o] # "queue" -> [c EXCEPT !.count = n, !.holder = NoTask]
        [] where = "send" -> [c EXCEPT !.slot[c.wr] = m, !.wr = After(o, @), !.count = n]
        [] OTHER -> [c EXCEPT !.rd = Before(o, @), !.slot[Before(o, c.rd)] = m, !.count = n]

\* prvCopyDataToQueue: at the back, at the front, or over the only item
Written(o, where, m) ==
  LET c == qs[o]
      n == IF where = "overwrite" /\ c.count > 0 THEN c.count ELSE c.count + 1
  IN  CASE Kind[o] # "queue" -> [c EXCEPT !.count = n, !.holder = NoTask]
        [] where = "send" -> [c EXCEPT !.slot[c.wr] = m, !.wr = After(o, @), !.count = n]
        [] OTHER -> [c EXCEPT !.slot[c.rd] = m, !.rd = Before(o, @), !.count = n]

\* prvCopyDataFromQueue and the count that goes down
Taken(o) ==
  IF Kind[o] = "queue" THEN [qs[o] EXCEPT !.rd = After(o, @), !.count = @ - 1]
  ELSE [qs[o] EXCEPT !.count = @ - 1]

\* prvIncrementQueueTxLock and prvIncrementQueueRxLock: an interrupt leaves
\* at most one wake-up for each task in existence.
Tasks(q) == Cardinality({t \in Task : q.at[t] # "none"})
Owed(n) == IF n < Tasks(k) THEN n + 1 ELSE n

-----------------------------------------------------------------------------
(* The calls.                                                              *)

Posts == {"send", "front", "overwrite"}
Sends == Posts \cup {"give"}

\* The list a call waits in, and the condition it waits out.
WaitsIn(l) == IF l.api \in Sends THEN TxList[l.obj] ELSE RxList[l.obj]
MustWait(l) ==
  IF l.api \in Sends THEN Full(l.obj) /\ l.api # "overwrite" ELSE Empty(l.obj)

Call(t, api, o, m, ticks) ==
  /\ ticks # 0 => k.susp = 0
  /\ Enter(t, api, [NoCall EXCEPT !.obj = o, !.val = m, !.ticks = ticks,
                                  !.asked = ticks], "try")
  /\ k' = Timing(k, t)
  /\ UNCHANGED qs

Send(t) == \E api \in Called(t, Posts), o \in scene.uses[t], m \in Msg, n \in scene.waits[t] :
  /\ Kind[o] = "queue" /\ (api = "overwrite" => Length[o] = 1)
  /\ Call(t, api, o, m, n)

Give(t) == \E api \in Called(t, {"give"}), o \in scene.uses[t] :
  /\ Kind[o] = "mutex" => qs[o].holder = t
  /\ Kind[o] # "queue" /\ Call(t, api, o, 0, 0)

Receive(t) == \E api \in Called(t, {"receive", "peek"}), o \in scene.uses[t], n \in scene.waits[t] :
  Kind[o] = "queue" /\ Call(t, api, o, 0, n)

Take(t) == \E api \in Called(t, {"take"}), o \in scene.uses[t], n \in scene.waits[t] :
  /\ Kind[o] # "queue" /\ qs[o].holder # t
  /\ Call(t, api, o, 0, n)

\* The first critical section of a call that need not wait.
Sent(t) ==
  LET l == loc[t]
      o == l.obj
      q == IF Kind[o] = "mutex" THEN PriorityDisinherit(k, t) ELSE k
      gaveUp == Kind[o] = "mutex" /\ Disinherits(k, t)
  IN  /\ Return(t, "try") /\ l.api \in Sends /\ ~MustWait(l)
      /\ qs' = [qs EXCEPT ![o] = Written(o, l.api, l.val)]
      /\ k' = IF q.wait[RxList[o]] = <<>> /\ gaveUp THEN Yield(q)
              ELSE WakeFirst(q, RxList[o])

Received(t) ==
  LET o == loc[t].obj
  IN  /\ Return(t, "try") /\ loc[t].api \in {"receive", "take"} /\ ~MustWait(loc[t])
      /\ qs' = [qs EXCEPT ![o] = IF Kind[o] = "mutex"
                                 THEN [Taken(o) EXCEPT !.holder = t] ELSE Taken(o)]
      /\ k' = WakeFirst(IF Kind[o] = "mutex" THEN [k EXCEPT !.held[t] = @ + 1] ELSE k,
                        TxList[o])

\* A peek leaves the item, so the next waiter may have it too.
Peeked(t) ==
  /\ Return(t, "try") /\ loc[t].api = "peek" /\ ~MustWait(loc[t])
  /\ k' = WakeFirst(k, RxList[loc[t].obj])
  /\ UNCHANGED qs

Refused(t) ==
  /\ Return(t, "try") /\ MustWait(loc[t]) /\ loc[t].ticks = 0
  /\ UNCHANGED <<k, qs>>

\* Mutant: the entry time is never taken.
StartWaitUntimed(t) ==
  /\ Go(t, "try", "hold") /\ MustWait(loc[t]) /\ loc[t].ticks # 0
  /\ loc' = [loc EXCEPT ![t].timed = TRUE]
  /\ k' = IF loc[t].timed THEN k ELSE Timing(k, t)
  /\ UNCHANGED qs

\* It must wait: the clock starts with the first try.  A call that waits for
\* ever never looks at its entry time.
StartWait(t) ==
  /\ Go(t, "try", "hold") /\ MustWait(loc[t]) /\ loc[t].ticks # 0
  /\ loc' = IF loc[t].timed THEN loc
            ELSE [loc EXCEPT ![t].timed = TRUE,
                         ![t].entry = IF loc[t].ticks = MaxTick THEN @ ELSE Now]
  /\ k' = IF loc[t].timed THEN k ELSE Timing(k, t)
  /\ UNCHANGED qs

Hold(t) ==
  Go(t, "hold", "lock") /\ k' = SuspendedAll(k) /\ UNCHANGED <<loc, qs>>

LockQueue(t) ==
  /\ Go(t, "lock", "check")
  /\ qs' = [qs EXCEPT ![loc[t].obj].tx = IF @ = -1 THEN 0 ELSE @,
                      ![loc[t].obj].rx = IF @ = -1 THEN 0 ELSE @]
  /\ UNCHANGED <<k, loc>>

\* What follows the unlocking: the end for a sender whose time is over, one
\* more look for a receiver.
CheckForTimeOut(t) ==
  LET l == loc[t]
  IN  /\ pc[t] = "check" /\ UNCHANGED <<k, qs>>
      /\ IF TimedOut(l.entry, l.ticks)
         THEN /\ Go(t, "check", "untx")
              /\ loc' = [loc EXCEPT ![t].ticks = 0, ![t].yields = FALSE,
                           ![t].then = IF l.api \in Sends THEN "app" ELSE "expired"]
         ELSE /\ Go(t, "check", "test")
              /\ loc' = [loc EXCEPT ![t] = StillWaiting(l)]

\* Mutant: no second look before the task files itself.
TestNoMore(t) ==
  /\ Go(t, "test", IF Kind[loc[t].obj] = "mutex" THEN "inherit" ELSE "place")
  /\ UNCHANGED <<k, qs, loc>>

\* prvIsQueueFull, prvIsQueueEmpty: data may have moved since the first try
Test(t) ==
  LET l == loc[t]
  IN  /\ pc[t] = "test" /\ UNCHANGED <<k, qs>>
      /\ IF MustWait(l)
         THEN /\ Go(t, "test", IF Kind[l.obj] = "mutex" THEN "inherit" ELSE "place")
              /\ UNCHANGED loc
         ELSE /\ Go(t, "test", "untx")
              /\ loc' = [loc EXCEPT ![t].then = "try", ![t].yields = FALSE]

Inherit(t) ==
  LET h == qs[loc[t].obj].holder
  IN  /\ Go(t, "inherit", "place")
      /\ k' = IF h = NoTask THEN k ELSE PriorityInherit(k, h)
      /\ loc' = [loc EXCEPT ![t].inherited = h # NoTask /\ Inherits(k, h)]
      /\ UNCHANGED qs

Place(t) ==
  /\ Go(t, "place", "untx")
  /\ k' = PlaceOnEventList(k, WaitsIn(loc[t]), loc[t].ticks)
  /\ loc' = [loc EXCEPT ![t].then = "try", ![t].yields = TRUE]
  /\ UNCHANGED qs

\* prvUnlockQueue, two critical sections with a loop each.
Unlocks(t, at) ==
  /\ k.on /\ k.cur = t /\ pc[t] = at
  /\ k.loop = "unlock" \/ (k.loop = "none" /\ ~k.pendsv)
  /\ UNCHANGED loc

UnlockTx(t) ==
  LET o == loc[t].obj
  IN  /\ Unlocks(t, "untx")
      /\ IF qs[o].tx > 0 /\ k.wait[RxList[o]] # <<>>
         THEN /\ k' = [RemoveFromEventList(k, RxList[o]) EXCEPT !.loop = "unlock"]
              /\ qs' = [qs EXCEPT ![o].tx = @ - 1]
              /\ UNCHANGED pc
         ELSE /\ k' = [k EXCEPT !.loop = "none"]
              /\ qs' = [qs EXCEPT ![o].tx = -1]
              /\ pc' = [pc EXCEPT ![t] = "unrx"]

UnlockRx(t) ==
  LET o == loc[t].obj
  IN  /\ Unlocks(t, "unrx")
      /\ IF qs[o].rx > 0 /\ k.wait[TxList[o]] # <<>>
         THEN /\ k' = [RemoveFromEventList(k, TxList[o]) EXCEPT !.loop = "unlock"]
              /\ qs' = [qs EXCEPT ![o].rx = @ - 1]
              /\ UNCHANGED pc
         ELSE /\ k' = [k EXCEPT !.loop = "none"]
              /\ qs' = [qs EXCEPT ![o].rx = -1]
              /\ pc' = [pc EXCEPT ![t] = "resume"]

\* A receiver whose time is over looks once more before it gives up.
Expired(t) ==
  LET l == loc[t]
  IN  /\ pc[t] = "expired" /\ UNCHANGED <<k, qs>>
      /\ \/ MustWait(l) /\ ~l.inherited /\ Return(t, "expired")
         \/ MustWait(l) /\ l.inherited /\ Go(t, "expired", "disinherit") /\ UNCHANGED loc
         \/ ~MustWait(l) /\ Go(t, "expired", "try") /\ UNCHANGED loc

\* The holder falls back to what the waiters that are left call for.
HighestWaiting(o) ==
  IF k.wait[RxList[o]] = <<>> THEN 0 ELSE k.evp[Head(k.wait[RxList[o]])]

Disinherit(t) ==
  LET o == loc[t].obj
      h == qs[o].holder
  IN  /\ Return(t, "disinherit")
      /\ k' = IF h = NoTask THEN k ELSE DisinheritAfterTimeout(k, h, HighestWaiting(o))
      /\ UNCHANGED qs

\* xQueueGenericReset of a queue in use: one sender may go on.
Reset(t) == \E o \in scene.uses[t] :
  /\ Kind[o] = "queue"
  /\ Simple(t, "reset", WakeFirst(k, TxList[o]))
  /\ qs' = [qs EXCEPT ![o] = [NewQueue(o) EXCEPT !.slot = qs[o].slot]]

-----------------------------------------------------------------------------
(* From interrupts.  While the queue is locked the wake-up is only noted.  *)

SendFromISR(o, where, m) ==
  /\ Interrupts /\ Kind[o] = "queue"
  /\ where = "overwrite" => Length[o] = 1
  /\ ~Full(o) \/ where = "overwrite"
  /\ LET c == Written(o, where, m)
     IN  IF c.tx = -1
         THEN qs' = [qs EXCEPT ![o] = c] /\ k' = WakeFirst(k, RxList[o])
         ELSE qs' = [qs EXCEPT ![o] = [c EXCEPT !.tx = Owed(@)]] /\ UNCHANGED k
  /\ UNCHANGED <<pc, loc>>

GiveFromISR(o) ==
  /\ Interrupts /\ May("isr", "give") /\ Kind[o] = "count" /\ ~Full(o)
  /\ LET c == [qs[o] EXCEPT !.count = @ + 1]
     IN  IF c.tx = -1
         THEN qs' = [qs EXCEPT ![o] = c] /\ k' = WakeFirst(k, RxList[o])
         ELSE qs' = [qs EXCEPT ![o] = [c EXCEPT !.tx = Owed(@)]] /\ UNCHANGED k
  /\ UNCHANGED <<pc, loc>>

ReceiveFromISR(o) ==
  /\ Interrupts /\ May("isr", "receive") /\ Kind[o] = "queue" /\ ~Empty(o)
  /\ LET c == Taken(o)
     IN  IF c.rx = -1
         THEN qs' = [qs EXCEPT ![o] = c] /\ k' = WakeFirst(k, TxList[o])
         ELSE qs' = [qs EXCEPT ![o] = [c EXCEPT !.rx = Owed(@)]] /\ UNCHANGED k
  /\ UNCHANGED <<pc, loc>>

-----------------------------------------------------------------------------
QueueInit == qs = [o \in Queues |-> NewQueue(o)]

QueueHandlers ==
  \/ \E where \in Called("isr", Posts), o \in scene.uses["isr"], m \in Msg : SendFromISR(o, where, m)
  \/ \E o \in scene.uses["isr"] : GiveFromISR(o) \/ ReceiveFromISR(o)

QueueStep(t) ==
  \/ pc[t] = "app" /\ (Send(t) \/ Give(t) \/ Receive(t) \/ Take(t) \/ Reset(t))
  \/ Sent(t) \/ Received(t) \/ Peeked(t) \/ Refused(t) \/ StartWait(t)
  \/ Hold(t) \/ LockQueue(t) \/ CheckForTimeOut(t) \/ Test(t) \/ Inherit(t)
  \/ Place(t) \/ UnlockTx(t) \/ UnlockRx(t) \/ Expired(t) \/ Disinherit(t)

QueueNext ==
  /\ QueueHandlers \/ \E t \in Task : k.cur = t /\ QueueStep(t)
  /\ UNCHANGED scene

=============================================================================
