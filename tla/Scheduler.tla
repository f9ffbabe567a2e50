------------------------------ MODULE Scheduler ------------------------------
(***************************************************************************)
(* The FreeRTOS scheduler this firmware is linked with: tasks.c with       *)
(* list.c under it and the Cortex-M4F port, one core, preemption and time  *)
(* slicing on.                                                             *)
(*                                                                         *)
(* The kernel's static data and the fields of the task control blocks are  *)
(* one record k; each kernel function is an operator from k to k, so that  *)
(* a call in the code is an application here.  A critical section is one   *)
(* step, except that a loop inside one takes a step for each iteration     *)
(* (k.loop), with every interrupt masked.  Between two steps an interrupt  *)
(* may come; a pending PendSV switches the task before its next step.      *)
(*                                                                         *)
(* Left out: stacks, names, trace and run-time statistics; the tick count  *)
(* has MaxTick + 1 values in place of 2^32.                                *)
(***************************************************************************)
EXTENDS Integers, Sequences, FiniteSets, SequencesExt

CONSTANTS
  Task, Idle,       \* the task control blocks; the idle task is one of them
  MaxPrio,          \* configMAX_PRIORITIES - 1
  MaxTick,          \* portMAX_DELAY, the last value of the tick count
  Overflows,        \* values of xNumOfOverflows told apart
  MaxNest,          \* bound on nested vTaskSuspendAll by the application
  MaxPended,        \* bound on xPendedTicks
  EventList,        \* the lists of tasks waiting for a queue, a mutex, ...
  Programs          \* calls: the API functions each caller may call; waits:
                    \* the block times each asks for; uses: its queues;
                    \* prio: the priority it is created with.  The idle task
                    \* has no hook, so it calls nothing

Prio == 0..MaxPrio
Time == 0..MaxTick

ASSUME SchedulerAssumption ==
  /\ MaxPrio \in Nat /\ MaxTick \in Nat \ {0} /\ Overflows \in Nat \ {0}
  /\ MaxNest \in Nat /\ MaxPended \in Nat
  /\ Idle \in Task
  /\ \A p \in Programs :
       /\ p.prio \in [Task -> Prio] /\ p.prio[Idle] = 0 /\ p.calls[Idle] = {}
       /\ \A t \in Task : p.waits[t] \subseteq Time
  /\ "none" \notin EventList /\ "pending" \notin EventList

VARIABLES
  k,       \* the kernel's data
  pc,      \* where each task is in the API function it called; "app": in none
  loc,     \* the locals of that call
  scene    \* the program that runs
sched == <<k, pc, loc, scene>>

\* Callers are the tasks, "isr", "tick", and "boot": main, which creates tasks.
May(caller, api) == api \in scene.calls[caller]
Called(caller, apis) == scene.calls[caller] \cap apis

-----------------------------------------------------------------------------
(* Lists.  A ready list is walked round and round: idx is the place of the *)
(* item pxIndex points at, 0 for the end marker.  The other lists are      *)
(* used from the head.  Of the suspended and the termination list only the *)
(* members count: they are the tasks whose state item is "in" them.        *)

EmptyRing == [items |-> <<>>, idx |-> 0]

\* vListInsertEnd: in front of the item pxIndex points at
InsertEnd(r, t) ==
  IF r.idx = 0 THEN [r EXCEPT !.items = Append(@, t)]
  ELSE [items |-> InsertAt(r.items, r.idx, t), idx |-> r.idx + 1]

\* uxListRemove: an index that points at the item steps back
Dropped(r, t) ==
  LET i == SelectInSeq(r.items, LAMBDA u : u = t)
  IN  IF i = 0 THEN r
      ELSE [items |-> RemoveAt(r.items, i),
            idx |-> IF i <= r.idx THEN r.idx - 1 ELSE r.idx]

\* listGET_OWNER_OF_NEXT_ENTRY: the end marker is skipped
NextIdx(r) == IF r.idx >= Len(r.items) THEN 1 ELSE r.idx + 1

\* vListInsert: behind the items whose key is not greater
InsertSorted(s, t, key) ==
  LET i == SelectInSeq(s, LAMBDA u : key[u] > key[t])
  IN  IF i = 0 THEN Append(s, t) ELSE InsertAt(s, i, t)

-----------------------------------------------------------------------------
(* The kernel's helpers.                                                   *)

Yield(q) == [q EXCEPT !.pendsv = TRUE]

\* Mutant: the bit of an emptied ready list stays set.
UnlistKeepsBit(q, t) ==
  [q EXCEPT !.ready[q.prio[t]] = Dropped(@, t),
            !.delayed = RemoveFirst(@, t), !.overflow = RemoveFirst(@, t),
            !.at[t] = "none"]

\* The state item leaves its list; an emptied ready list clears its bit.
Unlist(q, t) ==
  LET p == q.prio[t]
      r == Dropped(q.ready[p], t)
  IN  [q EXCEPT !.ready[p] = r,
                !.top = IF r.items = <<>> THEN @ \ {p} ELSE @,
                !.delayed = RemoveFirst(@, t),
                !.overflow = RemoveFirst(@, t),
                !.at[t] = "none"]

\* The event item leaves its list, if it is in one.
Unwait(q, t) ==
  IF q.ev[t] = "none" THEN q
  ELSE [q EXCEPT !.wait[q.ev[t]] = RemoveFirst(@, t), !.ev[t] = "none"]

AddReady(q, t) ==
  LET p == q.prio[t]
  IN  [q EXCEPT !.ready[p] = InsertEnd(@, t),
                !.top = @ \cup {p},
                !.at[t] = "ready"]

Pend(q, t) == [q EXCEPT !.wait["pending"] = Append(@, t), !.ev[t] = "pending"]

ResetNext(q) ==
  [q EXCEPT !.next = IF q.delayed = <<>> THEN MaxTick
                     ELSE q.wake[Head(q.delayed)]]

\* A new priority; a ready task moves to the list of that priority.
Reprio(q, t, p) ==
  IF q.at[t] = "ready"
  THEN AddReady([Unlist(q, t) EXCEPT !.prio[t] = p], t)
  ELSE [q EXCEPT !.prio[t] = p]

\* The event item's value follows the priority unless it holds event bits.
Revalue(q, t, p) ==
  IF q.evp[t] = -1 THEN q ELSE [q EXCEPT !.evp[t] = p]

\* How prvAddCurrentTaskToDelayedList files the running task.
AddCurrentToDelayed(q, ticks, mayBlockForever) ==
  LET t == q.cur
      u == Unlist(q, t)
      w == (q.tick + ticks) % (MaxTick + 1)
      d == [u EXCEPT !.wake[t] = w]
  IN  IF ticks = MaxTick /\ mayBlockForever
      THEN [u EXCEPT !.at[t] = "suspended"]
      ELSE IF w < q.tick
      THEN [d EXCEPT !.overflow = InsertSorted(@, t, d.wake), !.at[t] = "overflow"]
      ELSE [d EXCEPT !.delayed = InsertSorted(@, t, d.wake), !.at[t] = "delayed",
                     !.next = IF w < @ THEN w ELSE @]

\* vTaskPlaceOnEventList: waiters are ordered by the priority in their item,
\* the highest first.
PlaceOnEventList(q, l, ticks) ==
  LET t == q.cur
  IN  AddCurrentToDelayed(
        [q EXCEPT !.wait[l] = InsertSorted(@, t, [u \in Task |-> MaxPrio - q.evp[u]]),
                  !.ev[t] = l], ticks, TRUE)

\* What follows when t was made runnable by another task or an interrupt:
\* the switch is owed, now or when the scheduler runs again.
Owe(q, t) == IF q.prio[t] > q.prio[q.cur] THEN [q EXCEPT !.yp = TRUE] ELSE q

\* xTaskRemoveFromEventList: the first waiter becomes ready, or pending while
\* the scheduler is suspended.
Woken(q, l) == Head(q.wait[l])
RemoveFromEventList(q, l) ==
  LET t == Woken(q, l)
      u == Unwait(q, t)
  IN  Owe(IF q.susp = 0 THEN AddReady(Unlist(u, t), t) ELSE Pend(u, t), t)

\* Mutant: the caller ignores what RemoveFromEventList returns.
WakeFirstQuietly(q, l) == IF q.wait[l] = <<>> THEN q ELSE RemoveFromEventList(q, l)

\* Its callers yield if it returned TRUE.
WokeHigher(q, l) == q.prio[Woken(q, l)] > q.prio[q.cur]
WakeFirst(q, l) ==
  IF q.wait[l] = <<>> THEN q
  ELSE LET u == RemoveFromEventList(q, l)
       IN  IF WokeHigher(q, l) THEN Yield(u) ELSE u

\* vTaskSwitchContext
SwitchContext(q) ==
  LET p == CHOOSE p \in q.top : \A o \in q.top : o <= p
      i == NextIdx(q.ready[p])
  IN  IF q.susp # 0 THEN [q EXCEPT !.yp = TRUE, !.pendsv = FALSE]
      ELSE [q EXCEPT !.yp = FALSE, !.pendsv = FALSE, !.ready[p].idx = i,
                     !.cur = q.ready[p].items[i]]

\* xTaskIncrementTick up to its loop: the count, and the swap of the delayed
\* lists when it wraps.  The loop is the action Due.
TickUp(q, loop) ==
  LET n == (q.tick + 1) % (MaxTick + 1)
      s == [q EXCEPT !.tick = n, !.loop = loop, !.sw = FALSE,
                     !.spent = [t \in Task |-> IF @[t] < loc[t].asked THEN @[t] + 1 ELSE @[t]]]
  IN  IF n # 0 THEN s
      ELSE ResetNext([s EXCEPT
             !.delayed = q.overflow, !.overflow = q.delayed,
             !.at = [t \in Task |-> CASE @[t] = "overflow" -> "delayed"
                                      [] @[t] = "delayed" -> "overflow"
                                      [] OTHER -> @[t]],
             !.ovf = (@ + 1) % Overflows])

-----------------------------------------------------------------------------
(* Time-outs of blocking calls: vTaskInternalSetTimeOutState and           *)
(* xTaskCheckForTimeOut.  entry is the TimeOut_t of the call.              *)

Now == [ovf |-> k.ovf, tick |-> k.tick]

Elapsed(entry) == (k.tick - entry.tick) % (MaxTick + 1)

TimedOut(entry, ticks) ==
  /\ ticks # MaxTick
  /\ \/ k.ovf # entry.ovf /\ k.tick >= entry.tick
     \/ Elapsed(entry) >= ticks

\* The locals after a check that found time left.
StillWaiting(l) ==
  IF l.ticks = MaxTick THEN l
  ELSE [l EXCEPT !.ticks = @ - Elapsed(l.entry), !.entry = Now]

-----------------------------------------------------------------------------
(* Priority inheritance, called by the mutexes of queue.c.                 *)

PriorityInherit(q, h) ==
  IF q.prio[h] < q.prio[q.cur]
  THEN Reprio(Revalue(q, h, q.prio[q.cur]), h, q.prio[q.cur]) ELSE q
Inherits(q, h) == q.prio[h] < q.prio[q.cur] \/ q.base[h] < q.prio[q.cur]

\* Mutant: the mutex given back is not counted any more.
DisinheritsLate(q, h) == q.prio[h] # q.base[h] /\ q.held[h] = 0

\* xTaskPriorityDisinherit: only when the last mutex is given back
Disinherits(q, h) == q.prio[h] # q.base[h] /\ q.held[h] = 1
PriorityDisinherit(q, h) ==
  LET u == [q EXCEPT !.held[h] = @ - 1]
  IN  IF Disinherits(q, h)
      THEN [Reprio(u, h, q.base[h]) EXCEPT !.evp[h] = q.base[h]] ELSE u

DisinheritAfterTimeout(q, h, highest) ==
  LET p == IF q.base[h] < highest THEN highest ELSE q.base[h]
  IN  IF q.prio[h] # p /\ q.held[h] = 1
      THEN Reprio(Revalue(q, h, p), h, p) ELSE q

-----------------------------------------------------------------------------
(* Steps.  A task moves when it is the running one, no switch is pending   *)
(* and no critical section with a loop is under way.                       *)

Runs(t) == k.on /\ k.cur = t /\ ~k.pendsv /\ k.loop = "none"

Interrupts == k.on /\ k.loop = "none"

NoCall == [api |-> "none", obj |-> "none", val |-> 0, ticks |-> 0, asked |-> 0,
           entry |-> [ovf |-> 0, tick |-> 0], timed |-> FALSE,
           inherited |-> FALSE, then |-> "app", back |-> "app", yields |-> FALSE,
           yielded |-> FALSE]

\* One step of t inside its call, and the start and the end of a call.
Go(t, from, to) == Runs(t) /\ pc[t] = from /\ pc' = [pc EXCEPT ![t] = to]

Enter(t, api, l, to) ==
  /\ May(t, api)
  /\ Go(t, "app", to)
  /\ loc' = [loc EXCEPT ![t] = [l EXCEPT !.api = api]]

Return(t, from) == Go(t, from, "app") /\ loc' = [loc EXCEPT ![t] = NoCall]

\* A function that is one critical section from entry to return.
Simple(t, api, q) ==
  /\ May(t, api) /\ Runs(t) /\ pc[t] = "app"
  /\ k' = q
  /\ UNCHANGED <<pc, loc>>

SuspendedAll(q) == [q EXCEPT !.susp = @ + 1]

\* The clock of the timed call starts: history, for the properties.
Timing(q, t) == [q EXCEPT !.spent[t] = 0]

-----------------------------------------------------------------------------
(* Start-up, and the port's two handlers.                                  *)

\* prvInitialiseNewTask and prvAddNewTaskToReadyList
NewTask(q, t) ==
  AddReady([q EXCEPT !.prio[t] = scene.prio[t], !.base[t] = scene.prio[t],
                     !.evp[t] = scene.prio[t], !.held[t] = 0,
                     !.ns[t] = "not", !.nv[t] = 0], t)

\* Before the scheduler runs, the last created of the highest is current.
CreateAtBoot(t) ==
  /\ ~k.on /\ t # Idle /\ k.at[t] = "none" /\ May("boot", t)
  /\ k' = [NewTask(k, t) EXCEPT
             !.cur = IF scene.prio[k.cur] <= scene.prio[t] THEN t ELSE @]
  /\ pc' = [pc EXCEPT ![t] = "app"]
  /\ UNCHANGED loc

StartScheduler ==
  /\ ~k.on /\ \A t \in Task \ {Idle} : k.at[t] # "none" \/ ~May("boot", t)
  /\ k' = [NewTask(k, Idle) EXCEPT !.on = TRUE, !.next = MaxTick, !.tick = 0,
                                   !.cur = IF k.prio[k.cur] <= 0 THEN Idle ELSE @]
  /\ pc' = [pc EXCEPT ![Idle] = "app"]
  /\ UNCHANGED loc

PendSV ==
  /\ Interrupts /\ k.pendsv
  /\ k' = SwitchContext(k)
  /\ UNCHANGED <<pc, loc>>

SysTick ==
  /\ Interrupts /\ May("tick", "tick")
  /\ IF k.susp # 0
     THEN k.pended < MaxPended /\ k' = [k EXCEPT !.pended = @ + 1]
     ELSE k' = TickUp(k, "due")
  /\ UNCHANGED <<pc, loc>>

\* The loop of xTaskIncrementTick: the head of the delayed list while its
\* time has come; then the time slice and the yield that was held back.
\* The tick was raised by the interrupt ("due") or is one that xTaskResumeAll
\* makes up for ("owed").
HeadIsDue ==
  /\ k.tick >= k.next /\ k.delayed # <<>>
  /\ k.wake[Head(k.delayed)] <= k.tick

Due ==
  /\ k.loop \in {"due", "owed"} /\ HeadIsDue
  /\ LET t == Head(k.delayed)
     IN  k' = [AddReady(Unwait(Unlist(k, t), t), t) EXCEPT
                 !.sw = @ \/ k.prio[t] > k.prio[k.cur]]
  /\ UNCHANGED <<pc, loc>>

Slices(q) == Len(q.ready[q.prio[q.cur]].items) > 1

NoneDue ==
  /\ k.loop \in {"due", "owed"} /\ ~HeadIsDue
  /\ LET q == IF k.tick >= k.next THEN ResetNext(k) ELSE k
         switch == k.sw \/ Slices(k) \/ k.yp
     IN  k' = IF k.loop = "due"
              THEN [q EXCEPT !.loop = "none", !.sw = FALSE, !.pendsv = @ \/ switch]
              ELSE [q EXCEPT !.loop = "drain", !.sw = FALSE, !.yp = @ \/ switch]
  /\ UNCHANGED <<pc, loc>>

-----------------------------------------------------------------------------
(* xTaskResumeAll.  When the last suspension ends, the pending tasks become *)
(* ready one by one, then the ticks missed are counted one by one.         *)

ResumeAll(t) ==
  /\ Go(t, "resume", "resumed")
  /\ k' = [k EXCEPT !.susp = @ - 1, !.loop = IF k.susp = 1 THEN "drain" ELSE @]
  /\ loc' = [loc EXCEPT ![t].yielded = FALSE]

Drain ==
  /\ k.loop = "drain" /\ k.wait["pending"] # <<>>
  /\ LET t == Head(k.wait["pending"])
     IN  k' = ResetNext(Owe(AddReady(Unlist(Unwait(k, t), t), t), t))
  /\ UNCHANGED <<pc, loc>>

CatchUp ==
  /\ k.loop = "drain" /\ k.wait["pending"] = <<>> /\ k.pended > 0
  /\ k' = TickUp([k EXCEPT !.pended = @ - 1], "owed")
  /\ UNCHANGED <<pc, loc>>

Drained ==
  /\ k.loop = "drain" /\ k.wait["pending"] = <<>> /\ k.pended = 0
  /\ k' = [k EXCEPT !.loop = "none", !.pendsv = @ \/ k.yp]
  /\ loc' = [loc EXCEPT ![k.cur].yielded = k.yp]
  /\ UNCHANGED pc

\* The caller yields if it blocked itself and xTaskResumeAll did not.
Resumed(t) ==
  /\ Go(t, "resumed", loc[t].then)
  /\ k' = IF loc[t].yields /\ ~loc[t].yielded THEN Yield(k) ELSE k
  /\ loc' = IF loc[t].then = "app" THEN [loc EXCEPT ![t] = NoCall] ELSE loc

-----------------------------------------------------------------------------
(* The task functions of the API.                                          *)

TaskYield(t) == Simple(t, "yield", Yield(k))

Delay(t) == \E api \in Called(t, {"delay"}), n \in scene.waits[t] \ {0} :
  /\ Enter(t, api, [NoCall EXCEPT !.ticks = n, !.asked = n, !.yields = TRUE,
                                  !.then = "slept"], "delay")
  /\ k.susp = 0
  /\ k' = SuspendedAll(Timing(k, t))

DelayBlocks(t) ==
  /\ Go(t, "delay", "resume")
  /\ k' = AddCurrentToDelayed(k, loc[t].ticks, FALSE)
  /\ UNCHANGED loc

DelayEnds(t) == Return(t, "slept") /\ UNCHANGED k

\* vTaskSuspendAll and xTaskResumeAll called by the application
LockScheduler(t) ==
  /\ k.susp < MaxNest
  /\ Simple(t, "lock", SuspendedAll(k))

UnlockScheduler(t) ==
  /\ k.susp > 0
  /\ Enter(t, "lock", NoCall, "resume")
  /\ UNCHANGED k

\* xTaskCatchUpTicks: ticks are added and resuming counts them
CatchUpTicks(t) ==
  /\ k.susp = 0 /\ k.pended < MaxPended
  /\ Enter(t, "catchup", NoCall, "resume")
  /\ k' = SuspendedAll([k EXCEPT !.pended = @ + 1])

\* The calls below need a handle; nobody has the idle task's.
Handle(x) == x # Idle /\ k.at[x] \notin {"none", "termination"}

\* vTaskSuspend is two critical sections; the second is SuspendEnds.  A task
\* resumed later goes on as if its time were over (spent).
Suspend(t, x) ==
  /\ Handle(x) /\ (x = t => k.susp = 0)
  /\ Enter(t, "suspend", [NoCall EXCEPT !.obj = x], "suspend")
  /\ k' = LET u == Unwait(Unlist(k, x), x)
          IN  [u EXCEPT !.at[x] = "suspended",
                        !.ns[x] = IF @ = "waiting" THEN "not" ELSE @,
                        !.spent[x] = loc[x].asked]

SuspendEnds(t) ==
  /\ Return(t, "suspend")
  /\ k' = IF loc[t].obj = t THEN Yield(ResetNext(k)) ELSE ResetNext(k)

\* prvTaskIsTaskSuspended: suspended, and not blocked without a time-out
IsSuspended(x) == k.at[x] = "suspended" /\ k.ev[x] = "none" /\ k.ns[x] # "waiting"

YieldsTo(q, x) == IF q.prio[x] > q.prio[q.cur] THEN Yield(q) ELSE q

Resume(t, x) ==
  /\ x # t /\ IsSuspended(x)
  /\ Simple(t, "resume", YieldsTo(AddReady(Unlist(k, x), x), x))

ResumeFromISR(x) ==
  /\ Interrupts /\ May("isr", "resume") /\ IsSuspended(x)
  /\ k' = IF k.susp = 0
          THEN YieldsTo(Owe(AddReady(Unlist(k, x), x), x), x) ELSE Pend(k, x)
  /\ UNCHANGED <<pc, loc>>

PrioritySet(t, x, p) ==
  LET yield == IF p > k.base[x] THEN x # t /\ p > k.prio[t] ELSE x = t
      q == IF k.base[x] = k.prio[x] \/ p > k.prio[x] THEN Reprio(k, x, p) ELSE
           Reprio(k, x, k.prio[x])
      r == Revalue([q EXCEPT !.base[x] = p], x, p)
  IN  /\ Handle(x) /\ k.base[x] # p
      /\ Simple(t, "prioset", IF yield THEN Yield(r) ELSE r)

\* Another task is freed at once; the caller itself is left to the idle task.
Delete(t, x) ==
  /\ x # t /\ Handle(x)
  /\ May(t, "delete") /\ Runs(t) /\ pc[t] = "app"
  /\ k' = ResetNext(Unwait(Unlist(k, x), x))
  /\ pc' = [pc EXCEPT ![x] = "none"]
  /\ loc' = [loc EXCEPT ![x] = NoCall]

DeleteSelf(t) ==
  /\ t # Idle /\ k.susp = 0
  /\ Enter(t, "delete", NoCall, "dead")
  /\ k' = [Unlist(k, t) EXCEPT !.at[t] = "termination"]

Dies(t) == Go(t, "dead", "none") /\ k' = Yield(k) /\ UNCHANGED loc

Create(t, x) ==
  /\ x # Idle /\ k.at[x] = "none"
  /\ May(t, "create") /\ Runs(t) /\ pc[t] = "app"
  /\ k' = YieldsTo(NewTask(k, x), x)
  /\ pc' = [pc EXCEPT ![x] = "app"]
  /\ UNCHANGED loc

\* prvIdleTask: frees a deleted task, or gives way to another of priority 0
IdleTask ==
  \/ \E x \in Task :
       /\ Runs(Idle) /\ pc[Idle] = "app" /\ k.at[x] = "termination"
       /\ k' = [k EXCEPT !.at[x] = "none"]
       /\ loc' = [loc EXCEPT ![x] = NoCall]
       /\ pc' = [pc EXCEPT ![x] = "none"]
  \/ /\ Runs(Idle) /\ pc[Idle] = "app"
     /\ \A x \in Task : k.at[x] # "termination"
     /\ Len(k.ready[0].items) > 1
     /\ k' = Yield(k)
     /\ UNCHANGED <<pc, loc>>

-----------------------------------------------------------------------------
SchedInit ==
  /\ scene \in Programs
  /\ k = [on |-> FALSE, cur |-> Idle, tick |-> 0, ovf |-> 0, susp |-> 0,
          pended |-> 0, yp |-> FALSE, pendsv |-> FALSE, next |-> MaxTick,
          loop |-> "none", sw |-> FALSE,
          top |-> {}, ready |-> [p \in Prio |-> EmptyRing],
          delayed |-> <<>>, overflow |-> <<>>,
          wait |-> [l \in EventList \cup {"pending"} |-> <<>>],
          at |-> [t \in Task |-> "none"], ev |-> [t \in Task |-> "none"],
          wake |-> [t \in Task |-> 0],
          prio |-> scene.prio, base |-> scene.prio, evp |-> scene.prio,
          held |-> [t \in Task |-> 0],
          ns |-> [t \in Task |-> "not"], nv |-> [t \in Task |-> 0],
          spent |-> [t \in Task |-> 0]]
  /\ pc = [t \in Task |-> "none"]
  /\ loc = [t \in Task |-> NoCall]

Handlers == PendSV \/ SysTick \/ \E x \in Task : ResumeFromISR(x)

Loops == Due \/ NoneDue \/ Drain \/ CatchUp \/ Drained

TaskStep(t) ==
  \/ TaskYield(t) \/ Delay(t) \/ DelayBlocks(t) \/ DelayEnds(t)
  \/ LockScheduler(t) \/ UnlockScheduler(t) \/ CatchUpTicks(t)
  \/ ResumeAll(t) \/ Resumed(t)
  \/ \E x \in Task : Suspend(t, x) \/ Resume(t, x) \/ Delete(t, x) \/ Create(t, x)
  \/ \E x \in Task, p \in Prio : PrioritySet(t, x, p)
  \/ SuspendEnds(t) \/ DeleteSelf(t) \/ Dies(t)

Boot == StartScheduler \/ \E t \in Task : CreateAtBoot(t)

SchedNext ==
  /\ Boot \/ Handlers \/ Loops \/ IdleTask \/ \E t \in Task : k.cur = t /\ TaskStep(t)
  /\ UNCHANGED scene

=============================================================================
