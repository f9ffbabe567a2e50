----------------------------- MODULE KernelProps -----------------------------
(* What every program may rely on.                                         *)
EXTENDS Kernel

CONSTANT Watched    \* the queue that KeepsOrder looks at

ASSUME WatchedAssumption == Watched \in Queues /\ Kind[Watched] = "queue"

-----------------------------------------------------------------------------
(* The kernel keeps the same fact in several places: the lists, the        *)
(* container of each list item, the bit map of ready priorities, the time  *)
(* of the next wake-up.  They agree between any two steps.                 *)

Once(s) == \A i, j \in 1..Len(s) : s[i] = s[j] => i = j
Holds(s, S) == ToSet(s) = S /\ Once(s)
At(place) == {t \in Task : k.at[t] = place}

ReadyListsAgree == \A p \in Prio :
  /\ Holds(k.ready[p].items, {t \in At("ready") : k.prio[t] = p})
  /\ k.ready[p].idx \in 0..Len(k.ready[p].items)
  /\ (p \in k.top) <=> (k.ready[p].items # <<>>)

WaitListsAgree ==
  /\ Holds(k.delayed, At("delayed")) /\ Holds(k.overflow, At("overflow"))
  /\ \A l \in DOMAIN k.wait : Holds(k.wait[l], {t \in Task : k.ev[t] = l})

Sorted(s) == \A i, j \in 1..Len(s) : i < j => k.wake[s[i]] <= k.wake[s[j]]

ListsAgree ==
  /\ ReadyListsAgree /\ WaitListsAgree
  /\ Sorted(k.delayed) /\ Sorted(k.overflow)
  /\ k.on /\ k.delayed # <<>> => k.next <= k.wake[Head(k.delayed)]

-----------------------------------------------------------------------------
(* No task sleeps beyond its time: outside the loop of the tick, what is   *)
(* in the delayed list lies ahead of the count, what is in the overflow    *)
(* list behind it, that is after the count has wrapped.                    *)
NoneOverdue ==
  k.loop \notin {"due", "owed"} =>
    /\ \A t \in At("delayed") : k.wake[t] > k.tick
    /\ \A t \in At("overflow") : k.wake[t] < k.tick

(* Preemption: when the scheduler is not suspended and no switch is        *)
(* pending, application code runs only in a ready task of the highest      *)
(* priority any ready task has, whoever was woken, raised or lowered.  Not *)
(* every program that uses a mutex has it: giving one ignores the yield    *)
(* that disinheriting asks for when it wakes a waiter (queue.c:1047).      *)
HighestRuns ==
  Runs(k.cur) /\ k.susp = 0 /\ pc[k.cur] = "app" =>
    /\ k.at[k.cur] = "ready"
    /\ \A t \in At("ready") : k.prio[t] <= k.prio[k.cur]

(* A blocking call gives up no earlier than it was asked to, and never if  *)
(* it was asked to wait for ever; time counts through suspended ticks, a   *)
(* wrap of the count and every fruitless wake-up in between.               *)
GivesUp(t) ==
  \/ pc[t] = "slept" /\ Runs(t)
  \/ pc[t] \in {"untx", "unrx"} /\ loc[t].timed /\ loc[t].then # "try"
  \/ pc[t] = "nend" /\ Runs(t) /\ ~Noted(t) /\ k.ns[t] # "received"
Over(t) ==
  IF loc[t].api # "delay" /\ loc[t].asked = MaxTick THEN FALSE
  ELSE k.spent[t] >= loc[t].asked
NoEarlyTimeout == \A t \in Task : GivesUp(t) => Over(t)

(* A task that waits is woken neither too late nor too early.              *)
Punctual == NoneOverdue /\ NoEarlyTimeout

-----------------------------------------------------------------------------
(* A task that has been notified is not left asleep in the wait for it.    *)
NotifiedIsAwake == \A t \in Task :
  (k.ns[t] = "received" /\ loc[t].api \in Waits /\ pc[t] \in {"resumed", "nend"}) =>
    k.at[t] = "ready" \/ k.ev[t] = "pending"

(* No wake-up is lost: while items are there and tasks wait for them, at   *)
(* least as many tasks are on their way to take one, or their wake-up is   *)
(* noted on the locked queue; the same for places and waiting senders.     *)
Inside(o, apis) == {t \in Task : pc[t] # "app" /\ loc[t].obj = o /\ loc[t].api \in apis}
OnTheWay(o, apis, l) == {t \in Inside(o, apis) : k.ev[t] # l}
Covered(o, apis, l, there, noted) ==
  LET waiting == Len(k.wait[l])
      n == IF there < waiting THEN there ELSE waiting
  IN  n <= Cardinality(OnTheWay(o, apis, l)) + (IF noted > 0 THEN noted ELSE 0)
QueuesWake == \A o \in Queues :
  /\ Covered(o, {"receive", "peek", "take"}, RxList[o], qs[o].count, qs[o].tx)
  /\ Covered(o, Sends, TxList[o], Length[o] - qs[o].count, qs[o].rx)
NoLostWakeup == NotifiedIsAwake /\ QueuesWake

(* Priority inheritance: the holder of a mutex has at least the priority   *)
(* of every task that waits for it, a task runs above its own priority     *)
(* only while it holds the mutex and a task of that priority is in its     *)
(* take, and one task at most holds it.                                    *)
Mutexes == {o \in Queues : Kind[o] = "mutex"}
Lent(t) == \E o \in Mutexes : qs[o].holder = t /\
              \E w \in Inside(o, {"take"}) \ {t} : k.prio[w] >= k.prio[t]
Inheritance ==
  /\ \A o \in Mutexes : \A w \in ToSet(k.wait[RxList[o]]) :
       qs[o].holder # NoTask => k.prio[qs[o].holder] >= k.prio[w]
  /\ \A t \in Task : k.prio[t] # k.base[t] => k.prio[t] > k.base[t] /\ Lent(t)
  /\ \A o \in Mutexes : (qs[o].count = 0) <=> (qs[o].holder # NoTask)
  /\ \A t \in Task : k.held[t] = Cardinality({o \in Mutexes : qs[o].holder = t})

-----------------------------------------------------------------------------
(* A queue is a bounded first-in-first-out sequence for its users, though  *)
(* tasks and interrupts move items while others wait and the queue is      *)
(* locked: the ring read from behind rd is the abstract sequence.          *)
Items(o) == [i \in 1..qs[o].count |-> qs[o].slot[(qs[o].rd + i) % Length[o]]]
Queued == INSTANCE Fifo WITH
            Item <- Msg, Capacity <- Length[Watched], items <- Items(Watched)
KeepsOrder == Queued!FifoSpec

=============================================================================
