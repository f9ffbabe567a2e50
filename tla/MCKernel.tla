------------------------------ MODULE MCKernel ------------------------------
(* Instances of the kernel for TLC: small programs.  A, B and C are tasks, *)
(* I is the idle task.                                                     *)
EXTENDS KernelProps

CONSTANTS A, B, C, I

Equal == [t \in {A, B, C, I} |-> CASE t = I -> 0 [] t = C -> 2 [] OTHER -> 1]
Ladder == [t \in {A, B, C, I} |-> CASE t = I -> 0 [] t = A -> 1 [] t = B -> 2 [] OTHER -> 3]

MCKind == [q |-> "queue", o |-> "queue", s |-> "count", m |-> "mutex"]
MCLength == [q |-> 2, o |-> 1, s |-> 2, m |-> 1]
MCRx == [q |-> "qr", o |-> "or", s |-> "sr", m |-> "mr"]
MCTx == [q |-> "qt", o |-> "ot", s |-> "st", m |-> "mt"]
MCLists == {"qr", "qt", "or", "ot", "sr", "st", "mr", "mt"}

\* What A, B, C and the interrupts do.
By(a, b, c, isr) ==
  [x \in {A, B, C, I, "isr"} |-> CASE x = A -> a [] x = B -> b [] x = C -> c
                                   [] x = I -> {} [] OTHER -> isr]
Program(prio, calls, tick, boot, waits, uses) ==
  [calls |-> [x \in {A, B, C, I, "isr", "tick", "boot"} |->
     CASE x = "tick" -> IF tick THEN {"tick"} ELSE {} [] x = "boot" -> boot [] OTHER -> calls[x]],
   prio |-> prio, waits |-> waits, uses |-> uses]
No == By({}, {}, {}, {})
All(S) == By(S, S, S, S)
Ever == All({MaxTick})

delay == Program(Equal, By({"delay"}, {"yield"}, {"delay"}, {}), TRUE, {A, B, C},
                 By({2}, {}, {1, 2}, {}), No)
lock == Program(Equal, By({"delay", "lock", "catchup"}, {}, {"delay"}, {}), TRUE, {A, C}, All({2}), No)
control == Program(Equal, By({}, {"suspend", "resume"}, {"delay"}, {"resume"}), TRUE, {B, C}, All({1, 2}), No)
prio == Program(Equal, By({}, {"prioset"}, {"delay"}, {}), TRUE, {B, C}, All({2}), No)
life == Program(Equal, By({"create", "delete"}, {"create", "delete"}, {"delay", "delete"}, {}), TRUE,
                {A, C}, All({2}), No)
notify == Program(Equal, By({"notify"}, {}, {"nwait"}, {"notify"}), FALSE, {A, C}, Ever, No)
take == Program(Equal, By({}, {}, {"ntake", "nclear"}, {"notify"}), TRUE, {C}, All({0, 2}), No)
MCScheduling == {delay, lock, control, prio, life, notify, take}

receive == Program(Ladder, By({"send"}, {}, {"receive"}, {"send"}), FALSE, {A, C}, Ever, All({"q"}))
waiting == Program(Ladder, By({"send"}, {}, {"receive"}, {}), TRUE, {A, C}, Ever, All({"q"}))
receivers == Program(Ladder, By({"send"}, {"receive"}, {"receive", "peek"}, {"send"}), FALSE, {A, B, C}, Ever,
                     All({"q"}))
senders == Program(Ladder, By({"send"}, {}, {"send"}, {"receive"}), FALSE, {A, C}, Ever, All({"q"}))
kinds == Program(Ladder, By({"receive"}, {}, {"send", "front", "reset", "overwrite"}, {"overwrite"}), FALSE,
                 {A, C}, By({0, MaxTick}, {}, {MaxTick}, {}), All({"q", "o"}))
timed == Program(Ladder, By({}, {}, {"take"}, {"give"}), TRUE, {C}, All({1}), All({"s"}))
mutex == Program(Ladder, By({"take", "give"}, {}, {"take", "give", "delay"}, {}), TRUE, {A, C},
                 By({0}, {}, {1}, {}), All({"m"}))
chain == Program(Ladder, By({"take", "give"}, {"take", "give"}, {"take", "give"}, {"give"}), FALSE, {A, B, C},
                 By({0}, {MaxTick}, {MaxTick}, {}), By({"m"}, {"m", "s"}, {"m", "s"}, {"s"}))
gone == Program(Ladder, By({"take", "give", "create"}, {"take"}, {"take"}, {}), TRUE, {A},
                By({0}, {MaxTick}, {1}, {}), All({"m"}))
MCQueueing == {receive, waiting, receivers, senders, kinds, timed, mutex, chain, gone}
MCPrograms == MCScheduling \cup MCQueueing
=============================================================================
