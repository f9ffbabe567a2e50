# Verification of the OBD-II simulator firmware

TLA+ models, TLC runs and TLAPS proofs for the firmware in this repository: an
STM32G431 diagnostic ECU (application on FreeRTOS) and its flash bootloader.
Paths below are relative to `src/Core`; those that begin with `FreeRTOS-Kernel`
are relative to `src/Middlewares`.

## 1. The system

| Component | Source | State it keeps | Operations |
|---|---|---|---|
| Flash bootloader | `Src/bl_main.c`, `bl_boot.c`, `bl_uds.c`, `ota_flash.c`, `Inc/bl_handoff.h` | meta page and application slot in flash; RAM flag that survives a reset; session, transfer, pending reset | boot gate, requests 10/11/27/34/36/37/31, superloop pass, page erase and doubleword program |
| ISO-TP transport | `Src/iso_tp.c` | one static context: a reception, a transmission, two time stamps | `ProcessFrame` (SF, FF, CF, FC), `SendResponse`, `Tick` |
| Diagnostic session | `Src/diag_session.c` | session, security level, seed, failed keys, lockout and boot-delay time stamps | `SetSession`, `GenerateSeed`, `VerifyKey`, `Tick`, `CheckAccess` |
| UDS services | `Src/uds_service.c` | DIDs, dynamic and periodic identifiers, communication flags, I/O overrides | dispatch with gating and response suppression, about 20 services, `UDS_PeriodicTick` |
| OBD-II simulator, DTCs | `Src/obd2_simulator.c` | simulated values, DTC table with status, counters, freeze frames, mirror | `UpdateSimValues`, `DtcUpdate`, clear, the reports of 0x19 and modes 03, 07 |
| Tasks | `Src/main.c`, `uart_debug.c` | queues, UART mutex, alive flags, watchdog, error flags | `vMainTask` (prio 2), `vCanRxTask` (3), `vRS485Task` (2), interrupts, `Debug_Print` |
| RS-485 gateway | `Src/rs485.c` | byte receiver, frame buffer | `RxCpltCallback`, `RestartReceive`, `Transmit` |
| FDCAN driver | `Src/fdcan_config.c` | receive ring of the bootloader, queue of the application, error counters | receive callback, error callback, bus-off recovery |
| FreeRTOS kernel | `FreeRTOS-Kernel/tasks.c`, `queue.c`, `list.c`, `portable/GCC/ARM_CM4F/port.c` | task lists, ready lists, tick, queues with their event lists, notifications | delay, suspend, queues, mutexes, notifications, the tick and the context switch |
| Heap | `FreeRTOS-Kernel/portable/MemMang/heap_4.c` | free list threaded through the heap | `pvPortMalloc`, `vPortFree` |

Interaction: the FDCAN interrupt queues frames; `vCanRxTask` takes them and
runs ISO-TP, which calls the UDS dispatcher, which calls the session manager
and the simulator; `vMainTask` runs every 10 ms and ticks all of them, so every
static context is shared by two tasks, protected only where a critical section
says so.  Request `10 02` of the application sets the RAM flag and resets; the
bootloader consumes it and serves the download.  The bootloader has no RTOS:
one loop drains the receive ring, ticks, looks at the session, heals itself.

What is hard: flash updates cut at any primitive; requests in any order,
repeated, with timers running out between two of them; two tasks and the
interrupts on shared contexts; blocking calls inside critical sections; timers
compared on a 32-bit clock; limits of tables, queues and counters; in the
kernel, wakeups that come between a task's look at a queue and its going to
sleep.  The list, line by line, is `hazards` in `PROJECT.json`.

## 2. Modules

| Modules | What they are about | State |
|---|---|---|
| `UpdateContract`, `Bootloader`, `BootloaderProps`, `BootloaderProofs` | the life of an update across power losses | checked, proved |
| `IsoTp`, `IsoTpProps`, `IsoTpProofs` | reassembly, stream sink, flow control, timeouts | checked; sink, whole messages and flow control proved |
| `UdsServer`, `UdsServerProps`, `UdsProofs` | session, S3 against requests, security lock-out, hand-off | checked; types, attempts and restored session proved |
| `UdsServices`, `UdsServicesProps`, `UdsProofs` | the dispatcher and every service, over `UdsServer` | checked; refusals, broadcasts and dynamic reads proved |
| `DtcManager`, `DtcReports`, `DtcManagerProps`, `ApplicationProofs` | ramps, debounce, mirror, clear, injection and setting from two tasks; what every report says | checked, proved |
| `PeriodicData`, `PeriodicDataProps`, `PeriodicDataProofs` | the tables of 0x2C and 0x2A under the walk of the main task | checked; tables and silence proved |
| `Rs485`, `RtosTasks`, `RtosTasksProps`, `ApplicationProofs` | the three tasks and the interrupts: alive flags, watchdog, queues, UART mutex, bus-off, RS-485 framing | checked; the receiver in step and the watchdog proved |
| `Scheduler`, `Queue`, `Notify`, `Kernel`, `Fifo`, `KernelProps`, `KernelProofs`, `PunctualProofs` | the FreeRTOS kernel under programs that use it | checked; the agreement of the lists, the order of queues, blocking calls that keep their time unless crossed and, without mutexes, preemption proved |
| `Heap`, `HeapContract`, `HeapProps`, `HeapProofs` | heap_4 under several callers | checked; order, joining and count of the free list and the contract proved |

`MC...` modules instantiate them for TLC.  Three abstract specifications are
implemented: `UpdateContract` by `Bootloader`, `HeapContract` by `Heap`, and
`Fifo` by the queues of `Kernel`.  `RtosTasks` relies on what `Kernel` checks:
there a queue is a bounded sequence and a mutex has one holder, a blocked task
is woken by what it waits for, and the highest ready priority runs.

What a later extension would add first: the application and the bootloader
over one board (the hand-off is checked on each side alone).

## 3. The bootloader

`Bootloader.tla` models one board.  `pc` says what the processor is at: `off`,
`reset` (the boot gate has not run), `app`, `handoff` (the application reset
with the RAM flag), and in the server `drain`, `tick`, `exit` for the three
parts of a superloop pass and `meta`, `erase`, `write` for the flash loops a
request is busy in.  Flash is `meta` (marker, version, size, CRC) and `slot`
(bytes).  RAM is what `bl_uds.c`, `diag_session.c` and `main` keep statically.
One action per handler; a handler that touches flash is split at every flash
primitive, because power can be lost there and nowhere else with an effect
that lasts: `RequestDownload` then `MetaErase`, `MetaProgram` (three
doublewords), `ErasePage`..., `EraseDone`; `TransferData` then `WriteDword`...,
`WriteDone`; `CheckMemory` then the same meta steps.  Each primitive may fail
(`MetaFault`, `EraseFault`, `WriteFault`, `WriteRefused` for a doubleword that
is already programmed).  `PowerLoss` is possible in every state, any number of
times.  `Tick` is S3, `ResetDue` the 200 ms of an answered reset, `SelfHeal`
and `NextPass` the end of the pass.

Abstractions: a byte is a member of a small set; the CRC is an operator `Crc`
of which the proofs assume only its type; time counts in the steps the timers
tell apart; seed and key are one step (`Unlock`); a request enters the server
when it is dispatched, reassembly and the receive ring are other modules'
matter.  Ghosts: `complete` (the slot holds an image that passed its check, or
left the factory, and nothing has altered it since), `top` (highest version
certified), `torn` (some rewrite of the meta page was cut or failed), `quiet`
(the tester has gone and the supply is steady, for good).

`UpdateContract.tla` is the abstract promise: an image is altered only under
no valid mark, marked valid only when complete, and nothing runs while marked
as being updated.

### Runs

| Run | Shows |
|---|---|
| `fbl_safety` | types, `ValidMeansComplete`, `ValidMatchesSlot`, `FloorTracksCertified`, `OpenTransferIsUnmarked`, and the refinement `KeepsContract`, with unlimited power losses, failures and requests in any order |
| `fbl_live` | left alone, the loop boots a valid image, drops an abandoned transfer, performs an answered reset |
| `fbl_torn_boot` | violation: a second 0x34 erases the UPDATING marker first; power lost there boots a partial image with plausible vectors, against the comment at `bl_uds.c:222`.  `SoundFlashSpec` leaves out failing flash operations: the trace needs one block, a second 0x34 and one power cut |

Two more disagreements with the comments were found by TLC and are described
here, without a run of their own.  Power lost in a rewrite of the meta page
leaves no version in flash, so that the anti-rollback floor starts again at
zero, against `bl_handoff.h:55` (`FloorTracksCertified` says what is kept: the
floor follows the certified version as long as no rewrite was `torn`).  And
`10 01` followed by `10 02` in one drain of the ring hides the return to the
default session from `bl_main.c:152`, against the comment at line 149: the
transfer stays open.

Bounds.  `fbl_safety`: a slot of 4 bytes in two pages of two doublewords' worth
of room, images of 3 and 4 bytes, blocks of one and two bytes (so that blocks
end inside a doubleword, and a block can overrun), versions 0..2, a block
counter modulo 3 that wraps within one image, one tick for S3 and for the reset
delay.  Every control path of the handlers has a cause inside these bounds, and
larger values only repeat a loop.  `fbl_live` uses one size, one block and
version 1, since its questions do not depend on data.

Fairness (`LiveSpec`): the processor runs - `PowerOn`, `Boot`, every step of a
flash loop and the superloop are weakly fair - and `EndDrain` is strongly fair:
the drain ends when the ring is empty, and a tester waits for the answer of a
request before it sends the next, so the ring is found empty again and again
even while requests keep coming.  Nothing is assumed of requests, power or
failures; the properties that need them to stop say so with `quiet`.

### Proofs

`BootloaderProofs.tla` proves, for every slot size, page size, doubleword,
block set and version bound satisfying the ASSUMEs of `Bootloader.tla`, that
`IInv` is inductive, and from it the properties named in `theorems`, and that
`Bootloader` implements `UpdateContract`.  `IInv` is `TypeOK` with:

* `JobInv`: a flash loop runs for a reason (page erases only in a transfer
  that is being opened, doublewords only in an open one);
* `PageInv`: what a partly programmed meta page can hold, by how many
  doublewords are in - the marker is in the first of the three, so it says
  nothing of the rest until the loop is through;
* `MarkInv`: VALID, in flash or about to be written, means `complete`, and an
  open transfer has it down;
* `CrcInv`: the CRC about to be written, or written, is the slot's;
* `FloorInv`: where the floor is while it is being rewritten.

None of the properties is inductive alone: each needs to know what a loop that
is running was started for.  TLC checked `IInv` first.  Liveness is model
checked only (ENABLED and fairness are outside the prover's reach).

## 4. ISO-TP

`IsoTp.tla` is one node's static context: `rx` and `tx` are the receiving and
the sending half of `s_ctx`, `rxAge` and `txAge` the ticks since its two time
stamps.  `build` says in which program the source is compiled: in the
bootloader the loop passes `HAL_GetTick()` and nothing interrupts it; in the
application the main task passes the scheduler's clock, read `lag` ticks
before its critical section.  `FirstFrame`, `ConsecutiveFrame`, `SingleFrame`,
`ShortFirstFrame` and `FlowControl` are the branches of
`ISO_TP_ProcessFrame`, `Tick` is `ISO_TP_Tick`; a received request answers
with any length in `Responses`, on the spot.

The other side is a tester that loses frames in both directions, repeats a
consecutive frame, abandons a message for a new one, sends single frames in
between, answers flow control as it likes, and may be unplugged.  It sends a
flow control frame only when it owes one (after a first frame or a full
block): one that answers without being asked is outside the protocol.
`peer` is what it is sending, `reply` what it has reassembled.  A byte is the
message it came from and its position, so that mixing two messages shows.

| Run | Shows |
|---|---|
| `isotp` | both builds: `HandedWhole`, `SinkFollows`, `PeerFollows`, and that reception and transmission end |
| `isotp_early` | violation: in the application a transfer just begun is timed out, the two clocks having different origins |

Bounds: frames of two bytes, messages of 5 and 9 bytes, one buffered and one
streamed, so that first, middle and last padded frames all occur; sequence
numbers modulo 2, which wrap within a message as 16 do within a long one.  A
single lost or repeated frame changes the number that is expected; a loss of
as many frames as there are numbers does not, and leaves a reception short of
its length, which only the timeout ends.  The same holds of the code at 16.
Block sizes
are 0 and 1, separation times 0 and 1, with one FC.WAIT, timers of one tick.  Fairness:
both clocks run, and the main task comes to its check (it blocks only in
`vTaskDelay` and on a mutex whose holders finish).

### Proofs

`IsoTpProofs.tla` proves, for every frame size, buffer, set of messages and
number of sequence numbers above 1, that `ReceiveInv /\ SendInv` is inductive.
The heart of `ReceiveInv` is `Collecting`: a reception under way has taken `c`
chunks and the last of them was the tester's number `j`.  If `c = j`, what is
assembled is the prefix of the message; if not, the tester has got ahead by a
multiple of `SeqMod` frames, what is left of its message is shorter than what
the reception lacks, and the message can never be completed.  That is why
`WholeMessages` holds although sequence numbers wrap.  `SinkIsFollowed` (the
stream sink sees begin, data in order, end or abort) and `PeerKeepsUp` (what
the other side reassembles is what was sent) come from the same invariant.  An
event that comes to the sink out of turn - a second BEGIN, data or an end while
it is closed - leaves it `Upset` for good, so `SinkFollows` counts the ends.
`TransfersEnd` is model checked only.

## 5. Session, security and hand-off

`UdsServer.tla` is `s_session` and what `diag_session.c` keeps beside it, with
the parts of other modules that ride on the session: DTC setting, periodic
transmission, pending reset and the RAM flag.  `vCanRxTask` outranks
`vMainTask` and does not block inside a handler, but for the UART mutex, whose
holder inherits its priority and finishes: a request is one action.
`vMainTask` is split (`pc`) wherever a request can come in: after the clock is
read (`ReadClock`), after the session is looked at (`CheckSession`), after the
comparison (`Compare`), which prints, and between the four writes of
`DiagSession_SetSession`.  `FreshRam` is a reset; `Boot` consumes the flag.

| Run | Shows |
|---|---|
| `uds_session` | at most `MaxFail` wrong keys in any lockout time; the default session restores setting and periodic transmission; S3 ends an abandoned session; a hand-off reaches the bootloader; a request answered negatively has changed nothing; a broadcast changes nothing but the DTC setting and the communication flags (and the fault table, which a broadcast 0x04 clears and which is `DtcManager`'s); a dynamic identifier reads within its sources |

`UdsServices.tla` is `UDS_DispatchRequest` and the services behind it.  A
request is a record of what the service reads of its bytes; `Outcome` says what
a request is answered in a state, what becomes of the data the services keep
(`app`: VIN, I/O override, communication flags, definitions of 0x2C, names of
the subscriptions of 0x2A), and what is asked of the session.  `Serve` does
both: it is the conjunction of `app' = ...` with the action of `UdsServer` that
the service calls, so the composition is the code's call.  `Filtered`,
`Barred` and `Suppressed` are the functional filter, the gate of session and
security, and the suppression of positive answers, in the code's order.  An
answer carries where each of its bytes was read, so that a read beyond the
source shows.  `WalkAndReadClock` is what `UDS_PeriodicTick` may do to the
subscriptions before the main task looks at the clock; its steps are
`PeriodicData`'s matter.

`RefusalLeavesNoTrace` is about handlers that mix checks and effects; 0x2A is
left out of it, since it keeps what it did before the identifier that fails.
`ReadsWithinSource` relates a definition to sources that may have become
shorter since: a VIN is read by `strlen`, so one written with a zero byte ends
there, and a definition on its end is refused until the VIN is whole again.

A divergence without a run of its own: a request between comparison and store
does not save its session, since `diag_session.c:191` does not look again;
TLC shows it in eight steps.  Others, in the services, against the comments:
0x31 with the top bit of its sub-function set is refused, though
`uds_service.c:697` leaves that bit to the dispatcher; 0x28 masks the bit but
is missing from the list of services whose answer it suppresses; a broadcast
0x28, 0x85 or 0x3E can be answered negatively, against `uds_service.c:221`; the
flags of 0x28 and the override of 0x2F outlive the return to the default
session.

Bounds: S3 and lockout of two ticks, boot delay of one, two attempts, one tick
of delay in the main task.  Every timer can be short of, at and past its limit
while every other is; longer ones add only more ticks.  The requests come in
four menus (session and lock, definitions and identifiers, memory, the rest),
of which a tester keeps to one, so that states add up instead of multiplying;
each has requests that are accepted, that are too short, out of range, barred,
quiet and broadcast.  VIN, answers and assembled data have their real sizes 17,
64 and 56; there are two places for definitions and two for subscriptions, of
three identifiers, so that both fill up.  Fairness: the main task loops, the
board boots, time passes.

## 6. Fault manager

`DtcManager.tla` has the three simulated gauges with their ramps, the table
with debounce, hold, sequence number, occurrence, latch and freeze frame of
each entry, the mirror with its places and their contents, the counter of
failures and the DTC setting.  `UpdateSimValues`, `CheckSetting` and `Update`
are the main task's three steps - the setting is read before the critical
section - and `InjectDemo`, `Clear` and `SettingControl` the requests that come
between any two of them.  Four ghosts remember what the properties compare with:
`failed` (the order of failures), `touched` (the setting was ever switched off or
the fault injected), `late` (updates made since the setting went off) and
`cleared` (the table was cleared since then).

`DtcReports.tla` is the reading side: every report type of 0x19, from the
status byte to the freeze frames, the picks (first and most recent failed and
confirmed), the fault detection counters, the mirror and the user-defined
memory, and the lists of modes 03 and 07.  The question is whether reports that
are computed each in its own way agree: `ReportsAgree` relates counts to lists,
lists of one mask to those of another, counters to status, freeze frames to
latches.

| Run | Shows |
|---|---|
| `dtc` | the reports agree with each other in every state, prefailed entries among them, the picks follow the order of failures, an engine left alone matures no fault, and after 0x85 off at most the update already decided on is made, so that a table cleared meanwhile stays without failures |

Bounds: ramps of 2, 2 and 3 steps, threshold, hold and byte limit 2, three
failures before the sequence counter stays at its end.  The ramps reach both
ends in every phase against each other, so that two conditions hold in one
pass and conditions come and go between any requests; byte and sequence
counters reach their ends.  The run's `VIEW` is the state without the contents
of the mirror: no step and no checked property reads them, so two states that
differ only there have the same future.  What the mirror holds is proved
instead (`DtcMirrorAgrees`).  There is no liveness here.

Observations without a run.  The comment that the order of failures is the
order of confirmations does not hold when the demo fault is injected while an
entry of a lower number is pending.  `19 10` with code 0 finds an empty place
of the mirror (`OBD2_MirrorFindByCode` compares codes only) and is answered
positively where 0x31 is meant.

## 7. Periodic data

`PeriodicData.tla` has the definitions (0x2C) and the subscriptions (0x2A),
and the walk of `UDS_PeriodicTick` access by access: `Look` reads the slot,
`Count` and `Compare` are `++counter < divider` on fields that are not
volatile, `Find` takes the pointer, `Assemble` and `GiveUp` are the critical
sections, `Send` reads the pdid again.  Requests are single steps that name
one or two identifiers, so that one can fail after the other was done.

| Run | Shows |
|---|---|
| `periodic` | an identifier is defined once and subscribed once; after everything was stopped at most the frame under way goes out; subscriptions without data end by themselves and the others are sent for ever |

A divergence without a run of its own: a frame carries one identifier and
another's data when the definition is cleared, and its place taken, while the
walk holds a pointer to it (`uds_service.c:1770`).

The source of a definition may shrink under it: `WriteVin` makes the VIN short
or whole (`short`), and identifiers in `OnVin` are then without data.

Bounds: three identifiers for two places in each table, so that both fill up
and places are used again; one of them on the VIN; dividers 1 and 2.
Fairness: the main task walks.

### Proofs

`PeriodicDataProofs.tla` proves `NothingTwice` and `OneLateFrame` for tables of
every size.  `Distinct` and `DefinedOnce` say it of the tables; they are kept
because a name goes where it already is, and to a free place only if it is
nowhere (`SubscribedIsGood`, `DefineIsGood`), and because every other step only
takes entries away (`Within`).  `Silent` is about the walk: once everything was
stopped no slot is active, so the walk can send what it had assembled and then
finds nothing.

## 8. The kernel

The kernel's state is one record `k`: `Scheduler.tla` has its lists (ready,
delayed, overflow, pending, suspended), the tick with its wrap, delays, suspend
and resume, priorities and the context switch; `Queue.tla` the queues,
semaphores and mutexes with their two event lists, locks and priority
inheritance; `Notify.tla` the task notifications.  An operation is an operator
from records to records, written from the C function; what a function does in
one critical section is one step, and where it leaves one - between a failed
attempt and the wait, or under a suspended scheduler - it is cut.  Loops inside
a critical section take one step per iteration.  `Kernel.tla` runs tasks: a
program is a sequence of calls, `where` says how far each task is, and the
tick interrupt and interrupt-driven sends come between any two steps.

| Run | Shows |
|---|---|
| `kernel` | a task is on exactly the lists that its state asks for, a delay ends on its tick also when the tick count wraps, the highest ready priority runs, no wakeup of a queue or a notification is lost, a mutex holder runs at the priority of those it holds up, and every queue refines `Fifo` |

`NoLostWakeup` is the one hard to get right: a task that sleeps on a queue has
nothing to find there, or a wakeup for it is under way (a lock count to be
worked off, a yield that is pending, another task awake that will look).

Bounds: sixteen programs of up to four tasks, three priorities, a tick that
wraps after 2 with two wraps allowed.  Each program brings out one mechanism
(send against a full queue, receive with time-out, mutex with inheritance,
notification with every action, delay across a wrap, suspend of a delayed
task); states add up over the programs instead of multiplying, 0.65 million in
all.  Tasks that wait for ever are legal, hence `CHECK_DEADLOCK FALSE`.

What the model shows beside its properties, and keeps out of the programs:
resetting a queue wakes one sender only; `xQueueGenericSend` ignores the yield
that disinheriting asks for when it wakes a task from the list
(`queue.c:1047`-1069).  The comment there speaks of several mutexes, but one is
enough.  A (priority 1) holds a mutex that B (1) and C (2) wait for, and runs at
2; a tick ends C's wait, and before C has noticed, A has its slice and gives: it
falls back to 1, the task it wakes is B, and A runs on below a ready C until the
next tick or yield.  `HighestRuns` therefore holds of the programs of the run and
not of every program.  A change of priority does not
reorder an event list the task is on; resuming a suspended task that had a
delay cuts the delay short; a notification value wraps, so a take may wake with
0, and `eNoAction` wakes `ulTaskNotifyTake` with 0.

### Proofs

`KernelProofs` proves four things, and `PunctualProofs` a fifth, for every set of
programs, tasks, queues and priorities and every width of the tick.

`FifoOrder` (`KeepsOrder`): the queue watched is a first-in-first-out sequence.
The invariant is `CellOK`, the slot written next is the one behind the last
item, and `CallsOK`, a call in progress keeps the object and the message it was
made with; the lemmas on `Nth`, `Ring` and `Behind` are arithmetic modulo the
length.

`ListsStayTogether` (`ListsAgree`) and `NobodyOversleeps` (`NoneOverdue`, one
half of `Punctual`).  The agreement of the lists is not inductive by itself: the
helpers of `tasks.c` put a list item into a list without asking whether it is in
one, so they are right only for a task that is where the caller believes it to
be.  `IInv` is therefore `Good(k) /\ Control`.  `Good` says that the record's
lists, containers, bit map, wake times and count agree (`ReadyOK`, `SleepOK`,
`WaitOK`, `Timely`).  `Control` says what a caller knows: where a task is in its
call bounds what its list items may be (`TaskOK`: `PlanOK`, `EventOK`,
`NoteOK`); a call that may block runs with the scheduler on and its middle part
with exactly one suspension (`Guarded`); and the running task is ready and in no
event list, except between filing itself and the switch that follows
(`CurrentOK`).  Each helper has a lemma that says which fields it changes and
that it keeps `Good`; each action has a lemma that it keeps `IInv`, through
`Sound`, `Follows` and `Trails`, what the calls of the other tasks rely on.

`HighestRunsWithoutMutex` (`MutexFree => HighestRuns`).  `HighestRuns` looks at
application code only; in the middle of a call a woken task may well outrank the
running one.  The invariant `Preemption` says that it is then owed a switch:
whenever a ready task is above the running one, `Owing` holds - PendSV is
pending, or `xYieldPending` is set and a resume or the tick's drain has still to
read it, or `xSwitchRequired` is set and the tick has still to return it.
Before the scheduler runs the current task is the highest of those created, and
without a mutex every task runs at its own priority (`Plain` keeps the calls away
from inheriting).  `Calm` says of a helper that nobody overtakes without a
debt; a helper that raises or wakes somebody is calm only with the comparison
and the yield that follow it, and the switch pays the debt because it picks the
top of the bit map (`SwitchContextGood`).  `MutexFree` is a condition on the
program, which never changes; with a mutex the property is false of some
programs, as said above.

`PunctualUnlessCrossed` (`Uncrossed => Punctual`) adds `NoEarlyTimeout`, the other
half.  Its invariant is `Patience`.  For every task, by where it is in its call
(`LocalsOK`, `Patient`): who sleeps has at least the time ahead that it still has
to wait (`Asleep`, `Ahead`); a wait for a queue measures with its `TimeOut_t`, and
what that has left, less what has passed, covers what is still asked (`Clocked`,
`Past`); who is about to end was told or is done (`Told`, `Done`).  A step of another
task may shorten no sleep but that of a task it has a reason to wake: in an event
list, suspended, or notified (`Gentle`, `Spares`); a tick takes one from what
everybody has ahead (`TicksKeeps`), the wrap and the pended ticks included.
`Uncrossed` is a condition on the program.  Nobody clears the notification of
another task that waits for it, and where tasks suspend each other nobody waits
for a notification for ever: either would end a wait early, by the code
(`xTaskGenericNotifyStateClear` makes the waiter look as if it had timed out; a
task resumed from `vTaskSuspend` goes on behind its wait; of a timed wait a
suspension ends the time that was asked for, `spent`).  The application of
this repository satisfies it, as nothing under `src/Core` suspends a task or uses a
notification.

The assumptions are those of the modules: the idle task calls nothing
(`configUSE_IDLE_HOOK` is 0, `FreeRTOSConfig.h:50`), a mutex has length 1, a
queue has a place.

## 9. The heap

`Heap.tla` is heap_4: blocks with a header, an address-ordered free list, first
fit with splitting, coalescing on both sides, the counters.  Allocation is cut
where the search loops are, and the scheduler is suspended meanwhile, so a
second caller waits; it is not suspended in the checks before, which the model
keeps outside.  Arithmetic is done in words of `Word` values, so that a size
near the end overflows as in `heap_4.c`.

`HeapContract.tla` is what a caller relies on: blocks handed out are inside the
heap, aligned, large enough and disjoint, and freeing one gives back only that.

| Run | Shows |
|---|---|
| `heap` | the free list is ordered, disjoint and coalesced, its sum is the counter, the contract is kept, and searches end |

Bounds: a heap of 18 units with alignment and header 2, a word of 64, requests
for 0, 1, 4, 6, 33 and 62 units, so that sizes are rounded, blocks are split
and not split, the heap is exhausted, the rounding overflows; two callers.
Fairness: each caller goes on once it has begun.  A refused allocation runs the
failure hook, which stops the system here (`main.c`), hence
`CHECK_DEADLOCK FALSE`.  `pvPortCalloc` and the statistics are left out.

### Proofs

`HeapProofs.tla` proves the three safety properties of the run for every heap
size, alignment, overhead, word and set of requests that fit the ASSUMEs and
any number of callers, in two invariants.

`IInv` is about the blocks: `HeapTypes`, `Owned` (a block is free, used, or in
the hands of one caller that frees it), `Walking` (one caller at most is in the
list, and stands on a block of it) and `Tidy`.  `StaysTidy` follows.  `Tidy`
alone is not inductive: inserting a block keeps order only because it was
nobody else's, which `Owned` says.  Cutting, joining and relinking are lemmas
on any set of blocks (`CutTiles`, `JoinTiles`, `ReplaceLinks`, `DropLinks`,
`AddLinks`).

`CountInv` is about the numbers: `Counted` and `SearchPast` (a search asks for
what can be served, and the free blocks it has passed are too small).  `Total`
is a recursive function, so the sums need no induction over data: `SumExists`
and `SumIsOne` pin the function down by well-founded induction on the
addresses, `TotalChanges` says what one changed place does to the sum, and
`TotalBounds` that no block is larger than it.  `StaysCounted` follows, and
`ImplementsContract`: granting, refusing and giving back are steps of
`HeapContract`, all others change nothing it sees.  Refusing is the hard one
(`Refusing`, `FitsInFree`): a stretch that overlaps no block given away lies in
one free block, because no two touch; that block is too small by `SearchPast`,
or by the count if the request was refused before the search.

That searches end stays with TLC.

## 10. The tasks

`RtosTasks.tla` has the three tasks and the interrupts of `main.c` and
`uart_debug.c`: the receive queues, the UART mutex with priority inheritance,
the alive flags that three tasks set by read-modify-write, the watchdog that is
refreshed only when all have set theirs, the error flags set by the FDCAN
interrupt, bus-off recovery, and the order of priorities (main 2, CAN 3,
RS-485 2; a task runs only when no higher one is ready).  `Rs485.tla` is the
byte receiver and its framing.

| Run | Shows |
|---|---|
| `tasks` | a receiver that hears every byte stays in step; the watchdog is refreshed only when the main and the RS-485 task have come by since the refresh before; a standstill of the processor, or of one of these two tasks, ends in a reset; a bus-off that `HAL_FDCAN_ErrorCallback` tells of is recovered from |
| `tasks_hang` | violation: the RS-485 task is cut off while it holds the UART mutex, and the main task prints inside the critical section of `ISO_TP_Tick` (`iso_tp.c:163`): it waits for the mutex (`uart_debug.c:90`) with interrupts masked, the holder can never run, and only the watchdog ends it |

Bounds: four scenes, `{frames, check, stall}`, `{check, busoff}`, `{frames, bytes}`
and `{frames, noise}`: what comes from outside is kept to the events a scene names, so
that states add up instead of multiplying.  `frames` is traffic on the CAN bus; it
is left out beside `busoff`, where the main task has the mutex and the processor to
itself but for the heads of the other loops, and is reset by the watchdog at any
point all the same.  `check` is the look at the alive flags.  Fairness is
only that time passes or the watchdog bites: nothing is assumed of the tasks.

What the model shows beside its properties.

- The CAN task's standstill is not vouched for: a stale store of the RS-485 task
  puts its bit back after it was cleared (`main.c:412`, 536), so that a refresh
  may follow, and another after the next such store, though `main.c:413` and
  the repository's `README.md:39` promise a reset for any task.
  `RefreshVouches` and `StandstillEnds` leave the CAN task out.
- Bus-off is recovered from only if the flag is set.  `fdcan_config.c:214` asks for
  `FDCAN_IT_BUS_OFF`, an error status; the HAL, which is not in the sources,
  hands error statuses to `HAL_FDCAN_ErrorStatusCallback`, and that ignores
  this one (`main.c:617`-631).  The flag is set by `HAL_FDCAN_ErrorCallback`
  (`main.c:638`), which the HAL keeps for other errors.  `BusOff` is therefore
  the controller's step alone and sets no flag, and `ErrorCallback` may come at
  any time or never.
- The restart after a lasting error-passive state ignores what `HAL_FDCAN_Stop`
  and `HAL_FDCAN_Start` return (`main.c:429`, 430): `Restart` may leave the
  controller stopped, or as it was, without a flag, while the main task goes on
  feeding the watchdog.
- For both reasons TLC finds `chip # "on" ~> chip = "on"` violated, against the
  repository's `README.md:42` ("CAN bus-off recovery runs in task context (flag
  from ISR)"); `SignalIsServed` is what holds.  These have no run of their own.
- `HAL_UART_ErrorCallback` prints too, in an interrupt, where the port asserts
  (`port.c:487`); the assertion loops with interrupts off until the watchdog
  bites, so that `RS485_RestartReceive` is never reached, and it is not modelled.

A byte lost on the RS-485 line may leave the receiver out of step for ever, since
only the length byte marks a border and there is no time-out between bytes
(`rs485.c:166`); `InStep` is therefore about a line that loses none.  Bytes
arriving while the driver is enabled are lost.  A flood of CAN frames starves the
tasks of priority 2 and ends in a watchdog reset.  The logging of warning flags
(`main.c:439`-452), the FIFO of the FDCAN transmitter and what the tasks do to
diagnostic state are left out here; the latter is `UdsServer`'s,
`PeriodicData`'s and `DtcManager`'s.

### Proofs

`ApplicationProofs` has two invariants for the tasks.  `LineInStep` (`InStep`) rests on
`LineInv`: with `InStep` itself, that the peer is always inside one of its frames
(`PeerOK`), so that the next byte is the one the receiver's place in the frame
asks for.  `RefreshIsEarned` (`RefreshVouches`) rests on `FlagsInv`: which task
masks the interrupts and where it is then (`MaskOK`), that nobody comes between
the CAN task's load of the flags and its store (`CanIsAtomic`), and that until
the RS-485 task has come by, its bit is neither in the flags nor in what the
main task has loaded of them, but for the step from the refresh to the clear
(`BitIsFresh`).

## 11. Proofs of the fault manager

`ApplicationProofs.tla` proves for ramps of every length, every threshold above
1, every time to confirm and every limit of the counters:

* `DtcInvariance`: `IInv`, which is `TypeOK`, `EntryOK` of every entry and
  `PlaceOK` of every place of the mirror.  `EntryOK` is `Recorded`, what
  `FailureIsRecorded` says, and `Counting`, which the properties need to be
  inductive: an inactive entry's debounce is below the threshold, a pending
  one's at or above it with its hold below the time to confirm.  The lemmas
  `CleanIsOK`, `PassesIsOK` and `FailsIsOK` are about what clear and update
  make of one entry, `ArchiveIsOK` about what clear puts into the mirror.
* `DtcTypeCorrect` and `DtcFailureIsRecorded` follow.
* `DtcReportsAgree` and `DtcMirrorAgrees`: the reports agree in every state
  that satisfies `IInv`.  `PicksExist` is the lemma that a pick over an entry
  with a sequence number finds one, `Prefailing` that an entry that has counted
  detections without failing shows in 0x14.
* `DtcNothingMaturesAlone` needs a second invariant, `Alone`: the ramps turn
  at their ends (`Turning`), hence no condition holds in two passes in a row
  (`ConditionPasses`), hence an untouched entry has counted at most one
  detection and only at the pass that saw it (`SeenOnce`).

* `DtcOffFreezes` needs `Freezing`: while the main task is at an update none was
  made since the setting went off, and what was cleared meanwhile has counted
  no more detections than updates were made, fewer than any threshold.
* `DtcPicksInOrder` needs the invariant `Ordered`: while the counter counts, no
  entry has a number above it, numbers differ, and they compare as the ghost
  `failed` says the failures did.  `FailingIsOrdered` is the step, for any set
  of entries that get numbers above all others' in table order; `NumbersGoUp`
  says that one pass of the update gives such numbers.

## 12. Proofs of the session

`UdsProofs.tla` proves, for timers of every length and every limit of
attempts, that `IInv` - `TypeOK`, `Restoring` and `Counted` - is inductive.  `Restoring`
strengthens `ReturnRestores` by where the main task is: once past
`RestoreDtcSetting` the setting is on again in the default session, although
periodic transmission is not stopped yet.  `ReturnRestores` alone is not
inductive, since the step that ends the way back relies on what the earlier
ones left.  `GateLimits` is the lemma that a key is only looked at while fewer
than the limit have failed, or the lockout is over and clears the count.
`AttemptsBounded` looks at the ages of the last wrong keys, which the ghost
`wrong` keeps.  `Counted` ties them to the counter: a wrong key that is not
counted is a lockout old, and while the gate is shut none is younger than the
lockout, so that forgetting the count (`GateForgets`) forgets nothing recent.

It carries this over to the services and adds three results,
for every set of requests a tester may send and every size of the tables.
`ServicesKeepSession`: a behaviour of the services is one of `UdsServer`, so
whatever is proved there holds here (`ServicesReturnRestores`).
`RefusalsLeaveNoTrace` rests on a lemma per handler that its outcome is
`Spotless`: if the answer is negative, the data are as they were and the
session is asked at most to count a seed or a key that does not pass.
`BroadcastsAreHarmless` rests on `Mild`: a service that may be addressed
functionally keeps all data but the two flags, and asks for the DTC setting at
most; it needs `AppShape`, that the record of the data keeps its fields.
`ReadsStayWithinSource` has the invariant `FitInv`: a definition in use has
records (`Readying`), each of memory that may be read, of a source that is
constant, or of the VIN (`Fits`).  That the answer is what the records name needs
induction over them, for the sum of their sizes and for their bytes put together.
The library's induction theorems cannot be instantiated here, but the least number
that would break a claim can be picked (`LeastOf`): `AddsExist` and `JoinsExist`
show so that the equations of the folds have solutions, and `SlicesJoin` that sum
and bytes agree.  `RequestAssumption` is about the requests: they hold what their
length announces, and the identifiers are distinct.

## 13. What is only model-checked

All liveness (fairness and ENABLED are outside the prover's reach), the
standstill and the bus-off of the tasks with it; and of the kernel:

- `HighestRuns` of programs with a mutex, some of which break it (section 8);
- `Punctual` of programs in which a wait is crossed, some of which break it
  (section 8);
- `NoLostWakeup`: a task woken for an item may be deleted or suspended before it
  takes it, and the wake-up goes with it;
- `Inheritance`: a holder that is deleted, or whose priority another task sets,
  keeps the mutex without what it inherited.

Each of these is broken by what the code does in some program.  The programs of
the run leave the causes out, so there the properties are about those programs, and
no theorem can be stated for all of them.

The violation runs show behaviours of the code, one
counterexample each, and prove nothing beyond it.

## 14. Not modelled

The failure loops of FDCAN start-up (the board blinks for ever), a doubleword
torn in half by a power loss, the deadline that happens to be tick 0
(`bl_main.c:161`), the wrap of the millisecond clock, encodings of PIDs and
identifiers, the loopback self-test, peripheral set-up, the HAL.  Of the kernel:
what this build does not compile (timers, co-routines, the other allocators,
the MPU and SMP branches), traces, run-time statistics and task lists for
display, and the parts nobody calls.

Of the 47,600 lines counted as implementation, 28,000 are the kernel's, more
than half of them documentation comments in headers and branches that the
configuration switches off.  The map names only lines that a definition
translates.

Observations without a run.  A board without a meta page boots by the legacy
branch of the gate, but once in the server it is not healed back
(`bl_main.c:170` asks for a VALID page).
