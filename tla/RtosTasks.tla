------------------------------ MODULE RtosTasks ------------------------------
(***************************************************************************)
(* The three tasks of main.c as the scheduler interleaves them, the mutex  *)
(* of Debug_Print, interrupt masking, the watchdog, recovery from bus-off  *)
(* and the RS-485 side of the gateway.  What a task does to the diagnostic *)
(* state is in the modules of those parts; here a task is the prints,      *)
(* waits and critical sections it goes through.                            *)
(*                                                                         *)
(* A task runs if no ready one has a higher priority; among equals each    *)
(* step is anybody's (time slices).  A task in a critical section keeps    *)
(* the processor, and interrupts wait.                                     *)
(***************************************************************************)
EXTENDS Rs485

CONSTANTS
  Main, Can, Rs,    \* vMainTask, vCanRxTask, vRS485Task
  None,
  CanQueueLen,      \* CAN_RX_QUEUE_LEN
  Patience,         \* time units the watchdog waits for
  Scenes            \* the events from outside that go together in a behaviour

Task == {Main, Can, Rs}

ASSUME TasksAssumption ==
  /\ Main # Can /\ Main # Rs /\ Can # Rs /\ None \notin Task
  /\ CanQueueLen \in Nat \ {0} /\ Patience \in Nat \ {0}

VARIABLES
  pc,        \* where each task is; "print" and "sending" are in Debug_Print
  back,      \* where it goes on after that
  holder,    \* who has xUartMutex
  mask,      \* who is in a critical section
  hung,      \* "asserted" or "masked": the processor is lost
  alive,     \* g_task_alive_flags
  reg,       \* what a task has loaded of them
  dog,       \* time since the watchdog was last refreshed
  passed,    \* the RS-485 task passed the head of its loop since then
  chip,      \* the CAN controller: "on", "off" the bus, "stopped"
  busoff,    \* g_fdcan_busoff_detected
  canq,      \* number of messages in xCanRxQueue
  scene      \* the events from outside in this behaviour
own == <<pc, back, holder, mask, hung, alive, reg, dog, passed, chip, busoff, canq, scene>>
board == <<rs485, own>>

\* The states main() leaves for the scheduler.
Fresh ==
  [pc |-> [t \in Task |-> IF t = Main THEN "tick" ELSE "load"],
   back |-> [t \in Task |-> "load"], reg |-> [t \in Task |-> {}]]
TasksInit ==
  /\ pc = Fresh.pc /\ back = Fresh.back /\ reg = Fresh.reg
  /\ holder = None /\ mask = None /\ hung = "no"
  /\ alive = {} /\ dog = 0 /\ passed = FALSE
  /\ chip = "on" /\ busoff = FALSE /\ canq = 0
  /\ scene \in Scenes
BoardInit == Rs485Init /\ TasksInit

-----------------------------------------------------------------------------
(* Who runs                                                                *)

BasePriority(t) == IF t = Can THEN 3 ELSE 2

\* The holder of the mutex inherits from those that wait for it.
Priority(t) ==
  IF holder = t /\ pc[Can] = "blocked" THEN BasePriority(Can) ELSE BasePriority(t)

Waits(t) ==
  \/ pc[t] \in {"blocked", "delay", "stalled"}
  \/ pc[t] = "wait" /\ IF t = Can THEN canq = 0 ELSE rsq = 0

Works == hung = "no" /\ dog < Patience
Runs(t) ==
  /\ Works /\ ~Waits(t)
  /\ IF mask = None THEN \A u \in Task : Waits(u) \/ Priority(u) <= Priority(t)
     ELSE mask = t
Interrupts == Works /\ mask = None

At(t, place) == Runs(t) /\ pc[t] = place
Goto(t, place) == pc' = [pc EXCEPT ![t] = place]
Prints(t, next) == Goto(t, "print") /\ back' = [back EXCEPT ![t] = next]

-----------------------------------------------------------------------------
(* Debug_Print                                                             *)

Free == holder = None
TakeMutex(t) ==
  /\ At(t, "print") /\ Free
  /\ holder' = t /\ Goto(t, "sending")
  /\ UNCHANGED <<rs485, back, mask, hung, alive, reg, dog, passed, chip, busoff, canq, scene>>

\* portMAX_DELAY: the caller waits, and the holder inherits
WaitForMutex(t) ==
  /\ At(t, "print") /\ ~Free /\ mask = None
  /\ Goto(t, "blocked")
  /\ UNCHANGED <<rs485, back, holder, mask, hung, alive, reg, dog, passed, chip, busoff, canq, scene>>

\* In a critical section the switch to the holder never comes.
WaitMasked(t) ==
  /\ At(t, "print") /\ ~Free /\ mask = t
  /\ hung' = "masked"
  /\ UNCHANGED <<rs485, pc, back, holder, mask, alive, reg, dog, passed, chip, busoff, canq, scene>>

Blocked == {t \in Task : pc[t] = "blocked"}
First(S) == {t \in S : \A u \in S : BasePriority(u) <= BasePriority(t)}
GiveMutex(t) ==
  /\ At(t, "sending")
  /\ holder' = None
  /\ \/ Blocked = {} /\ Goto(t, back[t])
     \/ \E u \in First(Blocked) : pc' = [pc EXCEPT ![t] = back[t], ![u] = "print"]
  /\ back' = [back EXCEPT ![t] = "load"]
  /\ UNCHANGED <<rs485, mask, hung, alive, reg, dog, passed, chip, busoff, canq, scene>>

-----------------------------------------------------------------------------
(* g_task_alive_flags |= bit, a load and a store                           *)

Load(t) ==
  /\ At(t, "load")
  /\ reg' = [reg EXCEPT ![t] = alive] /\ Goto(t, "store")
  /\ UNCHANGED <<rs485, back, holder, mask, hung, alive, dog, passed, chip, busoff, canq, scene>>

Store(t) ==
  /\ At(t, "store")
  /\ alive' = reg[t] \cup {t} /\ reg' = [reg EXCEPT ![t] = {}]
  /\ passed' = (passed \/ t = Rs)
  /\ Goto(t, IF t = Main THEN "test" ELSE "wait")
  /\ UNCHANGED <<rs485, back, holder, mask, hung, dog, chip, busoff, canq, scene>>

-----------------------------------------------------------------------------
(* vMainTask                                                               *)

\* ISO_TP_Tick; a timeout is printed inside its critical section
IsoTpTick ==
  /\ At(Main, "tick")
  /\ \/ Goto(Main, "led") /\ UNCHANGED <<back, mask>>
     \/ Prints(Main, "tickend") /\ mask' = Main
  /\ UNCHANGED <<rs485, holder, hung, alive, reg, dog, passed, chip, busoff, canq, scene>>

IsoTpTickEnds ==
  /\ At(Main, "tickend")
  /\ mask' = None /\ Goto(Main, "led")
  /\ UNCHANGED <<rs485, back, holder, hung, alive, reg, dog, passed, chip, busoff, canq, scene>>

\* Every so many passes the flags are looked at.
Led ==
  /\ At(Main, "led")
  /\ \/ "check" \in scene /\ Goto(Main, "load")
     \/ Goto(Main, "recover")
  /\ UNCHANGED <<rs485, back, holder, mask, hung, alive, reg, dog, passed, chip, busoff, canq, scene>>

\* HAL_IWDG_Refresh
Refresh ==
  /\ At(Main, "test") /\ alive = Task
  /\ dog' = 0 /\ passed' = FALSE /\ Goto(Main, "clear")
  /\ UNCHANGED <<rs485, back, holder, mask, hung, alive, reg, chip, busoff, canq, scene>>

NoRefresh ==
  /\ At(Main, "test") /\ alive # Task
  /\ Goto(Main, "recover")
  /\ UNCHANGED <<rs485, back, holder, mask, hung, alive, reg, dog, passed, chip, busoff, canq, scene>>

\* Mutant: the flags are never cleared.
ClearNot ==
  /\ At(Main, "clear")
  /\ Goto(Main, "recover")
  /\ UNCHANGED <<rs485, back, holder, mask, hung, alive, reg, dog, passed, chip, busoff, canq, scene>>

ClearFlags ==
  /\ At(Main, "clear")
  /\ alive' = {} /\ Goto(Main, "recover")
  /\ UNCHANGED <<rs485, back, holder, mask, hung, reg, dog, passed, chip, busoff, canq, scene>>

\* Error-passive for three checks: stop and start
ErrorPassive ==
  /\ At(Main, "recover")
  /\ \/ Goto(Main, "busoff") /\ UNCHANGED back
     \/ "busoff" \in scene /\ Prints(Main, "restart")
  /\ UNCHANGED <<rs485, holder, mask, hung, alive, reg, dog, passed, chip, busoff, canq, scene>>

\* Nobody looks at what HAL_FDCAN_Stop and HAL_FDCAN_Start return: the
\* controller may as well stay stopped, or as it was.
Restart ==
  /\ At(Main, "restart")
  /\ chip' \in {"on", "stopped", chip} /\ Goto(Main, "busoff")
  /\ UNCHANGED <<rs485, back, holder, mask, hung, alive, reg, dog, passed, busoff, canq, scene>>

\* The flag is cleared before the recovery.
BusOffSeen ==
  /\ At(Main, "busoff")
  /\ \/ busoff /\ Prints(Main, "stop")
     \/ ~busoff /\ Goto(Main, "sleep") /\ UNCHANGED back
  /\ busoff' = FALSE
  /\ UNCHANGED <<rs485, holder, mask, hung, alive, reg, dog, passed, chip, canq, scene>>

StopChip ==
  /\ At(Main, "stop")
  /\ chip' = "stopped" /\ Goto(Main, "start")
  /\ UNCHANGED <<rs485, back, holder, mask, hung, alive, reg, dog, passed, busoff, canq, scene>>

\* Set up anew; any failure leads to the safe state.
StartChip ==
  /\ At(Main, "start")
  /\ \/ chip' = "on" /\ Prints(Main, "sleep")
     \/ UNCHANGED chip /\ Prints(Main, "safe")
  /\ UNCHANGED <<rs485, holder, mask, hung, alive, reg, dog, passed, busoff, canq, scene>>

\* Mutant: the bus-off flag is cleared once more when all is done.
SleepCleared ==
  /\ At(Main, "sleep")
  /\ Goto(Main, "delay") /\ busoff' = FALSE
  /\ UNCHANGED <<rs485, back, holder, mask, hung, alive, reg, dog, passed, chip, canq, scene>>

\* vTaskDelay
Sleep ==
  /\ At(Main, "sleep")
  /\ Goto(Main, "delay")
  /\ UNCHANGED <<rs485, back, holder, mask, hung, alive, reg, dog, passed, chip, busoff, canq, scene>>

MainStep ==
  \/ IsoTpTick \/ IsoTpTickEnds \/ Led \/ Refresh \/ NoRefresh \/ ClearFlags
  \/ ErrorPassive \/ Restart \/ BusOffSeen \/ StopChip \/ StartChip \/ Sleep

-----------------------------------------------------------------------------
(* vCanRxTask                                                              *)

\* ISO_TP_ProcessFrame, which may print in a critical section, and
\* RS485_ForwardCANMessage: another print, then the line is driven
CanReceive ==
  /\ At(Can, "wait")
  /\ canq' = canq - 1
  /\ \/ Prints(Can, "transmit") /\ UNCHANGED mask
     \/ Prints(Can, "unmask") /\ mask' = Can
  /\ UNCHANGED <<rs485, holder, hung, alive, reg, dog, passed, chip, busoff, scene>>

CanUnmask ==
  /\ At(Can, "unmask")
  /\ mask' = None /\ Prints(Can, "transmit")
  /\ UNCHANGED <<rs485, holder, hung, alive, reg, dog, passed, chip, busoff, canq, scene>>

Driving == pc[Can] = "transmit"
Transmitted ==
  /\ At(Can, "transmit")
  /\ Goto(Can, "load")
  /\ UNCHANGED <<rs485, back, holder, mask, hung, alive, reg, dog, passed, chip, busoff, canq, scene>>

CanStep == CanReceive \/ CanUnmask \/ Transmitted

-----------------------------------------------------------------------------
(* vRS485Task                                                              *)

\* The frame goes into the transmit FIFO, if that has room.
RsReceive ==
  /\ At(Rs, "wait")
  /\ rsq' = rsq - 1
  /\ \/ Prints(Rs, "load")
     \/ Goto(Rs, "load") /\ UNCHANGED back
  /\ UNCHANGED <<buf, peer, whole, holder, mask, hung, alive, reg, dog, passed, chip, busoff, canq, scene>>

-----------------------------------------------------------------------------
(* Time, interrupts and what comes from outside                            *)

\* vTaskDelay ends, or a receive after 100 ms
Wake(t) ==
  /\ Interrupts /\ Waits(t) /\ pc[t] \in {"delay", "wait"}
  /\ Goto(t, IF t = Main THEN "tick" ELSE "load")
  /\ UNCHANGED <<rs485, back, holder, mask, hung, alive, reg, dog, passed, chip, busoff, canq, scene>>

CanFrame ==
  /\ "frames" \in scene /\ Interrupts /\ canq < CanQueueLen
  /\ canq' = canq + 1
  /\ UNCHANGED <<rs485, pc, back, holder, mask, hung, alive, reg, dog, passed, chip, busoff, scene>>

\* The controller goes off the bus by itself.  The notification that
\* fdcan_config.c asks for, FDCAN_IT_BUS_OFF, is an error status of the HAL:
\* it comes to HAL_FDCAN_ErrorStatusCallback, which passes over that bit.
BusOff ==
  /\ "busoff" \in scene /\ Interrupts /\ chip = "on"
  /\ chip' = "off"
  /\ UNCHANGED <<rs485, pc, back, holder, mask, hung, alive, reg, dog, passed, busoff, canq, scene>>

\* HAL_FDCAN_ErrorCallback.  When the HAL calls it is not in the sources: any
\* time, or never.
ErrorCallback ==
  /\ "busoff" \in scene /\ Interrupts
  /\ busoff' = TRUE
  /\ UNCHANGED <<rs485, pc, back, holder, mask, hung, alive, reg, dog, passed, chip, canq, scene>>

\* HAL_UART_ErrorCallback prints, and the kernel asserts that no interrupt
\* enters a critical section: interrupts off and round in a circle.
UartError ==
  /\ "noise" \in scene /\ Interrupts
  /\ hung' = "asserted"
  /\ UNCHANGED <<rs485, pc, back, holder, mask, alive, reg, dog, passed, chip, busoff, canq, scene>>

\* A byte is missed while the line is driven or nobody fetches it.
PeerByte ==
  /\ "bytes" \in scene
  /\ \/ Interrupts /\ ~Driving /\ PeerSends(TRUE)
     \/ (~Interrupts \/ Driving) /\ PeerSends(FALSE)
  /\ UNCHANGED own

\* The fault the watchdog is there for: a task comes to a standstill.
Stall(t) ==
  /\ "stall" \in scene /\ Works /\ pc[t] \in {"delay", "wait"}
  /\ Goto(t, "stalled")
  /\ UNCHANGED <<rs485, back, holder, mask, hung, alive, reg, dog, passed, chip, busoff, canq, scene>>

\* The watchdog counts by itself, and resets the processor.  Where no check
\* is in the scene, it is served in time as long as the main task goes on.
Dead == hung # "no" \/ pc[Main] = "safe"
Elapse ==
  /\ dog < Patience /\ ("check" \in scene \/ Dead)
  /\ dog' = dog + 1
  /\ UNCHANGED <<rs485, pc, back, holder, mask, hung, alive, reg, passed, chip, busoff, canq, scene>>

Bite ==
  /\ dog = Patience
  /\ pc' = Fresh.pc /\ back' = Fresh.back /\ reg' = Fresh.reg
  /\ holder' = None /\ mask' = None /\ hung' = "no"
  /\ alive' = {} /\ dog' = 0 /\ passed' = FALSE
  /\ chip' = "on" /\ busoff' = FALSE /\ canq' = 0
  /\ Rs485Restart /\ UNCHANGED scene

-----------------------------------------------------------------------------
Common(t) ==
  TakeMutex(t) \/ WaitForMutex(t) \/ WaitMasked(t) \/ GiveMutex(t) \/ Load(t) \/ Store(t)

Step(t) ==
  \/ Common(t)
  \/ t = Main /\ MainStep
  \/ t = Can /\ CanStep
  \/ t = Rs /\ RsReceive

BoardNext ==
  \/ \E t \in Task : Step(t) \/ Wake(t) \/ Stall(t)
  \/ CanFrame \/ BusOff \/ ErrorCallback \/ UartError \/ PeerByte \/ Elapse \/ Bite

\* Time passes; nothing is asked of the scheduler or of the bus, since a task
\* that never gets the processor does not feed the watchdog either.
BoardSpec == BoardInit /\ [][BoardNext]_board /\ WF_board(Elapse \/ Bite)

=============================================================================
