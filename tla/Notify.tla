------------------------------- MODULE Notify -------------------------------
(***************************************************************************)
(* Direct-to-task notifications of tasks.c: a state (k.ns) and a 32-bit    *)
(* value (k.nv) in every task control block.  A task that must wait marks  *)
(* itself in a critical section and files itself after it, with the        *)
(* scheduler suspended but interrupts on.                                  *)
(***************************************************************************)
EXTENDS Queue

CONSTANTS NoteBits    \* width of the notification value

NoteValues == 0..(2 ^ NoteBits - 1)
BitsOf(n) == {i \in 0..(NoteBits - 1) : (n \div 2 ^ i) % 2 = 1}
Value(S) == SumSet({2 ^ i : i \in S})

ASSUME NotifyAssumption == NoteBits \in Nat \ {0}

Waits == {"ntake", "nwait"}

\* What the call would find: a count to take, a notification to receive.
Noted(t) == IF loc[t].api = "ntake" THEN k.nv[t] # 0 ELSE k.ns[t] = "received"

\* ulTaskGenericNotifyTake and xTaskGenericNotifyWait; val holds the bits to
\* clear, those on entry and those on exit being the same.  The first look is
\* not protected.
NotifyWait(t) == \E api \in Called(t, Waits), n \in scene.waits[t], b \in {0, 1} :
  /\ n # 0 => k.susp = 0
  /\ Enter(t, api, [NoCall EXCEPT !.val = b, !.ticks = n, !.asked = n], "nlook")
  /\ k' = Timing(k, t)

Look(t) ==
  /\ Go(t, "nlook", IF Noted(t) \/ loc[t].ticks = 0 THEN "nend" ELSE "nhold")
  /\ UNCHANGED <<k, loc>>

HoldToArm(t) ==
  /\ Go(t, "nhold", "narm")
  /\ k' = SuspendedAll(k)
  /\ loc' = [loc EXCEPT ![t].then = "nend"]

Cleared(v, b) == Value(BitsOf(v) \ BitsOf(b))

Arm(t) ==
  /\ Go(t, "narm", IF Noted(t) THEN "resume" ELSE "nplace")
  /\ k' = IF Noted(t) THEN k
          ELSE [k EXCEPT !.ns[t] = "waiting",
                         !.nv[t] = IF loc[t].api = "nwait" THEN Cleared(@, loc[t].val) ELSE @]
  /\ loc' = [loc EXCEPT ![t].yields = ~Noted(t)]

FileToWait(t) ==
  /\ Go(t, "nplace", "resume")
  /\ k' = AddCurrentToDelayed(k, loc[t].ticks, TRUE)
  /\ UNCHANGED loc

\* The second critical section; a count is taken as one or as a whole.
NotifyEnds(t) ==
  /\ Go(t, "nend", loc[t].back)
  /\ LET v == k.nv[t]
         left == CASE loc[t].api = "ntake" /\ v = 0 -> 0
                   [] loc[t].api = "ntake" -> IF loc[t].val = 1 THEN 0 ELSE v - 1
                   [] OTHER -> IF k.ns[t] = "received" THEN Cleared(v, loc[t].val) ELSE v
     IN  k' = [k EXCEPT !.ns[t] = "not", !.nv[t] = left]
  /\ loc' = IF loc[t].back = "app" THEN [loc EXCEPT ![t] = NoCall] ELSE loc

-----------------------------------------------------------------------------
(* Notifying.                                                              *)

NoteActions == {"bits", "increment", "overwrite", "keep", "none"}

NewValue(q, x, action, v) ==
  CASE action = "bits" -> Value(BitsOf(q.nv[x]) \cup BitsOf(v))
    [] action = "increment" -> (q.nv[x] + 1) % 2 ^ NoteBits
    [] action = "overwrite" \/ (action = "keep" /\ q.ns[x] # "received") -> v
    [] OTHER -> q.nv[x]

Given(q, x, action, v) ==
  [q EXCEPT !.ns[x] = "received", !.nv[x] = NewValue(q, x, action, v)]

\* xTaskGenericNotify, from a task
Notified(q, x, action, v) ==
  IF q.ns[x] = "waiting"
  THEN YieldsTo(AddReady(Unlist(Given(q, x, action, v), x), x), x)
  ELSE Given(q, x, action, v)

\* xTaskGenericNotifyFromISR and vTaskGenericNotifyGiveFromISR
NotifiedFromISR(q, x, action, v) ==
  LET u == Given(q, x, action, v)
  IN  IF q.ns[x] # "waiting" THEN u
      ELSE YieldsTo(Owe(IF q.susp = 0 THEN AddReady(Unlist(u, x), x) ELSE Pend(u, x), x), x)

TaskNotify(t, x) == \E api \in Called(t, {"notify"}), a \in NoteActions :
  Handle(x) /\ Simple(t, api, Notified(k, x, a, 1))

NotifyFromISR(x) == \E api \in Called("isr", {"notify"}), a \in NoteActions :
  /\ Interrupts /\ Handle(x)
  /\ k' = NotifiedFromISR(k, x, a, 1)
  /\ UNCHANGED <<pc, loc>>

NotifyStateClear(t, x) ==
  /\ Handle(x) /\ k.ns[x] = "received"
  /\ Simple(t, "nclear", [k EXCEPT !.ns[x] = "not"])

NotifyValueClear(t, x) == \E api \in Called(t, {"nclear"}), b \in NoteValues :
  Handle(x) /\ Simple(t, api, [k EXCEPT !.nv[x] = Cleared(@, b)])

-----------------------------------------------------------------------------
NotifyHandlers == \E x \in Task : NotifyFromISR(x)

NotifyStep(t) ==
  \/ NotifyWait(t) \/ Look(t) \/ HoldToArm(t) \/ Arm(t) \/ FileToWait(t) \/ NotifyEnds(t)
  \/ \E x \in Task : TaskNotify(t, x) \/ NotifyStateClear(t, x) \/ NotifyValueClear(t, x)

NotifyNext ==
  /\ NotifyHandlers \/ \E t \in Task : k.cur = t /\ NotifyStep(t)
  /\ UNCHANGED <<qs, scene>>

=============================================================================
