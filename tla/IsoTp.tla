------------------------------- MODULE IsoTp -------------------------------
(***************************************************************************)
(* ISO-TP (ISO 15765-2) of the firmware, Src/iso_tp.c: one reception and   *)
(* one transmission, independent of each other, on one static context.     *)
(*                                                                         *)
(* Frames are handled by one context (vCanRxTask, or the bootloader's      *)
(* loop) and timers by another (vMainTask, or the same loop).  In the      *)
(* application the CAN task outranks the main task and gives way to it     *)
(* nowhere inside a handler, and the timer check is one critical section:  *)
(* each of them is one step.  What the main task does in two steps is to   *)
(* read the clock and then to check the timers against what it read.       *)
(*                                                                         *)
(* Time is kept as ages: rxAge and txAge count the ticks since             *)
(* last_rx_tick and last_tx_tick while the timer they serve is in use, lag *)
(* the ticks since the main task read its clock.  That clock starts        *)
(* BootTicks after the one that stamps the activity, in the application;   *)
(* the subtraction is modulo 2^32, so a negative age is a huge one.        *)
(*                                                                         *)
(* A byte is the message it belongs to and its place in it.  Fields the    *)
(* code leaves behind and always writes before it reads them again are     *)
(* cleared when a reception or transmission ends.  Frames for other nodes, *)
(* unknown frame types and first frames on the functional address change   *)
(* nothing and are not modelled.                                           *)
(***************************************************************************)
EXTENDS Integers, Sequences

CONSTANTS
    SFData, FFData, CFData,     \* payload of a single, first, consecutive frame
    MaxMessage,                 \* ISO_TP_MAX_MESSAGE_SIZE: above it, the stream sink
    SeqMod,                     \* sequence numbers, 16
    Lengths,                    \* of the tester's segmented messages
    Responses,                  \* of the UDS server's responses, 0 for none
    BlockSizes, StMins,         \* what a flow control frame may ask for
    MaxWft,                     \* ISO_TP_MAX_WFT
    Timeout,                    \* ISO_TP_RX_TIMEOUT_MS, ISO_TP_TX_FC_TIMEOUT_MS
    BootTicks,                  \* from HAL_Init to the start of the scheduler
    MaxLag                      \* bound: ticks the main task is held up before its check

ASSUME PayloadAssumption ==
    /\ SFData \in Nat \ {0} /\ FFData \in Nat \ {0} /\ CFData \in Nat \ {0}
    /\ FFData <= SFData
    /\ SeqMod \in Nat /\ SeqMod > 1
    /\ MaxMessage \in Nat
ASSUME LengthAssumption ==
    /\ Lengths \subseteq Nat /\ \A n \in Lengths : n > FFData
    /\ Responses \subseteq 0..MaxMessage
    /\ BlockSizes \subseteq Nat /\ StMins \subseteq Nat
ASSUME TimeAssumption ==
    /\ MaxWft \in Nat /\ Timeout \in Nat \ {0}
    /\ BootTicks \in Nat /\ MaxLag \in Nat

VARIABLES
    build,      \* "app" or "bootloader": the same source in both
    rx,         \* the reception: rx_state, rx_total_size, rx_received and so on
    tx,         \* the transmission: tx_state, tx_total_size, tx_sent and so on
    rxAge, txAge, lag,
    sink,       \* the stream sink's side: open between BEGIN and END or ERROR
    peer,       \* the tester's segmented message: its name, length, frames sent
    reply,      \* the tester's reassembly of the response in progress
    gone,       \* the tester has been unplugged, for good
    handed      \* the segmented message this step handed to its consumer, or <<>>

node  == <<rx, tx, rxAge, txAge, lag>>
world == <<sink, peer, reply, gone, handed>>
vars  == <<build, node, world>>

Least(a, b) == IF a < b THEN a ELSE b

RxIdle == [state |-> "IDLE", total |-> 0, seq |-> 0, stream |-> FALSE, received |-> 0,
           data |-> <<>>]
TxIdle == [state |-> "IDLE", total |-> 0, sent |-> 0, seq |-> 0, bs |-> 0, count |-> 0,
           stmin |-> 0, wft |-> 0]

NoPeer  == [id |-> 0, total |-> 0, sent |-> 0, go |-> FALSE]
Byte(m, i) == [id |-> m.id, total |-> m.total, at |-> i]
Body(m, from, n) == [i \in 1..n |-> Byte(m, from + i)]

Unlimited == -1
NoReply == [total |-> 0, got |-> 0, seq |-> 0, left |-> 0]
Refused == [NoReply EXCEPT !.got = -1]      \* a frame came that it had to drop

(* The sink: BEGIN opens it, DATA adds to it, END and ERROR close it, and  *)
(* any of them out of turn upsets it.                                      *)
Closed == [open |-> FALSE, data |-> <<>>]
Upset  == [open |-> TRUE, data |-> <<>>]
Begun(s, got) == IF s.open THEN Upset ELSE [open |-> TRUE, data |-> got]
Fed(s, got)   == IF s.open THEN [s EXCEPT !.data = @ \o got] ELSE Upset
Ended(s)      == IF s.open THEN Closed ELSE Upset

NotRead == -1       \* lag, while the main task holds no clock value

Cap == Timeout + BootTicks + MaxLag     \* ages beyond it are told apart by nothing

Init ==
    /\ build \in {"app", "bootloader"}
    /\ rx = RxIdle /\ tx = TxIdle
    /\ rxAge = 0 /\ txAge = 0 /\ lag = NotRead
    /\ sink = Closed /\ peer = NoPeer /\ reply = NoReply
    /\ gone = FALSE /\ handed = <<>>

-----------------------------------------------------------------------------
(* Transmission *)

(* A tester takes the frames that come in sequence, and within its grant,  *)
(* until it has the response.                                              *)
PeerTakes(r, seq, n) ==
    IF seq # r.seq \/ r.left = 0 THEN Refused
    ELSE IF r.got + n >= r.total THEN NoReply
    ELSE [r EXCEPT !.got = @ + n, !.seq = (@ + 1) % SeqMod,
                   !.left = IF @ = Unlimited THEN @ ELSE @ - 1]

StopSending == tx' = TxIdle /\ txAge' = 0 /\ reply' = NoReply

(* Fault: the block counter is not looked at.                              *)
AfterCfUnbounded(t) == IF t.sent >= t.total THEN TxIdle ELSE t

AfterCf(t) ==
    IF t.sent >= t.total THEN TxIdle
    ELSE IF t.bs # 0 /\ t.count >= t.bs THEN [t EXCEPT !.state = "WAIT_FC"]
    ELSE t

(* From the context t, the tester's side being r.  The first alternative   *)
(* is a full FDCAN queue.                                                  *)
SendNextCf(t, r) ==
    LET n == Least(CFData, t.total - t.sent)
    IN  \/ StopSending
        \/ /\ tx' = AfterCf([t EXCEPT !.sent = @ + n, !.seq = (@ + 1) % SeqMod,
                                      !.count = @ + 1])
           /\ txAge' = 0
           /\ reply' = PeerTakes(r, t.seq, n)

SendFirst(n) ==
    \/ StopSending
    \/ /\ tx' = [TxIdle EXCEPT !.state = "WAIT_FC", !.total = n, !.seq = 1,
                               !.sent = Least(FFData, n)]
       /\ txAge' = 0
       /\ reply' = IF reply.total # 0 THEN Refused
                   ELSE [NoReply EXCEPT !.total = n, !.seq = 1, !.got = Least(FFData, n)]

(* Nothing to answer, or a single frame, leaves the transmission alone: it *)
(* goes out at once, between the frames of a segmented response too.       *)
SendResponse(n) ==
    \/ n <= SFData /\ UNCHANGED <<tx, txAge, reply>>
    \/ n > SFData /\ tx.state # "IDLE" /\ UNCHANGED <<tx, txAge, reply>>
    \/ n > SFData /\ tx.state = "IDLE" /\ SendFirst(n)

(* Fault: WFTmax is not there.                                             *)
FlowControlEndless(fs, bs, stmin) ==
    /\ ~gone /\ fs = "WAIT" /\ tx.state = "WAIT_FC"
    /\ txAge' = 0 /\ handed' = <<>>
    /\ UNCHANGED <<build, rx, tx, rxAge, lag, sink, peer, reply, gone>>

(* A flow control frame, sent by a tester that owes one.                   *)
FlowControl(fs, bs, stmin) ==
    /\ ~gone /\ reply.left = 0
    /\ handed' = <<>>
    /\ \/ tx.state # "WAIT_FC" /\ UNCHANGED <<tx, txAge, reply>>
       \/ /\ tx.state = "WAIT_FC" /\ fs = "CONTINUE"
          /\ SendNextCf([tx EXCEPT !.state = "SEND_CF", !.stmin = stmin, !.bs = bs,
                                   !.count = 0],
                        [reply EXCEPT !.left = IF bs = 0 THEN Unlimited ELSE bs])
       \/ /\ tx.state = "WAIT_FC" /\ fs = "WAIT"
          /\ \/ tx.wft + 1 > MaxWft /\ StopSending
             \/ /\ tx.wft + 1 <= MaxWft
                /\ tx' = [tx EXCEPT !.wft = @ + 1]
                /\ txAge' = 0
                /\ UNCHANGED reply
       \/ tx.state = "WAIT_FC" /\ fs = "OVERFLOW" /\ StopSending
    /\ UNCHANGED <<build, rx, rxAge, lag, sink, peer, gone>>

-----------------------------------------------------------------------------
(* Reception *)

StopReception ==    \* the ERROR event closes the sink
    /\ rx' = RxIdle
    /\ rxAge' = 0
    /\ sink' = IF rx.stream THEN Ended(sink) ELSE sink

(* Fault: the sink of the reception in progress is not told.               *)
RestartSilently(m) ==
    LET got == Body(m, 0, Least(FFData, m.total))
        streamed == m.total > MaxMessage
    IN  /\ rx' = [RxIdle EXCEPT !.state = "WAIT_CF", !.total = m.total, !.seq = 1,
                                !.stream = streamed, !.received = Len(got),
                                !.data = IF streamed THEN <<>> ELSE got]
        /\ rxAge' = 0
        /\ sink' = IF streamed THEN Begun(sink, got) ELSE sink

Restart(m) ==       \* a first frame ends the reception in progress, if any
    LET got == Body(m, 0, Least(FFData, m.total))
        streamed == m.total > MaxMessage
        left == IF rx.stream THEN Ended(sink) ELSE sink
    IN  /\ rx' = [RxIdle EXCEPT !.state = "WAIT_CF", !.total = m.total, !.seq = 1,
                                !.stream = streamed, !.received = Len(got),
                                !.data = IF streamed THEN <<>> ELSE got]
        /\ rxAge' = 0
        /\ sink' = IF streamed THEN Begun(left, got) ELSE left

NewMessage(n) == [NoPeer EXCEPT !.id = 1 - peer.id, !.total = n]

(* The tester starts a segmented message, abandoning the one it was at;    *)
(* its first frame, or the answering flow control, may be lost.            *)
FirstFrame(n) ==
    LET m == NewMessage(n)
    IN  /\ ~gone
        /\ Restart(m)
        /\ \E fc \in BOOLEAN : peer' = [m EXCEPT !.go = fc]
        /\ handed' = <<>>
        /\ UNCHANGED <<build, tx, txAge, lag, reply, gone>>

FirstFrameLost(n) ==
    /\ ~gone
    /\ peer' = NewMessage(n)
    /\ handed' = <<>>
    /\ UNCHANGED <<build, node, sink, reply, gone>>

(* An escape first frame too short to hold its length.                     *)
ShortFirstFrame ==
    /\ ~gone
    /\ StopReception
    /\ handed' = <<>>
    /\ UNCHANGED <<build, tx, txAge, lag, peer, reply, gone>>

(* A single frame, physical or functional, ends a reception in progress;   *)
(* the server answers it.                                                  *)
SingleFrame ==
    /\ ~gone
    /\ StopReception
    /\ handed' = <<>>
    /\ \E n \in Responses : SendResponse(n)
    /\ UNCHANGED <<build, lag, peer, gone>>

(* Consecutive frame k of the tester's message; the last one is padded.    *)
Due(k) == peer.go /\ FFData + (k - 1) * CFData < peer.total
Chunk(k) == Body(peer, FFData + (k - 1) * CFData, CFData)

Stored(k) ==        \* the context after the chunk went into the buffer or the sink
    LET n == Least(CFData, rx.total - rx.received)
        got == SubSeq(Chunk(k), 1, n)
    IN  [context |-> [rx EXCEPT !.received = @ + n, !.seq = (@ + 1) % SeqMod,
                                !.data = IF rx.stream THEN @ ELSE @ \o got],
         sink    |-> IF rx.stream THEN Fed(sink, got) ELSE sink]

TakeChunk(k) ==
    LET s == Stored(k)
    IN  \/ /\ s.context.received < rx.total
           /\ rx' = s.context /\ sink' = s.sink /\ rxAge' = 0
           /\ handed' = <<>>
           /\ UNCHANGED <<tx, txAge, reply>>
        \/ /\ s.context.received >= rx.total /\ rx.stream
           /\ rx' = RxIdle /\ sink' = Ended(s.sink) /\ rxAge' = 0
           /\ handed' = s.sink.data
           /\ UNCHANGED <<tx, txAge, reply>>
        \/ /\ s.context.received >= rx.total /\ ~rx.stream
           /\ rx' = RxIdle /\ rxAge' = 0
           /\ handed' = s.context.data
           /\ \E n \in Responses : SendResponse(n)
           /\ UNCHANGED sink

(* Fault: the sequence number is not checked.                              *)
ConsecutiveFrameUnchecked(k) ==
    /\ ~gone /\ Due(k) /\ rx.state = "WAIT_CF"
    /\ peer' = [peer EXCEPT !.sent = k]
    /\ TakeChunk(k)
    /\ UNCHANGED <<build, lag, gone>>

ConsecutiveFrame(k) ==
    /\ ~gone /\ Due(k)
    /\ peer' = [peer EXCEPT !.sent = k]
    /\ \/ /\ rx.state # "WAIT_CF"
          /\ handed' = <<>>
          /\ UNCHANGED <<rx, rxAge, sink, tx, txAge, reply>>
       \/ /\ rx.state = "WAIT_CF" /\ k % SeqMod # rx.seq
          /\ StopReception
          /\ handed' = <<>>
          /\ UNCHANGED <<tx, txAge, reply>>
       \/ rx.state = "WAIT_CF" /\ k % SeqMod = rx.seq /\ TakeChunk(k)
    /\ UNCHANGED <<build, lag, gone>>

ConsecutiveFrameLost ==
    /\ ~gone /\ Due(peer.sent + 1)
    /\ peer' = [peer EXCEPT !.sent = @ + 1]
    /\ handed' = <<>>
    /\ UNCHANGED <<build, node, sink, reply, gone>>

Unplug ==
    /\ ~gone
    /\ gone' = TRUE /\ handed' = <<>>
    /\ UNCHANGED <<build, node, sink, peer, reply>>

-----------------------------------------------------------------------------
(* Time *)

Older(age, used) == IF used THEN Least(age + 1, Cap) ELSE age

Clock ==
    /\ lag < MaxLag
    /\ rxAge' = Older(rxAge, rx.state # "IDLE")
    /\ txAge' = Older(txAge, tx.state # "IDLE")
    /\ lag' = IF lag = NotRead THEN lag ELSE lag + 1
    /\ handed' = <<>>
    /\ UNCHANGED <<build, rx, tx, sink, peer, reply, gone>>

ReadClock ==        \* the argument of ISO_TP_Tick, before its critical section
    /\ build = "app" /\ lag = NotRead
    /\ lag' = 0
    /\ handed' = <<>>
    /\ UNCHANGED <<build, rx, tx, rxAge, txAge, sink, peer, reply, gone>>

(* now - last >= limit on uint32_t: a difference below zero is a huge one. *)
Elapsed(age, limit) ==
    LET d == age - (IF build = "app" THEN BootTicks + lag ELSE 0)
    IN  d < 0 \/ d >= limit

RxTimeout ==
    \/ rx.state = "WAIT_CF" /\ Elapsed(rxAge, Timeout) /\ StopReception
    \/ ~(rx.state = "WAIT_CF" /\ Elapsed(rxAge, Timeout)) /\ UNCHANGED <<rx, rxAge, sink>>

TxTimeout ==
    \/ tx.state = "WAIT_FC" /\ Elapsed(txAge, Timeout) /\ StopSending
    \/ tx.state = "SEND_CF" /\ Elapsed(txAge, tx.stmin) /\ SendNextCf(tx, reply)
    \/ /\ ~(tx.state = "WAIT_FC" /\ Elapsed(txAge, Timeout))
       /\ ~(tx.state = "SEND_CF" /\ Elapsed(txAge, tx.stmin))
       /\ UNCHANGED <<tx, txAge, reply>>

Tick ==
    /\ build = "app" => lag # NotRead
    /\ RxTimeout /\ TxTimeout
    /\ lag' = NotRead
    /\ handed' = <<>>
    /\ UNCHANGED <<build, peer, gone>>

-----------------------------------------------------------------------------
Tester ==
    \/ \E n \in Lengths : FirstFrame(n) \/ FirstFrameLost(n)
    \/ \E k \in {peer.sent, peer.sent + 1} \ {0} : ConsecutiveFrame(k)
    \/ ConsecutiveFrameLost \/ SingleFrame \/ ShortFirstFrame \/ Unplug
    \/ \E bs \in BlockSizes, st \in StMins : FlowControl("CONTINUE", bs, st)
    \/ FlowControl("WAIT", 0, 0) \/ FlowControl("OVERFLOW", 0, 0)

Next == Tester \/ Clock \/ ReadClock \/ Tick

Spec == Init /\ [][Next]_vars

(* Both clocks run and the main task gets to its check.                    *)
LiveSpec == Spec /\ WF_vars(Clock) /\ WF_vars(ReadClock) /\ WF_vars(Tick)
=============================================================================
