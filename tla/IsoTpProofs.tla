----------------------------- MODULE IsoTpProofs -----------------------------
(* Whole messages, the sink's protocol and the tester's view, for frames,  *)
(* messages and sequence numbers of every size.                            *)
EXTENDS IsoTpProps, SequenceTheorems, TLAPS

Datum == [id : Int, total : Nat, at : Int]

RxType == rx \in [state : {"IDLE", "WAIT_CF"}, total : Nat, seq : Nat, stream : BOOLEAN,
                  received : Nat, data : Seq(Datum)]
TxType == tx \in [state : {"IDLE", "WAIT_FC", "SEND_CF"}, total : Nat, sent : Nat, seq : Nat,
                  bs : Nat, count : Nat, stmin : Nat, wft : Nat]
ReplyType == reply \in [total : Nat, got : Int, seq : Nat, left : Int]
SinkType == sink \in [open : BOOLEAN, data : Seq(Datum)]
PeerType == peer \in [id : Int, total : Nat, sent : Nat, go : BOOLEAN]

Assembled == IF rx.stream THEN sink.data ELSE rx.data

Receiving ==
    /\ rx.state = "WAIT_CF" => rx.received < rx.total
    /\ rx.state = "IDLE" => ~rx.stream
    /\ rx.state = "WAIT_CF" /\ ~rx.stream => Len(rx.data) = rx.received

(* c chunks have been taken, the last of them was the tester's number j:   *)
(* each had a number after the one before, so none was missed if c = j,    *)
(* and too few are left to fill the message if some were.                  *)
Collecting ==
    rx.state = "WAIT_CF" /\ peer.go =>
        /\ rx.total = peer.total
        /\ \E j \in 0..peer.sent : \E c \in 0..j :
              /\ rx.received = FFData + c * CFData
              /\ rx.seq = (j + 1) % SeqMod
              /\ c = j => Assembled = Body(peer, 0, rx.received)

(* The tester's reassembly and its grant, against the transmission.        *)
Sending ==
    /\ tx.state = "IDLE" => reply = NoReply
    /\ tx.state # "IDLE" => /\ reply.total = tx.total /\ reply.got = tx.sent
                            /\ reply.seq = tx.seq /\ tx.sent < tx.total
    /\ tx.state = "WAIT_FC" => reply.left = 0
    /\ tx.state = "SEND_CF" =>
          IF tx.bs = 0 THEN reply.left = Unlimited
          ELSE tx.count < tx.bs /\ reply.left = tx.bs - tx.count

ReceiveInv ==
    RxType /\ SinkType /\ PeerType /\ Receiving /\ SinkFollows /\ Collecting /\ HandedWhole
SendInv == TxType /\ ReplyType /\ Sending
IInv == ReceiveInv /\ SendInv

-----------------------------------------------------------------------------
(* Sending *)

LEMMA SeqNumber == \A n \in Nat : (n + 1) % SeqMod \in Nat
  BY PayloadAssumption

LEMMA StopSendingOK ==
  ASSUME StopSending
  PROVE  SendInv'
  BY DEF StopSending, SendInv, TxType, ReplyType, Sending, TxIdle, NoReply

LEMMA SendingKept ==
  ASSUME SendInv, UNCHANGED <<tx, reply>>
  PROVE  SendInv'
  BY DEF SendInv, TxType, ReplyType, Sending

LEMMA SendFirstOK ==
  ASSUME SendInv, tx.state = "IDLE", NEW n \in Responses, n > SFData, SendFirst(n)
  PROVE  SendInv'
<1>1. n \in Nat /\ FFData \in Nat /\ FFData < n /\ Least(FFData, n) = FFData
  BY PayloadAssumption, LengthAssumption DEF Least
<1>2. reply.total = 0
  BY DEF SendInv, Sending, NoReply
<1>3. CASE StopSending
  BY <1>3, StopSendingOK
<1>4. CASE ~StopSending
  <2>1. tx' = [TxIdle EXCEPT !.state = "WAIT_FC", !.total = n, !.seq = 1, !.sent = FFData]
    BY <1>1, <1>4 DEF SendFirst
  <2>2. reply' = [NoReply EXCEPT !.total = n, !.seq = 1, !.got = FFData]
    BY <1>1, <1>2, <1>4 DEF SendFirst
  <2>3. tx' = [state |-> "WAIT_FC", total |-> n, sent |-> FFData, seq |-> 1, bs |-> 0,
               count |-> 0, stmin |-> 0, wft |-> 0]
    BY <2>1 DEF TxIdle
  <2>4. reply' = [total |-> n, got |-> FFData, seq |-> 1, left |-> 0]
    BY <2>2 DEF NoReply
  <2>5. QED BY <1>1, <2>3, <2>4 DEF SendInv, TxType, ReplyType, Sending
<1>5. QED BY <1>3, <1>4

LEMMA SendResponseOK ==
  ASSUME SendInv, NEW n \in Responses, SendResponse(n)
  PROVE  SendInv'
  BY SendingKept, SendFirstOK DEF SendResponse

(* One more frame, from a context t that may send it to a tester r that    *)
(* granted it.                                                             *)
LEMMA SendNextOK ==
  ASSUME NEW t \in [state : {"SEND_CF"}, total : Nat, sent : Nat, seq : Nat,
                    bs : Nat, count : Nat, stmin : Nat, wft : Nat],
         NEW r \in [total : Nat, got : Int, seq : Nat, left : Int],
         r.total = t.total, r.got = t.sent, r.seq = t.seq, t.sent < t.total,
         IF t.bs = 0 THEN r.left = Unlimited ELSE t.count < t.bs /\ r.left = t.bs - t.count,
         SendNextCf(t, r)
  PROVE  SendInv'
<1> DEFINE n == Least(CFData, t.total - t.sent)
           u == [t EXCEPT !.sent = @ + n, !.seq = (@ + 1) % SeqMod, !.count = @ + 1]
           v == [r EXCEPT !.got = @ + n, !.seq = (@ + 1) % SeqMod,
                          !.left = IF @ = Unlimited THEN @ ELSE @ - 1]
<1>1. n \in Nat /\ n > 0
  BY PayloadAssumption DEF Least
<1> HIDE DEF n
<1>0. (t.seq + 1) % SeqMod \in Nat /\ (r.seq + 1) % SeqMod \in Nat
  BY SeqNumber
<1>2. /\ u \in [state : {"SEND_CF"}, total : Nat, sent : Nat, seq : Nat,
                 bs : Nat, count : Nat, stmin : Nat, wft : Nat]
      /\ u.total = t.total /\ u.sent = t.sent + n /\ u.seq = (t.seq + 1) % SeqMod
      /\ u.bs = t.bs /\ u.count = t.count + 1 /\ u.state = "SEND_CF"
  <2> DEFINE q == (t.seq + 1) % SeqMod
  <2>1. q \in Nat /\ u = [t EXCEPT !.sent = t.sent + n, !.seq = q, !.count = t.count + 1]
    BY <1>0
  <2> HIDE DEF q, u
  <2>2. t.sent + n \in Nat /\ t.count + 1 \in Nat
    BY <1>1
  <2>3. u \in [state : {"SEND_CF"}, total : Nat, sent : Nat, seq : Nat,
               bs : Nat, count : Nat, stmin : Nat, wft : Nat]
    BY <2>1, <2>2
  <2>4. /\ u.total = t.total /\ u.sent = t.sent + n /\ u.seq = q
        /\ u.bs = t.bs /\ u.count = t.count + 1 /\ u.state = "SEND_CF"
    BY <2>1
  <2>5. QED BY <2>3, <2>4 DEF q
<1>3. /\ v \in [total : Nat, got : Int, seq : Nat, left : Int]
      /\ v.total = t.total /\ v.got = t.sent + n /\ v.seq = (t.seq + 1) % SeqMod
      /\ v.left = IF r.left = Unlimited THEN Unlimited ELSE r.left - 1
  <2> DEFINE q == (r.seq + 1) % SeqMod
             l == IF r.left = Unlimited THEN r.left ELSE r.left - 1
  <2>1. q \in Nat /\ v = [r EXCEPT !.got = r.got + n, !.seq = q, !.left = l]
    BY <1>0
  <2>0. l \in Int
    BY DEF Unlimited
  <2> HIDE DEF q, l, v
  <2>2. r.got + n \in Int
    BY <1>1
  <2>3. v \in [total : Nat, got : Int, seq : Nat, left : Int]
    BY <2>0, <2>1, <2>2
  <2>4. v.total = r.total /\ v.got = r.got + n /\ v.seq = q /\ v.left = l
    BY <2>1
  <2>5. QED BY <2>3, <2>4 DEF q, l
<1>4. CASE StopSending
  BY <1>4, StopSendingOK
<1>5. CASE ~StopSending
  <2>1. tx' = AfterCf(u) /\ reply' = PeerTakes(r, t.seq, n)
    BY <1>5 DEF SendNextCf, n
  <2>2. r.left # 0
    BY DEF Unlimited
  <2>3. reply' = IF t.sent + n >= t.total THEN NoReply ELSE v
    BY <2>1, <2>2 DEF PeerTakes
  <2>4. CASE t.sent + n >= t.total
    BY <1>2, <2>1, <2>3, <2>4 DEF AfterCf, SendInv, TxType, ReplyType, Sending, TxIdle, NoReply
  <2>5. CASE t.sent + n < t.total
    <3>1. reply' = v
      BY <1>1, <2>3, <2>5
    <3>2. tx' = IF u.bs # 0 /\ u.count >= u.bs THEN [u EXCEPT !.state = "WAIT_FC"] ELSE u
      BY <1>1, <1>2, <2>1, <2>5 DEF AfterCf
    <3> HIDE DEF u, v
    <3>3. CASE u.bs # 0 /\ u.count >= u.bs
      BY <1>1, <1>2, <1>3, <2>5, <3>1, <3>2, <3>3 DEF SendInv, TxType, ReplyType, Sending, Unlimited
    <3>4. CASE ~(u.bs # 0 /\ u.count >= u.bs)
      BY <1>1, <1>2, <1>3, <2>5, <3>1, <3>2, <3>4 DEF SendInv, TxType, ReplyType, Sending, Unlimited
    <3>5. QED BY <3>3, <3>4
  <2>6. QED BY <1>1, <2>4, <2>5
<1>6. QED BY <1>4, <1>5

LEMMA FlowControlSends ==
  ASSUME SendInv, NEW fs, NEW bs \in Nat, NEW stmin \in Nat, FlowControl(fs, bs, stmin)
  PROVE  SendInv'
<1>1. CASE tx.state # "WAIT_FC" /\ UNCHANGED <<tx, txAge, reply>>
  BY <1>1, SendingKept
<1>2. CASE tx.state = "WAIT_FC" /\ StopSending
  BY <1>2, StopSendingOK
<1>3. CASE tx.state = "WAIT_FC" /\ tx' = [tx EXCEPT !.wft = @ + 1] /\ UNCHANGED reply
  BY <1>3 DEF SendInv, TxType, ReplyType, Sending
<1>4. CASE tx.state = "WAIT_FC" /\ fs = "CONTINUE"
  <2> DEFINE t == [tx EXCEPT !.state = "SEND_CF", !.stmin = stmin, !.bs = bs, !.count = 0]
             r == [reply EXCEPT !.left = IF bs = 0 THEN Unlimited ELSE bs]
  <2>1. SendNextCf(t, r)
    BY <1>4 DEF FlowControl
  <2>2. t \in [state : {"SEND_CF"}, total : Nat, sent : Nat, seq : Nat,
               bs : Nat, count : Nat, stmin : Nat, wft : Nat]
        /\ t.total = tx.total /\ t.sent = tx.sent /\ t.seq = tx.seq /\ t.bs = bs /\ t.count = 0
    BY DEF SendInv, TxType
  <2>3. r \in [total : Nat, got : Int, seq : Nat, left : Int]
        /\ r.total = reply.total /\ r.got = reply.got /\ r.seq = reply.seq
        /\ r.left = IF bs = 0 THEN Unlimited ELSE bs
    BY DEF SendInv, ReplyType, Unlimited
  <2>4. /\ reply.total = tx.total /\ reply.got = tx.sent
        /\ reply.seq = tx.seq /\ tx.sent < tx.total
    BY <1>4 DEF SendInv, Sending
  <2> HIDE DEF t, r
  <2>5. QED BY <2>1, <2>2, <2>3, <2>4, SendNextOK
<1>5. QED BY <1>1, <1>2, <1>3, <1>4 DEF FlowControl

LEMMA TxTimeoutSends ==
  ASSUME SendInv, TxTimeout
  PROVE  SendInv'
<1>1. CASE tx.state = "SEND_CF" /\ SendNextCf(tx, reply)
  <2>1. tx \in [state : {"SEND_CF"}, total : Nat, sent : Nat, seq : Nat,
                bs : Nat, count : Nat, stmin : Nat, wft : Nat]
    BY <1>1 DEF SendInv, TxType
  <2>2. QED BY <1>1, <2>1, SendNextOK DEF SendInv, ReplyType, Sending
<1>2. CASE StopSending
  BY <1>2, StopSendingOK
<1>3. CASE UNCHANGED <<tx, txAge, reply>>
  BY <1>3, SendingKept
<1>4. QED BY <1>1, <1>2, <1>3 DEF TxTimeout

-----------------------------------------------------------------------------
(* What the bytes of a message are, taken piece by piece.                  *)

LEMMA BodyIsSeq ==
  ASSUME NEW m, m.id \in Int, m.total \in Nat, NEW f \in Int, NEW n \in Nat
  PROVE  /\ Body(m, f, n) \in Seq(Datum) /\ Len(Body(m, f, n)) = n
         /\ \A i \in 1..n : Body(m, f, n)[i] = Byte(m, f + i)
<1>1. Body(m, f, n) \in [1..n -> Datum]
  BY DEF Body, Byte, Datum
<1>2. Body(m, f, n) \in Seq(Datum)
  BY <1>1, SeqDef
<1>3. Len(Body(m, f, n)) = n
  <2>1. DOMAIN Body(m, f, n) = 1..n
    BY <1>1
  <2>2. Len(Body(m, f, n)) \in Nat /\ DOMAIN Body(m, f, n) = 1..Len(Body(m, f, n))
    BY <1>2, LenProperties
  <2>3. QED BY <2>1, <2>2
<1>4. QED BY <1>2, <1>3 DEF Body

LEMMA BodyStarts ==
  ASSUME NEW m, m.id \in Int, m.total \in Nat, NEW f \in Int, NEW w \in Nat, NEW n \in 0..w
  PROVE  /\ SubSeq(Body(m, f, w), 1, n) \in Seq(Datum)
         /\ Len(SubSeq(Body(m, f, w), 1, n)) = n
         /\ \A i \in 1..n : SubSeq(Body(m, f, w), 1, n)[i] = Byte(m, f + i)
<1> DEFINE s == Body(m, f, w)
<1>1. s \in Seq(Datum) /\ Len(s) = w /\ \A i \in 1..w : s[i] = Byte(m, f + i)
  BY BodyIsSeq
<1> HIDE DEF s
<1>2. \A i \in 1..n : s[i] \in Datum
  BY <1>1, ElementOfSeq
<1>3. /\ SubSeq(s, 1, n) \in Seq(Datum)
      /\ Len(SubSeq(s, 1, n)) = (IF 1 <= n THEN n - 1 + 1 ELSE 0)
      /\ \A i \in 1..(n - 1 + 1) : SubSeq(s, 1, n)[i] = s[1 + i - 1]
  BY <1>2, SubSeqProperties
<1>4. QED BY <1>1, <1>3 DEF s

LEMMA BodyGrows ==
  ASSUME NEW m, m.id \in Int, m.total \in Nat, NEW a \in Nat, NEW w \in Nat, NEW n \in 0..w
  PROVE  Body(m, 0, a) \o SubSeq(Body(m, a, w), 1, n) = Body(m, 0, a + n)
<1> DEFINE s == Body(m, 0, a)
           t == SubSeq(Body(m, a, w), 1, n)
           u == Body(m, 0, a + n)
<1>1. s \in Seq(Datum) /\ Len(s) = a /\ \A i \in 1..a : s[i] = Byte(m, 0 + i)
  BY BodyIsSeq
<1>2. t \in Seq(Datum) /\ Len(t) = n /\ \A i \in 1..n : t[i] = Byte(m, a + i)
  BY BodyStarts
<1>3. u \in Seq(Datum) /\ Len(u) = a + n /\ \A i \in 1..(a + n) : u[i] = Byte(m, 0 + i)
  BY BodyIsSeq
<1> HIDE DEF s, t, u
<1>4. /\ s \o t \in Seq(Datum) /\ Len(s \o t) = a + n
      /\ \A i \in 1..(a + n) : (s \o t)[i] = IF i <= a THEN s[i] ELSE t[i - a]
  BY <1>1, <1>2, ConcatProperties
<1>5. ASSUME NEW i \in 1..(a + n) PROVE (s \o t)[i] = u[i]
  <2>1. CASE i <= a
    BY <2>1, <1>1, <1>3, <1>4
  <2>2. CASE i > a
    <3> DEFINE h == i - a
    <3>1. h \in 1..n /\ a + h = 0 + i
      BY <2>2
    <3>2. (s \o t)[i] = t[h]
      BY <2>2, <1>4
    <3> HIDE DEF h
    <3>3. t[h] = Byte(m, a + h)
      BY <3>1, <1>2
    <3>4. u[i] = Byte(m, 0 + i)
      BY <1>3
    <3>5. Byte(m, a + h) = Byte(m, 0 + i)
      <4> DEFINE x == a + h
                 y == 0 + i
      <4>1. x = y
        BY <3>1
      <4> HIDE DEF x, y
      <4>2. Byte(m, x) = Byte(m, y)
        BY <4>1
      <4>3. QED BY <4>2 DEF x, y
    <3> DEFINE x == Byte(m, a + h)
               y == Byte(m, 0 + i)
    <3>6. t[h] = x /\ u[i] = y /\ x = y
      BY <3>3, <3>4, <3>5
    <3> HIDE DEF x, y
    <3>7. QED BY <3>2, <3>6
  <2>3. i <= a \/ i > a
    <3>1. i \in Int /\ a \in Int
      OBVIOUS
    <3>2. QED BY <3>1
  <2>4. QED BY <2>1, <2>2, <2>3
<1>6. s \o t = u
  BY <1>3, <1>4, <1>5, SeqEqual
<1>7. QED BY <1>6 DEF s, t, u

LEMMA Division ==
  ASSUME NEW M \in Nat, M > 1, NEW j \in Int
  PROVE  /\ j = M * (j \div M) + (j % M) /\ (j \div M) \in Int
         /\ M * (j \div M) \in Int /\ j % M \in 0..(M - 1)
  BY SMTT(20)

LEMMA Distributes ==
  ASSUME NEW M \in Nat, M > 1, NEW a \in Int, NEW b \in Int
  PROVE  M * (a - b) = M * a - M * b
  BY SMTT(20)

LEMMA NoSmallMultiple ==
  ASSUME NEW M \in Nat, M > 1, NEW d \in Int, M * d < M, M * d > -M
  PROVE  d = 0 /\ M * d = 0
<1>1. CASE d = 0 
  BY <1>1, SMTT(20)
<1>2. CASE d >= 1
  <2>1. M * d = M + M * (d - 1) /\ M * (d - 1) >= 0
     BY <1>2, SMTT(20)
  <2> QED BY <2>1
<1>3. CASE d <= -1
  <2>1. M * d = M * (d + 1) - M /\ M * (d + 1) <= 0
     BY <1>3, SMTT(20)
  <2> QED BY <2>1
<1> QED BY <1>1, <1>2, <1>3

(* Two successive sequence numbers differ.                                 *)
LEMMA NextDiffers ==
  ASSUME NEW M \in Nat, M > 1, NEW j \in Nat
  PROVE  j % M # (j + 1) % M
<1> DEFINE a == j \div M
           b == (j + 1) \div M
           x == j % M
           y == (j + 1) % M
           p == M * a
           q == M * b
           t == M * (b - a)
<1>2. j = p + x /\ a \in Int /\ p \in Int /\ x \in 0..(M - 1)
  BY Division
<1>3. j + 1 = q + y /\ b \in Int /\ q \in Int /\ y \in 0..(M - 1)
  BY Division
<1> HIDE DEF a, b
<1>5. t = q - p /\ b - a \in Int
  BY <1>2, <1>3, Distributes
<1>6. t < M /\ t > -M => t = 0
  BY <1>5, NoSmallMultiple
<1> HIDE DEF p, q, t, x, y
<1>7. x # y
  BY <1>2, <1>3, <1>5, <1>6
<1>9. QED BY <1>7 DEF x, y

(* The number after j's.                                                   *)
LEMMA NextNumber ==
  ASSUME NEW M \in Nat, M > 1, NEW j \in Nat
  PROVE  ((j % M) + 1) % M = (j + 1) % M
<1> DEFINE a == j \div M
           b == (j + 1) \div M
           x == j % M
           y == (j + 1) % M
           c == (x + 1) \div M
           z == (x + 1) % M
           p == M * a
           q == M * b
           r == M * c
           t == M * (b - a)
           u == M * ((b - a) - c)
<1>2. j = p + x /\ a \in Int /\ p \in Int /\ x \in 0..(M - 1)
  BY Division
<1>3. j + 1 = q + y /\ b \in Int /\ q \in Int /\ y \in 0..(M - 1)
  BY Division
<1> HIDE DEF x
<1>4. x + 1 = r + z /\ c \in Int /\ r \in Int /\ z \in 0..(M - 1)
  <2>1. x + 1 \in Int
    BY <1>2
  <2>2. QED BY <2>1, Division
<1> HIDE DEF a, b, c
<1>5. t = q - p /\ b - a \in Int
  BY <1>2, <1>3, Distributes
<1>8. u = t - r /\ (b - a) - c \in Int
  BY <1>4, <1>5, Distributes
<1>6. u < M /\ u > -M => u = 0
  BY <1>8, NoSmallMultiple
<1> HIDE DEF p, q, t, u, r, z, y
<1>7. z = y
  BY <1>2, <1>3, <1>4, <1>5, <1>6, <1>8
<1>9. QED BY <1>7 DEF x, y, z

LEMMA Times ==
  /\ \A c, x \in Nat : c * x \in Nat /\ (c + 1) * x = c * x + x
  /\ \A a, b, x \in Nat : a <= b => a * x <= b * x
<1>1. \A c, x \in Nat : c * x \in Nat /\ (c + 1) * x = c * x + x
  BY SMTT(20)
<1>2. ASSUME NEW a \in Nat, NEW b \in Nat, NEW x \in Nat, a <= b PROVE a * x <= b * x
  <2>1. b * x = a * x + (b - a) * x /\ (b - a) * x >= 0
    BY <1>2, SMTT(20)
  <2>2. QED BY <2>1
<1>3. QED BY <1>1, <1>2

-----------------------------------------------------------------------------
(* Receiving *)

LEMMA ClosedIsNotUpset == Closed # Upset
<1>1. Closed.open = FALSE /\ Upset.open = TRUE
  BY DEF Closed, Upset
<1>2. QED BY <1>1

(* What a reception tells the sink comes in turn.                          *)
LEMMA SinkInTurn ==
  ASSUME ReceiveInv
  PROVE  /\ rx.stream <=> sink.open
         /\ rx.stream => Ended(sink) = Closed
         /\ Closed # Upset
<1>1. rx.stream <=> sink.open
  BY DEF ReceiveInv, SinkFollows, Receiving, RxType, SinkType
<1>2. QED BY <1>1, ClosedIsNotUpset DEF Ended

LEMMA StopReceptionOK ==
  ASSUME ReceiveInv, StopReception, PeerType', handed' = <<>>
  PROVE  ReceiveInv'
<1>0. sink' = (IF rx.stream THEN Closed ELSE sink) /\ rx' = RxIdle
  BY SinkInTurn DEF StopReception
<1> USE DEF ReceiveInv, RxIdle
<1>1. RxType' /\ SinkType'
  <2>1. <<>> \in Seq(Datum)
    BY EmptySeq
  <2>2. QED BY <1>0, <2>1 DEF RxType, SinkType, Closed
<1>2. Receiving' /\ Collecting' /\ HandedWhole'
  BY <1>0 DEF Receiving, Collecting, HandedWhole
<1>3. SinkFollows'
  <2>1. sink' # Upset /\ ~sink'.open
    BY <1>0, SinkInTurn DEF SinkFollows, Closed
  <2>2. QED BY <1>0, <2>1 DEF SinkFollows
<1>4. QED BY <1>1, <1>2, <1>3

(* The tester goes on with its message, or starts one whose first frame    *)
(* does not come through.                                                  *)
LEMMA ReceptionKept ==
  ASSUME ReceiveInv, UNCHANGED <<rx, sink>>, PeerType', handed' = <<>>,
         peer'.go => /\ peer.go /\ peer'.id = peer.id /\ peer'.total = peer.total
                     /\ peer'.sent >= peer.sent
  PROVE  ReceiveInv'
<1> USE DEF ReceiveInv
<1>1. RxType' /\ SinkType' /\ Receiving' /\ SinkFollows' /\ HandedWhole'
  BY DEF RxType, SinkType, Receiving, SinkFollows, HandedWhole
<1>2. ASSUME rx'.state = "WAIT_CF", peer'.go
      PROVE  /\ rx'.total = peer'.total
             /\ \E j \in 0..peer'.sent : \E c \in 0..j :
                   /\ rx'.received = FFData + c * CFData
                   /\ rx'.seq = (j + 1) % SeqMod
                   /\ c = j => Assembled' = Body(peer', 0, rx'.received)
  <2>1. \A n : Body(peer', 0, n) = Body(peer, 0, n)
    BY <1>2 DEF Body, Byte
  <2>2. Assembled' = Assembled
    BY DEF Assembled
  <2>3. PICK j \in 0..peer.sent : \E c \in 0..j :
           /\ rx.received = FFData + c * CFData
           /\ rx.seq = (j + 1) % SeqMod
           /\ c = j => Assembled = Body(peer, 0, rx.received)
    BY <1>2 DEF Collecting
  <2>4. j \in 0..peer'.sent
    BY <1>2 DEF PeerType
  <2>5. QED BY <1>2, <2>1, <2>2, <2>3, <2>4 DEF Collecting
<1>3. Collecting'
  BY <1>2 DEF Collecting
<1>4. QED BY <1>1, <1>3

LEMMA FirstFrameReceives ==
  ASSUME ReceiveInv, NEW n \in Lengths, FirstFrame(n)
  PROVE  ReceiveInv'
<1> DEFINE m == NewMessage(n)
           got == Body(m, 0, FFData)
<1>1. /\ n \in Nat /\ n > FFData /\ FFData \in Nat /\ Least(FFData, n) = FFData
      /\ 1 % SeqMod = 1
  BY PayloadAssumption, LengthAssumption DEF Least
<1>2. m.id \in Int /\ m.total = n /\ m.sent = 0 /\ m = [id |-> 1 - peer.id, total |-> n, sent |-> 0, go |-> FALSE]
  <2> DEFINE x == 1 - peer.id
  <2>1. x \in Int
    BY DEF ReceiveInv, PeerType
  <2>2. m = [NoPeer EXCEPT !.id = x, !.total = n]
    BY DEF NewMessage
  <2> HIDE DEF m, x
  <2>3. m = [id |-> x, total |-> n, sent |-> 0, go |-> FALSE]
    BY <2>2 DEF NoPeer
  <2>4. QED BY <1>1, <2>1, <2>3 DEF x
<1>3. got \in Seq(Datum) /\ Len(got) = FFData /\ <<>> \in Seq(Datum)
  BY <1>1, <1>2, BodyIsSeq, EmptySeq
<1>4. PICK fc \in BOOLEAN : peer' = [m EXCEPT !.go = fc]
  BY DEF FirstFrame
<1>5. PeerType' /\ peer'.id = m.id /\ peer'.total = n /\ peer'.sent = 0
  BY <1>1, <1>2, <1>4 DEF PeerType
<1>6. Body(peer', 0, FFData) = got
  BY <1>2, <1>5 DEF Body, Byte
<1>7. /\ rx' = [state |-> "WAIT_CF", total |-> n, seq |-> 1, stream |-> n > MaxMessage,
                received |-> FFData, data |-> IF n > MaxMessage THEN <<>> ELSE got]
      /\ sink' = IF n > MaxMessage THEN [open |-> TRUE, data |-> got]
                 ELSE IF rx.stream THEN Closed ELSE sink
      /\ handed' = <<>>
  <2> HIDE DEF got
  <2>1. Body(m, 0, Least(FFData, m.total)) = got
    BY <1>1, <1>2 DEF got
  <2>2. LET left == IF rx.stream THEN Closed ELSE sink
        IN  Begun(left, got) = [open |-> TRUE, data |-> got]
    BY SinkInTurn DEF Begun, Closed
  <2>3. (IF rx.stream THEN Ended(sink) ELSE sink) = (IF rx.stream THEN Closed ELSE sink)
    BY SinkInTurn
  <2> HIDE DEF m
  <2>4. QED BY <1>2, <1>3, <2>1, <2>2, <2>3 DEF FirstFrame, Restart, RxIdle, m
<1> HIDE DEF m, got
<1>8. RxType' /\ SinkType'
  BY <1>1, <1>3, <1>7 DEF ReceiveInv, RxType, SinkType, Closed
<1>9. Receiving' /\ HandedWhole'
  BY <1>1, <1>3, <1>7 DEF Receiving, HandedWhole
<1>10. SinkFollows'
  <2>1. sink' # Upset
    <3>1. got # <<>>
      BY <1>1, <1>3, PayloadAssumption
    <3>2. CASE n > MaxMessage
      BY <1>7, <3>1, <3>2 DEF Upset
    <3>3. CASE ~(n > MaxMessage)
      BY <1>7, <3>3, SinkInTurn DEF ReceiveInv, SinkFollows
    <3>4. QED BY <3>2, <3>3
  <2>2. QED BY <1>3, <1>7, <2>1 DEF SinkFollows, ReceiveInv, RxType, SinkType, Receiving, Closed
<1>11. Collecting'
  <2>1. Assembled' = got
    BY <1>7 DEF Assembled
  <2>2. 0 * CFData = 0 /\ (0 + 1) % SeqMod = 1
    BY <1>1, PayloadAssumption
  <2>3. QED BY <1>1, <1>5, <1>6, <1>7, <2>1, <2>2 DEF Collecting
<1>12. QED BY <1>5, <1>8, <1>9, <1>10, <1>11 DEF ReceiveInv

(* The tester's frame k is taken: it is the next one, or so far behind it  *)
(* that the reception cannot be filled any more.                           *)
LEMMA TakeChunkReceives ==
  ASSUME ReceiveInv, NEW k \in {peer.sent, peer.sent + 1} \ {0}, Due(k),
         rx.state = "WAIT_CF", k % SeqMod = rx.seq,
         peer' = [peer EXCEPT !.sent = k], TakeChunk(k)
  PROVE  ReceiveInv'
<1> DEFINE e == rx.total - rx.received
           n == Least(CFData, e)
           m == peer
           a == rx.received
           z == rx.seq
           chunk == SubSeq(Chunk(k), 1, n)
           got == IF rx.stream THEN sink.data \o chunk ELSE rx.data \o chunk
<1>1. /\ m.id \in Int /\ m.total \in Nat /\ m.sent \in Nat /\ m.go = TRUE
      /\ k \in Nat /\ k > 0
      /\ a \in Nat /\ rx.total \in Nat /\ a < rx.total /\ rx.total = m.total
      /\ FFData \in Nat /\ CFData \in Nat /\ CFData > 0
  <2>1. FFData \in Nat /\ CFData \in Nat /\ CFData > 0
    BY PayloadAssumption
  <2>2. m.id \in Int /\ m.total \in Nat /\ m.sent \in Nat /\ m.go \in BOOLEAN
    BY DEF ReceiveInv, PeerType
  <2>3. m.go
    BY DEF Due
  <2>4. k \in Nat /\ k > 0
    BY <2>2
  <2>5. a \in Nat /\ rx.total \in Nat /\ a < rx.total
    BY DEF ReceiveInv, RxType, Receiving
  <2>6. rx.total = m.total
    BY <2>3 DEF ReceiveInv, Collecting
  <2>7. QED BY <2>1, <2>2, <2>3, <2>4, <2>5, <2>6
<1>2. n \in 0..CFData /\ n > 0 /\ n <= e /\ (a + n < rx.total => n = CFData)
  BY <1>1 DEF Least
<1>3. PICK j \in 0..peer.sent : \E c \in 0..j :
         /\ a = FFData + c * CFData
         /\ z = (j + 1) % SeqMod
         /\ c = j => Assembled = Body(m, 0, a)
  BY <1>1 DEF ReceiveInv, Collecting
<1>4. PICK c \in 0..j :
         /\ a = FFData + c * CFData
         /\ z = (j + 1) % SeqMod
         /\ c = j => Assembled = Body(m, 0, a)
  BY <1>3
<1>5. j \in Nat /\ c \in Nat /\ c <= j /\ j <= m.sent
  BY <1>1, <1>3, <1>4
<1>6. j + 1 <= k
  <2>1. CASE j = k
    BY <2>1, <1>4, <1>5, NextDiffers, PayloadAssumption
  <2>2. QED BY <2>1, <1>1, <1>5
<1>7. FFData + (k - 1) * CFData < m.total
  BY DEF Due
<1>8. peer' = [id |-> m.id, total |-> m.total, sent |-> k, go |-> TRUE]
  BY <1>1 DEF ReceiveInv, PeerType
<1>9. PeerType'
  BY <1>1, <1>8 DEF PeerType
<1>10. \A x : Body(peer', 0, x) = Body(m, 0, x)
  BY <1>8 DEF Body, Byte
<1>11. chunk \in Seq(Datum) /\ Len(chunk) = n
  <2> DEFINE f == FFData + (k - 1) * CFData
  <2>1. f \in Int
    <3>1. k - 1 \in Nat
      BY <1>1
    <3>2. (k - 1) * CFData \in Nat
      BY <1>1, <3>1, Times
    <3>3. QED BY <3>2, <1>1
  <2> HIDE DEF f, n
  <2>2. SubSeq(Body(m, f, CFData), 1, n) \in Seq(Datum)
        /\ Len(SubSeq(Body(m, f, CFData), 1, n)) = n
    BY <1>1, <1>2, <2>1, BodyStarts
  <2>3. QED BY <2>2 DEF Chunk, f
<1>12. rx.data \in Seq(Datum) /\ sink.data \in Seq(Datum) /\ sink.open \in BOOLEAN
       /\ rx.stream \in BOOLEAN
  BY DEF ReceiveInv, RxType, SinkType
<1> HIDE DEF chunk, n
<1>13. /\ rx.stream => /\ sink.data \o chunk \in Seq(Datum)
                       /\ Len(sink.data \o chunk) = a + n
       /\ ~rx.stream => /\ rx.data \o chunk \in Seq(Datum)
                        /\ Len(rx.data \o chunk) = a + n
  <2>1. rx.stream => Len(sink.data) = a
    BY DEF ReceiveInv, SinkFollows
  <2>2. ~rx.stream => Len(rx.data) = a
    BY DEF ReceiveInv, Receiving
  <2>3. \A s, t \in Seq(Datum) : s \o t \in Seq(Datum) /\ Len(s \o t) = Len(s) + Len(t)
    BY ConcatProperties
  <2>4. QED BY <1>11, <1>12, <2>1, <2>2, <2>3
(* Nothing was missed: the chunk is what comes next.                       *)
<1>14. ASSUME c + 1 = k PROVE got = Body(m, 0, a + n)
  <2>1. c = j
    BY <1>5, <1>6, <1>14, <1>1
  <2>2. FFData + (k - 1) * CFData = a
    BY <1>14, <1>4, <1>5
  <2>3. chunk = SubSeq(Body(m, a, CFData), 1, n)
    BY <2>2 DEF chunk, Chunk
  <2>4. Body(m, 0, a) \o SubSeq(Body(m, a, CFData), 1, n) = Body(m, 0, a + n)
    <3>1. m.id \in Int /\ m.total \in Nat /\ a \in Nat /\ CFData \in Nat /\ n \in 0..CFData
      BY <1>1, <1>2
    <3> HIDE DEF a, m
    <3>2. QED BY <3>1, BodyGrows
  <2>5. Assembled \o chunk = Body(m, 0, a + n)
    BY <1>4, <2>1, <2>3, <2>4
  <2>6. got = Assembled \o chunk
    BY DEF Assembled
  <2>7. QED BY <2>5, <2>6
(* Something was missed: the message cannot be completed.                  *)
<1>15. ASSUME c + 1 # k PROVE a + n < rx.total
  <2>1. c + 1 <= k - 1 /\ c + 1 \in Nat /\ k - 1 \in Nat
    BY <1>5, <1>6, <1>15, <1>1
  <2>2. (c + 1) * CFData <= (k - 1) * CFData /\ (c + 1) * CFData = c * CFData + CFData
        /\ c * CFData \in Nat /\ (c + 1) * CFData \in Nat /\ (k - 1) * CFData \in Nat
    BY <2>1, <1>1, <1>5, Times
  <2> DEFINE x == c * CFData
             y == (k - 1) * CFData
  <2>3. x \in Nat /\ y \in Nat /\ x + CFData <= y /\ a = FFData + x /\ FFData + y < rx.total
    BY <1>1, <1>4, <1>7, <2>2
  <2> HIDE DEF x, y
  <2>4. QED BY <1>1, <1>2, <2>3
<1> DEFINE q == (z + 1) % SeqMod
           next == [rx EXCEPT !.received = a + n, !.seq = q,
                              !.data = IF rx.stream THEN rx.data ELSE rx.data \o chunk]
           drain == IF rx.stream THEN [sink EXCEPT !.data = sink.data \o chunk] ELSE sink
<1>16. Stored(k) = [context |-> next, sink |-> drain]
  <2>1. rx.stream => Fed(sink, chunk) = [sink EXCEPT !.data = sink.data \o chunk]
    BY SinkInTurn DEF Fed
  <2>2. QED BY <2>1 DEF Stored, chunk, n
<1>17. q \in Nat
  BY SeqNumber DEF ReceiveInv, RxType
<1>18. /\ next \in [state : {"WAIT_CF"}, total : Nat, seq : Nat, stream : BOOLEAN,
                    received : Nat, data : Seq(Datum)]
       /\ next.total = rx.total /\ next.received = a + n /\ next.seq = q
       /\ next.stream = rx.stream /\ (~rx.stream => next.data = rx.data \o chunk)
  <2> DEFINE d == IF rx.stream THEN rx.data ELSE rx.data \o chunk
  <2>1. d \in Seq(Datum)
    BY <1>12, <1>13
  <2> HIDE DEF d, q
  <2>2. a + n \in Nat
    BY <1>1, <1>2
  <2>3. /\ [rx EXCEPT !.received = a + n, !.seq = q, !.data = d]
              \in [state : {"WAIT_CF"}, total : Nat, seq : Nat, stream : BOOLEAN,
                   received : Nat, data : Seq(Datum)]
        /\ [rx EXCEPT !.received = a + n, !.seq = q, !.data = d].total = rx.total
        /\ [rx EXCEPT !.received = a + n, !.seq = q, !.data = d].received = a + n
        /\ [rx EXCEPT !.received = a + n, !.seq = q, !.data = d].seq = q
        /\ [rx EXCEPT !.received = a + n, !.seq = q, !.data = d].stream = rx.stream
        /\ [rx EXCEPT !.received = a + n, !.seq = q, !.data = d].data = d
    BY <1>1, <1>17, <2>1, <2>2 DEF ReceiveInv, RxType
  <2>4. QED BY <2>3 DEF d
<1>19. /\ drain \in [open : BOOLEAN, data : Seq(Datum)] /\ drain.open = sink.open
       /\ IF rx.stream THEN drain.data = sink.data \o chunk ELSE drain = sink
  BY <1>12, <1>13 DEF ReceiveInv, SinkType
<1> HIDE DEF next, drain, q
<1>20. CASE a + n < rx.total
  <2>1. rx' = next /\ sink' = drain /\ handed' = <<>>
    BY <1>1, <1>2, <1>16, <1>18, <1>20 DEF TakeChunk
  <2>2. RxType' /\ SinkType' /\ HandedWhole'
    BY <1>18, <1>19, <2>1 DEF RxType, SinkType, HandedWhole
  <2>3. Receiving'
    BY <1>13, <1>18, <1>20, <2>1 DEF Receiving
  <2>4. SinkFollows'
    <3>1. rx.stream => Len(drain.data) = a + n /\ a + n > 0
      <4>1. rx.stream => drain.data = sink.data \o chunk
        BY <1>19
      <4>2. rx.stream => Len(drain.data) = a + n
        BY <1>13, <4>1
      <4>3. a + n > 0
        BY <1>1, <1>2, <1>20
      <4>4. QED BY <4>2, <4>3
    <3>2. drain # Upset
      <4>1. CASE rx.stream
        BY <3>1, <4>1 DEF Upset
      <4>2. CASE ~rx.stream
        BY <1>19, <4>2 DEF ReceiveInv, SinkFollows
      <4>3. QED BY <4>1, <4>2
    <3>3. QED BY <1>13, <1>18, <1>19, <2>1, <3>2 DEF SinkFollows, ReceiveInv
  <2>5. Assembled' = got
    BY <1>18, <1>19, <2>1 DEF Assembled
  <2>6. Collecting'
    <3>1. a + n = FFData + (c + 1) * CFData
      <4>1. (c + 1) * CFData = c * CFData + CFData /\ c * CFData \in Nat
        BY <1>1, <1>5, Times
      <4>2. QED BY <4>1, <1>1, <1>2, <1>4, <1>20
    <3>2. q = (k + 1) % SeqMod
      BY NextNumber, PayloadAssumption, <1>1 DEF q
    <3>3. k \in 0..k /\ c + 1 \in 0..k
      BY <1>1, <1>5, <1>6
    <3>4. c + 1 = k => got = Body(peer', 0, a + n)
      BY <1>10, <1>14
    <3> HIDE DEF got
    <3>5. /\ rx'.total = peer'.total /\ peer'.sent = k
          /\ rx'.received = a + n /\ rx'.seq = q
      BY <1>1, <1>8, <1>18, <2>1
    <3>6. QED BY <2>5, <3>1, <3>2, <3>3, <3>4, <3>5 DEF Collecting
  <2>7. QED BY <1>9, <2>2, <2>3, <2>4, <2>6 DEF ReceiveInv
<1>21. CASE ~(a + n < rx.total)
  <2>1. c + 1 = k /\ a + n = m.total
    BY <1>1, <1>2, <1>15, <1>21
  <2>2. /\ rx' = RxIdle /\ handed' = got
        /\ IF rx.stream THEN sink' = Closed ELSE sink' = sink
    <3>1. Stored(k).context.received = a + n /\ Stored(k).sink = drain
          /\ Stored(k).context.data = next.data
      BY <1>16, <1>18
    <3>2. ~(Stored(k).context.received < rx.total)
      BY <1>1, <1>2, <1>21, <3>1
    <3>3. CASE rx.stream
      <4>1. drain.open
        BY <1>19, <3>3, SinkInTurn
      <4>2. Ended(drain) = Closed
        BY <4>1 DEF Ended
      <4>3. QED BY <1>19, <3>1, <3>2, <3>3, <4>2 DEF TakeChunk
    <3>4. CASE ~rx.stream
      BY <1>18, <3>1, <3>2, <3>4 DEF TakeChunk
    <3>5. QED BY <3>3, <3>4
  <2>3. got = Body(m, 0, m.total)
    BY <1>14, <2>1
  <2> HIDE DEF got
  <2>4. <<>> \in Seq(Datum)
    BY EmptySeq
  <2>5. RxType' /\ SinkType'
    <3>1. RxType'
      BY <2>2, <2>4 DEF RxIdle, RxType
    <3>2. SinkType'
      <4>1. CASE rx.stream
        <5>1. sink' = [open |-> FALSE, data |-> <<>>]
          BY <2>2, <4>1 DEF Closed
        <5>2. QED BY <2>4, <5>1 DEF SinkType
      <4>2. CASE ~rx.stream
        BY <2>2, <4>2 DEF SinkType, ReceiveInv
      <4>3. QED BY <4>1, <4>2
    <3>3. QED BY <3>1, <3>2
  <2>6. Receiving' /\ Collecting'
    BY <2>2 DEF RxIdle, Receiving, Collecting
  <2>7. SinkFollows'
    <3>1. sink' # Upset /\ ~sink'.open
      BY <2>2, SinkInTurn DEF Closed, ReceiveInv, SinkFollows
    <3>2. QED BY <2>2, <3>1 DEF RxIdle, SinkFollows
  <2>8. HandedWhole'
    <3>1. 1 \in 1..m.total
      BY <1>1
    <3>2. handed'[1].id = m.id /\ handed'[1].total = m.total
      BY <3>1, <2>2, <2>3 DEF Body, Byte
    <3>3. Body(handed'[1], 0, m.total) = Body(m, 0, m.total)
      BY <3>2 DEF Body, Byte
    <3>4. QED BY <2>2, <2>3, <3>2, <3>3 DEF HandedWhole
  <2>9. QED BY <1>9, <2>5, <2>6, <2>7, <2>8 DEF ReceiveInv
<1>22. QED BY <1>20, <1>21

(* It may be the request that a response, or its first frame, answers.     *)
LEMMA TakeChunkSends ==
  ASSUME SendInv, NEW k, TakeChunk(k)
  PROVE  SendInv'
<1>1. CASE UNCHANGED <<tx, txAge, reply>>
  BY <1>1, SendingKept
<1>2. CASE \E n \in Responses : SendResponse(n)
  BY <1>2, SendResponseOK
<1>3. QED BY <1>1, <1>2 DEF TakeChunk

LEMMA ConsecutiveFrameOK ==
  ASSUME IInv, NEW k \in {peer.sent, peer.sent + 1} \ {0}, ConsecutiveFrame(k)
  PROVE  IInv'
<1>1. k \in Nat /\ k >= peer.sent /\ peer.sent \in Nat
  BY DEF IInv, ReceiveInv, PeerType
<1>2. peer' = [peer EXCEPT !.sent = k] /\ Due(k)
  BY DEF ConsecutiveFrame
<1>3. /\ PeerType' /\ peer'.go = peer.go /\ peer'.id = peer.id
      /\ peer'.total = peer.total /\ peer'.sent = k
  BY <1>1, <1>2 DEF IInv, ReceiveInv, PeerType
<1>4. CASE handed' = <<>> /\ UNCHANGED <<rx, rxAge, sink, tx, txAge, reply>>
  BY <1>1, <1>3, <1>4, ReceptionKept, SendingKept DEF IInv
<1>5. CASE StopReception /\ handed' = <<>> /\ UNCHANGED <<tx, txAge, reply>>
  BY <1>3, <1>5, StopReceptionOK, SendingKept DEF IInv
<1>6. CASE rx.state = "WAIT_CF" /\ k % SeqMod = rx.seq /\ TakeChunk(k)
  BY <1>2, <1>6, TakeChunkReceives, TakeChunkSends DEF IInv
<1>7. QED BY <1>4, <1>5, <1>6 DEF ConsecutiveFrame

-----------------------------------------------------------------------------
LEMMA InitInv == Init => IInv
<1>1. <<>> \in Seq(Datum)
  BY EmptySeq
<1>2. Init => SinkFollows
  BY ClosedIsNotUpset DEF Init, SinkFollows, Closed, RxIdle
<1>3. QED BY <1>1, <1>2 DEF Init, RxIdle, TxIdle, Closed, NoPeer, NoReply, IInv, ReceiveInv,
                      SendInv, RxType, SinkType, PeerType, Receiving,
                      Collecting, HandedWhole, TxType, ReplyType, Sending

LEMMA NextInv == IInv /\ [Next]_vars => IInv'
<1> SUFFICES ASSUME IInv, [Next]_vars PROVE IInv'
  OBVIOUS
<1>0. PeerType /\ ReceiveInv /\ SendInv
  BY DEF IInv, ReceiveInv
<1>1. ASSUME NEW n \in Lengths, FirstFrame(n) PROVE IInv'
  BY <1>0, <1>1, FirstFrameReceives, SendingKept DEF FirstFrame, IInv
<1>2. ASSUME NEW n \in Lengths, FirstFrameLost(n) PROVE IInv'
  <2>1. peer' = [id |-> 1 - peer.id, total |-> n, sent |-> 0, go |-> FALSE]
    BY <1>2 DEF FirstFrameLost, NewMessage, NoPeer
  <2>2. PeerType' /\ ~peer'.go
    BY <1>0, <2>1, LengthAssumption DEF PeerType
  <2>3. QED BY <1>0, <1>2, <2>2, ReceptionKept, SendingKept DEF FirstFrameLost, node, IInv
<1>3. ASSUME NEW k \in {peer.sent, peer.sent + 1} \ {0}, ConsecutiveFrame(k) PROVE IInv'
  BY <1>3, ConsecutiveFrameOK
<1>4. CASE ConsecutiveFrameLost
  <2>1. peer' = [peer EXCEPT !.sent = peer.sent + 1]
    BY <1>4 DEF ConsecutiveFrameLost
  <2>2. /\ PeerType' /\ peer'.go = peer.go /\ peer'.id = peer.id
        /\ peer'.total = peer.total /\ peer'.sent >= peer.sent
    BY <1>0, <2>1 DEF PeerType
  <2>3. QED BY <1>0, <1>4, <2>2, ReceptionKept, SendingKept DEF ConsecutiveFrameLost, node, IInv
<1>5. CASE SingleFrame
  <2>1. SendInv'
    BY <1>0, <1>5, SendResponseOK DEF SingleFrame
  <2>2. ReceiveInv'
    BY <1>0, <1>5, StopReceptionOK DEF SingleFrame, PeerType
  <2>3. QED BY <2>1, <2>2 DEF IInv
<1>6. CASE ShortFirstFrame
  BY <1>0, <1>6, StopReceptionOK, SendingKept DEF ShortFirstFrame, PeerType, IInv
<1>7. ASSUME UNCHANGED <<rx, tx, sink, peer, reply>>, handed' = <<>> PROVE IInv'
  <2>1. PeerType' /\ (peer'.go => peer.go /\ peer'.sent >= peer.sent)
    BY <1>0, <1>7 DEF PeerType
  <2>2. QED BY <1>0, <1>7, <2>1, ReceptionKept, SendingKept DEF IInv
<1>8. CASE Unplug \/ Clock \/ ReadClock
  BY <1>7, <1>8 DEF Unplug, Clock, ReadClock, node
<1>9. ASSUME NEW fs, NEW bs \in Nat, NEW st \in Nat, FlowControl(fs, bs, st) PROVE IInv'
  <2>1. SendInv'
    BY <1>0, <1>9, FlowControlSends
  <2>2. UNCHANGED <<rx, sink, peer>> /\ handed' = <<>>
    BY <1>9 DEF FlowControl
  <2>3. PeerType' /\ (peer'.go => peer.go /\ peer'.sent >= peer.sent)
    BY <1>0, <2>2 DEF PeerType
  <2>4. QED BY <1>0, <2>1, <2>2, <2>3, ReceptionKept DEF IInv
<1>10. CASE Tick
  <2>1. SendInv'
    BY <1>0, <1>10, TxTimeoutSends DEF Tick
  <2>2. peer' = peer /\ handed' = <<>> /\ PeerType'
        /\ (peer'.go => peer.go /\ peer'.sent >= peer.sent)
    BY <1>0, <1>10 DEF Tick, PeerType
  <2>3. CASE StopReception
    BY <1>0, <2>1, <2>2, <2>3, StopReceptionOK DEF IInv
  <2>4. CASE UNCHANGED <<rx, sink>>
    BY <1>0, <2>1, <2>2, <2>4, ReceptionKept DEF IInv
  <2>5. QED BY <1>10, <2>3, <2>4 DEF Tick, RxTimeout
<1>11. CASE UNCHANGED vars
  <2>1. UNCHANGED <<rx, tx, sink, peer, reply, handed>>
    BY <1>11 DEF vars, node, world
  <2>2. PeerType' /\ (peer'.go => peer.go /\ peer'.sent >= peer.sent)
    BY <1>0, <2>1 DEF PeerType
  <2>3. QED BY <1>0, <2>1 DEF IInv, ReceiveInv, SendInv, RxType, SinkType, PeerType, Receiving,
               SinkFollows, Collecting, Assembled, HandedWhole, TxType, ReplyType, Sending
<1>12. QED
  BY <1>1, <1>2, <1>3, <1>4, <1>5, <1>6, <1>8, <1>9, <1>10, <1>11, LengthAssumption
  DEF Next, Tester

(* The state every frame and timeout leaves behind in iso_tp.c: what has   *)
(* been collected is a prefix of the tester's message, or can never be     *)
(* completed, and a tester knows exactly what has been sent to it.         *)
THEOREM IsoTpInvariance == Spec => []IInv
  BY InitInv, NextInv, PTL DEF Spec

(* ISO_TP_Process_ConsecutiveFrame hands on whole messages only: no loss,  *)
(* repetition or abandonment of frames lets it complete anything else.     *)
THEOREM WholeMessages == Spec => []HandedWhole
<1>1. IInv => HandedWhole
  BY DEF IInv, ReceiveInv
<1>2. QED BY <1>1, IsoTpInvariance, PTL

(* The stream sink is open exactly while a streamed reception is under     *)
(* way, and has been given what was received: every reset tells it.        *)
THEOREM SinkIsFollowed == Spec => []SinkFollows
<1>1. IInv => SinkFollows
  BY DEF IInv, ReceiveInv
<1>2. QED BY <1>1, IsoTpInvariance, PTL

(* ISO_TP_SendNextCF never goes out of sequence or beyond the block the    *)
(* tester granted, so that the tester has what the node believes is sent.  *)
THEOREM PeerKeepsUp == Spec => []PeerFollows
<1>1. IInv => PeerFollows
  BY DEF IInv, SendInv, TxType, Sending, PeerFollows, NoReply, Refused
<1>2. QED BY <1>1, IsoTpInvariance, PTL
=============================================================================
