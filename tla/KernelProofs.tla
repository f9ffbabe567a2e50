----------------------------- MODULE KernelProofs -----------------------------
(***************************************************************************)
(* The kernel, for every program, number of tasks, priorities, queues and  *)
(* their lengths: a queue implements a bounded sequence (FifoOrder); the   *)
(* lists agree with one another and with the tasks (ListsStayTogether); no *)
(* task sleeps past its time (NobodyOversleeps); and, in a program without *)
(* a mutex, the highest ready task runs (HighestRunsWithoutMutex).         *)
(***************************************************************************)
EXTENDS KernelProps, SequenceTheorems, WellFoundedInduction, TLAPS

-----------------------------------------------------------------------------
(* The ring of a queue of length n.  The slots of a new queue hold         *)
(* something that need not be a message.                                   *)

Content == Msg \cup {CHOOSE m \in Msg : TRUE}
Nth(rd, i, n) == (rd + i) % n
Back(rd, n) == IF rd = 0 THEN n - 1 ELSE rd - 1
Ring(slot, rd, count, n) == [i \in 1..count |-> slot[Nth(rd, i, n)]]

\* One slot of the ring, counted from behind rd.
LEMMA RingNth ==
  ASSUME NEW n \in Nat \ {0}, NEW rd \in 0..(n - 1), NEW i \in 1..n
  PROVE  /\ Nth(rd, i, n) = IF rd + i < n THEN rd + i ELSE rd + i - n
         /\ Nth(rd, i, n) \in 0..(n - 1)
<1>2. (rd + i) % n = IF rd + i < n THEN rd + i ELSE rd + i - n
  <2>1. CASE rd + i < n
    BY <2>1
  <2>2. CASE rd + i >= n
    BY <2>2
  <2> QED BY <2>1, <2>2
<1>3. (IF rd + i < n THEN rd + i ELSE rd + i - n) \in 0..(n - 1)
  OBVIOUS
<1> QED BY <1>2, <1>3, Zenon DEF Nth

LEMMA RingIsSeq ==
  ASSUME NEW n \in Nat \ {0}, NEW slot \in [0..(n - 1) -> Content],
         NEW rd \in 0..(n - 1), NEW count \in 0..n
  PROVE  /\ Ring(slot, rd, count, n) \in Seq(Content)
         /\ Len(Ring(slot, rd, count, n)) = count
         /\ \A i \in 1..count : Ring(slot, rd, count, n)[i] = slot[Nth(rd, i, n)]
<1>1. ASSUME NEW i \in 1..count PROVE slot[Nth(rd, i, n)] \in Content
  BY RingNth
<1>2. Ring(slot, rd, count, n) \in [1..count -> Content]
  BY <1>1 DEF Ring
<1>3. \A i \in 1..count : Ring(slot, rd, count, n)[i] = slot[Nth(rd, i, n)]
  BY DEF Ring
<1>4. count \in Nat
  OBVIOUS
<1> HIDE DEF Ring
<1> QED BY <1>2, <1>3, <1>4

\* prvCopyDataToQueue at the back: wr is the slot behind the last item.
LEMMA RingPutLast ==
  ASSUME NEW n \in Nat \ {0}, NEW slot \in [0..(n - 1) -> Content],
         NEW rd \in 0..(n - 1), NEW count \in 0..(n - 1), NEW m \in Content
  PROVE  Ring([slot EXCEPT ![Nth(rd, count + 1, n)] = m], rd, count + 1, n)
           = Append(Ring(slot, rd, count, n), m)
<1> DEFINE w == Nth(rd, count + 1, n)
           r == Ring(slot, rd, count, n)
           s == Ring([slot EXCEPT ![w] = m], rd, count + 1, n)
<1>1. w \in 0..(n - 1) /\ count + 1 \in 0..n /\ count \in 0..n
  BY RingNth
<1>2. [slot EXCEPT ![w] = m] \in [0..(n - 1) -> Content]
  BY <1>1
<1>3. /\ s \in Seq(Content) /\ Len(s) = count + 1
      /\ \A i \in 1..(count + 1) : s[i] = [slot EXCEPT ![w] = m][Nth(rd, i, n)]
  BY <1>1, <1>2, RingIsSeq, Zenon
<1>4. /\ r \in Seq(Content) /\ Len(r) = count
      /\ \A i \in 1..count : r[i] = slot[Nth(rd, i, n)]
  BY <1>1, RingIsSeq, Zenon
<1>5. ASSUME NEW i \in 1..count PROVE Nth(rd, i, n) # w /\ Nth(rd, i, n) \in 0..(n - 1)
  <2>1. i \in 1..n /\ count + 1 \in 1..n
    OBVIOUS
  <2>2. /\ Nth(rd, i, n) = IF rd + i < n THEN rd + i ELSE rd + i - n
        /\ Nth(rd, i, n) \in 0..(n - 1)
    BY <2>1, RingNth
  <2>3. Nth(rd, count + 1, n) = IF rd + (count + 1) < n THEN rd + (count + 1) ELSE rd + (count + 1) - n
    BY <2>1, RingNth, Zenon
  <2> QED BY <2>2, <2>3
<1> HIDE DEF r, s
<1>6. ASSUME NEW i \in 1..(count + 1) PROVE s[i] = Append(r, m)[i]
  <2>1. CASE i = count + 1
    BY <1>1, <1>3, <1>4, <2>1
  <2>2. CASE i # count + 1
    <3>1. i \in 1..count
      BY <2>2
    <3>2. s[i] = slot[Nth(rd, i, n)]
      BY <1>3, <1>5, <3>1
    <3> QED BY <1>4, <3>1, <3>2
  <2> QED BY <2>1, <2>2, Zenon
<1>7. Append(r, m) \in Seq(Content) /\ Len(Append(r, m)) = count + 1
  BY <1>4
<1>8. s = Append(r, m)
  BY <1>3, <1>6, <1>7, SeqEqual
<1> QED BY <1>8, Zenon DEF r, s

\* At the front: into the slot read last, and rd steps back.
LEMMA RingPutFirst ==
  ASSUME NEW n \in Nat \ {0}, NEW slot \in [0..(n - 1) -> Content], NEW m \in Content,
         NEW rd \in 0..(n - 1), NEW count \in 0..(n - 1)
  PROVE  Ring([slot EXCEPT ![rd] = m], Back(rd, n), count + 1, n)
           = <<m>> \o Ring(slot, rd, count, n)
<1> DEFINE b == Back(rd, n)
           r == Ring(slot, rd, count, n)
           u == [slot EXCEPT ![rd] = m]
           s == Ring(u, b, count + 1, n)
<1>1. b \in 0..(n - 1) /\ b = IF rd = 0 THEN n - 1 ELSE rd - 1
  BY DEF Back
<1> HIDE DEF b
<1>2. count + 1 \in 0..n /\ count \in 0..n
  OBVIOUS
<1>3. u \in [0..(n - 1) -> Content] /\ \A p \in 0..(n - 1) : u[p] = IF p = rd THEN m ELSE slot[p]
  OBVIOUS
<1> HIDE DEF u
<1>4. /\ s \in Seq(Content) /\ Len(s) = count + 1
      /\ \A i \in 1..(count + 1) : s[i] = u[Nth(b, i, n)]
  BY <1>1, <1>2, <1>3, RingIsSeq, Zenon
<1>5. /\ r \in Seq(Content) /\ Len(r) = count
      /\ \A i \in 1..count : r[i] = slot[Nth(rd, i, n)]
  BY <1>2, RingIsSeq, Zenon
<1>6. Nth(b, 1, n) = rd
  BY <1>1, RingNth
<1>7. ASSUME NEW i \in 1..count
      PROVE  /\ Nth(b, i + 1, n) = Nth(rd, i, n) /\ Nth(rd, i, n) # rd
             /\ Nth(rd, i, n) \in 0..(n - 1)
  <2>1. i \in 1..n /\ i + 1 \in 1..n
    OBVIOUS
  <2>2. /\ Nth(rd, i, n) = IF rd + i < n THEN rd + i ELSE rd + i - n
        /\ Nth(rd, i, n) \in 0..(n - 1)
    BY <2>1, RingNth
  <2>3. Nth(b, i + 1, n) = IF b + (i + 1) < n THEN b + (i + 1) ELSE b + (i + 1) - n
    BY <1>1, <2>1, RingNth, Zenon
  <2> QED BY <1>1, <2>2, <2>3
<1> HIDE DEF r, s
<1>8. /\ <<m>> \o r \in Seq(Content) /\ Len(<<m>> \o r) = count + 1
      /\ \A i \in 1..(count + 1) : (<<m>> \o r)[i] = IF i = 1 THEN m ELSE r[i - 1]
  BY <1>5
<1>9. ASSUME NEW i \in 1..(count + 1) PROVE s[i] = (<<m>> \o r)[i]
  <2>1. CASE i = 1
    BY <1>3, <1>4, <1>6, <1>8, <2>1, Zenon
  <2>2. CASE i # 1
    <3>1. i - 1 \in 1..count /\ (i - 1) + 1 = i
      BY <2>2
    <3>2. s[i] = slot[Nth(rd, i - 1, n)]
      BY <1>3, <1>4, <1>7, <3>1
    <3> QED BY <1>5, <1>8, <2>2, <3>1, <3>2
  <2> QED BY <2>1, <2>2, Zenon
<1>10. s = <<m>> \o r
  BY <1>4, <1>8, <1>9, SeqEqual
<1> QED BY <1>10, Zenon DEF b, r, s, u

LEMMA RingOne ==
  ASSUME NEW slot \in [0..(1 - 1) -> Content]
  PROVE  Ring(slot, 0, 1, 1) = <<slot[0]>>
<1>1. Nth(0, 1, 1) = 0
  BY DEF Nth
<1>2. Ring(slot, 0, 1, 1) = [i \in 1..1 |-> slot[Nth(0, i, 1)]]
  BY DEF Ring
<1>3. \A i \in 1..1 : i = 1
  OBVIOUS
<1>4. Ring(slot, 0, 1, 1) = [i \in 1..1 |-> slot[0]]
  BY <1>1, <1>2, <1>3
<1> QED BY <1>4

\* prvCopyDataFromQueue
LEMMA RingTaken ==
  ASSUME NEW n \in Nat \ {0}, NEW slot \in [0..(n - 1) -> Content],
         NEW rd \in 0..(n - 1), NEW count \in 1..n
  PROVE  /\ Ring(slot, rd, count, n) # <<>>
         /\ Ring(slot, Nth(rd, 1, n), count - 1, n) = Tail(Ring(slot, rd, count, n))
<1> DEFINE b == Nth(rd, 1, n)
           r == Ring(slot, rd, count, n)
           s == Ring(slot, b, count - 1, n)
<1>1. b = (IF rd + 1 < n THEN rd + 1 ELSE rd + 1 - n) /\ b \in 0..(n - 1)
  BY RingNth
<1> HIDE DEF b
<1> count \in 0..n /\ count - 1 \in 0..n
  OBVIOUS
<1>2. /\ s \in Seq(Content) /\ Len(s) = count - 1
      /\ \A i \in 1..(count - 1) : s[i] = slot[Nth(b, i, n)]
  BY <1>1, RingIsSeq, Zenon
<1>3. /\ r \in Seq(Content) /\ Len(r) = count
      /\ \A i \in 1..count : r[i] = slot[Nth(rd, i, n)]
  BY RingIsSeq, Zenon
<1>4. ASSUME NEW i \in 1..(count - 1) PROVE Nth(b, i, n) = Nth(rd, i + 1, n)
  <2>1. i \in 1..n /\ i + 1 \in 1..n
    OBVIOUS
  <2>2. /\ Nth(rd, i + 1, n) = IF rd + (i + 1) < n THEN rd + (i + 1) ELSE rd + (i + 1) - n
        /\ Nth(rd, i + 1, n) \in 0..(n - 1)
    BY <2>1, RingNth, Zenon
  <2>3. Nth(b, i, n) = IF b + i < n THEN b + i ELSE b + i - n
    BY <1>1, <2>1, RingNth, Zenon
  <2> QED BY <1>1, <2>2, <2>3
<1> HIDE DEF r, s
<1>5. r # <<>>
  BY <1>3
<1>6. /\ Tail(r) \in Seq(Content) /\ Len(Tail(r)) = count - 1
      /\ \A i \in 1..(count - 1) : Tail(r)[i] = r[i + 1]
  BY <1>3, <1>5, HeadTailProperties
<1>7. \A i \in 1..(count - 1) : s[i] = Tail(r)[i]
  BY <1>2, <1>3, <1>4, <1>6
<1>8. s = Tail(r)
  BY <1>2, <1>6, <1>7, SeqEqual
<1> QED BY <1>5, <1>8 DEF b, r, s

-----------------------------------------------------------------------------
(* The control block of a queue of items.  wr follows the last item.       *)

Cells(n) == [slot : [0..(n - 1) -> Content], wr : 0..(n - 1), rd : 0..(n - 1),
             count : 0..n, tx : Int, rx : Int, holder : Task \cup {NoTask}]
Behind(rd, count, n) == Nth(rd, IF count = n THEN 1 ELSE count + 1, n)
CellOK(c, n) == c \in Cells(n) /\ c.wr = Behind(c.rd, c.count, n)
Held(c, n) == Ring(c.slot, c.rd, c.count, n)

FifoStep(r, s, n) ==
  \/ \E m \in Msg : Len(r) < n /\ s = Append(r, m)
  \/ \E m \in Msg : Len(r) < n /\ s = <<m>> \o r
  \/ \E m \in Msg : n = 1 /\ s = <<m>>
  \/ r # <<>> /\ s = Tail(r)
  \/ s = <<>>
  \/ s = r

LEMMA Locks ==
  ASSUME NEW n \in Nat \ {0}, NEW c, CellOK(c, n), NEW x \in Int, NEW y \in Int
  PROVE  /\ CellOK([c EXCEPT !.tx = x], n) /\ Held([c EXCEPT !.tx = x], n) = Held(c, n)
         /\ CellOK([c EXCEPT !.rx = x], n) /\ Held([c EXCEPT !.rx = x], n) = Held(c, n)
         /\ CellOK([c EXCEPT !.tx = x, !.rx = y], n)
         /\ Held([c EXCEPT !.tx = x, !.rx = y], n) = Held(c, n)
BY Zenon DEF CellOK, Cells, Behind, Held

LEMMA Cell ==
  ASSUME NEW n \in Nat \ {0}, NEW c, CellOK(c, n)
  PROVE  /\ c = [slot |-> c.slot, wr |-> c.wr, rd |-> c.rd, count |-> c.count,
                 tx |-> c.tx, rx |-> c.rx, holder |-> c.holder]
         /\ c.slot \in [0..(n - 1) -> Content] /\ c.wr \in 0..(n - 1) /\ c.rd \in 0..(n - 1)
         /\ c.count \in 0..n /\ c.tx \in Int /\ c.rx \in Int /\ c.holder \in Task \cup {NoTask}
         /\ c.wr = Behind(c.rd, c.count, n)
         /\ Len(Held(c, n)) = c.count
<1>1. c \in Cells(n) /\ c.wr = Behind(c.rd, c.count, n)
  BY DEF CellOK
<1>2. /\ c.slot \in [0..(n - 1) -> Content] /\ c.rd \in 0..(n - 1) /\ c.count \in 0..n
  BY <1>1 DEF Cells
<1>3. Len(Held(c, n)) = c.count
  BY <1>2, RingIsSeq, Zenon DEF Held
<1> QED BY <1>1, <1>3 DEF Cells

\* How wr and rd move together.
LEMMA BehindIs ==
  ASSUME NEW n \in Nat \ {0}, NEW rd \in 0..(n - 1), NEW count \in 0..n
  PROVE  /\ Behind(rd, count, n) \in 0..(n - 1)
         /\ \/ Behind(rd, count, n) = rd + 1 + count
            \/ Behind(rd, count, n) = rd + 1 + count - n
            \/ Behind(rd, count, n) = rd + 1 + count - n - n
<1>1. CASE count = n
  <2>1. 1 \in 1..n
    OBVIOUS
  <2>2. /\ Nth(rd, 1, n) = IF rd + 1 < n THEN rd + 1 ELSE rd + 1 - n
        /\ Nth(rd, 1, n) \in 0..(n - 1)
    BY <2>1, RingNth
  <2>3. Behind(rd, count, n) = Nth(rd, 1, n)
    BY <1>1 DEF Behind
  <2> QED BY <1>1, <2>2, <2>3
<1>2. CASE count # n
  <2>1. count + 1 \in 1..n
    BY <1>2
  <2>2. /\ Nth(rd, count + 1, n) = IF rd + (count + 1) < n THEN rd + (count + 1) ELSE rd + (count + 1) - n
        /\ Nth(rd, count + 1, n) \in 0..(n - 1)
    BY <2>1, RingNth
  <2>3. Behind(rd, count, n) = Nth(rd, count + 1, n)
    BY <1>2 DEF Behind
  <2> QED BY <1>2, <2>2, <2>3
<1> QED BY <1>1, <1>2

LEMMA BehindMoves ==
  ASSUME NEW n \in Nat \ {0}, NEW rd \in 0..(n - 1), NEW count \in 0..n
  PROVE  /\ count < n => Nth(Behind(rd, count, n), 1, n) = Behind(rd, count + 1, n)
         /\ count < n => Behind(Back(rd, n), count + 1, n) = Behind(rd, count, n)
         /\ count > 0 => Behind(Nth(rd, 1, n), count - 1, n) = Behind(rd, count, n)
<1>1. /\ Behind(rd, count, n) \in 0..(n - 1)
      /\ \/ Behind(rd, count, n) = rd + 1 + count
         \/ Behind(rd, count, n) = rd + 1 + count - n
         \/ Behind(rd, count, n) = rd + 1 + count - n - n
  BY BehindIs
<1>2. 1 \in 1..n
  OBVIOUS
<1>3. ASSUME count < n PROVE Nth(Behind(rd, count, n), 1, n) = Behind(rd, count + 1, n)
  <2>1. count + 1 \in 0..n
    BY <1>3
  <2>2. /\ Behind(rd, count + 1, n) \in 0..(n - 1)
        /\ \/ Behind(rd, count + 1, n) = rd + 1 + (count + 1)
           \/ Behind(rd, count + 1, n) = rd + 1 + (count + 1) - n
           \/ Behind(rd, count + 1, n) = rd + 1 + (count + 1) - n - n
    BY <2>1, BehindIs
  <2>3. Nth(Behind(rd, count, n), 1, n) = IF Behind(rd, count, n) + 1 < n THEN Behind(rd, count, n) + 1
                                          ELSE Behind(rd, count, n) + 1 - n
    BY <1>1, <1>2, RingNth, Zenon
  <2> QED BY <1>1, <2>2, <2>3
<1>4. ASSUME count < n, NEW b \in 0..(n - 1), b = Back(rd, n)
      PROVE  Behind(b, count + 1, n) = Behind(rd, count, n)
  <2>1. count + 1 \in 0..n
    BY <1>4
  <2>2. /\ Behind(b, count + 1, n) \in 0..(n - 1)
        /\ \/ Behind(b, count + 1, n) = b + 1 + (count + 1)
           \/ Behind(b, count + 1, n) = b + 1 + (count + 1) - n
           \/ Behind(b, count + 1, n) = b + 1 + (count + 1) - n - n
    BY <2>1, BehindIs
  <2> QED BY <1>1, <1>4, <2>2 DEF Back
<1>5. Back(rd, n) \in 0..(n - 1)
  BY DEF Back
<1>6. ASSUME count > 0 PROVE Behind(Nth(rd, 1, n), count - 1, n) = Behind(rd, count, n)
  <2>1. count - 1 \in 0..n
    BY <1>6
  <2>2. /\ Nth(rd, 1, n) \in 0..(n - 1)
        /\ Nth(rd, 1, n) = IF rd + 1 < n THEN rd + 1 ELSE rd + 1 - n
    BY <1>2, RingNth
  <2>3. /\ Behind(Nth(rd, 1, n), count - 1, n) \in 0..(n - 1)
        /\ \/ Behind(Nth(rd, 1, n), count - 1, n) = Nth(rd, 1, n) + 1 + (count - 1)
           \/ Behind(Nth(rd, 1, n), count - 1, n) = Nth(rd, 1, n) + 1 + (count - 1) - n
           \/ Behind(Nth(rd, 1, n), count - 1, n) = Nth(rd, 1, n) + 1 + (count - 1) - n - n
    BY <2>1, <2>2, BehindIs, Zenon
  <2> QED BY <1>1, <2>2, <2>3
<1> QED BY <1>3, <1>4, <1>5, <1>6

LEMMA PutLastStep ==
  ASSUME NEW n \in Nat \ {0}, NEW c, CellOK(c, n), c.count < n, NEW m \in Msg, NEW d,
         d = [c EXCEPT !.slot = [c.slot EXCEPT ![c.wr] = m], !.wr = Nth(c.wr, 1, n),
                       !.count = c.count + 1]
  PROVE  CellOK(d, n) /\ FifoStep(Held(c, n), Held(d, n), n)
<1> m \in Content
  BY DEF Content
<1>1. /\ c = [slot |-> c.slot, wr |-> c.wr, rd |-> c.rd, count |-> c.count,
              tx |-> c.tx, rx |-> c.rx, holder |-> c.holder]
      /\ c.slot \in [0..(n - 1) -> Content] /\ c.wr \in 0..(n - 1) /\ c.rd \in 0..(n - 1)
      /\ c.count \in 0..(n - 1) /\ c.count \in 0..n /\ c.tx \in Int /\ c.rx \in Int /\ c.holder \in Task \cup {NoTask}
      /\ c.wr = Behind(c.rd, c.count, n) /\ Len(Held(c, n)) = c.count
  BY Cell
<1>2. Nth(c.wr, 1, n) = (IF c.wr + 1 < n THEN c.wr + 1 ELSE c.wr + 1 - n) /\ Nth(c.wr, 1, n) \in 0..(n - 1)
  <2>1. 1 \in 1..n
    OBVIOUS
  <2> QED BY <1>1, <2>1, RingNth, Zenon
<1>3. d = [slot |-> [c.slot EXCEPT ![c.wr] = m], wr |-> Nth(c.wr, 1, n), rd |-> c.rd,
           count |-> c.count + 1, tx |-> c.tx, rx |-> c.rx, holder |-> c.holder]
  BY <1>1, Zenon
<1>4. [c.slot EXCEPT ![c.wr] = m] \in [0..(n - 1) -> Content] /\ c.count + 1 \in 0..n
  BY <1>1
<1>5. d \in Cells(n)
  BY <1>1, <1>2, <1>3, <1>4, Zenon DEF Cells
<1>6. /\ d.slot = [c.slot EXCEPT ![c.wr] = m] /\ d.wr = Nth(c.wr, 1, n) /\ d.rd = c.rd
      /\ d.count = c.count + 1 /\ d.rd \in 0..(n - 1) /\ d.count \in 0..n
  BY <1>1, <1>3, <1>4
<1>7. c.wr = Nth(c.rd, c.count + 1, n)
  BY <1>1 DEF Behind
<1>8. Held(d, n) = Append(Held(c, n), m)
  <2>1. Ring([c.slot EXCEPT ![Nth(c.rd, c.count + 1, n)] = m], c.rd, c.count + 1, n)
          = Append(Ring(c.slot, c.rd, c.count, n), m)
    BY <1>1, RingPutLast, ZenonT(40)
  <2> QED BY <1>6, <1>7, <2>1, Zenon DEF Held
<1>9. d.wr = Behind(d.rd, d.count, n)
  <2>1. Nth(Behind(c.rd, c.count, n), 1, n) = Behind(c.rd, c.count + 1, n)
    BY <1>1, BehindMoves
  <2> QED BY <1>1, <1>6, <2>1
<1> QED BY <1>1, <1>5, <1>8, <1>9, Zenon DEF CellOK, FifoStep

LEMMA PutFirstStep ==
  ASSUME NEW n \in Nat \ {0}, NEW c, CellOK(c, n), c.count < n, NEW m \in Msg,
         NEW b, b = Back(c.rd, n), NEW d,
         d = [slot |-> [c.slot EXCEPT ![c.rd] = m], wr |-> c.wr, rd |-> b,
              count |-> c.count + 1, tx |-> c.tx, rx |-> c.rx, holder |-> c.holder]
  PROVE  CellOK(d, n) /\ FifoStep(Held(c, n), Held(d, n), n)
<1> m \in Content
  BY DEF Content
<1>1. /\ c = [slot |-> c.slot, wr |-> c.wr, rd |-> c.rd, count |-> c.count,
              tx |-> c.tx, rx |-> c.rx, holder |-> c.holder]
      /\ c.slot \in [0..(n - 1) -> Content] /\ c.wr \in 0..(n - 1) /\ c.rd \in 0..(n - 1)
      /\ c.count \in 0..(n - 1) /\ c.count \in 0..n /\ c.tx \in Int /\ c.rx \in Int /\ c.holder \in Task \cup {NoTask}
      /\ c.wr = Behind(c.rd, c.count, n) /\ Len(Held(c, n)) = c.count
  BY Cell
<1>2. b \in 0..(n - 1)
  BY <1>1 DEF Back
<1>3. d = [slot |-> [c.slot EXCEPT ![c.rd] = m], wr |-> c.wr, rd |-> b,
           count |-> c.count + 1, tx |-> c.tx, rx |-> c.rx, holder |-> c.holder]
  BY <1>1
<1>4. [c.slot EXCEPT ![c.rd] = m] \in [0..(n - 1) -> Content] /\ c.count + 1 \in 0..n
  BY <1>1
<1>5. d \in Cells(n)
  BY <1>1, <1>2, <1>3, <1>4 DEF Cells
<1>6. /\ d.slot = [c.slot EXCEPT ![c.rd] = m] /\ d.wr = c.wr /\ d.rd = b
      /\ d.count = c.count + 1 /\ d.rd \in 0..(n - 1) /\ d.count \in 0..n
  BY <1>2, <1>3, <1>4
<1>7. Held(d, n) = <<m>> \o Held(c, n)
  <2>1. Ring([c.slot EXCEPT ![c.rd] = m], Back(c.rd, n), c.count + 1, n)
          = <<m>> \o Ring(c.slot, c.rd, c.count, n)
    BY <1>1, RingPutFirst, ZenonT(40)
  <2> QED BY <1>6, <2>1, Zenon DEF Held
<1>8. d.wr = Behind(d.rd, d.count, n)
  <2>1. Behind(Back(c.rd, n), c.count + 1, n) = Behind(c.rd, c.count, n)
    BY <1>1, BehindMoves
  <2> QED BY <1>1, <1>6, <2>1
<1> QED BY <1>1, <1>5, <1>7, <1>8, Zenon DEF CellOK, FifoStep

\* Over the only item: the queue has one place, which stays taken.
LEMMA OverwriteStep ==
  ASSUME NEW c, CellOK(c, 1), c.count = 1, NEW m \in Msg, NEW d,
         d = [slot |-> [c.slot EXCEPT ![c.rd] = m], wr |-> c.wr, rd |-> 0,
              count |-> 1, tx |-> c.tx, rx |-> c.rx, holder |-> c.holder]
  PROVE  CellOK(d, 1) /\ FifoStep(Held(c, 1), Held(d, 1), 1)
<1> m \in Content /\ 1 \in Nat \ {0}
  BY DEF Content
<1>1. /\ c = [slot |-> c.slot, wr |-> c.wr, rd |-> c.rd, count |-> c.count,
              tx |-> c.tx, rx |-> c.rx, holder |-> c.holder]
      /\ c.slot \in [0..(1 - 1) -> Content] /\ c.wr \in 0..(1 - 1) /\ c.rd \in 0..(1 - 1)
      /\ c.count = 1 /\ c.tx \in Int /\ c.rx \in Int /\ c.holder \in Task \cup {NoTask}
  BY Cell, Zenon
<1>2. c.rd = 0 /\ c.wr = 0
  BY <1>1
<1>3. d = [slot |-> [c.slot EXCEPT ![0] = m], wr |-> 0, rd |-> 0,
           count |-> 1, tx |-> c.tx, rx |-> c.rx, holder |-> c.holder]
  BY <1>1, <1>2
<1>4. [c.slot EXCEPT ![0] = m] \in [0..(1 - 1) -> Content] /\ [c.slot EXCEPT ![0] = m][0] = m
  BY <1>1
<1>5. d \in Cells(1)
  BY <1>1, <1>3, <1>4 DEF Cells
<1>6. d.slot \in [0..(1 - 1) -> Content] /\ d.slot[0] = m /\ d.rd = 0 /\ d.count = 1 /\ d.wr = 0
  <2>1. d.slot = [c.slot EXCEPT ![0] = m] /\ d.rd = 0 /\ d.count = 1 /\ d.wr = 0
    BY <1>3
  <2> QED BY <1>4, <2>1, Zenon
<1>7. Nth(0, 1, 1) = 0
  BY DEF Nth
<1>8. d.wr = Behind(d.rd, d.count, 1)
  BY <1>6, <1>7 DEF Behind
<1>9. Held(d, 1) = <<m>>
  <2>1. Ring(d.slot, 0, 1, 1) = <<d.slot[0]>>
    BY <1>6, RingOne
  <2> QED BY <1>6, <2>1 DEF Held
<1> QED BY <1>5, <1>8, <1>9, Zenon DEF CellOK, FifoStep

LEMMA WrittenStep ==
  ASSUME NEW o \in Queues, Kind[o] = "queue", NEW n \in Nat \ {0}, n = Length[o],
         CellOK(qs[o], n), NEW where \in Posts, NEW m \in Msg,
         ~Full(o) \/ where = "overwrite", where = "overwrite" => n = 1
  PROVE  /\ CellOK(Written(o, where, m), n)
         /\ FifoStep(Held(qs[o], n), Held(Written(o, where, m), n), n)
<1> DEFINE c == qs[o]
           d == Written(o, where, m)
           b == Back(c.rd, n)
<1>1. c.rd \in 0..(n - 1) /\ c.count \in 0..n
  BY Cell
<1>2. CASE where = "send"
  <2>1. c.count < n
    BY <1>1, <1>2 DEF Full
  <2>2. d = [c EXCEPT !.slot = [c.slot EXCEPT ![c.wr] = m], !.wr = Nth(c.wr, 1, n),
                      !.count = c.count + 1]
    BY <1>2 DEF Written, After, Nth
  <2> HIDE DEF d
  <2> QED BY <2>1, <2>2, PutLastStep, Zenon DEF c, d
<1>3. ASSUME where # "send" PROVE Before(o, c.rd) = b
  <2>1. CASE n = 1
    BY <1>1, <2>1 DEF Before, Back
  <2>2. CASE n # 1
    <3>1. n - 1 \in 1..n
      BY <2>2
    <3>2. Nth(c.rd, n - 1, n) = IF c.rd + (n - 1) < n THEN c.rd + (n - 1) ELSE c.rd + (n - 1) - n
      BY <1>1, <3>1, RingNth, Zenon
    <3>3. Before(o, c.rd) = Nth(c.rd, n - 1, n)
      <4>1. c.rd + n - 1 = c.rd + (n - 1)
        BY <1>1
      <4> QED BY <4>1 DEF Before, Nth
    <3> QED BY <1>1, <3>2, <3>3 DEF Back
  <2> QED BY <2>1, <2>2
<1>4. CASE where # "send" /\ c.count < n
  <2>1. d = [c EXCEPT !.slot = [c.slot EXCEPT ![c.rd] = m], !.rd = Before(o, c.rd),
                      !.count = IF where = "overwrite" /\ c.count > 0 THEN c.count ELSE c.count + 1]
    BY <1>4 DEF Written
  <2>2. ~(where = "overwrite" /\ c.count > 0)
    BY <1>1, <1>4
  <2>3. d = [c EXCEPT !.slot = [c.slot EXCEPT ![c.rd] = m], !.rd = b, !.count = c.count + 1]
    BY <1>3, <1>4, <2>1, <2>2, Zenon
  <2> HIDE DEF d, b
  <2>4. b = Back(c.rd, n)
    BY DEF b
  <2>5. CellOK(d, n) /\ FifoStep(Held(c, n), Held(d, n), n)
    <3> HIDE DEF c
    <3>1. CellOK(c, n)
      BY DEF c
    <3>2. c = [slot |-> c.slot, wr |-> c.wr, rd |-> c.rd, count |-> c.count,
                tx |-> c.tx, rx |-> c.rx, holder |-> c.holder]
      BY <3>1, Cell
    <3>3. d = [slot |-> [c.slot EXCEPT ![c.rd] = m], wr |-> c.wr, rd |-> b,
               count |-> c.count + 1, tx |-> c.tx, rx |-> c.rx, holder |-> c.holder]
      BY <2>3, <3>2, Zenon
    <3> QED BY <1>4, <2>4, <3>1, <3>3, PutFirstStep
  <2> QED BY <2>5 DEF d
<1>5. CASE where # "send" /\ c.count = n
  <2>1. n = 1 /\ c.count = 1 /\ where = "overwrite" /\ b = 0 /\ c.count > 0
    BY <1>1, <1>5 DEF Full, Back
  <2>2. d = [c EXCEPT !.slot = [c.slot EXCEPT ![c.rd] = m], !.rd = Before(o, c.rd),
                      !.count = IF where = "overwrite" /\ c.count > 0 THEN c.count ELSE c.count + 1]
    BY <1>5 DEF Written
  <2>3. d = [c EXCEPT !.slot = [c.slot EXCEPT ![c.rd] = m], !.rd = 0, !.count = 1]
    <3> HIDE DEF d
    <3>1. Before(o, c.rd) = 0
      BY <1>3, <1>5, <2>1
    <3> QED BY <2>1, <2>2, <3>1, Zenon
  <2> HIDE DEF d
  <2>4. CellOK(d, 1) /\ FifoStep(Held(c, 1), Held(d, 1), 1)
    <3> HIDE DEF c
    <3>1. CellOK(c, 1)
      BY <2>1 DEF c
    <3>2. c = [slot |-> c.slot, wr |-> c.wr, rd |-> c.rd, count |-> c.count,
                tx |-> c.tx, rx |-> c.rx, holder |-> c.holder]
      BY <3>1, Cell, SMTT(30)
    <3>3. d = [slot |-> [c.slot EXCEPT ![c.rd] = m], wr |-> c.wr, rd |-> 0,
               count |-> 1, tx |-> c.tx, rx |-> c.rx, holder |-> c.holder]
      BY <2>3, <3>2, Zenon
    <3> QED BY <2>1, <3>1, <3>3, OverwriteStep
  <2> QED BY <2>1, <2>4 DEF d
<1>6. where = "send" \/ (where # "send" /\ c.count < n) \/ (where # "send" /\ c.count = n)
  BY <1>1
<1> QED BY <1>2, <1>4, <1>5, <1>6

LEMMA TakenStep ==
  ASSUME NEW n \in Nat \ {0}, NEW c, CellOK(c, n), c.count # 0, NEW d,
         d = [c EXCEPT !.rd = Nth(c.rd, 1, n), !.count = c.count - 1]
  PROVE  CellOK(d, n) /\ FifoStep(Held(c, n), Held(d, n), n)
<1>1. /\ c = [slot |-> c.slot, wr |-> c.wr, rd |-> c.rd, count |-> c.count,
              tx |-> c.tx, rx |-> c.rx, holder |-> c.holder]
      /\ c.slot \in [0..(n - 1) -> Content] /\ c.wr \in 0..(n - 1) /\ c.rd \in 0..(n - 1)
      /\ c.count \in 0..n /\ c.count > 0 /\ c.tx \in Int /\ c.rx \in Int /\ c.holder \in Task \cup {NoTask}
      /\ c.wr = Behind(c.rd, c.count, n)
  BY Cell
<1>2. Nth(c.rd, 1, n) = (IF c.rd + 1 < n THEN c.rd + 1 ELSE c.rd + 1 - n) /\ Nth(c.rd, 1, n) \in 0..(n - 1)
  <2>1. 1 \in 1..n
    OBVIOUS
  <2> QED BY <1>1, <2>1, RingNth, Zenon
<1>3. d = [slot |-> c.slot, wr |-> c.wr, rd |-> Nth(c.rd, 1, n),
           count |-> c.count - 1, tx |-> c.tx, rx |-> c.rx, holder |-> c.holder]
  BY <1>1, Zenon
<1>4. c.count - 1 \in 0..n
  BY <1>1
<1>5. d \in Cells(n)
  BY <1>1, <1>2, <1>3, <1>4 DEF Cells
<1>6. /\ d.slot = c.slot /\ d.wr = c.wr /\ d.rd = Nth(c.rd, 1, n) /\ d.count = c.count - 1
      /\ d.rd \in 0..(n - 1) /\ d.count \in 0..n
  BY <1>2, <1>3, <1>4
<1>7. Held(c, n) # <<>> /\ Held(d, n) = Tail(Held(c, n))
  <2>1. /\ Ring(c.slot, c.rd, c.count, n) # <<>>
        /\ Ring(c.slot, Nth(c.rd, 1, n), c.count - 1, n) = Tail(Ring(c.slot, c.rd, c.count, n))
    BY <1>1, RingTaken
  <2> QED BY <1>6, <2>1 DEF Held
<1>8. d.wr = Behind(d.rd, d.count, n)
  <2>1. Behind(Nth(c.rd, 1, n), c.count - 1, n) = Behind(c.rd, c.count, n)
    BY <1>1, BehindMoves
  <2> QED BY <1>1, <1>6, <2>1
<1> QED BY <1>5, <1>7, <1>8 DEF CellOK, FifoStep

\* A new queue, and one that was reset, is empty.
LEMMA EmptyCell ==
  ASSUME NEW o \in Queues, Kind[o] = "queue", NEW n \in Nat \ {0}, n = Length[o],
         NEW slot \in [0..(n - 1) -> Content]
  PROVE  /\ CellOK([NewQueue(o) EXCEPT !.slot = slot], n)
         /\ Held([NewQueue(o) EXCEPT !.slot = slot], n) = <<>>
<1> DEFINE d == [NewQueue(o) EXCEPT !.slot = slot]
<1>1. d = [slot |-> slot, wr |-> 0, rd |-> n - 1, count |-> 0, tx |-> -1, rx |-> -1, holder |-> NoTask]
  <2> DEFINE new == [i \in 0..(Length[o] - 1) |-> CHOOSE m \in Msg : TRUE]
  <2>1. NewQueue(o) = [slot |-> new, wr |-> 0, rd |-> n - 1, count |-> 0, tx |-> -1, rx |-> -1,
                       holder |-> NoTask]
    <3>1. NewQueue(o) = [slot |-> new, wr |-> 0, rd |-> Length[o] - 1,
                         count |-> IF Kind[o] = "mutex" THEN 1 ELSE 0, tx |-> -1, rx |-> -1,
                         holder |-> NoTask]
      BY Zenon DEF NewQueue
    <3> HIDE DEF new
    <3> QED BY <3>1
  <2> HIDE DEF new
  <2> QED BY <2>1
<1> HIDE DEF d
<1>2. d \in Cells(n)
  BY <1>1 DEF Cells
<1>3. Behind(d.rd, d.count, n) = 0
  <2>1. 1 \in 1..n /\ n - 1 \in 0..(n - 1)
    OBVIOUS
  <2>2. Nth(n - 1, 1, n) = 0
    BY <2>1, RingNth
  <2>3. Behind(d.rd, d.count, n) = Nth(n - 1, 1, n)
    BY <1>1 DEF Behind
  <2> QED BY <2>2, <2>3
<1>4. Held(d, n) = <<>>
  <2>1. n - 1 \in 0..(n - 1) /\ 0 \in 0..n
    OBVIOUS
  <2>2. Ring(slot, n - 1, 0, n) \in Seq(Content) /\ Len(Ring(slot, n - 1, 0, n)) = 0
    BY <2>1, RingIsSeq
  <2>3. Ring(slot, n - 1, 0, n) = <<>>
    BY <2>2, EmptySeq
  <2> QED BY <1>1, <2>3 DEF Held
<1> QED BY <1>1, <1>2, <1>3, <1>4 DEF CellOK, d

-----------------------------------------------------------------------------
(* A call in progress has the object and the message it was started with.  *)

CallOK(l) ==
  /\ {"api", "obj", "val"} \subseteq DOMAIN l
  /\ l.api \in Posts =>
       /\ l.obj \in Queues /\ Kind[l.obj] = "queue" /\ l.val \in Msg
       /\ l.api = "overwrite" => Length[l.obj] = 1
  /\ l.api = "give" => l.obj \in Queues /\ Kind[l.obj] # "queue"
CallsOK == DOMAIN loc = Task /\ \A t \in Task : CallOK(loc[t])

Same(l, m) ==
  /\ DOMAIN m = DOMAIN l /\ m.api = l.api /\ m.obj = l.obj /\ m.val = l.val

LEMMA SameCall ==
  ASSUME NEW l, NEW m, CallOK(l), Same(l, m)
  PROVE  CallOK(m)
BY DEF CallOK, Same

LEMMA NoCallOK == CallOK(NoCall)
BY DEF CallOK, NoCall, Posts

\* A step of one task.
LEMMA OneCall ==
  ASSUME CallsOK, NEW t, NEW l, t \in Task => CallOK(l), loc' = [loc EXCEPT ![t] = l]
  PROVE  CallsOK'
BY DEF CallsOK

LEMMA KeptCall ==
  ASSUME CallsOK, NEW t, NEW l, t \in Task => Same(loc[t], l), loc' = [loc EXCEPT ![t] = l]
  PROVE  CallsOK'
<1>1. t \in Task => CallOK(l)
  BY SameCall DEF CallsOK
<1> QED BY <1>1, OneCall, Zenon

LEMMA EntersCall ==
  ASSUME CallsOK, NEW t \in Task, NEW api, api \notin Sends, NEW l, NEW to,
         {"api", "obj", "val"} \subseteq DOMAIN l, Enter(t, api, l, to)
  PROVE  CallsOK'
<1>1. CallOK([l EXCEPT !.api = api])
  BY DEF CallOK, Sends, Posts
<1> QED BY <1>1, OneCall, Zenon DEF Enter

LEMMA ReturnsCall ==
  ASSUME CallsOK, NEW t \in Task, NEW from, Return(t, from)
  PROVE  CallsOK'
BY NoCallOK, OneCall, Zenon DEF Return

LEMMA FieldsOfCall ==
  ASSUME CallsOK, NEW t, t \in Task
  PROVE  /\ {"api", "obj", "val"} \subseteq DOMAIN loc[t]
         /\ \A x : /\ Same(loc[t], [loc[t] EXCEPT !.yielded = x])
                   /\ Same(loc[t], [loc[t] EXCEPT !.inherited = x])
                   /\ Same(loc[t], [loc[t] EXCEPT !.then = x])
                   /\ Same(loc[t], [loc[t] EXCEPT !.yields = x])
                   /\ Same(loc[t], [loc[t] EXCEPT !.timed = x])
         /\ \A x, y : /\ Same(loc[t], [loc[t] EXCEPT !.then = x, !.yields = y])
                      /\ Same(loc[t], [loc[t] EXCEPT !.timed = x, !.entry = y])
                      /\ Same(loc[t], [loc[t] EXCEPT !.ticks = x, !.entry = y])
         /\ \A x, y, z : Same(loc[t], [loc[t] EXCEPT !.ticks = x, !.yields = y, !.then = z])
         /\ Same(loc[t], loc[t])
BY DEF CallsOK, CallOK, Same

LEMMA TasksKeepCalls ==
  ASSUME CallsOK, NEW t \in Task, TaskStep(t)
  PROVE  CallsOK'
<1> USE DEF CallsOK
<1>1. CASE loc' = loc
  BY <1>1
<1>2. CASE Delay(t) \/ UnlockScheduler(t) \/ CatchUpTicks(t) \/ DeleteSelf(t)
           \/ \E x \in Task : Suspend(t, x)
  <2> HIDE DEF CallsOK
  <2>1. ASSUME NEW l, Enter(t, "delay", l, "delay"), {"api", "obj", "val"} \subseteq DOMAIN l PROVE CallsOK'
    BY <2>1, EntersCall DEF Sends, Posts
  <2>2. CASE Delay(t)
    <3>1. PICK api \in Called(t, {"delay"}), n \in scene.waits[t] \ {0} :
            Enter(t, api, [NoCall EXCEPT !.ticks = n, !.asked = n, !.yields = TRUE,
                                         !.then = "slept"], "delay")
      BY <2>2, Zenon DEF Delay
    <3>2. api \notin Sends
      BY DEF Called, Sends, Posts
    <3>3. {"api", "obj", "val"} \subseteq DOMAIN [NoCall EXCEPT !.ticks = n, !.asked = n, !.yields = TRUE,
                                                               !.then = "slept"]
      BY DEF NoCall
    <3> QED BY <3>1, <3>2, <3>3, EntersCall, Zenon
  <2>3. CASE UnlockScheduler(t)
    <3>1. Enter(t, "lock", NoCall, "resume") /\ "lock" \notin Sends /\ {"api", "obj", "val"} \subseteq DOMAIN NoCall
      BY <2>3 DEF UnlockScheduler, Sends, Posts, NoCall
    <3> QED BY <3>1, EntersCall
  <2>4. CASE CatchUpTicks(t)
    <3>1. Enter(t, "catchup", NoCall, "resume") /\ "catchup" \notin Sends /\ {"api", "obj", "val"} \subseteq DOMAIN NoCall
      BY <2>4 DEF CatchUpTicks, Sends, Posts, NoCall
    <3> QED BY <3>1, EntersCall
  <2>5. CASE DeleteSelf(t)
    <3>1. Enter(t, "delete", NoCall, "dead") /\ "delete" \notin Sends /\ {"api", "obj", "val"} \subseteq DOMAIN NoCall
      BY <2>5 DEF DeleteSelf, Sends, Posts, NoCall
    <3> QED BY <3>1, EntersCall
  <2>6. ASSUME NEW x \in Task, Suspend(t, x) PROVE CallsOK'
    <3>1. /\ Enter(t, "suspend", [NoCall EXCEPT !.obj = x], "suspend") /\ "suspend" \notin Sends
          /\ {"api", "obj", "val"} \subseteq DOMAIN [NoCall EXCEPT !.obj = x]
      BY <2>6 DEF Suspend, Sends, Posts, NoCall
    <3> QED BY <3>1, EntersCall
  <2> QED BY <1>2, <2>2, <2>3, <2>4, <2>5, <2>6
<1>3. CASE DelayEnds(t) \/ SuspendEnds(t)
  <2> HIDE DEF CallsOK
  <2> QED BY <1>3, ReturnsCall, SMTT(30) DEF DelayEnds, SuspendEnds
<1>4. CASE ResumeAll(t)
  <2> HIDE DEF CallsOK
  <2>1. loc' = [loc EXCEPT ![t] = [loc[t] EXCEPT !.yielded = FALSE]]
    BY <1>4 DEF ResumeAll
  <2> QED BY <2>1, FieldsOfCall, KeptCall, Zenon
<1>5. CASE Resumed(t)
  <2>1. loc' = loc \/ loc' = [loc EXCEPT ![t] = NoCall]
    BY <1>5 DEF Resumed
  <2> HIDE DEF CallsOK
  <2>2. CASE loc' = loc
    BY <2>2 DEF CallsOK
  <2> QED BY <2>1, <2>2, NoCallOK, OneCall
<1>6. CASE \E x \in Task : Delete(t, x)
  <2>1. PICK x \in Task : loc' = [loc EXCEPT ![x] = NoCall]
    BY <1>6, Zenon DEF Delete
  <2> HIDE DEF CallsOK
  <2> QED BY <2>1, NoCallOK, OneCall, Zenon
<1>7. CASE TaskYield(t) \/ DelayBlocks(t) \/ LockScheduler(t) \/ Dies(t)
           \/ (\E x \in Task : Resume(t, x) \/ Create(t, x))
           \/ (\E x \in Task, p \in Prio : PrioritySet(t, x, p))
  BY <1>1, <1>7, Zenon DEF TaskYield, DelayBlocks, LockScheduler, Dies, Resume, Create, PrioritySet, Simple
<1> QED BY <1>2, <1>3, <1>4, <1>5, <1>6, <1>7 DEF TaskStep

LEMMA SchedulerKeepsCalls ==
  ASSUME CallsOK, Boot \/ Handlers \/ Loops \/ IdleTask
  PROVE  CallsOK'
<1>1. CASE loc' = loc
  BY <1>1 DEF CallsOK
<1>2. CASE Boot \/ Handlers \/ Due \/ NoneDue \/ Drain \/ CatchUp
  BY <1>1, <1>2 DEF Boot, StartScheduler, CreateAtBoot, Handlers, PendSV, SysTick, ResumeFromISR,
       Due, NoneDue, Drain, CatchUp
<1>3. CASE Drained
  <2>1. loc' = [loc EXCEPT ![k.cur] = [loc[k.cur] EXCEPT !.yielded = k.yp]]
    BY <1>3 DEF Drained
  <2> QED BY <2>1, FieldsOfCall, KeptCall, Zenon
<1>4. CASE IdleTask
  <2>1. loc' = loc \/ \E x \in Task : loc' = [loc EXCEPT ![x] = NoCall]
    BY <1>4 DEF IdleTask
  <2> QED BY <1>1, <2>1, NoCallOK, OneCall
<1> QED BY <1>2, <1>3, <1>4 DEF Loops

LEMMA QueueKeepsCalls ==
  ASSUME CallsOK, scene \in Programs, NEW t \in Task, QueueStep(t)
  PROVE  CallsOK'
<1>1. CASE loc' = loc
  BY <1>1 DEF CallsOK
<1>u. scene.uses[t] \subseteq Queues
  BY QueueAssumption
<1>2. CASE Send(t)
  <2>1. PICK api \in Called(t, Posts), o \in scene.uses[t], m \in Msg, n \in scene.waits[t] :
          /\ Kind[o] = "queue" /\ (api = "overwrite" => Length[o] = 1)
          /\ Call(t, api, o, m, n)
    BY <1>2 DEF Send
  <2>2. loc' = [loc EXCEPT ![t] = [[NoCall EXCEPT !.obj = o, !.val = m, !.ticks = n,
                                                  !.asked = n] EXCEPT !.api = api]]
    BY <2>1 DEF Call, Enter
  <2>3. CallOK([[NoCall EXCEPT !.obj = o, !.val = m, !.ticks = n, !.asked = n] EXCEPT !.api = api])
    BY <1>u, <2>1 DEF CallOK, NoCall, Called, Posts
  <2> QED BY <2>2, <2>3, OneCall, Zenon
<1>3. CASE Give(t)
  <2>1. PICK api \in Called(t, {"give"}), o \in scene.uses[t] :
          Kind[o] # "queue" /\ Call(t, api, o, 0, 0)
    BY <1>3 DEF Give
  <2>2. loc' = [loc EXCEPT ![t] = [[NoCall EXCEPT !.obj = o, !.val = 0, !.ticks = 0,
                                                  !.asked = 0] EXCEPT !.api = api]]
    BY <2>1 DEF Call, Enter
  <2>3. CallOK([[NoCall EXCEPT !.obj = o, !.val = 0, !.ticks = 0, !.asked = 0] EXCEPT !.api = api])
    BY <1>u, <2>1 DEF CallOK, NoCall, Called, Posts
  <2> QED BY <2>2, <2>3, OneCall, Zenon
<1>4. CASE Receive(t) \/ Take(t)
  <2>1. PICK api \in Called(t, {"receive", "peek", "take"}), o \in scene.uses[t],
            n \in scene.waits[t] : Call(t, api, o, 0, n)
    BY <1>4 DEF Receive, Take, Called
  <2>2. api \notin Sends
    BY <2>1 DEF Called, Sends, Posts
  <2>3. {"api", "obj", "val"} \subseteq DOMAIN [NoCall EXCEPT !.obj = o, !.val = 0, !.ticks = n, !.asked = n]
    BY DEF NoCall
  <2>4. Enter(t, api, [NoCall EXCEPT !.obj = o, !.val = 0, !.ticks = n, !.asked = n], "try")
    BY <2>1 DEF Call
  <2> QED BY <2>2, <2>3, <2>4, EntersCall, Zenon
<1>5. CASE Sent(t) \/ Received(t) \/ Peeked(t) \/ Refused(t) \/ Disinherit(t)
  BY <1>5, ReturnsCall, SMTT(30) DEF Sent, Received, Peeked, Refused, Disinherit
<1>6. CASE StartWait(t)
  <2>1. \/ loc' = loc
        \/ \E x : loc' = [loc EXCEPT ![t] = [loc[t] EXCEPT !.timed = TRUE, !.entry = x]]
    <3>1. CASE loc[t].timed
      BY <1>6, <3>1 DEF StartWait
    <3>2. CASE ~loc[t].timed
      BY <1>6, <3>2, Zenon DEF StartWait
    <3> QED BY <3>1, <3>2, Zenon
  <2> QED BY <1>1, <2>1, FieldsOfCall, KeptCall, Zenon
<1>7. CASE CheckForTimeOut(t)
  <2>1. CASE TimedOut(loc[t].entry, loc[t].ticks)
    <3>1. \E z : loc' = [loc EXCEPT ![t] = [loc[t] EXCEPT !.ticks = 0, !.yields = FALSE, !.then = z]]
      BY <1>7, <2>1, Zenon DEF CheckForTimeOut
    <3> QED BY <3>1, FieldsOfCall, KeptCall, Zenon
  <2>2. CASE ~TimedOut(loc[t].entry, loc[t].ticks)
    <3>1. loc' = [loc EXCEPT ![t] = StillWaiting(loc[t])]
      BY <1>7, <2>2 DEF CheckForTimeOut
    <3>2. \/ StillWaiting(loc[t]) = loc[t]
          \/ \E x, y : StillWaiting(loc[t]) = [loc[t] EXCEPT !.ticks = x, !.entry = y]
      BY Zenon DEF StillWaiting
    <3>3. Same(loc[t], StillWaiting(loc[t]))
      <4>1. CASE StillWaiting(loc[t]) = loc[t]
        BY <4>1, FieldsOfCall, Zenon
      <4>2. ASSUME NEW x, NEW y, StillWaiting(loc[t]) = [loc[t] EXCEPT !.ticks = x, !.entry = y]
            PROVE  Same(loc[t], StillWaiting(loc[t]))
        <5>1. Same(loc[t], [loc[t] EXCEPT !.ticks = x, !.entry = y])
          BY FieldsOfCall, ZenonT(40)
        <5> QED BY <4>2, <5>1, ZenonT(40)
      <4> QED BY <3>2, <4>1, <4>2, ZenonT(40)
    <3> QED BY <3>1, <3>3, KeptCall, Zenon
  <2> QED BY <2>1, <2>2, SMTT(30)
<1>8. CASE Test(t) \/ Place(t)
  <2>1. \/ loc' = loc
        \/ \E x, y : loc' = [loc EXCEPT ![t] = [loc[t] EXCEPT !.then = x, !.yields = y]]
    BY <1>8, ZenonT(40) DEF Test, Place
  <2> QED BY <1>1, <2>1, FieldsOfCall, KeptCall, Zenon
<1>9. CASE Inherit(t)
  <2>1. \E x : loc' = [loc EXCEPT ![t] = [loc[t] EXCEPT !.inherited = x]]
    BY <1>9, Zenon DEF Inherit
  <2> QED BY <2>1, FieldsOfCall, KeptCall, Zenon
<1>10. CASE Expired(t)
  BY <1>1, <1>10, ReturnsCall DEF Expired
<1>11. CASE Reset(t) \/ Hold(t) \/ LockQueue(t) \/ UnlockTx(t) \/ UnlockRx(t)
  BY <1>1, <1>11 DEF Reset, Simple, Hold, LockQueue, UnlockTx, UnlockRx, Unlocks
<1> QED BY <1>2, <1>3, <1>4, <1>5, <1>6, <1>7, <1>8, <1>9, <1>10, <1>11 DEF QueueStep

LEMMA NotifyKeepsCalls ==
  ASSUME CallsOK, NEW t \in Task, NotifyStep(t)
  PROVE  CallsOK'
<1>1. CASE loc' = loc
  BY <1>1 DEF CallsOK
<1>2. CASE NotifyWait(t)
  <2>1. PICK api \in Waits, n \in scene.waits[t], b \in {0, 1} :
          Enter(t, api, [NoCall EXCEPT !.val = b, !.ticks = n, !.asked = n], "nlook")
    BY <1>2, Zenon DEF NotifyWait, Called
  <2>2. api \notin Sends
    BY DEF Waits, Sends, Posts
  <2>3. {"api", "obj", "val"} \subseteq DOMAIN [NoCall EXCEPT !.val = b, !.ticks = n, !.asked = n]
    BY SMTT(30) DEF NoCall
  <2> QED BY <2>1, <2>2, <2>3, EntersCall, Zenon
<1>3. CASE HoldToArm(t)
  <2>1. loc' = [loc EXCEPT ![t] = [loc[t] EXCEPT !.then = "nend"]]
    BY <1>3, SMTT(30) DEF HoldToArm
  <2> QED BY <2>1, FieldsOfCall, KeptCall, Zenon
<1>4. CASE Arm(t)
  <2>1. loc' = [loc EXCEPT ![t] = [loc[t] EXCEPT !.yields = ~Noted(t)]]
    BY <1>4 DEF Arm
  <2> QED BY <2>1, FieldsOfCall, KeptCall, Zenon
<1>5. CASE NotifyEnds(t)
  <2>1. loc' = loc \/ loc' = [loc EXCEPT ![t] = NoCall]
    BY <1>5 DEF NotifyEnds
  <2> QED BY <1>1, <2>1, NoCallOK, OneCall
<1>6. CASE \/ Look(t) \/ FileToWait(t)
           \/ \E x \in Task : TaskNotify(t, x) \/ NotifyStateClear(t, x) \/ NotifyValueClear(t, x)
  BY <1>1, <1>6, Zenon DEF Look, FileToWait, TaskNotify, NotifyStateClear, NotifyValueClear, Simple
<1> QED BY <1>2, <1>3, <1>4, <1>5, <1>6 DEF NotifyStep

LEMMA CallsStep ==
  ASSUME CallsOK, scene \in Programs, [Next]_vars
  PROVE  CallsOK' /\ scene' \in Programs
<1>1. CASE UNCHANGED vars
  BY <1>1 DEF vars, CallsOK
<1>2. CASE SchedNext
  BY <1>2, SchedulerKeepsCalls, TasksKeepCalls DEF SchedNext
<1>3. CASE QueueNext
  <2>1. CASE QueueHandlers
    <3>1. loc' = loc
      BY <2>1, Zenon DEF QueueHandlers, SendFromISR, GiveFromISR, ReceiveFromISR
    <3> QED BY <1>3, <3>1, SMTT(30) DEF CallsOK, QueueNext
  <2> QED BY <1>3, <2>1, QueueKeepsCalls DEF QueueNext
<1>4. CASE NotifyNext
  <2>1. CASE NotifyHandlers
    <3>1. loc' = loc
      BY <2>1 DEF NotifyHandlers, NotifyFromISR
    <3> QED BY <1>4, <3>1 DEF CallsOK, NotifyNext
  <2> QED BY <1>4, <2>1, NotifyKeepsCalls DEF NotifyNext
<1> QED BY <1>1, <1>2, <1>3, <1>4 DEF Next

-----------------------------------------------------------------------------
(* The watched queue.  Every step moves it as the abstract one may move.   *)

Watch == qs[Watched]
Size == Length[Watched]
QueueOK == DOMAIN qs = Queues /\ CellOK(Watch, Size)
Moved == QueueOK' /\ FifoStep(Held(Watch, Size), Held(Watch', Size), Size)

LEMMA SizeOK == Size \in Nat \ {0} /\ Watched \in Queues /\ Kind[Watched] = "queue"
BY QueueAssumption, WatchedAssumption DEF Size

\* A step that writes the control block of one queue.
LEMMA Writes ==
  ASSUME QueueOK, NEW o, NEW c, qs' = [qs EXCEPT ![o] = c],
         o = Watched => CellOK(c, Size) /\ FifoStep(Held(Watch, Size), Held(c, Size), Size)
  PROVE  Moved
<1>1. CASE o = Watched
  <2>1. DOMAIN qs' = Queues /\ Watch' = c
    BY <1>1, SizeOK DEF QueueOK, Watch
  <2> QED BY <1>1, <2>1 DEF Moved, QueueOK, Size
<1>2. CASE o # Watched
  <2>1. DOMAIN qs' = Queues /\ Watch' = Watch
    BY <1>2 DEF QueueOK, Watch
  <2> QED BY <2>1 DEF Moved, QueueOK, Size, FifoStep
<1> QED BY <1>1, <1>2

LEMMA WritesNothing ==
  ASSUME QueueOK, UNCHANGED qs
  PROVE  Moved
BY DEF Moved, QueueOK, Watch, Size, FifoStep

LEMMA Puts ==
  ASSUME QueueOK, NEW o, o = Watched, NEW where \in Posts, NEW m \in Msg,
         ~Full(o) \/ where = "overwrite", where = "overwrite" => Length[o] = 1
  PROVE  /\ CellOK(Written(o, where, m), Size)
         /\ FifoStep(Held(Watch, Size), Held(Written(o, where, m), Size), Size)
BY SizeOK, WrittenStep DEF QueueOK, Watch, Size

LEMMA Takes ==
  ASSUME QueueOK, NEW o, o = Watched, ~Empty(o)
  PROVE  /\ CellOK(Taken(o), Size)
         /\ FifoStep(Held(Watch, Size), Held(Taken(o), Size), Size)
<1>1. /\ Watch = [slot |-> Watch.slot, wr |-> Watch.wr, rd |-> Watch.rd, count |-> Watch.count,
                  tx |-> Watch.tx, rx |-> Watch.rx, holder |-> Watch.holder]
      /\ Watch.count # 0
  BY SizeOK, Cell DEF QueueOK, Empty, Watch
<1>2. Taken(o) = [Watch EXCEPT !.rd = Nth(Watch.rd, 1, Size), !.count = Watch.count - 1]
  BY SizeOK DEF Taken, After, Nth, Watch, Size
<1> QED BY <1>1, <1>2, SizeOK, TakenStep, Zenon DEF QueueOK

\* An interrupt that finds the queue locked leaves a note.
LEMMA NotesTx ==
  ASSUME NEW c, CellOK(c, Size), NEW r, FifoStep(r, Held(c, Size), Size)
  PROVE  /\ CellOK([c EXCEPT !.tx = Owed(@)], Size)
         /\ FifoStep(r, Held([c EXCEPT !.tx = Owed(@)], Size), Size)
         /\ CellOK([c EXCEPT !.rx = Owed(@)], Size)
         /\ FifoStep(r, Held([c EXCEPT !.rx = Owed(@)], Size), Size)
<1>1. c.tx \in Int /\ c.rx \in Int
  BY SizeOK, Cell
<1>2. Owed(c.tx) \in Int /\ Owed(c.rx) \in Int
  BY <1>1 DEF Owed
<1>3. /\ CellOK([c EXCEPT !.tx = Owed(c.tx)], Size) /\ Held([c EXCEPT !.tx = Owed(c.tx)], Size) = Held(c, Size)
      /\ CellOK([c EXCEPT !.rx = Owed(c.rx)], Size) /\ Held([c EXCEPT !.rx = Owed(c.rx)], Size) = Held(c, Size)
  BY <1>2, SizeOK, Locks, Zenon
<1> QED BY <1>3

LEMMA Still ==
  ASSUME QueueOK, NEW x \in Int, NEW y \in Int
  PROVE  /\ CellOK([Watch EXCEPT !.tx = x], Size)
         /\ FifoStep(Held(Watch, Size), Held([Watch EXCEPT !.tx = x], Size), Size)
         /\ CellOK([Watch EXCEPT !.rx = x], Size)
         /\ FifoStep(Held(Watch, Size), Held([Watch EXCEPT !.rx = x], Size), Size)
         /\ CellOK([Watch EXCEPT !.tx = x, !.rx = y], Size)
         /\ FifoStep(Held(Watch, Size), Held([Watch EXCEPT !.tx = x, !.rx = y], Size), Size)
BY SizeOK, Locks, Zenon DEF QueueOK, FifoStep

LEMMA TasksMove ==
  ASSUME QueueOK, CallsOK, NEW t \in Task, QueueStep(t)
  PROVE  Moved
<1>1. CASE qs' = qs
  BY <1>1, WritesNothing
<1>2. CASE Sent(t)
  <2>1. /\ loc[t].api \in Sends /\ ~MustWait(loc[t])
        /\ qs' = [qs EXCEPT ![loc[t].obj] = Written(loc[t].obj, loc[t].api, loc[t].val)]
    BY <1>2 DEF Sent
  <2>2. CallOK(loc[t])
    BY DEF CallsOK
  <2>3. ASSUME loc[t].obj = Watched
        PROVE  /\ loc[t].api \in Posts /\ loc[t].val \in Msg
               /\ ~Full(loc[t].obj) \/ loc[t].api = "overwrite"
               /\ loc[t].api = "overwrite" => Length[loc[t].obj] = 1
    BY <2>1, <2>2, <2>3, SizeOK DEF CallOK, Sends, MustWait
  <2> QED BY <2>1, <2>3, Puts, Writes, Zenon
<1>3. CASE Received(t)
  <2>1. /\ loc[t].api \in {"receive", "take"} /\ ~MustWait(loc[t])
        /\ qs' = [qs EXCEPT ![loc[t].obj] = IF Kind[loc[t].obj] = "mutex"
                                 THEN [Taken(loc[t].obj) EXCEPT !.holder = t] ELSE Taken(loc[t].obj)]
    BY <1>3 DEF Received
  <2>2. ~Empty(loc[t].obj)
    BY <2>1 DEF MustWait, Sends, Posts
  <2>3. ASSUME loc[t].obj = Watched
        PROVE  (IF Kind[loc[t].obj] = "mutex"
                THEN [Taken(loc[t].obj) EXCEPT !.holder = t] ELSE Taken(loc[t].obj)) = Taken(loc[t].obj)
    BY <2>3, SizeOK
  <2> QED BY <2>1, <2>2, <2>3, Takes, Writes, Zenon
<1>4. CASE LockQueue(t)
  <2> DEFINE o == loc[t].obj
             x == IF qs[o].tx = -1 THEN 0 ELSE qs[o].tx
             y == IF qs[o].rx = -1 THEN 0 ELSE qs[o].rx
  <2>1. qs' = [qs EXCEPT ![o] = [qs[o] EXCEPT !.tx = x, !.rx = y]]
    BY <1>4, Zenon DEF LockQueue, QueueOK
  <2>2. ASSUME o = Watched PROVE x \in Int /\ y \in Int /\ qs[o] = Watch
    <3>1. Watch.tx \in Int /\ Watch.rx \in Int
      BY SizeOK, Cell DEF QueueOK
    <3> QED BY <2>2, <3>1 DEF Watch
  <2> HIDE DEF x, y
  <2> QED BY <2>1, <2>2, Still, Writes, Zenon
<1>5. CASE UnlockTx(t)
  <2>1. \E x : /\ qs' = [qs EXCEPT ![loc[t].obj] = [qs[loc[t].obj] EXCEPT !.tx = x]]
               /\ x = -1 \/ x = qs[loc[t].obj].tx - 1
    BY <1>5, Zenon DEF UnlockTx
  <2>2. Watch.tx - 1 \in Int /\ -1 \in Int
    BY SizeOK, Cell DEF QueueOK
  <2> QED BY <2>1, <2>2, Still, Writes, Zenon DEF Watch
<1>6. CASE UnlockRx(t)
  <2>1. \E x : /\ qs' = [qs EXCEPT ![loc[t].obj] = [qs[loc[t].obj] EXCEPT !.rx = x]]
               /\ x = -1 \/ x = qs[loc[t].obj].rx - 1
    BY <1>6, Zenon DEF UnlockRx
  <2>2. Watch.rx - 1 \in Int /\ -1 \in Int
    BY SizeOK, Cell DEF QueueOK
  <2> QED BY <2>1, <2>2, Still, Writes, Zenon DEF Watch
<1>7. CASE Reset(t)
  <2>1. PICK o : qs' = [qs EXCEPT ![o] = [NewQueue(o) EXCEPT !.slot = qs[o].slot]]
    BY <1>7, Zenon DEF Reset
  <2>2. ASSUME o = Watched
        PROVE  /\ CellOK([NewQueue(o) EXCEPT !.slot = qs[o].slot], Size)
               /\ Held([NewQueue(o) EXCEPT !.slot = qs[o].slot], Size) = <<>>
    <3>1. Watch.slot \in [0..(Size - 1) -> Content]
      BY SizeOK, Cell DEF QueueOK
    <3> QED BY <2>2, <3>1, SizeOK, EmptyCell DEF Watch, Size
  <2>3. o = Watched => FifoStep(Held(Watch, Size), Held([NewQueue(o) EXCEPT !.slot = qs[o].slot], Size), Size)
    BY <2>2, SMTT(30) DEF FifoStep
  <2> QED BY <2>1, <2>2, <2>3, Writes, Zenon
<1>8. CASE \/ Send(t) \/ Give(t) \/ Receive(t) \/ Take(t) \/ Peeked(t) \/ Refused(t)
           \/ StartWait(t) \/ Hold(t) \/ CheckForTimeOut(t) \/ Test(t) \/ Inherit(t)
           \/ Place(t) \/ Expired(t) \/ Disinherit(t)
  BY <1>1, <1>8, Zenon DEF Send, Give, Receive, Take, Call, Peeked, Refused, StartWait, Hold,
       CheckForTimeOut, Test, Inherit, Place, Expired, Disinherit
<1> QED BY <1>2, <1>3, <1>4, <1>5, <1>6, <1>7, <1>8 DEF QueueStep

LEMMA InterruptsMove ==
  ASSUME QueueOK, QueueHandlers
  PROVE  Moved
<1>1. CASE \E where \in Called("isr", Posts), o \in scene.uses["isr"], m \in Msg : SendFromISR(o, where, m)
  <2>1. PICK where \in Called("isr", Posts), o \in scene.uses["isr"], m \in Msg : SendFromISR(o, where, m)
    BY <1>1
  <2>2. /\ where \in Posts
        /\ where = "overwrite" => Length[o] = 1
        /\ ~Full(o) \/ where = "overwrite"
        /\ \/ qs' = [qs EXCEPT ![o] = Written(o, where, m)]
           \/ qs' = [qs EXCEPT ![o] = [Written(o, where, m) EXCEPT !.tx = Owed(@)]]
    BY <2>1 DEF SendFromISR, Called
  <2> QED BY <2>2, Puts, NotesTx, Writes, Zenon
<1>2. CASE \E o \in scene.uses["isr"] : GiveFromISR(o)
  <2>1. PICK o : GiveFromISR(o)
    BY <1>2
  <2>2. /\ Kind[o] = "count"
        /\ \E c : qs' = [qs EXCEPT ![o] = c]
    BY <2>1 DEF GiveFromISR
  <2> QED BY <2>2, SizeOK, Writes, Zenon
<1>3. CASE \E o \in scene.uses["isr"] : ReceiveFromISR(o)
  <2>1. PICK o : ReceiveFromISR(o)
    BY <1>3
  <2>2. /\ ~Empty(o)
        /\ \/ qs' = [qs EXCEPT ![o] = Taken(o)]
           \/ qs' = [qs EXCEPT ![o] = [Taken(o) EXCEPT !.rx = Owed(@)]]
    BY <2>1 DEF ReceiveFromISR
  <2> QED BY <2>2, Takes, NotesTx, Writes, Zenon
<1> QED BY <1>1, <1>2, <1>3 DEF QueueHandlers

LEMMA QueueMoves ==
  ASSUME QueueOK, CallsOK, [Next]_vars
  PROVE  Moved
<1>1. CASE UNCHANGED qs
  BY <1>1, WritesNothing
<1>2. CASE QueueNext
  BY <1>2, TasksMove, InterruptsMove DEF QueueNext
<1> QED BY <1>1, <1>2 DEF Next, NotifyNext, vars

\* For every program, every number of queues and tasks, every length: between
\* a queue's calls and interrupts, whoever waits, is woken, gives up or finds
\* it locked, its items move as those of a bounded first-in-first-out queue.
THEOREM FifoOrder == Spec => KeepsOrder
<1> DEFINE IInv == QueueOK /\ CallsOK /\ scene \in Programs
<1>1. Init => IInv /\ Items(Watched) = <<>>
  <2> SUFFICES ASSUME Init PROVE IInv /\ Items(Watched) = <<>>
    OBVIOUS
  <2>1. CallsOK /\ scene \in Programs
    BY NoCallOK DEF Init, SchedInit, CallsOK
  <2>2. Watch = NewQueue(Watched) /\ DOMAIN qs = Queues
    BY SizeOK DEF Init, QueueInit, Watch
  <2>3. NewQueue(Watched).slot \in [0..(Size - 1) -> Content]
    BY DEF NewQueue, Size, Content
  <2>4. [NewQueue(Watched) EXCEPT !.slot = NewQueue(Watched).slot] = NewQueue(Watched)
    BY Zenon DEF NewQueue
  <2>5. CellOK(Watch, Size) /\ Held(Watch, Size) = <<>>
    BY <2>2, <2>3, <2>4, SizeOK, EmptyCell DEF Size
  <2>6. Items(Watched) = Held(Watch, Size)
    BY DEF Items, Held, Ring, Nth, Watch, Size
  <2> QED BY <2>1, <2>2, <2>5, <2>6 DEF QueueOK
<1>2. IInv /\ [Next]_vars =>
        /\ IInv'
        /\ [\/ Queued!PutLast \/ Queued!PutFirst \/ Queued!Overwrite
            \/ Queued!TakeFirst \/ Queued!Clear]_(Items(Watched))
  <2> SUFFICES ASSUME IInv, [Next]_vars
               PROVE  /\ IInv'
                      /\ [\/ Queued!PutLast \/ Queued!PutFirst \/ Queued!Overwrite
                          \/ Queued!TakeFirst \/ Queued!Clear]_(Items(Watched))
    OBVIOUS
  <2>1. Moved
    BY QueueMoves
  <2>2. CallsOK' /\ scene' \in Programs
    BY CallsStep
  <2>3. Items(Watched) = Held(Watch, Size) /\ Items(Watched)' = Held(Watch', Size)
    BY DEF Items, Held, Ring, Nth, Watch, Size
  <2>4. FifoStep(Items(Watched), Items(Watched)', Size)
    BY <2>1, <2>3 DEF Moved
  <2>5. [\/ Queued!PutLast \/ Queued!PutFirst \/ Queued!Overwrite
         \/ Queued!TakeFirst \/ Queued!Clear]_(Items(Watched))
    BY <2>4, Zenon DEF FifoStep, Size, Queued!PutLast, Queued!PutFirst, Queued!Overwrite,
         Queued!TakeFirst, Queued!Clear
  <2> QED BY <2>1, <2>2, <2>5 DEF Moved
<1> QED BY <1>1, <1>2, PTL DEF Spec, KeepsOrder, Queued!FifoSpec

-----------------------------------------------------------------------------
(* The lists.  The kernel's data, field by field, and how the lists agree  *)
(* with it: Good is the half of the invariant that is about the record k.  *)

Lists == EventList \cup {"pending"}
Places == {"none", "ready", "delayed", "overflow", "suspended", "termination"}

\* A record with the fields of SchedInit.
Fields == {"on", "cur", "tick", "ovf", "susp", "pended", "yp", "pendsv", "next", "loop", "sw", "top",
           "ready", "delayed", "overflow", "wait", "at", "ev", "wake", "prio", "base", "evp", "held",
           "ns", "nv", "spent"}
Data(q) == DOMAIN q = Fields /\ q = [f \in Fields |-> q[f]]

SwitchTypes(q) == q.on \in BOOLEAN /\ q.cur \in Task /\ q.susp \in Nat
TimeTypes(q) == q.tick \in Time /\ q.wake \in [Task -> Time] /\ q.next \in Time
PrioTypes(q) == q.prio \in [Task -> Prio] /\ q.base \in [Task -> Prio] /\ q.evp \in [Task -> Prio]
ListTypes(q) ==
  /\ q.top \subseteq Prio /\ q.ready \in [Prio -> [items : Seq(Task), idx : Nat]]
  /\ q.delayed \in Seq(Task) /\ q.overflow \in Seq(Task) /\ q.at \in [Task -> Places]
WaitTypes(q) == q.wait \in [Lists -> Seq(Task)] /\ q.ev \in [Task -> Lists \cup {"none"}]
NoteTypes(q) == q.ns \in [Task -> {"not", "waiting", "received"}]
Shape(q) ==
  /\ Data(q) /\ SwitchTypes(q) /\ TimeTypes(q) /\ PrioTypes(q) /\ ListTypes(q) /\ WaitTypes(q)
  /\ NoteTypes(q)

ReadyAt(q, p) == {t \in Task : q.at[t] = "ready" /\ q.prio[t] = p}
RingOK(r, S) ==
  r \in [items : Seq(Task), idx : Nat] /\ Holds(r.items, S) /\ r.idx <= Len(r.items)
ReadyOK(q) == \A p \in Prio :
  RingOK(q.ready[p], ReadyAt(q, p)) /\ (p \in q.top <=> ReadyAt(q, p) # {})

InOrder(s, wake) == \A i, j \in 1..Len(s) : i < j => wake[s[i]] <= wake[s[j]]
SleepOK(q) ==
  /\ Holds(q.delayed, {t \in Task : q.at[t] = "delayed"}) /\ InOrder(q.delayed, q.wake)
  /\ Holds(q.overflow, {t \in Task : q.at[t] = "overflow"}) /\ InOrder(q.overflow, q.wake)
  /\ \A t \in Task : q.at[t] = "delayed" => q.next <= q.wake[t]

WaitOK(q) == \A l \in Lists : Holds(q.wait[l], {t \in Task : q.ev[t] = l})

\* Nothing is due but in the loop of the tick.
Timely(q) == \A t \in Task :
  /\ q.at[t] = "delayed" /\ q.loop \notin {"due", "owed"} => q.wake[t] > q.tick
  /\ q.at[t] = "overflow" => q.wake[t] < q.tick

Good(q) == Shape(q) /\ ReadyOK(q) /\ SleepOK(q) /\ WaitOK(q) /\ Timely(q)

-----------------------------------------------------------------------------
(* Where a task is in its call, and what that says of its place, of its    *)
(* event item and of the scheduler.  p is pc[t] and l is loc[t].  This is  *)
(* what makes Good inductive: the helpers of tasks.c may be called only    *)
(* for a task that is in the right list, and who calls them knows that     *)
(* from where the task is in its call.                                     *)

InQueue == {"try", "hold", "lock", "check", "test", "inherit", "place", "untx", "unrx", "expired",
            "disinherit"}
PlanOK(p, l) ==
  /\ {"api", "obj", "ticks", "entry", "then", "back", "yields", "yielded"} \subseteq DOMAIN l
  /\ l.ticks \in Time /\ l.entry.tick \in Int /\ l.back = "app" /\ l.yields \in BOOLEAN
  /\ l.then \in {"app", "try", "expired", "slept", "nend"} /\ (l.yields => l.then # "app")
  /\ (p \in InQueue \/ (p \in {"resume", "resumed"} /\ l.then \in {"try", "expired"})) =>
       l.obj \in Queues
  /\ p \in {"delay", "nplace"} => l.yields
  /\ p = "delay" => l.then = "slept"
  /\ p \in {"narm", "nplace"} => l.then = "nend"
  /\ p \in {"delay", "hold", "lock", "check", "test", "inherit", "place", "nhold", "narm", "nplace"} =>
       l.ticks # 0

EventOK(q, t, p) ==
  /\ q.ev[t] \in EventList => q.at[t] \in {"delayed", "overflow", "suspended"}
  /\ q.ev[t] = "pending" =>
       q.at[t] \notin {"none", "termination"} /\ (q.susp # 0 \/ q.loop \in {"drain", "owed"})
  /\ p = "none" => q.at[t] \in {"none", "termination"}
  /\ p = "dead" => q.at[t] = "termination"

NoteOK(q, t, p, l) == q.ns[t] = "waiting" =>
  /\ q.ev[t] = "none"
  /\ \/ p \in {"none", "nplace", "nend"}
     \/ p \in {"resume", "resumed"} /\ l.then = "nend" /\ l.yields

TaskOK(q, t, p, l) == PlanOK(p, l) /\ EventOK(q, t, p) /\ NoteOK(q, t, p, l)

\* The scheduler is suspended by the call, and only by it.
Alone == {"delay", "lock", "check", "test", "inherit", "place", "untx", "unrx", "narm", "nplace"}
Closed(p) == p \in Alone \cup {"resume"}

\* A call that may block runs with the scheduler on.
MayBlock(q, t, p, l) ==
  \/ p \in {"hold", "nhold", "expired"}
  \/ p \in {"try", "nlook"} /\ l.ticks # 0
  \/ p = "resumed" /\ l.then # "app"
  \/ p = "nend" /\ q.ns[t] = "waiting"

\* The running task is ready and in no list of waiters, except between filing
\* itself and the switch it owes.
Here(q, t) == q.at[t] = "ready" /\ q.ev[t] = "none"
Filed(p, l) == p \in {"nplace", "untx", "unrx", "resume"} /\ l.yields
Leaves(q, t, p, l) ==
  /\ q.susp = 0
  /\ \/ q.pendsv \/ p = "dead" \/ (p = "suspend" /\ l.obj = t)
     \/ p = "resumed" /\ l.yields /\ ~l.yielded
Guarded(q, t, p, l) ==
  /\ p \in Alone => q.susp = 1
  /\ p = "resume" => q.susp # 0 /\ (l.then # "app" => q.susp = 1)
  /\ MayBlock(q, t, p, l) => q.susp = 0
CurrentOK(q, t, p, l) ==
  Guarded(q, t, p, l) /\ (q.on => Here(q, t) \/ Filed(p, l) \/ Leaves(q, t, p, l))

BootOK ==
  /\ ~k.on =>
       /\ k.susp = 0 /\ k.loop = "none" /\ k.prio[Idle] = 0
       /\ k.at[Idle] = "none" /\ (k.cur = Idle \/ k.at[k.cur] = "ready")
       /\ \A t \in Task : pc[t] \in {"none", "app"} /\ k.ev[t] = "none" /\ k.at[t] \in {"none", "ready"}
  /\ k.on => k.at[Idle] = "ready" /\ pc[Idle] = "app"

HoldersOK == DOMAIN qs = Queues /\ \A o \in Queues :
  "holder" \in DOMAIN qs[o] /\ qs[o].holder \in Task \cup {NoTask}

Control ==
  /\ DOMAIN pc = Task /\ DOMAIN loc = Task
  /\ \A t \in Task : TaskOK(k, t, pc[t], loc[t]) /\ (t # k.cur => ~Closed(pc[t]))
  /\ CurrentOK(k, k.cur, pc[k.cur], loc[k.cur])
  /\ BootOK /\ HoldersOK /\ scene \in Programs
IInv == Good(k) /\ Control

-----------------------------------------------------------------------------
(* Sequences without repetition: a task is put in, taken out, and the rest *)
(* stays in its order.                                                     *)

LEMMA LeastOf == ASSUME NEW S \in SUBSET Nat, S # {} PROVE \E i \in S : \A j \in S : i <= j
<1>1. \E i \in S : \A j \in S : ~ (<<j, i>> \in OpToRel(<, Nat))
  BY NatLessThanWellFounded, WFMin, Zenon
<1>2. ASSUME NEW i \in Nat, NEW j \in Nat, j < i PROVE <<j, i>> \in OpToRel(<, Nat)
  BY <1>2, Zenon DEF OpToRel
<1>3. \E i \in S : \A j \in S : ~ (j < i)
  BY <1>1, <1>2, Zenon
<1> QED BY <1>3

LEMMA MinIs ==
  ASSUME NEW S \in SUBSET Nat, S # {}
  PROVE  Min(S) \in S /\ \A j \in S : Min(S) <= j
BY LeastOf, Zenon DEF Min

LEMMA Part ==
  ASSUME NEW T, NEW s \in Seq(T), NEW n \in Nat, Len(s) = n,
         NEW i \in 1..(n + 1), NEW m \in Nat, m <= n, m + 1 >= i
  PROVE  /\ SubSeq(s, i, m) \in Seq(T) /\ Len(SubSeq(s, i, m)) = m - i + 1
         /\ \A j \in 1..(m - i + 1) : SubSeq(s, i, m)[j] = s[i + j - 1]
<1>1. \A j \in i..m : s[j] \in T
  BY ElementOfSeq
<1>2. i \in Int /\ m \in Int
  OBVIOUS
<1>3. /\ SubSeq(s, i, m) \in Seq(T)
      /\ Len(SubSeq(s, i, m)) = IF i <= m THEN m - i + 1 ELSE 0
      /\ \A j \in 1..(m - i + 1) : SubSeq(s, i, m)[j] = s[i + j - 1]
  BY <1>1, <1>2, SubSeqProperties
<1> QED BY <1>3

LEMMA InsertAtIs ==
  ASSUME NEW T, NEW s \in Seq(T), NEW t \in T, NEW i \in 1..(Len(s) + 1)
  PROVE  /\ InsertAt(s, i, t) \in Seq(T) /\ Len(InsertAt(s, i, t)) = Len(s) + 1
         /\ \A j \in 1..(i - 1) : InsertAt(s, i, t)[j] = s[j]
         /\ InsertAt(s, i, t)[i] = t
         /\ \A j \in (i + 1)..(Len(s) + 1) : InsertAt(s, i, t)[j] = s[j - 1]
<1> DEFINE a == SubSeq(s, 1, i - 1)
           b == SubSeq(s, i, Len(s))
           c == a \o <<t>>
<1>1. PICK n \in Nat : n = Len(s)
  OBVIOUS
<1>2. a \in Seq(T) /\ Len(a) = i - 1 /\ \A j \in 1..(i - 1) : a[j] = s[j]
  <2>1. i - 1 \in Nat /\ i - 1 <= n /\ (i - 1) + 1 >= 1 /\ 1 \in 1..(n + 1)
    BY <1>1
  <2>2. /\ a \in Seq(T) /\ Len(a) = (i - 1) - 1 + 1
        /\ \A j \in 1..((i - 1) - 1 + 1) : a[j] = s[1 + j - 1]
    BY <1>1, <2>1, Part
  <2> HIDE DEF a
  <2> QED BY <1>1, <2>2
<1>3. b \in Seq(T) /\ Len(b) = n - i + 1 /\ \A j \in 1..(n - i + 1) : b[j] = s[i + j - 1]
  BY <1>1, Part
<1> HIDE DEF a, b
<1>4. <<t>> \in Seq(T) /\ Len(<<t>>) = 1 /\ <<t>>[1] = t
  OBVIOUS
<1>5. PICK m \in Nat : i = m + 1 /\ m <= n
  <2>1. i - 1 \in Nat /\ i = (i - 1) + 1 /\ i - 1 <= n
    BY <1>1
  <2> QED BY <2>1
<1>6. Len(a) = m /\ \A j \in 1..m : a[j] = s[j]
  BY <1>2, <1>5
<1>7. PICK o \in Nat : n = m + o
  <2>1. n - m \in Nat /\ n = m + (n - m)
    BY <1>5
  <2> QED BY <2>1
<1>8. Len(b) = o /\ \A j \in 1..o : b[j] = s[m + j]
  BY <1>3, <1>5, <1>7
<1>9. c \in Seq(T) /\ Len(c) = m + 1 /\ \A j \in 1..m : c[j] = a[j]
  BY <1>2, <1>6
<1>10. c[m + 1] = t
  BY <1>2, <1>6
<1> HIDE DEF c
<1>11. /\ c \o b \in Seq(T) /\ Len(c \o b) = (m + 1) + o
       /\ \A j \in 1..(m + 1) : (c \o b)[j] = c[j]
       /\ \A j \in 1..o : (c \o b)[(m + 1) + j] = b[j]
  <2>1. \A j \in 1..(m + 1) : (c \o b)[j] = c[j]
    BY <1>3, <1>8, <1>9
  <2>2. \A j \in 1..o : (c \o b)[(m + 1) + j] = b[j]
    BY <1>3, <1>8, <1>9, SMTT(30)
  <2>3. c \in Seq(T) /\ b \in Seq(T) /\ Len(c) = m + 1 /\ Len(b) = o
    BY <1>3, <1>8, <1>9
  <2>4. c \o b \in Seq(T) /\ Len(c \o b) = (m + 1) + o
    BY <2>3
  <2> QED BY <2>1, <2>2, <2>4, Zenon
<1>12. ASSUME NEW j \in (i + 1)..(n + 1) PROVE (c \o b)[j] = s[j - 1]
  <2>1. PICK h \in 1..o : j = (m + 1) + h
    <3>1. j - (m + 1) \in 1..o /\ j = (m + 1) + (j - (m + 1))
      BY <1>5, <1>7
    <3> QED BY <3>1
  <2>2. (c \o b)[(m + 1) + h] = b[h]
    BY <1>11
  <2>3. b[h] = s[m + h]
    BY <1>8
  <2>4. m + h = j - 1
    BY <2>1
  <2> QED BY <2>1, <2>2, <2>3, <2>4, Zenon
<1>a. ASSUME NEW j \in 1..(i - 1) PROVE (c \o b)[j] = s[j]
  BY <1>5, <1>6, <1>9, <1>11
<1>b. (c \o b)[i] = t
  BY <1>5, <1>10, <1>11, SMTT(30)
<1>13. Len(c \o b) = n + 1
  BY <1>7, <1>11
<1>14. InsertAt(s, i, t) = c \o b
  BY DEF InsertAt, a, b, c
<1> QED BY <1>1, <1>11, <1>12, <1>13, <1>14, <1>a, <1>b, Zenon

LEMMA RemoveAtIs ==
  ASSUME NEW T, NEW s \in Seq(T), NEW i \in 1..Len(s)
  PROVE  /\ RemoveAt(s, i) \in Seq(T) /\ Len(RemoveAt(s, i)) = Len(s) - 1
         /\ \A j \in 1..(i - 1) : RemoveAt(s, i)[j] = s[j]
         /\ \A j \in i..(Len(s) - 1) : RemoveAt(s, i)[j] = s[j + 1]
<1> DEFINE a == SubSeq(s, 1, i - 1)
           b == SubSeq(s, i + 1, Len(s))
<1>1. PICK n \in Nat : n = Len(s)
  OBVIOUS
<1>2. a \in Seq(T) /\ Len(a) = i - 1 /\ \A j \in 1..(i - 1) : a[j] = s[j]
  <2>1. i - 1 \in Nat /\ i - 1 <= n /\ (i - 1) + 1 >= 1 /\ 1 \in 1..(n + 1)
    BY <1>1
  <2>2. /\ a \in Seq(T) /\ Len(a) = (i - 1) - 1 + 1
        /\ \A j \in 1..((i - 1) - 1 + 1) : a[j] = s[1 + j - 1]
    BY <1>1, <2>1, Part
  <2> HIDE DEF a
  <2> QED BY <1>1, <2>2
<1>3. b \in Seq(T) /\ Len(b) = n - i /\ \A j \in 1..(n - i) : b[j] = s[i + j]
  <2>1. i + 1 \in 1..(n + 1) /\ n + 1 >= i + 1
    BY <1>1
  <2>2. /\ b \in Seq(T) /\ Len(b) = n - (i + 1) + 1
        /\ \A j \in 1..(n - (i + 1) + 1) : b[j] = s[(i + 1) + j - 1]
    BY <1>1, <2>1, Part
  <2> HIDE DEF b
  <2>3. ASSUME NEW j \in 1..(n - i) PROVE b[j] = s[i + j]
    <3>1. j \in 1..(n - (i + 1) + 1) /\ (i + 1) + j - 1 = i + j
      BY <1>1
    <3> QED BY <2>2, <3>1
  <2> QED BY <1>1, <2>2, <2>3
<1> HIDE DEF a, b
<1>4. PICK m \in Nat : i = m + 1 /\ m < n
  <2>1. i - 1 \in Nat /\ i = (i - 1) + 1 /\ i - 1 < n
    BY <1>1
  <2> QED BY <2>1
<1>5. Len(a) = m /\ \A j \in 1..m : a[j] = s[j]
  BY <1>2, <1>4
<1>6. PICK o \in Nat : n = m + 1 + o
  <2>1. n - m - 1 \in Nat /\ n = m + 1 + (n - m - 1)
    BY <1>4
  <2> QED BY <2>1
<1>7. Len(b) = o /\ \A j \in 1..o : b[j] = s[(m + 1) + j]
  <2>1. n - i = o
    BY <1>4, <1>6
  <2> QED BY <1>3, <1>4, <2>1
<1>8. /\ a \o b \in Seq(T) /\ Len(a \o b) = m + o
      /\ \A j \in 1..m : (a \o b)[j] = a[j]
      /\ \A j \in 1..o : (a \o b)[m + j] = b[j]
  <2>1. \A j \in 1..m : (a \o b)[j] = a[j]
    BY <1>2, <1>3, <1>5, <1>7
  <2>2. \A j \in 1..o : (a \o b)[m + j] = b[j]
    BY <1>2, <1>3, <1>5, <1>7, SMTT(30)
  <2>3. a \in Seq(T) /\ b \in Seq(T) /\ Len(a) = m /\ Len(b) = o
    BY <1>2, <1>3, <1>5, <1>7
  <2>4. a \o b \in Seq(T) /\ Len(a \o b) = m + o
    BY <2>3
  <2> QED BY <2>1, <2>2, <2>4, Zenon
<1>9. ASSUME NEW j \in i..(n - 1) PROVE (a \o b)[j] = s[j + 1]
  <2>1. PICK h \in 1..o : j = m + h
    <3>1. j - m \in 1..o /\ j = m + (j - m)
      BY <1>4, <1>6
    <3> QED BY <3>1
  <2>2. (a \o b)[m + h] = b[h]
    BY <1>8
  <2>3. b[h] = s[(m + 1) + h]
    BY <1>7
  <2>4. (m + 1) + h = j + 1
    BY <2>1
  <2> QED BY <2>1, <2>2, <2>3, <2>4, Zenon
<1>a. ASSUME NEW j \in 1..(i - 1) PROVE (a \o b)[j] = s[j]
  BY <1>4, <1>5, <1>8
<1>10. Len(a \o b) = n - 1
  BY <1>6, <1>8
<1>11. RemoveAt(s, i) = a \o b
  BY DEF RemoveAt, a, b
<1> QED BY <1>1, <1>8, <1>9, <1>10, <1>11, <1>a, Zenon

\* The place of t in s, 0 if it is not there.
PlaceOf(s, t) == SelectInSeq(s, LAMBDA u : u = t)

LEMMA PlaceOfIs ==
  ASSUME NEW T, NEW s \in Seq(T), NEW t
  PROVE  /\ PlaceOf(s, t) \in 0..Len(s)
         /\ PlaceOf(s, t) = 0 => \A i \in 1..Len(s) : s[i] # t
         /\ PlaceOf(s, t) # 0 => s[PlaceOf(s, t)] = t
<1> DEFINE I == {i \in 1..Len(s) : s[i] = t}
<1>1. PlaceOf(s, t) = IF I # {} THEN Min(I) ELSE 0
  BY DEF PlaceOf, SelectInSeq
<1>2. I \in SUBSET Nat
  OBVIOUS
<1>3. CASE I = {}
  BY <1>1, <1>3
<1>4. CASE I # {}
  <2>1. Min(I) \in I
    BY <1>2, <1>4, MinIs, Zenon
  <2> QED BY <1>1, <1>4, <2>1
<1> QED BY <1>3, <1>4

\* The first place in s of a key greater than that of t, 0 if there is none.
PlaceFor(s, t, key) == SelectInSeq(s, LAMBDA u : key[u] > key[t])

LEMMA PlaceForIs ==
  ASSUME NEW T, NEW s \in Seq(T), NEW t \in T, NEW key \in [T -> Int]
  PROVE  /\ PlaceFor(s, t, key) \in 0..Len(s)
         /\ PlaceFor(s, t, key) = 0 => \A i \in 1..Len(s) : key[s[i]] <= key[t]
         /\ PlaceFor(s, t, key) # 0 =>
              /\ key[s[PlaceFor(s, t, key)]] > key[t]
              /\ \A i \in 1..(PlaceFor(s, t, key) - 1) : key[s[i]] <= key[t]
<1> DEFINE I == {i \in 1..Len(s) : key[s[i]] > key[t]}
           f == PlaceFor(s, t, key)
<1>1. f = IF I # {} THEN Min(I) ELSE 0
  BY DEF PlaceFor, SelectInSeq
<1>2. I \in SUBSET Nat
  OBVIOUS
<1>3. \A i \in 1..Len(s) : key[s[i]] \in Int /\ key[t] \in Int
  BY ElementOfSeq
<1>4. CASE I = {}
  <2>1. f = 0
    BY <1>1, <1>4
  <2> HIDE DEF f
  <2>2. ASSUME NEW i \in 1..Len(s) PROVE key[s[i]] <= key[t]
    BY <1>3, <1>4
  <2> QED BY <2>1, <2>2 DEF f
<1>5. CASE I # {}
  <2>1. f \in I /\ \A j \in I : f <= j
    BY <1>1, <1>2, <1>5, MinIs, Zenon
  <2> HIDE DEF f
  <2>2. ASSUME NEW i \in 1..(f - 1) PROVE key[s[i]] <= key[t]
    <3>1. i \in 1..Len(s) /\ i \notin I
      BY <2>1
    <3> QED BY <1>3, <3>1
  <2> QED BY <2>1, <2>2 DEF f
<1> QED BY <1>4, <1>5

\* InsertAt and Append of an element that was not there.
LEMMA HoldsInsert ==
  ASSUME NEW T, NEW s \in Seq(T), NEW S, Holds(s, S), NEW t \in T, t \notin S,
         NEW i \in 1..(Len(s) + 1), NEW r \in Seq(T), Len(r) = Len(s) + 1,
         \A j \in 1..(i - 1) : r[j] = s[j], r[i] = t,
         \A j \in (i + 1)..(Len(s) + 1) : r[j] = s[j - 1]
  PROVE  Holds(r, S \cup {t})
<1>1. Len(s) \in Nat /\ DOMAIN s = 1..Len(s) /\ DOMAIN r = 1..(Len(s) + 1)
  OBVIOUS
<1>2. S = {s[j] : j \in 1..Len(s)} /\ \A x, y \in 1..Len(s) : s[x] = s[y] => x = y
  BY <1>1 DEF Holds, Once, ToSet
<1>3. ASSUME NEW x \in {r[j] : j \in 1..(Len(s) + 1)} PROVE x \in S \cup {t}
  <2>1. PICK j \in 1..(Len(s) + 1) : x = r[j]
    BY <1>3
  <2>2. CASE j < i
    <3>1. j \in 1..Len(s) /\ r[j] = s[j]
      BY <1>1, <2>2
    <3> QED BY <1>2, <2>1, <3>1
  <2>3. CASE j > i
    <3>1. j - 1 \in 1..Len(s) /\ r[j] = s[j - 1]
      BY <1>1, <2>3
    <3> QED BY <1>2, <2>1, <3>1
  <2> QED BY <2>1, <2>2, <2>3
<1>4. ASSUME NEW x \in S \cup {t} PROVE x \in {r[j] : j \in 1..(Len(s) + 1)}
  <2>1. CASE x = t
    BY <1>1, <2>1
  <2>2. CASE x \in S
    <3>1. PICK j \in 1..Len(s) : x = s[j]
      BY <1>2, <2>2
    <3>2. CASE j < i
      BY <1>1, <3>1, <3>2
    <3>3. CASE j >= i
      <4>1. j + 1 \in 1..(Len(s) + 1) /\ r[j + 1] = s[j]
        BY <1>1, <3>3
      <4> QED BY <3>1, <4>1, Zenon
    <3> QED BY <1>1, <3>2, <3>3
  <2> QED BY <2>1, <2>2
<1>5. ASSUME NEW x \in 1..(Len(s) + 1), NEW y \in 1..(Len(s) + 1), r[x] = r[y] PROVE x = y
  <2> DEFINE from(z) == IF z < i THEN z ELSE z - 1
  <2>1. ASSUME NEW z \in 1..(Len(s) + 1), z # i
        PROVE  from(z) \in 1..Len(s) /\ r[z] = s[from(z)] /\ r[z] \in S
    <3>1. from(z) \in 1..Len(s) /\ r[z] = s[from(z)]
      BY <1>1, <2>1
    <3> HIDE DEF from
    <3> QED BY <1>2, <3>1
  <2>2. r[i] = t
    BY <1>1
  <2>3. CASE x = i \/ y = i
    BY <1>5, <2>1, <2>2, <2>3
  <2>4. CASE x # i /\ y # i
    <3>1. from(x) = from(y)
      <4> HIDE DEF from
      <4>1. from(x) \in 1..Len(s) /\ from(y) \in 1..Len(s) /\ s[from(x)] = s[from(y)]
        BY <1>5, <2>1, <2>4
      <4> QED BY <1>2, <4>1
    <3> QED BY <1>1, <2>4, <3>1
  <2> QED BY <2>3, <2>4
<1> QED BY <1>1, <1>3, <1>4, <1>5, Zenon DEF Holds, Once, ToSet

LEMMA HoldsAppend ==
  ASSUME NEW T, NEW s \in Seq(T), NEW S, Holds(s, S), NEW t \in T, t \notin S
  PROVE  Holds(Append(s, t), S \cup {t})
<1>1. /\ Append(s, t) \in Seq(T) /\ Len(Append(s, t)) = Len(s) + 1
      /\ Len(s) \in Nat /\ Len(s) + 1 \in 1..(Len(s) + 1)
      /\ \A j \in 1..((Len(s) + 1) - 1) : Append(s, t)[j] = s[j]
      /\ Append(s, t)[Len(s) + 1] = t
      /\ \A j \in ((Len(s) + 1) + 1)..(Len(s) + 1) : Append(s, t)[j] = s[j - 1]
  OBVIOUS
<1> QED BY <1>1, HoldsInsert, Zenon

\* RemoveAt of the place of an element.
LEMMA HoldsRemove ==
  ASSUME NEW T, NEW s \in Seq(T), NEW S, Holds(s, S), NEW i \in 1..Len(s)
  PROVE  Holds(RemoveAt(s, i), S \ {s[i]})
<1> DEFINE r == RemoveAt(s, i)
           from(z) == IF z < i THEN z ELSE z + 1
<1>1. /\ r \in Seq(T) /\ Len(r) = Len(s) - 1
      /\ \A j \in 1..(i - 1) : r[j] = s[j]
      /\ \A j \in i..(Len(s) - 1) : r[j] = s[j + 1]
  BY RemoveAtIs, Zenon
<1> HIDE DEF r
<1>2. Len(s) \in Nat /\ DOMAIN s = 1..Len(s) /\ DOMAIN r = 1..(Len(s) - 1)
  BY <1>1
<1>3. S = {s[j] : j \in 1..Len(s)} /\ \A x, y \in 1..Len(s) : s[x] = s[y] => x = y
  BY <1>2 DEF Holds, Once, ToSet
<1>4. ASSUME NEW z \in 1..(Len(s) - 1)
      PROVE  from(z) \in 1..Len(s) /\ from(z) # i /\ r[z] = s[from(z)]
  BY <1>1, <1>2
<1>5. ASSUME NEW z \in 1..Len(s), z # i PROVE \E y \in 1..(Len(s) - 1) : from(y) = z
  <2>1. CASE z < i
    BY <1>2, <2>1
  <2>2. CASE z > i
    <3>1. z - 1 \in 1..(Len(s) - 1) /\ from(z - 1) = z
      BY <1>2, <2>2
    <3> QED BY <3>1
  <2> QED BY <1>2, <1>5, <2>1, <2>2
<1>6. ASSUME NEW x \in 1..(Len(s) - 1), NEW y \in 1..(Len(s) - 1), from(x) = from(y) PROVE x = y
  BY <1>2, <1>6
<1> HIDE DEF from
<1>7. ASSUME NEW x \in {r[j] : j \in 1..(Len(s) - 1)} PROVE x \in S \ {s[i]}
  <2>1. PICK j \in 1..(Len(s) - 1) : x = r[j]
    BY <1>7
  <2>2. from(j) \in 1..Len(s) /\ from(j) # i /\ x = s[from(j)]
    BY <1>4, <2>1
  <2> QED BY <1>3, <2>2
<1>8. ASSUME NEW x \in S \ {s[i]} PROVE x \in {r[j] : j \in 1..(Len(s) - 1)}
  <2>1. PICK z \in 1..Len(s) : x = s[z]
    BY <1>3
  <2>2. z # i
    BY <1>8, <2>1
  <2>3. PICK y \in 1..(Len(s) - 1) : from(y) = z
    BY <1>5, <2>2
  <2> QED BY <1>4, <2>1, <2>3
<1>9. ASSUME NEW x \in 1..(Len(s) - 1), NEW y \in 1..(Len(s) - 1), r[x] = r[y] PROVE x = y
  BY <1>3, <1>4, <1>6, <1>9
<1> QED BY <1>1, <1>2, <1>7, <1>8, <1>9, Zenon DEF Holds, Once, ToSet, r

LEMMA HoldsNone ==
  ASSUME NEW T, NEW s \in Seq(T), NEW S, Holds(s, S)
  PROVE  s = <<>> <=> S = {}
<1>1. S = {s[i] : i \in 1..Len(s)} /\ Len(s) \in Nat
  BY DEF Holds, ToSet
<1>2. CASE s = <<>>
  <2>1. Len(s) = 0
    BY <1>2
  <2> QED BY <1>1, <1>2, <2>1
<1>3. CASE s # <<>>
  <2>1. Len(s) # 0
    BY <1>3
  <2>2. s[1] \in S
    BY <1>1, <2>1
  <2> QED BY <1>3, <2>2
<1> QED BY <1>2, <1>3

LEMMA InOrderRemove ==
  ASSUME NEW T, NEW s \in Seq(T), NEW key, InOrder(s, key), NEW i \in 1..Len(s)
  PROVE  InOrder(RemoveAt(s, i), key)
<1> DEFINE r == RemoveAt(s, i)
           from(z) == IF z < i THEN z ELSE z + 1
<1>1. /\ Len(r) = Len(s) - 1
      /\ \A j \in 1..(i - 1) : r[j] = s[j]
      /\ \A j \in i..(Len(s) - 1) : r[j] = s[j + 1]
  BY RemoveAtIs
<1> HIDE DEF r
<1>2. Len(s) \in Nat
  OBVIOUS
<1>3. ASSUME NEW x \in 1..Len(r), NEW y \in 1..Len(r), x < y PROVE key[r[x]] <= key[r[y]]
  <2>1. /\ from(x) \in 1..Len(s) /\ from(y) \in 1..Len(s) /\ from(x) < from(y)
        /\ r[x] = s[from(x)] /\ r[y] = s[from(y)]
    BY <1>1, <1>2, <1>3
  <2> HIDE DEF from
  <2> QED BY <2>1 DEF InOrder
<1> QED BY <1>3 DEF InOrder, r

LEMMA RemoveFirstIs ==
  ASSUME NEW T, NEW s \in Seq(T), NEW S, Holds(s, S), NEW t, NEW key
  PROVE  /\ RemoveFirst(s, t) \in Seq(T) /\ Holds(RemoveFirst(s, t), S \ {t})
         /\ InOrder(s, key) => InOrder(RemoveFirst(s, t), key)
<1>1. CASE \E i \in 1..Len(s) : s[i] = t
  <2>1. PlaceOf(s, t) \in 1..Len(s) /\ s[PlaceOf(s, t)] = t
    BY <1>1, PlaceOfIs
  <2>2. RemoveFirst(s, t) = RemoveAt(s, PlaceOf(s, t))
    BY <1>1 DEF RemoveFirst, PlaceOf
  <2>3. Holds(RemoveAt(s, PlaceOf(s, t)), S \ {s[PlaceOf(s, t)]})
    BY <2>1, HoldsRemove
  <2>4. RemoveAt(s, PlaceOf(s, t)) \in Seq(T)
    BY <2>1, RemoveAtIs
  <2>5. InOrder(s, key) => InOrder(RemoveAt(s, PlaceOf(s, t)), key)
    BY <2>1, InOrderRemove
  <2> QED BY <2>1, <2>2, <2>3, <2>4, <2>5, Zenon
<1>2. CASE ~ \E i \in 1..Len(s) : s[i] = t
  <2>1. RemoveFirst(s, t) = s
    BY <1>2 DEF RemoveFirst
  <2>2. t \notin S
    <3>1. DOMAIN s = 1..Len(s)
      OBVIOUS
    <3> QED BY <1>2, <3>1 DEF Holds, ToSet
  <2>3. S \ {t} = S
    BY <2>2
  <2> QED BY <2>1, <2>3, Zenon
<1> QED BY <1>1, <1>2

LEMMA InsertSortedIs ==
  ASSUME NEW T, NEW s \in Seq(T), NEW S, Holds(s, S), NEW t \in T, t \notin S,
         NEW key \in [T -> Int]
  PROVE  /\ InsertSorted(s, t, key) \in Seq(T) /\ Holds(InsertSorted(s, t, key), S \cup {t})
         /\ InOrder(s, key) => InOrder(InsertSorted(s, t, key), key)
<1> DEFINE i == PlaceFor(s, t, key)
           r == InsertSorted(s, t, key)
<1>0. Len(s) \in Nat /\ key[t] \in Int /\ \A j \in 1..Len(s) : s[j] \in T /\ key[s[j]] \in Int
  BY ElementOfSeq
<1>1. r = IF i = 0 THEN Append(s, t) ELSE InsertAt(s, i, t)
  BY DEF InsertSorted, PlaceFor
<1>2. /\ i \in 0..Len(s)
      /\ i = 0 => \A j \in 1..Len(s) : key[s[j]] <= key[t]
      /\ i # 0 => key[s[i]] > key[t] /\ \A j \in 1..(i - 1) : key[s[j]] <= key[t]
  BY PlaceForIs, Zenon
<1> HIDE DEF i, r
<1>6. ASSUME NEW x \in 1..(Len(s) + 1)
      PROVE  /\ InsertAt(s, x, t) \in Seq(T) /\ Len(InsertAt(s, x, t)) = Len(s) + 1
             /\ \A j \in 1..(x - 1) : InsertAt(s, x, t)[j] = s[j]
             /\ InsertAt(s, x, t)[x] = t
             /\ \A j \in (x + 1)..(Len(s) + 1) : InsertAt(s, x, t)[j] = s[j - 1]
  BY InsertAtIs
<1>3. CASE i = 0
  <2>1. r = Append(s, t)
    BY <1>1, <1>3
  <2>2. Append(s, t) \in Seq(T) /\ Holds(Append(s, t), S \cup {t})
    BY HoldsAppend
  <2>3. ASSUME InOrder(s, key), NEW x \in 1..(Len(s) + 1), NEW y \in 1..(Len(s) + 1), x < y
        PROVE  key[Append(s, t)[x]] <= key[Append(s, t)[y]]
    <3>1. x \in 1..Len(s) /\ Append(s, t)[x] = s[x]
      BY <1>0, <2>3
    <3>2. CASE y = Len(s) + 1
      <4>1. Append(s, t)[y] = t
        BY <1>0, <3>2
      <4> QED BY <1>2, <1>3, <3>1, <4>1
    <3>3. CASE y # Len(s) + 1
      <4>1. y \in 1..Len(s) /\ Append(s, t)[y] = s[y]
        BY <1>0, <3>3
      <4> QED BY <2>3, <3>1, <4>1 DEF InOrder
    <3> QED BY <3>2, <3>3
  <2>4. Len(Append(s, t)) = Len(s) + 1
    OBVIOUS
  <2>5. InOrder(s, key) => InOrder(Append(s, t), key)
    BY <2>3, <2>4, Zenon DEF InOrder
  <2> QED BY <2>1, <2>2, <2>5, Zenon DEF r
<1>4. CASE i # 0
  <2>1. r = InsertAt(s, i, t)
    BY <1>1, <1>4
  <2>2. i \in 1..Len(s) /\ i \in 1..(Len(s) + 1)
    BY <1>0, <1>2, <1>4
  <2>3. /\ r \in Seq(T) /\ Len(r) = Len(s) + 1
        /\ \A j \in 1..(i - 1) : r[j] = s[j]
        /\ r[i] = t
        /\ \A j \in (i + 1)..(Len(s) + 1) : r[j] = s[j - 1]
    BY <1>6, <2>1, <2>2, Zenon
  <2>4. Holds(r, S \cup {t})
    BY <2>2, <2>3, HoldsInsert, Zenon
  <2>5. ASSUME InOrder(s, key), NEW x \in 1..(Len(s) + 1), NEW y \in 1..(Len(s) + 1), x < y
        PROVE  key[r[x]] <= key[r[y]]
    <3>1. \A a, b \in 1..Len(s) : a <= b => key[s[a]] <= key[s[b]]
      BY <1>0, <2>5 DEF InOrder
    <3>2. \A a \in 1..(i - 1) : key[s[a]] <= key[t]
      BY <1>2, <1>4
    <3>3. \A a \in i..Len(s) : key[t] <= key[s[a]]
      <4> SUFFICES ASSUME NEW a \in i..Len(s) PROVE key[t] <= key[s[a]]
        OBVIOUS
      <4>1. a \in 1..Len(s) /\ i <= a
        BY <2>2
      <4>2. key[s[i]] <= key[s[a]] /\ key[s[i]] \in Int /\ key[s[a]] \in Int
        BY <1>0, <2>2, <3>1, <4>1
      <4> QED BY <1>0, <1>2, <1>4, <4>2
    <3>4. CASE y < i
      <4>1. x \in 1..(i - 1) /\ y \in 1..(i - 1) /\ x \in 1..Len(s) /\ y \in 1..Len(s) /\ x <= y
        BY <2>2, <2>5, <3>4
      <4> QED BY <2>3, <3>1, <4>1, Zenon
    <3>5. CASE y = i
      <4>1. x \in 1..(i - 1)
        BY <2>2, <2>5, <3>5
      <4> QED BY <2>3, <3>2, <3>5, <4>1, Zenon
    <3>6. CASE y > i
      <4>1. y \in (i + 1)..(Len(s) + 1) /\ y - 1 \in i..Len(s) /\ y - 1 \in 1..Len(s)
        BY <1>0, <2>2, <3>6
      <4>2. r[y] = s[y - 1]
        BY <2>3, <4>1, Zenon
      <4>3. CASE x < i
        <5>1. x \in 1..(i - 1) /\ x \in 1..Len(s) /\ x <= y - 1
          BY <2>2, <2>5, <4>1, <4>3
        <5> QED BY <2>3, <3>1, <4>1, <4>2, <5>1, Zenon
      <4>4. CASE x = i
        BY <2>3, <3>3, <4>1, <4>2, <4>4, Zenon
      <4>5. CASE x > i
        <5>1. x \in (i + 1)..(Len(s) + 1) /\ x - 1 \in 1..Len(s) /\ x - 1 <= y - 1
          BY <1>0, <2>2, <2>5, <4>5
        <5>2. r[x] = s[x - 1]
          BY <2>3, <5>1, Zenon
        <5> QED BY <3>1, <4>1, <4>2, <5>1, <5>2, Zenon
      <4> QED BY <2>2, <4>3, <4>4, <4>5
    <3> QED BY <2>2, <3>4, <3>5, <3>6
  <2>6. InOrder(s, key) => InOrder(r, key)
    BY <2>3, <2>5 DEF InOrder
  <2> QED BY <2>3, <2>4, <2>6 DEF r
<1> QED BY <1>3, <1>4

-----------------------------------------------------------------------------
(* The ring of a priority.                                                 *)

LEMMA RingInsert ==
  ASSUME NEW r, NEW S, RingOK(r, S), NEW t \in Task, t \notin S
  PROVE  RingOK(InsertEnd(r, t), S \cup {t})
<1>1. /\ r.items \in Seq(Task) /\ r.idx \in Nat /\ Holds(r.items, S) /\ r.idx <= Len(r.items)
      /\ r = [items |-> r.items, idx |-> r.idx]
  BY DEF RingOK
<1>2. CASE r.idx = 0
  <2>1. InsertEnd(r, t) = [items |-> Append(r.items, t), idx |-> 0]
    BY <1>1, <1>2, Zenon DEF InsertEnd
  <2>2. /\ Append(r.items, t) \in Seq(Task) /\ Holds(Append(r.items, t), S \cup {t})
        /\ Len(Append(r.items, t)) >= 0
    BY <1>1, HoldsAppend
  <2> QED BY <2>1, <2>2 DEF RingOK
<1>3. CASE r.idx # 0
  <2> DEFINE s == InsertAt(r.items, r.idx, t)
  <2>1. InsertEnd(r, t) = [items |-> s, idx |-> r.idx + 1]
    BY <1>3 DEF InsertEnd
  <2>2. r.idx \in 1..(Len(r.items) + 1)
    BY <1>1, <1>3
  <2>3. /\ s \in Seq(Task) /\ Len(s) = Len(r.items) + 1
        /\ \A j \in 1..(r.idx - 1) : s[j] = r.items[j]
        /\ s[r.idx] = t
        /\ \A j \in (r.idx + 1)..(Len(r.items) + 1) : s[j] = r.items[j - 1]
    BY <1>1, <2>2, InsertAtIs, SMTT(30)
  <2> HIDE DEF s
  <2>4. Holds(s, S \cup {t})
    BY <1>1, <2>2, <2>3, HoldsInsert
  <2>5. r.idx + 1 <= Len(s)
    BY <1>1, <2>3
  <2> QED BY <1>1, <2>1, <2>3, <2>4, <2>5 DEF RingOK
<1> QED BY <1>2, <1>3

LEMMA RingDrop ==
  ASSUME NEW r, NEW S, RingOK(r, S), NEW t
  PROVE  RingOK(Dropped(r, t), S \ {t})
<1> DEFINE i == PlaceOf(r.items, t)
<1>1. /\ r.items \in Seq(Task) /\ r.idx \in Nat /\ Holds(r.items, S) /\ r.idx <= Len(r.items)
  BY DEF RingOK
<1>2. Dropped(r, t) = IF i = 0 THEN r
                      ELSE [items |-> RemoveAt(r.items, i),
                            idx |-> IF i <= r.idx THEN r.idx - 1 ELSE r.idx]
  BY DEF Dropped, PlaceOf
<1>3. /\ i \in 0..Len(r.items)
      /\ i = 0 => \A j \in 1..Len(r.items) : r.items[j] # t
      /\ i # 0 => r.items[i] = t
  BY <1>1, PlaceOfIs
<1> HIDE DEF i
<1>4. CASE i = 0
  <2>1. t \notin S
    <3>1. DOMAIN r.items = 1..Len(r.items)
      BY <1>1
    <3> QED BY <1>1, <1>3, <1>4, <3>1 DEF Holds, ToSet
  <2>2. S \ {t} = S /\ Dropped(r, t) = r
    BY <1>2, <1>4, <2>1
  <2> QED BY <2>2, Zenon
<1>5. CASE i # 0
  <2> DEFINE s == RemoveAt(r.items, i)
             x == IF i <= r.idx THEN r.idx - 1 ELSE r.idx
  <2>1. Dropped(r, t) = [items |-> s, idx |-> x]
    BY <1>2, <1>5
  <2>2. i \in 1..Len(r.items) /\ Len(r.items) \in Nat
    BY <1>1, <1>3, <1>5
  <2>3. s \in Seq(Task) /\ Len(s) = Len(r.items) - 1
    BY <1>1, <2>2, RemoveAtIs
  <2>4. Holds(s, S \ {t})
    BY <1>1, <1>3, <1>5, <2>2, HoldsRemove
  <2>5. x \in Nat /\ x <= Len(r.items) - 1
    BY <1>1, <2>2
  <2> HIDE DEF s, x
  <2> QED BY <2>1, <2>3, <2>4, <2>5 DEF RingOK
<1> QED BY <1>4, <1>5

-----------------------------------------------------------------------------
(* What each helper of the scheduler does to the data, field by field.     *)

Core(q, r) ==
  /\ r.on = q.on /\ r.cur = q.cur /\ r.susp = q.susp /\ r.loop = q.loop /\ r.tick = q.tick
  /\ r.pendsv = q.pendsv /\ r.ns = q.ns
SameTimes(q, r) == r.wake = q.wake /\ r.next = q.next
SamePrios(q, r) == r.prio = q.prio /\ r.base = q.base /\ r.evp = q.evp
SameReady(q, r) == r.ready = q.ready /\ r.top = q.top
SameSleep(q, r) == r.delayed = q.delayed /\ r.overflow = q.overflow
SameWaits(q, r) == r.wait = q.wait /\ r.ev = q.ev

LEMMA UnlistFields ==
  ASSUME NEW q, Data(q), NEW t
  PROVE  LET r == Unlist(q, t)
         IN  /\ Data(r) /\ Core(q, r) /\ SameTimes(q, r) /\ SamePrios(q, r) /\ SameWaits(q, r)
             /\ r.ready = [q.ready EXCEPT ![q.prio[t]] = Dropped(q.ready[q.prio[t]], t)]
             /\ r.top = IF Dropped(q.ready[q.prio[t]], t).items = <<>> THEN q.top \ {q.prio[t]} ELSE q.top
             /\ r.delayed = RemoveFirst(q.delayed, t) /\ r.overflow = RemoveFirst(q.overflow, t)
             /\ r.at = [q.at EXCEPT ![t] = "none"]
BY ZenonT(40) DEF Data, Fields, Unlist, Core, SameTimes, SamePrios, SameWaits

LEMMA AddReadyFields ==
  ASSUME NEW q, Data(q), NEW t
  PROVE  LET r == AddReady(q, t)
         IN  /\ Data(r) /\ Core(q, r) /\ SameTimes(q, r) /\ SamePrios(q, r) /\ SameWaits(q, r)
             /\ SameSleep(q, r)
             /\ r.ready = [q.ready EXCEPT ![q.prio[t]] = InsertEnd(q.ready[q.prio[t]], t)]
             /\ r.top = q.top \cup {q.prio[t]}
             /\ r.at = [q.at EXCEPT ![t] = "ready"]
BY ZenonT(40) DEF Data, Fields, AddReady, Core, SameTimes, SamePrios, SameWaits, SameSleep

LEMMA UnwaitFields ==
  ASSUME NEW q, Data(q), NEW t, q.ev[t] # "none"
  PROVE  LET r == Unwait(q, t)
         IN  /\ Data(r) /\ Core(q, r) /\ SameTimes(q, r) /\ SamePrios(q, r) /\ SameReady(q, r)
             /\ SameSleep(q, r) /\ r.at = q.at
             /\ r.wait = [q.wait EXCEPT ![q.ev[t]] = RemoveFirst(q.wait[q.ev[t]], t)]
             /\ r.ev = [q.ev EXCEPT ![t] = "none"]
BY Zenon DEF Data, Fields, Unwait, Core, SameTimes, SamePrios, SameReady, SameSleep

LEMMA PendFields ==
  ASSUME NEW q, Data(q), NEW t
  PROVE  LET r == Pend(q, t)
         IN  /\ Data(r) /\ Core(q, r) /\ SameTimes(q, r) /\ SamePrios(q, r) /\ SameReady(q, r)
             /\ SameSleep(q, r) /\ r.at = q.at
             /\ r.wait = [q.wait EXCEPT !["pending"] = Append(q.wait["pending"], t)]
             /\ r.ev = [q.ev EXCEPT ![t] = "pending"]
BY Zenon DEF Data, Fields, Pend, Core, SameTimes, SamePrios, SameReady, SameSleep

SameLists(q, r) ==
  /\ SameTimes(q, r) /\ SamePrios(q, r) /\ SameReady(q, r) /\ SameSleep(q, r) /\ r.at = q.at
  /\ r.tick = q.tick

LEMMA ListsSame ==
  ASSUME NEW q, Good(q), NEW r, SameLists(q, r),
         r.loop \notin {"due", "owed"} => q.loop \notin {"due", "owed"}
  PROVE  ReadyOK(r) /\ SleepOK(r) /\ Timely(r)
<1> USE DEF SameLists, SameTimes, SamePrios, SameReady, SameSleep
<1>1. ReadyOK(r)
  BY Zenon DEF Good, ReadyOK, ReadyAt
<1>2. SleepOK(r)
  BY DEF Good, SleepOK
<1>3. Timely(r)
  BY DEF Good, Timely
<1> QED BY <1>1, <1>2, <1>3

LEMMA GoodSame ==
  ASSUME NEW q, Good(q), NEW r, Data(r), SameLists(q, r), SameWaits(q, r), SwitchTypes(r), NoteTypes(r),
         r.loop \notin {"due", "owed"} => q.loop \notin {"due", "owed"}
  PROVE  Good(r)
<1>1. Shape(r)
  BY DEF Good, Shape, TimeTypes, PrioTypes, ListTypes, WaitTypes,
         SameLists, SameTimes, SamePrios, SameReady, SameSleep, SameWaits
<1>2. ReadyOK(r) /\ SleepOK(r) /\ Timely(r)
  BY ListsSame
<1>3. WaitOK(r)
  BY DEF Good, WaitOK, SameWaits
<1> QED BY <1>1, <1>2, <1>3 DEF Good

LEMMA UnlistGood ==
  ASSUME NEW q, Good(q), NEW t \in Task
  PROVE  LET r == Unlist(q, t)
         IN  /\ Good(r) /\ Core(q, r) /\ SameTimes(q, r) /\ SamePrios(q, r) /\ SameWaits(q, r)
             /\ r.at = [q.at EXCEPT ![t] = "none"]
<1> DEFINE r == Unlist(q, t)
           p == q.prio[t]
           d == Dropped(q.ready[p], t)
<1>0. Shape(q) /\ Data(q) /\ p \in Prio
  BY DEF Good, Shape, PrioTypes
<1>1. /\ Data(r) /\ Core(q, r) /\ SameTimes(q, r) /\ SamePrios(q, r) /\ SameWaits(q, r)
      /\ r.ready = [q.ready EXCEPT ![p] = d]
      /\ r.top = IF d.items = <<>> THEN q.top \ {p} ELSE q.top
      /\ r.delayed = RemoveFirst(q.delayed, t) /\ r.overflow = RemoveFirst(q.overflow, t)
      /\ r.at = [q.at EXCEPT ![t] = "none"]
  BY <1>0, UnlistFields, Zenon
<1>2. RingOK(d, ReadyAt(q, p) \ {t})
  BY <1>0, RingDrop DEF Good, ReadyOK
<1>3. d.items = <<>> <=> ReadyAt(q, p) \ {t} = {}
  BY <1>2, HoldsNone DEF RingOK
<1> HIDE DEF r, d
<1>4. \A u \in Task : r.at[u] = IF u = t THEN "none" ELSE q.at[u]
  BY <1>0, <1>1 DEF Shape, ListTypes
<1>5. /\ RemoveFirst(q.delayed, t) \in Seq(Task)
      /\ Holds(RemoveFirst(q.delayed, t), {u \in Task : q.at[u] = "delayed"} \ {t})
      /\ InOrder(RemoveFirst(q.delayed, t), q.wake)
      /\ RemoveFirst(q.overflow, t) \in Seq(Task)
      /\ Holds(RemoveFirst(q.overflow, t), {u \in Task : q.at[u] = "overflow"} \ {t})
      /\ InOrder(RemoveFirst(q.overflow, t), q.wake)
  BY RemoveFirstIs, Zenon DEF Good, Shape, ListTypes, SleepOK
<1>6. Shape(r)
  <2>1. r.ready \in [Prio -> [items : Seq(Task), idx : Nat]]
    BY <1>0, <1>1, <1>2 DEF Shape, ListTypes, RingOK
  <2>2. ListTypes(r)
    BY <1>0, <1>1, <1>5, <2>1 DEF Shape, ListTypes, Places
  <2> QED BY <1>0, <1>1, <2>2
        DEF Shape, Core, SameTimes, SamePrios, SameWaits, SwitchTypes, TimeTypes, PrioTypes, WaitTypes,
            NoteTypes
<1>7. ReadyOK(r)
  <2> SUFFICES ASSUME NEW o \in Prio
               PROVE  RingOK(r.ready[o], ReadyAt(r, o)) /\ (o \in r.top <=> ReadyAt(r, o) # {})
    BY DEF ReadyOK
  <2>1. RingOK(q.ready[o], ReadyAt(q, o)) /\ (o \in q.top <=> ReadyAt(q, o) # {})
    BY DEF Good, ReadyOK
  <2>2. ReadyAt(r, o) = ReadyAt(q, o) \ {t}
    BY <1>1, <1>4 DEF ReadyAt, SamePrios
  <2>3. CASE o = p
    <3>1. r.ready[o] = d
      BY <1>0, <1>1, <2>3 DEF Shape, ListTypes
    <3>2. RingOK(r.ready[o], ReadyAt(r, o))
      BY <1>2, <2>2, <2>3, <3>1, Zenon
    <3>3. o \in r.top <=> ReadyAt(r, o) # {}
      BY <1>1, <1>3, <2>1, <2>2, <2>3
    <3> QED BY <3>2, <3>3
  <2>4. CASE o # p
    <3>1. r.ready[o] = q.ready[o]
      BY <1>0, <1>1, <2>4 DEF Shape, ListTypes
    <3>2. ReadyAt(r, o) = ReadyAt(q, o)
      BY <2>2, <2>4 DEF ReadyAt
    <3>3. o \in r.top <=> o \in q.top
      BY <1>1, <2>4
    <3> QED BY <2>1, <3>1, <3>2, <3>3, Zenon
  <2> QED BY <2>3, <2>4
<1>8. SleepOK(r)
  <2>1. {u \in Task : r.at[u] = "delayed"} = {u \in Task : q.at[u] = "delayed"} \ {t}
    BY <1>4
  <2>2. {u \in Task : r.at[u] = "overflow"} = {u \in Task : q.at[u] = "overflow"} \ {t}
    BY <1>4
  <2>3. \A u \in Task : r.at[u] = "delayed" => r.next <= r.wake[u]
    BY <1>1, <1>4 DEF Good, SleepOK, SameTimes
  <2>4. r.wake = q.wake
    BY <1>1 DEF SameTimes
  <2> QED BY <1>1, <1>5, <2>1, <2>2, <2>3, <2>4, Zenon DEF SleepOK
<1>9. WaitOK(r)
  BY <1>1, ZenonT(40) DEF Good, WaitOK, SameWaits
<1>10. Timely(r)
  BY <1>1, <1>4 DEF Good, Timely, SameTimes, Core
<1> QED BY <1>1, <1>6, <1>7, <1>8, <1>9, <1>10 DEF Good, r

LEMMA UnwaitGood ==
  ASSUME NEW q, Good(q), NEW t \in Task
  PROVE  LET r == Unwait(q, t)
         IN  /\ Good(r) /\ Core(q, r) /\ SameTimes(q, r) /\ SamePrios(q, r) /\ r.at = q.at
             /\ \A u \in Task : r.ev[u] = IF u = t THEN "none" ELSE q.ev[u]
<1> DEFINE r == Unwait(q, t)
<1>0. Shape(q) /\ Data(q)
  BY DEF Good, Shape
<1>1. CASE q.ev[t] = "none"
  <2>1. r = q
    BY <1>1 DEF Unwait
  <2>2. Core(q, q) /\ SameTimes(q, q) /\ SamePrios(q, q)
    BY DEF Core, SameTimes, SamePrios
  <2>3. \A u \in Task : q.ev[u] = IF u = t THEN "none" ELSE q.ev[u]
    BY <1>1
  <2> QED BY <2>1, <2>2, <2>3, Zenon
<1>2. CASE q.ev[t] # "none"
  <2> DEFINE l == q.ev[t]
  <2>1. /\ Data(r) /\ Core(q, r) /\ SameTimes(q, r) /\ SamePrios(q, r) /\ SameReady(q, r)
        /\ SameSleep(q, r) /\ r.at = q.at
        /\ r.wait = [q.wait EXCEPT ![l] = RemoveFirst(q.wait[l], t)]
        /\ r.ev = [q.ev EXCEPT ![t] = "none"]
    BY <1>0, <1>2, UnwaitFields, Zenon
  <2> HIDE DEF r
  <2>2. l \in Lists
    BY <1>0, <1>2 DEF Shape, WaitTypes
  <2>3. RemoveFirst(q.wait[l], t) \in Seq(Task) /\ Holds(RemoveFirst(q.wait[l], t), {u \in Task : q.ev[u] = l} \ {t})
    <3>1. q.wait[l] \in Seq(Task) /\ Holds(q.wait[l], {u \in Task : q.ev[u] = l})
      BY <1>0, <2>2, Zenon DEF Good, Shape, WaitTypes, WaitOK
    <3> QED BY <3>1, RemoveFirstIs, Zenon
  <2>4. \A u \in Task : r.ev[u] = IF u = t THEN "none" ELSE q.ev[u]
    BY <1>0, <2>1 DEF Shape, WaitTypes
  <2>5. WaitTypes(r)
    BY <1>0, <2>1, <2>2, <2>3 DEF Shape, WaitTypes
  <2>6. Shape(r)
    BY <1>0, <2>1, <2>5, Zenon
        DEF Shape, Core, SameTimes, SamePrios, SameReady, SameSleep, SwitchTypes, TimeTypes, PrioTypes, ListTypes,
            NoteTypes
  <2>7. WaitOK(r)
    <3> SUFFICES ASSUME NEW o \in Lists PROVE Holds(r.wait[o], {u \in Task : r.ev[u] = o})
      BY DEF WaitOK
    <3>1. o # "none"
      BY SchedulerAssumption DEF Lists
    <3>2. CASE o = l
      <4>1. {u \in Task : r.ev[u] = o} = {u \in Task : q.ev[u] = l} \ {t}
        BY <2>4, <3>1, <3>2
      <4>2. r.wait[o] = RemoveFirst(q.wait[l], t)
        BY <1>0, <2>1, <3>2 DEF Shape, WaitTypes
      <4> QED BY <2>3, <4>1, <4>2, Zenon
    <3>3. CASE o # l
      <4>1. {u \in Task : r.ev[u] = o} = {u \in Task : q.ev[u] = o}
        BY <2>4, <3>1, <3>3
      <4>2. r.wait[o] = q.wait[o]
        BY <1>0, <2>1, <3>3 DEF Shape, WaitTypes
      <4> QED BY <4>1, <4>2, Zenon DEF Good, WaitOK
    <3> QED BY <3>2, <3>3
  <2>8. ReadyOK(r) /\ SleepOK(r) /\ Timely(r)
    BY <2>1, ListsSame DEF Core, SameLists
  <2> QED BY <2>1, <2>4, <2>6, <2>7, <2>8 DEF Good, r
<1> QED BY <1>1, <1>2

LEMMA PendGood ==
  ASSUME NEW q, Good(q), NEW t \in Task, q.ev[t] = "none"
  PROVE  LET r == Pend(q, t)
         IN  /\ Good(r) /\ Core(q, r) /\ SameTimes(q, r) /\ SamePrios(q, r) /\ r.at = q.at
             /\ \A u \in Task : r.ev[u] = IF u = t THEN "pending" ELSE q.ev[u]
<1> DEFINE r == Pend(q, t)
           l == "pending"
           s == Append(q.wait[l], t)
<1>0. Shape(q) /\ Data(q)
  BY DEF Good, Shape
<1>1. /\ Data(r) /\ Core(q, r) /\ SameTimes(q, r) /\ SamePrios(q, r) /\ SameReady(q, r)
      /\ SameSleep(q, r) /\ r.at = q.at
      /\ r.wait = [q.wait EXCEPT ![l] = s]
      /\ r.ev = [q.ev EXCEPT ![t] = l]
  BY <1>0, PendFields, Zenon
<1>2. l \in Lists /\ "none" # l
  BY DEF Lists
<1>3. s \in Seq(Task) /\ Holds(s, {u \in Task : q.ev[u] = l} \cup {t})
  <2>1. q.wait[l] \in Seq(Task) /\ Holds(q.wait[l], {u \in Task : q.ev[u] = l})
    BY <1>0, <1>2, Zenon DEF Good, Shape, WaitTypes, WaitOK
  <2>2. t \notin {u \in Task : q.ev[u] = l}
    OBVIOUS
  <2> QED BY <2>1, <2>2, HoldsAppend
<1> HIDE DEF r, s
<1>4. \A u \in Task : r.ev[u] = IF u = t THEN l ELSE q.ev[u]
  BY <1>0, <1>1 DEF Shape, WaitTypes
<1>5. WaitTypes(r)
  BY <1>0, <1>1, <1>2, <1>3 DEF Shape, WaitTypes
<1>6. Shape(r)
  BY <1>0, <1>1, <1>5, Zenon
      DEF Shape, Core, SameTimes, SamePrios, SameReady, SameSleep, SwitchTypes, TimeTypes, PrioTypes, ListTypes,
          NoteTypes
<1>7. WaitOK(r)
  <2> SUFFICES ASSUME NEW o \in Lists PROVE Holds(r.wait[o], {u \in Task : r.ev[u] = o})
    BY DEF WaitOK
  <2>1. o # "none"
    BY SchedulerAssumption DEF Lists
  <2>2. CASE o = l
    <3>1. {u \in Task : r.ev[u] = o} = {u \in Task : q.ev[u] = l} \cup {t}
      BY <1>4, <2>2
    <3>2. r.wait[o] = s
      BY <1>0, <1>1, <1>2, <2>2 DEF Shape, WaitTypes
    <3> QED BY <1>3, <3>1, <3>2, Zenon
  <2>3. CASE o # l
    <3>1. {u \in Task : r.ev[u] = o} = {u \in Task : q.ev[u] = o}
      BY <1>4, <2>1, <2>3
    <3>2. r.wait[o] = q.wait[o]
      BY <1>0, <1>1, <2>3 DEF Shape, WaitTypes
    <3> QED BY <3>1, <3>2, Zenon DEF Good, WaitOK
  <2> QED BY <2>2, <2>3
<1>8. ReadyOK(r) /\ SleepOK(r) /\ Timely(r)
  BY <1>1, ListsSame DEF Core, SameLists
<1> QED BY <1>1, <1>4, <1>6, <1>7, <1>8 DEF Good, r

LEMMA AddReadyGood ==
  ASSUME NEW q, Good(q), NEW t \in Task, q.at[t] \notin {"ready", "delayed", "overflow"}
  PROVE  LET r == AddReady(q, t)
         IN  /\ Good(r) /\ Core(q, r) /\ SameTimes(q, r) /\ SamePrios(q, r) /\ SameWaits(q, r)
             /\ r.at = [q.at EXCEPT ![t] = "ready"]
<1> DEFINE r == AddReady(q, t)
           p == q.prio[t]
           d == InsertEnd(q.ready[p], t)
<1>0. Shape(q) /\ Data(q) /\ p \in Prio
  BY DEF Good, Shape, PrioTypes
<1>1. /\ Data(r) /\ Core(q, r) /\ SameTimes(q, r) /\ SamePrios(q, r) /\ SameWaits(q, r) /\ SameSleep(q, r)
      /\ r.ready = [q.ready EXCEPT ![p] = d] /\ r.top = q.top \cup {p}
      /\ r.at = [q.at EXCEPT ![t] = "ready"]
  BY <1>0, AddReadyFields, Zenon
<1>2. RingOK(d, ReadyAt(q, p) \cup {t})
  <2>1. RingOK(q.ready[p], ReadyAt(q, p))
    BY <1>0 DEF Good, ReadyOK
  <2>2. t \notin ReadyAt(q, p)
    BY DEF ReadyAt
  <2> QED BY <2>1, <2>2, RingInsert
<1> HIDE DEF r, d
<1>4. \A u \in Task : r.at[u] = IF u = t THEN "ready" ELSE q.at[u]
  BY <1>0, <1>1 DEF Shape, ListTypes
<1>6. Shape(r)
  <2>1. r.ready \in [Prio -> [items : Seq(Task), idx : Nat]]
    BY <1>0, <1>1, <1>2 DEF Shape, ListTypes, RingOK
  <2>2. ListTypes(r)
    BY <1>0, <1>1, <2>1 DEF Shape, ListTypes, Places, SameSleep
  <2> QED BY <1>0, <1>1, <2>2
        DEF Shape, Core, SameTimes, SamePrios, SameWaits, SwitchTypes, TimeTypes, PrioTypes, WaitTypes,
            NoteTypes
<1>7. ReadyOK(r)
  <2> SUFFICES ASSUME NEW o \in Prio
               PROVE  RingOK(r.ready[o], ReadyAt(r, o)) /\ (o \in r.top <=> ReadyAt(r, o) # {})
    BY DEF ReadyOK
  <2>1. RingOK(q.ready[o], ReadyAt(q, o)) /\ (o \in q.top <=> ReadyAt(q, o) # {})
    BY DEF Good, ReadyOK
  <2>2. CASE o = p
    <3>1. r.ready[o] = d
      BY <1>0, <1>1, <2>2 DEF Shape, ListTypes
    <3>2. ReadyAt(r, o) = ReadyAt(q, o) \cup {t}
      BY <1>1, <1>4, <2>2 DEF ReadyAt, SamePrios
    <3>3. RingOK(r.ready[o], ReadyAt(r, o))
      BY <1>2, <2>2, <3>1, <3>2, Zenon
    <3> QED BY <1>1, <2>2, <3>2, <3>3
  <2>3. CASE o # p
    <3>1. r.ready[o] = q.ready[o]
      BY <1>0, <1>1, <2>3 DEF Shape, ListTypes
    <3>2. ReadyAt(r, o) = ReadyAt(q, o)
      BY <1>1, <1>4, <2>3 DEF ReadyAt, SamePrios
    <3>3. o \in r.top <=> o \in q.top
      BY <1>1, <2>3
    <3> QED BY <2>1, <3>1, <3>2, <3>3, Zenon
  <2> QED BY <2>2, <2>3
<1>8. SleepOK(r)
  <2>1. {u \in Task : r.at[u] = "delayed"} = {u \in Task : q.at[u] = "delayed"}
    BY <1>4
  <2>2. {u \in Task : r.at[u] = "overflow"} = {u \in Task : q.at[u] = "overflow"}
    BY <1>4
  <2>3. \A u \in Task : r.at[u] = "delayed" => r.next <= r.wake[u]
    BY <1>1, <1>4 DEF Good, SleepOK, SameTimes
  <2>4. r.wake = q.wake /\ r.delayed = q.delayed /\ r.overflow = q.overflow
    BY <1>1 DEF SameTimes, SameSleep
  <2> QED BY <2>1, <2>2, <2>3, <2>4, Zenon DEF Good, SleepOK
<1>9. WaitOK(r)
  BY <1>1 DEF Good, WaitOK, SameWaits
<1>10. Timely(r)
  BY <1>1, <1>4 DEF Good, Timely, SameTimes, Core
<1> QED BY <1>1, <1>6, <1>7, <1>8, <1>9, <1>10 DEF Good, r

LEMMA HeadIn ==
  ASSUME NEW T, NEW s \in Seq(T), NEW S, Holds(s, S), s # <<>>
  PROVE  Head(s) \in S /\ Head(s) \in T /\ Head(s) = s[1] /\ 1 \in 1..Len(s)
<1>1. DOMAIN s = 1..Len(s) /\ Len(s) \in Nat /\ Len(s) # 0 /\ Head(s) = s[1]
  OBVIOUS
<1>2. 1 \in 1..Len(s)
  BY <1>1
<1>3. s[1] \in S /\ s[1] \in T
  BY <1>1, <1>2 DEF Holds, ToSet
<1> QED BY <1>1, <1>2, <1>3

\* The head of a list in order is the first to wake.
LEMMA HeadFirst ==
  ASSUME NEW s \in Seq(Task), NEW S, Holds(s, S), NEW wake \in [Task -> Time], InOrder(s, wake), NEW t \in S
  PROVE  s # <<>> /\ wake[Head(s)] <= wake[t]
<1>2. s # <<>>
  BY HoldsNone
<1>3. Head(s) \in Task /\ Head(s) = s[1] /\ 1 \in 1..Len(s)
  BY <1>2, HeadIn
<1>4. PICK i \in 1..Len(s) : t = s[i]
  <2>1. DOMAIN s = 1..Len(s)
    OBVIOUS
  <2> QED BY <2>1 DEF Holds, ToSet
<1>5. wake[s[1]] \in Time /\ wake[t] \in Time
  <2>1. s[i] \in Task
    OBVIOUS
  <2> QED BY <1>3, <1>4, <2>1
<1>6. CASE i = 1
  <2>1. wake[s[1]] <= wake[t]
    BY <1>4, <1>5, <1>6 DEF Time
  <2> QED BY <1>2, <1>3, <2>1
<1>7. CASE i # 1
  <2>1. 1 < i
    BY <1>4, <1>7
  <2>2. wake[s[1]] <= wake[t]
    BY <1>3, <1>4, <2>1 DEF InOrder
  <2> QED BY <1>2, <1>3, <2>2
<1> QED BY <1>6, <1>7

LEMMA HeadLeast ==
  ASSUME NEW q, Good(q), NEW t \in Task, q.at[t] = "delayed"
  PROVE  q.delayed # <<>> /\ q.wake[Head(q.delayed)] <= q.wake[t]
<1> DEFINE S == {u \in Task : q.at[u] = "delayed"}
<1>1. q.delayed \in Seq(Task) /\ Holds(q.delayed, S) /\ InOrder(q.delayed, q.wake) /\ q.wake \in [Task -> Time]
      /\ t \in S
  BY DEF Good, Shape, ListTypes, TimeTypes, SleepOK
<1> HIDE DEF S
<1> QED BY <1>1, HeadFirst

LEMMA HeadDelayed ==
  ASSUME NEW q, Good(q), q.delayed # <<>>
  PROVE  Head(q.delayed) \in Task /\ q.at[Head(q.delayed)] = "delayed"
<1>1. q.delayed \in Seq(Task) /\ Holds(q.delayed, {u \in Task : q.at[u] = "delayed"})
  BY DEF Good, Shape, ListTypes, SleepOK
<1> QED BY <1>1, HeadIn

LEMMA HeadWaits ==
  ASSUME NEW q, Good(q), NEW l \in Lists, q.wait[l] # <<>>
  PROVE  Head(q.wait[l]) \in Task /\ q.ev[Head(q.wait[l])] = l
<1>1. q.wait[l] \in Seq(Task) /\ Holds(q.wait[l], {u \in Task : q.ev[u] = l})
  BY Zenon DEF Good, Shape, WaitTypes, WaitOK
<1> QED BY <1>1, HeadIn

LEMMA ResetNextGood ==
  ASSUME NEW q, Good(q)
  PROVE  LET r == ResetNext(q)
         IN  Good(r) /\ Core(q, r) /\ r.wake = q.wake /\ SamePrios(q, r) /\ SameWaits(q, r) /\ r.at = q.at
<1> DEFINE r == ResetNext(q)
           n == IF q.delayed = <<>> THEN MaxTick ELSE q.wake[Head(q.delayed)]
<1>0. Shape(q) /\ Data(q)
  BY DEF Good, Shape
<1>1. /\ Data(r) /\ Core(q, r) /\ r.wake = q.wake /\ SamePrios(q, r) /\ SameWaits(q, r) /\ r.at = q.at
      /\ SameReady(q, r) /\ SameSleep(q, r) /\ r.next = n
  BY <1>0 DEF Data, Fields, ResetNext, Core, SamePrios, SameWaits, SameReady, SameSleep
<1>2. n \in Time
  <2>1. MaxTick \in Time
    BY SchedulerAssumption DEF Time
  <2> QED BY <1>0, <2>1, HeadDelayed DEF Shape, TimeTypes
<1>3. \A t \in Task : q.at[t] = "delayed" => n <= q.wake[t]
  BY HeadLeast
<1> HIDE DEF r, n
<1>4. Shape(r)
  BY <1>0, <1>1, <1>2, Zenon
        DEF Shape, Core, SamePrios, SameWaits, SameReady, SameSleep, SwitchTypes, TimeTypes, PrioTypes, ListTypes,
            WaitTypes, NoteTypes
<1>5. ReadyOK(r)
  BY <1>1, Zenon DEF Good, ReadyOK, ReadyAt, SamePrios, SameReady
<1>6. SleepOK(r)
  BY <1>1, <1>3 DEF Good, SleepOK, SameSleep
<1>7. WaitOK(r)
  BY <1>1, Zenon DEF Good, WaitOK, SameWaits
<1>8. Timely(r)
  BY <1>1 DEF Good, Timely, Core
<1> QED BY <1>1, <1>4, <1>5, <1>6, <1>7, <1>8 DEF Good, r

-----------------------------------------------------------------------------
(* Priorities.                                                             *)

SameTasks(q, r) == Core(q, r) /\ SameTimes(q, r) /\ \A u \in Task : r.at[u] = q.at[u] /\ r.ev[u] = q.ev[u]

\* The priority of a task that is not in a ready list.
LEMMA PrioGood ==
  ASSUME NEW q, Good(q), NEW t \in Task, q.at[t] # "ready", NEW p \in Prio
  PROVE  LET r == [q EXCEPT !.prio[t] = p]
         IN  /\ Good(r) /\ SameTasks(q, r) /\ r.at = q.at
             /\ r.prio = [q.prio EXCEPT ![t] = p] /\ r.base = q.base /\ r.evp = q.evp
<1> DEFINE r == [q EXCEPT !.prio[t] = p]
<1>0. Shape(q) /\ Data(q)
  BY DEF Good, Shape
<1>1. /\ Data(r) /\ Core(q, r) /\ SameTimes(q, r) /\ SameWaits(q, r) /\ SameReady(q, r) /\ SameSleep(q, r)
      /\ r.at = q.at /\ r.prio = [q.prio EXCEPT ![t] = p] /\ r.base = q.base /\ r.evp = q.evp
  BY <1>0 DEF Data, Fields, Core, SameTimes, SameWaits, SameReady, SameSleep
<1> HIDE DEF r
<1>2. Shape(r)
  BY <1>0, <1>1, ZenonT(40)
        DEF Shape, Core, SameTimes, SameWaits, SameReady, SameSleep, SwitchTypes, TimeTypes, PrioTypes, ListTypes,
            WaitTypes, NoteTypes
<1>3. ReadyOK(r)
  <2>1. \A u \in Task : u # t => r.prio[u] = q.prio[u]
    BY <1>0, <1>1 DEF Shape, PrioTypes
  <2>2. \A o \in Prio : ReadyAt(r, o) = ReadyAt(q, o)
    BY <1>1, <2>1 DEF ReadyAt
  <2> QED BY <1>1, <2>2 DEF Good, ReadyOK, SameReady
<1>4. SleepOK(r)
  BY <1>1 DEF Good, SleepOK, SameSleep, SameTimes
<1>5. WaitOK(r)
  BY <1>1, Zenon DEF Good, WaitOK, SameWaits
<1>6. Timely(r)
  BY <1>1 DEF Good, Timely, Core, SameTimes
<1> QED BY <1>1, <1>2, <1>3, <1>4, <1>5, <1>6 DEF Good, SameTasks, SameWaits, r

LEMMA ReprioGood ==
  ASSUME NEW q, Good(q), NEW t \in Task, NEW p \in Prio
  PROVE  LET r == Reprio(q, t, p)
         IN  /\ Good(r) /\ SameTasks(q, r)
             /\ r.prio = [q.prio EXCEPT ![t] = p] /\ r.base = q.base /\ r.evp = q.evp
<1> DEFINE u == Unlist(q, t)
           v == [u EXCEPT !.prio[t] = p]
           w == AddReady(v, t)
           r == Reprio(q, t, p)
<1>1. CASE q.at[t] = "ready"
  <2>1. /\ Good(u) /\ Core(q, u) /\ SameTimes(q, u) /\ SamePrios(q, u) /\ SameWaits(q, u)
        /\ u.at = [q.at EXCEPT ![t] = "none"]
    BY UnlistGood, Zenon
  <2>2. q.at \in [Task -> Places]
    BY DEF Good, Shape, ListTypes
  <2> HIDE DEF u
  <2>3. u.at[t] = "none"
    BY <2>1, <2>2
  <2>4. /\ Good(v) /\ SameTasks(u, v) /\ v.at = u.at
        /\ v.prio = [u.prio EXCEPT ![t] = p] /\ v.base = u.base /\ v.evp = u.evp
    BY <2>1, <2>3, PrioGood, Zenon
  <2> HIDE DEF v
  <2>5. /\ Good(w) /\ Core(v, w) /\ SameTimes(v, w) /\ SamePrios(v, w) /\ SameWaits(v, w)
        /\ w.at = [v.at EXCEPT ![t] = "ready"]
    <3>1. v.at[t] \notin {"ready", "delayed", "overflow"}
      BY <2>3, <2>4
    <3> QED BY <2>4, <3>1, AddReadyGood, Zenon
  <2> HIDE DEF w
  <2>6. \A x \in Task : w.at[x] = q.at[x]
    BY <1>1, <2>1, <2>2, <2>4, <2>5
  <2>7. SameTasks(q, w)
    BY <2>1, <2>4, <2>5, <2>6 DEF SameTasks, Core, SameTimes, SameWaits
  <2>8. r = w
    BY <1>1 DEF Reprio, r, w, v, u
  <2>9. w.prio = [q.prio EXCEPT ![t] = p] /\ w.base = q.base /\ w.evp = q.evp
    BY <2>1, <2>4, <2>5 DEF SamePrios
  <2> QED BY <2>5, <2>7, <2>8, <2>9
<1>2. CASE q.at[t] # "ready"
  <2>1. r = [q EXCEPT !.prio[t] = p]
    BY <1>2 DEF Reprio
  <2> QED BY <1>2, <2>1, PrioGood
<1> QED BY <1>1, <1>2

-----------------------------------------------------------------------------
(* What the calls of the other tasks rely on.                              *)

Sound(q) == Good(q) /\ \A u \in Task : TaskOK(q, u, pc[u], loc[u])

Steady(q, r) ==
  /\ r.on = q.on /\ r.cur = q.cur /\ r.susp = q.susp /\ r.loop = q.loop
  /\ q.pendsv => r.pendsv
  /\ \A u \in Task : r.ns[u] = "waiting" => q.ns[u] = "waiting"

Follows(q, r) ==
  /\ Steady(q, r)
  /\ \A u \in Task : q.at[u] = "ready" => r.at[u] = "ready"
  /\ Here(q, q.cur) => Here(r, q.cur) \/ Filed(pc[q.cur], loc[q.cur])

\* The same with the scheduler suspended or resumed.
Trails(q, r) ==
  /\ r.on = q.on /\ r.cur = q.cur /\ r.loop = q.loop
  /\ q.pendsv => r.pendsv
  /\ \A u \in Task : r.ns[u] = "waiting" => q.ns[u] = "waiting"
  /\ \A u \in Task : q.at[u] = "ready" => r.at[u] = "ready"
  /\ Here(q, q.cur) => Here(r, q.cur) \/ Filed(pc[q.cur], loc[q.cur])

LEMMA FollowsTrails == ASSUME NEW q, NEW r, Follows(q, r) PROVE Trails(q, r) /\ r.susp = q.susp
BY DEF Follows, Trails, Steady

LEMMA CoreSteady == ASSUME NEW q, NEW r, Core(q, r) PROVE Steady(q, r)
BY DEF Core, Steady

LEMMA FollowsItself == ASSUME NEW q PROVE Follows(q, q)
BY DEF Follows, Steady

LEMMA FollowsTwice ==
  ASSUME NEW q, NEW r, NEW s, Follows(q, r), Follows(r, s)
  PROVE  Follows(q, s)
<1>1. Steady(q, s)
  BY DEF Follows, Steady
<1>2. r.cur = q.cur
  BY DEF Follows, Steady
<1> QED BY <1>1, <1>2 DEF Follows

\* Nobody moves.
LEMMA Rests ==
  ASSUME NEW q, Sound(q), NEW r, Good(r), Steady(q, r),
         \A u \in Task : r.at[u] = q.at[u] /\ r.ev[u] = q.ev[u]
  PROVE  Sound(r) /\ Follows(q, r)
<1>1. q.cur \in Task
  BY DEF Sound, Good, Shape, SwitchTypes
<1>2. Follows(q, r)
  BY <1>1 DEF Follows, Here
<1>3. ASSUME NEW u \in Task PROVE TaskOK(r, u, pc[u], loc[u])
  <2>1. TaskOK(q, u, pc[u], loc[u])
    BY DEF Sound
  <2>2. EventOK(r, u, pc[u])
    BY <2>1 DEF TaskOK, EventOK, Steady
  <2>3. NoteOK(r, u, pc[u], loc[u])
    BY <2>1 DEF TaskOK, NoteOK, Steady
  <2> QED BY <2>1, <2>2, <2>3 DEF TaskOK
<1> QED BY <1>2, <1>3 DEF Sound

\* One task becomes ready.
LEMMA Awakes ==
  ASSUME NEW q, Sound(q), NEW r, Good(r), Steady(q, r), NEW t \in Task,
         q.at[t] \notin {"none", "termination"}, r.at[t] = "ready", r.ev[t] = "none",
         \A u \in Task : u # t => r.at[u] = q.at[u] /\ r.ev[u] = q.ev[u]
  PROVE  Sound(r) /\ Follows(q, r)
<1>1. q.cur \in Task
  BY DEF Sound, Good, Shape, SwitchTypes
<1>2. Follows(q, r)
  BY <1>1 DEF Follows, Here
<1>3. ASSUME NEW u \in Task PROVE TaskOK(r, u, pc[u], loc[u])
  <2>1. TaskOK(q, u, pc[u], loc[u])
    BY DEF Sound
  <2>2. EventOK(r, u, pc[u])
    <3>1. CASE u = t
      <4>1. r.ev[u] \notin EventList /\ r.ev[u] # "pending"
        BY <3>1, SchedulerAssumption
      <4> QED BY <2>1, <3>1, <4>1 DEF TaskOK, EventOK
    <3>2. CASE u # t
      BY <2>1, <3>2 DEF TaskOK, EventOK, Steady
    <3> QED BY <3>1, <3>2
  <2>3. NoteOK(r, u, pc[u], loc[u])
    BY <2>1 DEF TaskOK, NoteOK, Steady
  <2> QED BY <2>1, <2>2, <2>3 DEF TaskOK
<1> QED BY <1>2, <1>3 DEF Sound

\* One task is put in the pending list.
LEMMA Pends ==
  ASSUME NEW q, Sound(q), NEW r, Good(r), Steady(q, r), NEW t \in Task,
         q.at[t] \notin {"none", "termination"}, q.susp # 0, r.ns[t] # "waiting",
         Here(q, t) /\ t = q.cur => Filed(pc[t], loc[t]),
         \A u \in Task : r.at[u] = q.at[u] /\ r.ev[u] = IF u = t THEN "pending" ELSE q.ev[u]
  PROVE  Sound(r) /\ Follows(q, r)
<1>1. q.cur \in Task /\ "pending" \notin EventList
  BY SchedulerAssumption DEF Sound, Good, Shape, SwitchTypes
<1>2. Follows(q, r)
  BY <1>1 DEF Follows, Here
<1>3. ASSUME NEW u \in Task PROVE TaskOK(r, u, pc[u], loc[u])
  <2>1. TaskOK(q, u, pc[u], loc[u])
    BY DEF Sound
  <2>2. EventOK(r, u, pc[u])
    BY <1>1, <2>1 DEF TaskOK, EventOK, Steady
  <2>3. NoteOK(r, u, pc[u], loc[u])
    BY <2>1 DEF TaskOK, NoteOK, Steady
  <2> QED BY <2>1, <2>2, <2>3 DEF TaskOK
<1> QED BY <1>2, <1>3 DEF Sound

-----------------------------------------------------------------------------
(* The helpers that move nobody.                                           *)

LEMMA FlagsRest ==
  ASSUME NEW q, Sound(q), NEW r, Data(r), SameLists(q, r), SameWaits(q, r), Steady(q, r), r.ns = q.ns
  PROVE  Sound(r) /\ Follows(q, r)
<1>1. SwitchTypes(r) /\ NoteTypes(r) /\ (r.loop = q.loop)
  BY DEF Sound, Good, Shape, SwitchTypes, NoteTypes, Steady
<1>2. Good(r)
  BY <1>1, GoodSame DEF Sound
<1>3. \A u \in Task : r.at[u] = q.at[u] /\ r.ev[u] = q.ev[u]
  BY DEF SameLists, SameWaits
<1> QED BY <1>2, <1>3, Rests

LEMMA YieldRests ==
  ASSUME NEW q, Sound(q)
  PROVE  LET r == Yield(q) IN Sound(r) /\ Follows(q, r) /\ r.pendsv
<1> DEFINE r == Yield(q)
<1>1. Data(q)
  BY DEF Sound, Good, Shape
<1>2. /\ Data(r) /\ SameLists(q, r) /\ SameWaits(q, r) /\ Steady(q, r) /\ r.ns = q.ns /\ r.pendsv
  BY <1>1, Zenon
      DEF Data, Fields, Yield, SameLists, SameTimes, SamePrios, SameReady, SameSleep, SameWaits, Steady
<1> QED BY <1>2, FlagsRest

LEMMA OweRests ==
  ASSUME NEW q, Sound(q), NEW t
  PROVE  LET r == Owe(q, t) IN Sound(r) /\ Follows(q, r) /\ Core(q, r) /\ SameLists(q, r) /\ SameWaits(q, r)
<1> DEFINE r == Owe(q, t)
           y == [q EXCEPT !.yp = TRUE]
<1>1. Data(q)
  BY DEF Sound, Good, Shape
<1>2. Data(y) /\ SameLists(q, y) /\ SameWaits(q, y) /\ Core(q, y)
  BY <1>1, Zenon DEF Data, Fields, SameLists, SameTimes, SamePrios, SameReady, SameSleep, SameWaits, Core
<1> HIDE DEF y
<1>3. Data(q) /\ SameLists(q, q) /\ SameWaits(q, q) /\ Core(q, q)
  BY <1>1 DEF SameLists, SameTimes, SamePrios, SameReady, SameSleep, SameWaits, Core
<1>4. r = y \/ r = q
  BY DEF Owe, y
<1>5. Data(r) /\ SameLists(q, r) /\ SameWaits(q, r) /\ Core(q, r)
  BY <1>2, <1>3, <1>4, Zenon
<1> HIDE DEF r
<1>6. Steady(q, r) /\ r.ns = q.ns
  BY <1>5 DEF Core, Steady
<1> QED BY <1>5, <1>6, FlagsRest DEF r

LEMMA YieldsToRests ==
  ASSUME NEW q, Sound(q), NEW t
  PROVE  LET r == YieldsTo(q, t) IN Sound(r) /\ Follows(q, r)
<1>1. CASE q.prio[t] > q.prio[q.cur]
  <2>1. YieldsTo(q, t) = Yield(q)
    BY <1>1 DEF YieldsTo
  <2> QED BY <2>1, YieldRests
<1>2. CASE ~(q.prio[t] > q.prio[q.cur])
  <2>1. YieldsTo(q, t) = q
    BY <1>2 DEF YieldsTo
  <2>2. Follows(q, q)
    BY FollowsItself
  <2> QED BY <2>1, <2>2
<1> QED BY <1>1, <1>2

\* A value of the event item.
LEMMA ValueRests ==
  ASSUME NEW q, Sound(q), NEW t \in Task, NEW p \in Prio
  PROVE  LET r == [q EXCEPT !.evp[t] = p] IN Sound(r) /\ Follows(q, r) /\ r.prio = q.prio /\ r.base = q.base
<1> DEFINE r == [q EXCEPT !.evp[t] = p]
<1>0. Shape(q) /\ Data(q)
  BY DEF Sound, Good, Shape
<1>1. /\ Data(r) /\ SameTimes(q, r) /\ SameReady(q, r) /\ SameSleep(q, r) /\ SameWaits(q, r) /\ Core(q, r)
      /\ r.at = q.at /\ r.prio = q.prio /\ r.base = q.base /\ r.evp = [q.evp EXCEPT ![t] = p]
  BY <1>0 DEF Data, Fields, SameTimes, SameReady, SameSleep, SameWaits, Core
<1> HIDE DEF r
<1>2. Shape(r)
  <2>1. PrioTypes(r)
    BY <1>0, <1>1 DEF Shape, PrioTypes
  <2> QED BY <1>0, <1>1, <2>1
        DEF Shape, Core, SameTimes, SameWaits, SameReady, SameSleep, SwitchTypes, TimeTypes, ListTypes,
            WaitTypes, NoteTypes
<1>3. ReadyOK(r)
  <2>1. \A o \in Prio : ReadyAt(r, o) = ReadyAt(q, o)
    BY <1>1 DEF ReadyAt
  <2> QED BY <1>1, <2>1 DEF Sound, Good, ReadyOK, SameReady
<1>4. SleepOK(r)
  BY <1>1 DEF Sound, Good, SleepOK, SameSleep, SameTimes
<1>5. WaitOK(r)
  BY <1>1 DEF Sound, Good, WaitOK, SameWaits
<1>6. Timely(r)
  BY <1>1 DEF Sound, Good, Timely, Core, SameTimes
<1>7. Good(r)
  BY <1>2, <1>3, <1>4, <1>5, <1>6 DEF Good
<1>8. \A u \in Task : r.at[u] = q.at[u] /\ r.ev[u] = q.ev[u]
  BY <1>1 DEF SameWaits
<1>9. Steady(q, r)
  BY <1>1, CoreSteady
<1> QED BY <1>1, <1>7, <1>8, <1>9, Rests, Zenon DEF r

LEMMA RevalueRests ==
  ASSUME NEW q, Sound(q), NEW t \in Task, NEW p \in Prio
  PROVE  LET r == Revalue(q, t, p) IN Sound(r) /\ Follows(q, r) /\ r.prio = q.prio /\ r.base = q.base
<1> DEFINE v == [q EXCEPT !.evp[t] = p]
<1>1. Sound(q) /\ Follows(q, q) /\ q.prio = q.prio /\ q.base = q.base
  BY FollowsItself
<1>2. Sound(v) /\ Follows(q, v) /\ v.prio = q.prio /\ v.base = q.base
  BY ValueRests
<1>3. Revalue(q, t, p) = q \/ Revalue(q, t, p) = v
  BY DEF Revalue
<1> HIDE DEF v
<1> QED BY <1>1, <1>2, <1>3, Zenon

LEMMA ReprioRests ==
  ASSUME NEW q, Sound(q), NEW t \in Task, NEW p \in Prio
  PROVE  LET r == Reprio(q, t, p)
         IN  Sound(r) /\ Follows(q, r) /\ r.prio = [q.prio EXCEPT ![t] = p] /\ r.base = q.base
<1> DEFINE r == Reprio(q, t, p)
<1>1. Good(r) /\ SameTasks(q, r) /\ r.prio = [q.prio EXCEPT ![t] = p] /\ r.base = q.base
  BY ReprioGood DEF Sound
<1> HIDE DEF r
<1>2. Steady(q, r) /\ \A u \in Task : r.at[u] = q.at[u] /\ r.ev[u] = q.ev[u]
  BY <1>1, CoreSteady DEF SameTasks
<1> QED BY <1>1, <1>2, Rests DEF r

-----------------------------------------------------------------------------
(* Who is woken, and by what.                                              *)

LEMMA CoreTwice == ASSUME NEW q, NEW r, NEW s, Core(q, r), Core(r, s) PROVE Core(q, s)
BY DEF Core

LEMMA ReadyAgain ==
  ASSUME NEW q, Good(q), NEW t \in Task
  PROVE  LET r == AddReady(Unlist(q, t), t)
         IN  /\ Good(r) /\ Core(q, r) /\ SameTimes(q, r) /\ SamePrios(q, r) /\ SameWaits(q, r)
             /\ r.at = [q.at EXCEPT ![t] = "ready"]
<1> DEFINE u == Unlist(q, t)
           r == AddReady(u, t)
<1>1. /\ Good(u) /\ Core(q, u) /\ SameTimes(q, u) /\ SamePrios(q, u) /\ SameWaits(q, u)
      /\ u.at = [q.at EXCEPT ![t] = "none"]
  BY UnlistGood, Zenon
<1>2. q.at \in [Task -> Places]
  BY DEF Good, Shape, ListTypes
<1> HIDE DEF u
<1>3. u.at[t] \notin {"ready", "delayed", "overflow"}
  BY <1>1, <1>2
<1>4. /\ Good(r) /\ Core(u, r) /\ SameTimes(u, r) /\ SamePrios(u, r) /\ SameWaits(u, r)
      /\ r.at = [u.at EXCEPT ![t] = "ready"]
  BY <1>1, <1>3, AddReadyGood, Zenon
<1> HIDE DEF r
<1>5. r.at = [q.at EXCEPT ![t] = "ready"]
  BY <1>1, <1>2, <1>4
<1>6. Core(q, r)
  BY <1>1, <1>4, CoreTwice
<1> QED BY <1>1, <1>4, <1>5, <1>6 DEF SameTimes, SamePrios, SameWaits, r, u

\* A task that waits for no event is made ready.
LEMMA ReadyAwakes ==
  ASSUME NEW q, Sound(q), NEW t \in Task, q.at[t] \notin {"none", "termination"}, q.ev[t] = "none"
  PROVE  LET r == AddReady(Unlist(q, t), t) IN Sound(r) /\ Follows(q, r)
<1> DEFINE r == AddReady(Unlist(q, t), t)
<1>1. Good(r) /\ Core(q, r) /\ SameWaits(q, r) /\ r.at = [q.at EXCEPT ![t] = "ready"]
  BY ReadyAgain, Zenon DEF Sound
<1>2. q.at \in [Task -> Places]
  BY DEF Sound, Good, Shape, ListTypes
<1> HIDE DEF r
<1>3. /\ r.at[t] = "ready" /\ r.ev[t] = "none"
      /\ \A u \in Task : u # t => r.at[u] = q.at[u] /\ r.ev[u] = q.ev[u]
  BY <1>1, <1>2 DEF SameWaits
<1> QED BY <1>1, <1>3, CoreSteady, Awakes, Zenon DEF r

LEMMA PendPends ==
  ASSUME NEW q, Sound(q), NEW t \in Task, q.at[t] \notin {"none", "termination"}, q.ev[t] = "none",
         q.susp # 0, q.ns[t] # "waiting", Here(q, t) /\ t = q.cur => Filed(pc[t], loc[t])
  PROVE  LET r == Pend(q, t) IN Sound(r) /\ Follows(q, r)
<1> DEFINE r == Pend(q, t)
<1>1. /\ Good(r) /\ Core(q, r) /\ r.at = q.at
      /\ \A u \in Task : r.ev[u] = IF u = t THEN "pending" ELSE q.ev[u]
  BY PendGood DEF Sound
<1> HIDE DEF r
<1>2. r.ns[t] # "waiting" /\ \A u \in Task : r.at[u] = q.at[u]
  BY <1>1 DEF Core
<1> QED BY <1>1, <1>2, CoreSteady, Pends DEF r

LEMMA RemoveFromEventListSound ==
  ASSUME NEW q, Sound(q), NEW l \in EventList, q.wait[l] # <<>>
  PROVE  LET r == RemoveFromEventList(q, l) IN Sound(r) /\ Follows(q, r)
<1> DEFINE t == Woken(q, l)
           u == Unwait(q, t)
           a == AddReady(Unlist(u, t), t)
           b == Pend(u, t)
           v == IF q.susp = 0 THEN a ELSE b
<1>1. t \in Task /\ q.ev[t] = l
  <2>1. l \in Lists
    BY DEF Lists
  <2> QED BY <2>1, HeadWaits DEF Sound, Woken
<1> HIDE DEF t
<1>2. /\ q.at[t] \in {"delayed", "overflow", "suspended"} /\ q.ns[t] # "waiting"
      /\ q.ev[t] # "none"
  <2>1. TaskOK(q, t, pc[t], loc[t])
    BY <1>1 DEF Sound
  <2>2. l # "none"
    BY SchedulerAssumption
  <2> QED BY <1>1, <2>1, <2>2 DEF TaskOK, EventOK, NoteOK
<1>3. /\ Good(u) /\ Core(q, u) /\ u.at = q.at
      /\ \A x \in Task : u.ev[x] = IF x = t THEN "none" ELSE q.ev[x]
  BY <1>1, UnwaitGood DEF Sound
<1> HIDE DEF u
<1>4. Sound(v) /\ Follows(q, v)
  <2>1. CASE q.susp = 0
    <3>1. Good(a) /\ Core(u, a) /\ SameWaits(u, a) /\ a.at = [u.at EXCEPT ![t] = "ready"]
      BY <1>1, <1>3, ReadyAgain
    <3>2. u.at \in [Task -> Places]
      BY <1>3 DEF Good, Shape, ListTypes
    <3> HIDE DEF a
    <3>3. /\ a.at[t] = "ready" /\ a.ev[t] = "none"
          /\ \A x \in Task : x # t => a.at[x] = q.at[x] /\ a.ev[x] = q.ev[x]
      BY <1>1, <1>3, <3>1, <3>2 DEF SameWaits
    <3>4. Steady(q, a)
      BY <1>3, <3>1, CoreTwice, CoreSteady
    <3>5. Sound(a) /\ Follows(q, a)
      BY <1>1, <1>2, <3>1, <3>3, <3>4, Awakes, Zenon
    <3> QED BY <2>1, <3>5
  <2>2. CASE q.susp # 0
    <3>1. /\ Good(b) /\ Core(u, b) /\ b.at = u.at
          /\ \A x \in Task : b.ev[x] = IF x = t THEN "pending" ELSE u.ev[x]
      BY <1>1, <1>3, PendGood
    <3> HIDE DEF b
    <3>2. \A x \in Task : b.at[x] = q.at[x] /\ b.ev[x] = IF x = t THEN "pending" ELSE q.ev[x]
      BY <1>3, <3>1
    <3>3. Core(q, b)
      BY <1>3, <3>1, CoreTwice
    <3>4. b.ns[t] # "waiting" /\ ~Here(q, t)
      BY <1>2, <3>3 DEF Core, Here
    <3>5. Sound(b) /\ Follows(q, b)
      BY <1>1, <1>2, <2>2, <3>1, <3>2, <3>3, <3>4, CoreSteady, Pends
    <3> QED BY <2>2, <3>5
  <2> QED BY <2>1, <2>2
<1>5. RemoveFromEventList(q, l) = Owe(v, t)
  BY <1>3 DEF RemoveFromEventList, t, u, v, a, b
<1> HIDE DEF v
<1>6. Sound(Owe(v, t)) /\ Follows(v, Owe(v, t))
  BY <1>4, OweRests
<1> QED BY <1>4, <1>5, <1>6, FollowsTwice

LEMMA WakeFirstSound ==
  ASSUME NEW q, Sound(q), NEW l \in EventList
  PROVE  LET r == WakeFirst(q, l) IN Sound(r) /\ Follows(q, r)
<1>1. CASE q.wait[l] = <<>>
  <2>1. WakeFirst(q, l) = q
    BY <1>1 DEF WakeFirst
  <2> QED BY <2>1, FollowsItself
<1>2. CASE q.wait[l] # <<>>
  <2> DEFINE u == RemoveFromEventList(q, l)
  <2>1. Sound(u) /\ Follows(q, u)
    BY <1>2, RemoveFromEventListSound
  <2>2. WakeFirst(q, l) = Yield(u) \/ WakeFirst(q, l) = u
    BY <1>2 DEF WakeFirst
  <2> HIDE DEF u
  <2>3. Sound(Yield(u)) /\ Follows(u, Yield(u))
    BY <2>1, YieldRests
  <2>4. Follows(q, Yield(u))
    BY <2>1, <2>3, FollowsTwice
  <2> QED BY <2>1, <2>2, <2>3, <2>4, Zenon
<1> QED BY <1>1, <1>2

-----------------------------------------------------------------------------
(* Inheritance.                                                            *)

LEMMA PriosOf ==
  ASSUME NEW q, Sound(q), NEW t \in Task
  PROVE  q.prio[t] \in Prio /\ q.base[t] \in Prio /\ q.evp[t] \in Prio /\ q.cur \in Task
BY DEF Sound, Good, Shape, PrioTypes, SwitchTypes

LEMMA PriorityInheritSound ==
  ASSUME NEW q, Sound(q), NEW h \in Task
  PROVE  LET r == PriorityInherit(q, h) IN Sound(r) /\ Follows(q, r)
<1> DEFINE p == q.prio[q.cur]
           u == Revalue(q, h, p)
<1>1. p \in Prio
  BY PriosOf
<1>2. Sound(u) /\ Follows(q, u)
  BY <1>1, RevalueRests
<1>3. PriorityInherit(q, h) = q \/ PriorityInherit(q, h) = Reprio(u, h, p)
  BY DEF PriorityInherit
<1> HIDE DEF u, p
<1>4. Sound(Reprio(u, h, p)) /\ Follows(u, Reprio(u, h, p))
  BY <1>1, <1>2, ReprioRests, Zenon
<1>5. Follows(q, Reprio(u, h, p))
  BY <1>2, <1>4, FollowsTwice
<1> QED BY <1>3, <1>4, <1>5, FollowsItself, Zenon

LEMMA DisinheritAfterTimeoutSound ==
  ASSUME NEW q, Sound(q), NEW h \in Task, NEW highest \in Prio
  PROVE  LET r == DisinheritAfterTimeout(q, h, highest) IN Sound(r) /\ Follows(q, r)
<1> DEFINE p == IF q.base[h] < highest THEN highest ELSE q.base[h]
           u == Revalue(q, h, p)
<1>1. p \in Prio
  BY PriosOf
<1>2. DisinheritAfterTimeout(q, h, highest) = q \/ DisinheritAfterTimeout(q, h, highest) = Reprio(u, h, p)
  BY DEF DisinheritAfterTimeout
<1> HIDE DEF p
<1>3. Sound(u) /\ Follows(q, u)
  BY <1>1, RevalueRests
<1> HIDE DEF u
<1>4. Sound(Reprio(u, h, p)) /\ Follows(u, Reprio(u, h, p))
  BY <1>1, <1>3, ReprioRests, Zenon
<1>5. Follows(q, Reprio(u, h, p))
  BY <1>3, <1>4, FollowsTwice
<1> QED BY <1>2, <1>4, <1>5, FollowsItself, Zenon

LEMMA PriorityDisinheritSound ==
  ASSUME NEW q, Sound(q), NEW h \in Task
  PROVE  LET r == PriorityDisinherit(q, h) IN Sound(r) /\ Follows(q, r)
<1> DEFINE u == [q EXCEPT !.held[h] = @ - 1]
           p == q.base[h]
           v == Reprio(u, h, p)
           w == [v EXCEPT !.evp[h] = p]
<1>1. Data(q)
  BY DEF Sound, Good, Shape
<1>2. Data(u) /\ SameLists(q, u) /\ SameWaits(q, u) /\ Core(q, u)
  BY <1>1 DEF Data, Fields, SameLists, SameTimes, SamePrios, SameReady, SameSleep, SameWaits, Core
<1>3. PriorityDisinherit(q, h) = u \/ PriorityDisinherit(q, h) = w
  BY DEF PriorityDisinherit
<1> HIDE DEF u
<1>4. Sound(u) /\ Follows(q, u)
  <2>1. Steady(q, u) /\ u.ns = q.ns
    BY <1>2, CoreSteady DEF Core
  <2> QED BY <1>2, <2>1, FlagsRest
<1>5. p \in Prio
  BY PriosOf
<1> HIDE DEF p
<1>6. Sound(v) /\ Follows(u, v)
  BY <1>4, <1>5, ReprioRests, Zenon
<1> HIDE DEF v
<1>7. Sound(w) /\ Follows(v, w)
  BY <1>5, <1>6, ValueRests
<1> HIDE DEF w
<1>8. Follows(q, w)
  BY <1>4, <1>6, <1>7, FollowsTwice
<1> QED BY <1>3, <1>4, <1>7, <1>8, Zenon

-----------------------------------------------------------------------------
(* A task is put to sleep.                                                 *)

LEMMA WrapSum ==
  ASSUME NEW m \in Nat, NEW a \in 0..m, NEW b \in 0..m
  PROVE  /\ (a + b) % (m + 1) = IF a + b <= m THEN a + b ELSE a + b - (m + 1)
         /\ (a + b) % (m + 1) \in 0..m
<1>1. PICK n \in Nat : n = m + 1
  OBVIOUS
<1>2. (a + b) % n = IF a + b < n THEN a + b ELSE a + b - n
  <2>1. CASE a + b < n
    BY <1>1, <2>1
  <2>2. CASE a + b >= n
    BY <1>1, <2>2
  <2> QED BY <1>1, <2>1, <2>2
<1>3. (IF a + b < n THEN a + b ELSE a + b - n) \in 0..m
  BY <1>1
<1>4. (IF a + b < n THEN a + b ELSE a + b - n) = IF a + b <= m THEN a + b ELSE a + b - (m + 1)
  BY <1>1
<1> QED BY <1>1, <1>2, <1>3, <1>4, Zenon

\* A task that is in no list is put where there is no list, or nowhere.
LEMMA AtGood ==
  ASSUME NEW q, Good(q), NEW t \in Task, q.at[t] \notin {"ready", "delayed", "overflow"},
         NEW place \in {"none", "suspended", "termination"}
  PROVE  LET r == [q EXCEPT !.at[t] = place]
         IN  /\ Good(r) /\ Core(q, r) /\ SameTimes(q, r) /\ SamePrios(q, r) /\ SameWaits(q, r)
             /\ r.at = [q.at EXCEPT ![t] = place]
<1> DEFINE r == [q EXCEPT !.at[t] = place]
<1>0. Shape(q) /\ Data(q)
  BY DEF Good, Shape
<1>1. /\ Data(r) /\ Core(q, r) /\ SameTimes(q, r) /\ SamePrios(q, r) /\ SameWaits(q, r)
      /\ SameReady(q, r) /\ SameSleep(q, r) /\ r.at = [q.at EXCEPT ![t] = place]
  BY <1>0 DEF Data, Fields, Core, SameTimes, SamePrios, SameWaits, SameReady, SameSleep
<1> HIDE DEF r
<1>2. \A u \in Task : r.at[u] = IF u = t THEN place ELSE q.at[u]
  BY <1>0, <1>1 DEF Shape, ListTypes
<1>3. Shape(r)
  <2>1. ListTypes(r)
    BY <1>0, <1>1 DEF Shape, ListTypes, Places, SameReady, SameSleep
  <2> QED BY <1>0, <1>1, <2>1
        DEF Shape, Core, SameTimes, SamePrios, SameWaits, SwitchTypes, TimeTypes, PrioTypes, WaitTypes,
            NoteTypes
<1>4. ReadyOK(r)
  <2>1. \A o \in Prio : ReadyAt(r, o) = ReadyAt(q, o)
    BY <1>1, <1>2 DEF ReadyAt, SamePrios
  <2> QED BY <1>1, <2>1 DEF Good, ReadyOK, SameReady
<1>5. SleepOK(r)
  <2>1. {u \in Task : r.at[u] = "delayed"} = {u \in Task : q.at[u] = "delayed"}
    BY <1>2
  <2>2. {u \in Task : r.at[u] = "overflow"} = {u \in Task : q.at[u] = "overflow"}
    BY <1>2
  <2>3. \A u \in Task : r.at[u] = "delayed" => r.next <= r.wake[u]
    BY <1>1, <1>2 DEF Good, SleepOK, SameTimes
  <2>4. r.wake = q.wake /\ r.delayed = q.delayed /\ r.overflow = q.overflow
    BY <1>1 DEF SameTimes, SameSleep
  <2> QED BY <2>1, <2>2, <2>3, <2>4, Zenon DEF Good, SleepOK
<1>6. WaitOK(r)
  BY <1>1 DEF Good, WaitOK, SameWaits
<1>7. Timely(r)
  BY <1>1, <1>2 DEF Good, Timely, SameTimes, Core
<1> QED BY <1>1, <1>3, <1>4, <1>5, <1>6, <1>7 DEF Good, r

\* The lists of sleepers, with the wake-up time of a task that is in none.
LEMMA InsertSleeper ==
  ASSUME NEW q, Good(q), NEW t \in Task, q.at[t] = "none", NEW w \in Time,
         NEW s, NEW place, place \in {"delayed", "overflow"}, s \in Seq(Task),
         Holds(s, {u \in Task : q.at[u] = place}), InOrder(s, q.wake)
  PROVE  LET key == [q.wake EXCEPT ![t] = w]
             z == InsertSorted(s, t, key)
         IN  /\ z \in Seq(Task) /\ Holds(z, {u \in Task : q.at[u] = place} \cup {t}) /\ InOrder(z, key)
<1> DEFINE key == [q.wake EXCEPT ![t] = w]
           S == {u \in Task : q.at[u] = place}
<1>1. q.wake \in [Task -> Time]
  BY DEF Good, Shape, TimeTypes
<1>2. key \in [Task -> Int] /\ \A u \in Task : u # t => key[u] = q.wake[u]
  BY <1>1 DEF Time
<1>3. t \notin S
  OBVIOUS
<1>4. \A i \in 1..Len(s) : s[i] \in S
  <2>1. DOMAIN s = 1..Len(s)
    OBVIOUS
  <2> QED BY <2>1 DEF Holds, ToSet
<1>5. \A i \in 1..Len(s) : key[s[i]] = q.wake[s[i]]
  BY <1>2, <1>3, <1>4
<1>6. InOrder(s, key)
  BY <1>5 DEF InOrder
<1> HIDE DEF key, S
<1>7. Holds(s, S)
  BY DEF S
<1>8. /\ InsertSorted(s, t, key) \in Seq(Task) /\ Holds(InsertSorted(s, t, key), S \cup {t})
      /\ InOrder(InsertSorted(s, t, key), key)
  BY <1>2, <1>3, <1>6, <1>7, InsertSortedIs
<1> QED BY <1>8 DEF key, S

LEMMA OverflowGood ==
  ASSUME NEW q, Good(q), NEW t \in Task, q.at[t] = "none", NEW w \in Time, w < q.tick
  PROVE  LET d == [q EXCEPT !.wake[t] = w]
             r == [d EXCEPT !.overflow = InsertSorted(@, t, d.wake), !.at[t] = "overflow"]
         IN  /\ Good(r) /\ Core(q, r) /\ SamePrios(q, r) /\ SameWaits(q, r)
             /\ r.at = [q.at EXCEPT ![t] = "overflow"]
<1> DEFINE key == [q.wake EXCEPT ![t] = w]
           z == InsertSorted(q.overflow, t, key)
           d == [q EXCEPT !.wake[t] = w]
           r == [d EXCEPT !.overflow = InsertSorted(@, t, d.wake), !.at[t] = "overflow"]
<1>0. Shape(q) /\ Data(q)
  BY DEF Good, Shape
<1>a. d.wake = key /\ d.overflow = q.overflow
  BY <1>0 DEF Data, Fields
<1>b. r = [d EXCEPT !.overflow = z, !.at[t] = "overflow"]
  BY <1>a, Zenon
<1>1. /\ Data(r) /\ Core(q, r) /\ SamePrios(q, r) /\ SameWaits(q, r) /\ SameReady(q, r)
      /\ r.delayed = q.delayed /\ r.overflow = z /\ r.next = q.next /\ r.wake = key
      /\ r.at = [q.at EXCEPT ![t] = "overflow"]
  <2> HIDE DEF z
  <2>1. [d EXCEPT !.overflow = z, !.at[t] = "overflow"] =
        [q EXCEPT !.wake[t] = w, !.overflow = z, !.at[t] = "overflow"]
    OBVIOUS
  <2>2. r = [q EXCEPT !.wake[t] = w, !.overflow = z, !.at[t] = "overflow"]
    BY <1>b, <2>1, Zenon
  <2> HIDE DEF r
  <2> QED BY <1>0, <2>2, Zenon DEF Data, Fields, Core, SamePrios, SameWaits, SameReady
<1>c. /\ z \in Seq(Task) /\ Holds(z, {u \in Task : q.at[u] = "overflow"} \cup {t}) /\ InOrder(z, key)
  <2>1. /\ q.overflow \in Seq(Task) /\ Holds(q.overflow, {u \in Task : q.at[u] = "overflow"})
        /\ InOrder(q.overflow, q.wake) /\ "overflow" \in {"delayed", "overflow"}
    BY <1>0 DEF Shape, ListTypes, Good, SleepOK
  <2> QED BY <2>1, InsertSleeper, Zenon
<1> HIDE DEF r, z, key, d
<1>2. /\ \A u \in Task : r.at[u] = IF u = t THEN "overflow" ELSE q.at[u]
      /\ r.wake \in [Task -> Time]
      /\ \A u \in Task : r.wake[u] = IF u = t THEN w ELSE q.wake[u]
  BY <1>0, <1>1 DEF Shape, ListTypes, TimeTypes, key
<1>3. Shape(r)
  <2>1. ListTypes(r)
    BY <1>0, <1>1, <1>c DEF Shape, ListTypes, Places, SameReady
  <2>2. TimeTypes(r)
    BY <1>0, <1>1, <1>2 DEF Shape, TimeTypes, Core
  <2> QED BY <1>0, <1>1, <2>1, <2>2
        DEF Shape, Core, SamePrios, SameWaits, SwitchTypes, PrioTypes, WaitTypes, NoteTypes
<1>4. ReadyOK(r)
  <2>1. \A o \in Prio : ReadyAt(r, o) = ReadyAt(q, o)
    BY <1>1, <1>2 DEF ReadyAt, SamePrios
  <2> QED BY <1>1, <2>1 DEF Good, ReadyOK, SameReady
<1>5. SleepOK(r)
  <2>1. {u \in Task : r.at[u] = "delayed"} = {u \in Task : q.at[u] = "delayed"}
    BY <1>2
  <2>2. {u \in Task : r.at[u] = "overflow"} = {u \in Task : q.at[u] = "overflow"} \cup {t}
    BY <1>2
  <2>3. \A u \in Task : r.at[u] = "delayed" => r.next <= r.wake[u]
    BY <1>1, <1>2 DEF Good, SleepOK
  <2>4. Holds(q.delayed, {u \in Task : q.at[u] = "delayed"})
    BY DEF Good, SleepOK
  <2>5. InOrder(q.delayed, key)
    <3>1. q.delayed \in Seq(Task)
      BY <1>0 DEF Shape, ListTypes
    <3>2. \A i \in 1..Len(q.delayed) : q.delayed[i] \in {u \in Task : q.at[u] = "delayed"}
      <4>1. DOMAIN q.delayed = 1..Len(q.delayed)
        BY <3>1
      <4> QED BY <2>4, <4>1 DEF Holds, ToSet
    <3>3. \A i \in 1..Len(q.delayed) : key[q.delayed[i]] = q.wake[q.delayed[i]]
      BY <1>1, <1>2, <3>2
    <3> QED BY <3>3 DEF Good, SleepOK, InOrder
  <2>6. r.delayed = q.delayed /\ r.overflow = z /\ r.wake = key
    BY <1>1
  <2> QED BY <1>c, <2>1, <2>2, <2>3, <2>4, <2>5, <2>6, Zenon DEF SleepOK
<1>6. WaitOK(r)
  BY <1>1 DEF Good, WaitOK, SameWaits
<1>7. Timely(r)
  BY <1>1, <1>2 DEF Good, Timely, Core
<1> QED BY <1>1, <1>3, <1>4, <1>5, <1>6, <1>7 DEF Good, r, d

LEMMA DelayedGood ==
  ASSUME NEW q, Good(q), NEW t \in Task, q.at[t] = "none", NEW w \in Time, w > q.tick
  PROVE  LET d == [q EXCEPT !.wake[t] = w]
             r == [d EXCEPT !.delayed = InsertSorted(@, t, d.wake), !.at[t] = "delayed",
                            !.next = IF w < @ THEN w ELSE @]
         IN  /\ Good(r) /\ Core(q, r) /\ SamePrios(q, r) /\ SameWaits(q, r)
             /\ r.at = [q.at EXCEPT ![t] = "delayed"]
<1> DEFINE key == [q.wake EXCEPT ![t] = w]
           z == InsertSorted(q.delayed, t, key)
           n == IF w < q.next THEN w ELSE q.next
           d == [q EXCEPT !.wake[t] = w]
           r == [d EXCEPT !.delayed = InsertSorted(@, t, d.wake), !.at[t] = "delayed",
                            !.next = IF w < @ THEN w ELSE @]
<1>0. Shape(q) /\ Data(q)
  BY DEF Good, Shape
<1>a. d.wake = key /\ d.delayed = q.delayed /\ d.next = q.next
  BY <1>0 DEF Data, Fields
<1>b. r = [d EXCEPT !.delayed = z, !.at[t] = "delayed", !.next = n]
  BY <1>a, Zenon
<1>1. /\ Data(r) /\ Core(q, r) /\ SamePrios(q, r) /\ SameWaits(q, r) /\ SameReady(q, r)
      /\ r.overflow = q.overflow /\ r.delayed = z /\ r.next = n /\ r.wake = key
      /\ r.at = [q.at EXCEPT ![t] = "delayed"]
  <2> HIDE DEF z, n
  <2>1. [d EXCEPT !.delayed = z, !.at[t] = "delayed", !.next = n] =
        [q EXCEPT !.wake[t] = w, !.delayed = z, !.at[t] = "delayed", !.next = n]
    OBVIOUS
  <2>2. r = [q EXCEPT !.wake[t] = w, !.delayed = z, !.at[t] = "delayed", !.next = n]
    BY <1>b, <2>1, Zenon
  <2> HIDE DEF r
  <2> QED BY <1>0, <2>2, ZenonT(40) DEF Data, Fields, Core, SamePrios, SameWaits, SameReady
<1>c. /\ z \in Seq(Task) /\ Holds(z, {u \in Task : q.at[u] = "delayed"} \cup {t}) /\ InOrder(z, key)
  <2>1. /\ q.delayed \in Seq(Task) /\ Holds(q.delayed, {u \in Task : q.at[u] = "delayed"})
        /\ InOrder(q.delayed, q.wake) /\ "delayed" \in {"delayed", "overflow"}
    BY <1>0 DEF Shape, ListTypes, Good, SleepOK
  <2> QED BY <2>1, InsertSleeper, Zenon
<1>d. q.next \in Time /\ n \in Time /\ n <= w /\ n <= q.next
  BY <1>0 DEF Shape, TimeTypes, Time
<1> HIDE DEF r, z, key, d, n
<1>2. /\ \A u \in Task : r.at[u] = IF u = t THEN "delayed" ELSE q.at[u]
      /\ r.wake \in [Task -> Time]
      /\ \A u \in Task : r.wake[u] = IF u = t THEN w ELSE q.wake[u]
  BY <1>0, <1>1 DEF Shape, ListTypes, TimeTypes, key
<1>3. Shape(r)
  <2>1. ListTypes(r)
    BY <1>0, <1>1, <1>c DEF Shape, ListTypes, Places, SameReady
  <2>2. TimeTypes(r)
    BY <1>0, <1>1, <1>2, <1>d DEF Shape, TimeTypes, Core
  <2> QED BY <1>0, <1>1, <2>1, <2>2
        DEF Shape, Core, SamePrios, SameWaits, SwitchTypes, PrioTypes, WaitTypes, NoteTypes
<1>4. ReadyOK(r)
  <2>1. \A o \in Prio : ReadyAt(r, o) = ReadyAt(q, o)
    BY <1>1, <1>2 DEF ReadyAt, SamePrios
  <2> QED BY <1>1, <2>1 DEF Good, ReadyOK, SameReady
<1>5. SleepOK(r)
  <2>1. {u \in Task : r.at[u] = "overflow"} = {u \in Task : q.at[u] = "overflow"}
    BY <1>2
  <2>2. {u \in Task : r.at[u] = "delayed"} = {u \in Task : q.at[u] = "delayed"} \cup {t}
    BY <1>2
  <2>3. ASSUME NEW u \in Task, r.at[u] = "delayed" PROVE r.next <= r.wake[u]
    <3>1. CASE u = t
      BY <1>1, <1>2, <1>d, <3>1
    <3>2. CASE u # t
      <4>1. q.next <= q.wake[u] /\ q.wake[u] \in Time
        BY <1>0, <1>2, <2>3, <3>2 DEF Good, SleepOK, Shape, TimeTypes
      <4>2. r.wake[u] = q.wake[u]
        BY <1>2, <3>2
      <4> QED BY <1>1, <1>d, <4>1, <4>2 DEF Time
    <3> QED BY <3>1, <3>2
  <2>4. Holds(q.overflow, {u \in Task : q.at[u] = "overflow"})
    BY DEF Good, SleepOK
  <2>5. InOrder(q.overflow, key)
    <3>1. q.overflow \in Seq(Task)
      BY <1>0 DEF Shape, ListTypes
    <3>2. \A i \in 1..Len(q.overflow) : q.overflow[i] \in {u \in Task : q.at[u] = "overflow"}
      <4>1. DOMAIN q.overflow = 1..Len(q.overflow)
        BY <3>1
      <4> QED BY <2>4, <4>1 DEF Holds, ToSet
    <3>3. \A i \in 1..Len(q.overflow) : key[q.overflow[i]] = q.wake[q.overflow[i]]
      BY <1>1, <1>2, <3>2
    <3> QED BY <3>3 DEF Good, SleepOK, InOrder
  <2>6. r.overflow = q.overflow /\ r.delayed = z /\ r.wake = key
    BY <1>1
  <2> QED BY <1>c, <2>1, <2>2, <2>3, <2>4, <2>5, <2>6, Zenon DEF SleepOK
<1>6. WaitOK(r)
  BY <1>1 DEF Good, WaitOK, SameWaits
<1>7. Timely(r)
  BY <1>1, <1>2 DEF Good, Timely, Core
<1> QED BY <1>1, <1>3, <1>4, <1>5, <1>6, <1>7 DEF Good, r, d

LEMMA AddCurrentGood ==
  ASSUME NEW q, Good(q), NEW ticks \in Time, ticks # 0, NEW forever
  PROVE  LET r == AddCurrentToDelayed(q, ticks, forever)
         IN  /\ Good(r) /\ Core(q, r) /\ SamePrios(q, r) /\ SameWaits(q, r)
             /\ \A u \in Task : u # q.cur => r.at[u] = q.at[u]
             /\ r.at[q.cur] \in {"delayed", "overflow", "suspended"}
<1> DEFINE r == AddCurrentToDelayed(q, ticks, forever)
           t == q.cur
           u == Unlist(q, t)
           w == (q.tick + ticks) % (MaxTick + 1)
           d == [u EXCEPT !.wake[t] = w]
           a == [u EXCEPT !.at[t] = "suspended"]
           b == [d EXCEPT !.overflow = InsertSorted(@, t, d.wake), !.at[t] = "overflow"]
           c == [d EXCEPT !.delayed = InsertSorted(@, t, d.wake), !.at[t] = "delayed",
                          !.next = IF w < @ THEN w ELSE @]
           Filing(z, place) == /\ Good(z) /\ Core(u, z) /\ SamePrios(u, z) /\ SameWaits(u, z)
                               /\ z.at = [u.at EXCEPT ![t] = place]
<1>1. t \in Task /\ q.tick \in Time /\ q.at \in [Task -> Places]
  BY DEF Good, Shape, SwitchTypes, TimeTypes, ListTypes
<1>2. /\ Good(u) /\ Core(q, u) /\ SamePrios(q, u) /\ SameWaits(q, u)
      /\ u.at = [q.at EXCEPT ![t] = "none"]
  BY <1>1, UnlistGood, Zenon
<1>3. w \in Time /\ (~(w < q.tick) => w > q.tick)
  <2>1. MaxTick \in Nat
    BY SchedulerAssumption
  <2>2. /\ w = IF q.tick + ticks <= MaxTick THEN q.tick + ticks ELSE q.tick + ticks - (MaxTick + 1)
        /\ w \in 0..MaxTick
    BY <1>1, <2>1, WrapSum, Zenon DEF Time
  <2> HIDE DEF w
  <2> QED BY <1>1, <2>1, <2>2 DEF Time
<1>4. r = IF ticks = MaxTick /\ forever THEN a ELSE IF w < q.tick THEN b ELSE c
  BY DEF AddCurrentToDelayed
<1> HIDE DEF r, u, w, t
<1>5. u.at[t] = "none" /\ u.tick = q.tick
  BY <1>1, <1>2 DEF Core
<1>6. Filing(a, "suspended")
  <2>1. u.at[t] \notin {"ready", "delayed", "overflow"} /\ "suspended" \in {"none", "suspended", "termination"}
    BY <1>5
  <2> QED BY <1>1, <1>2, <2>1, AtGood, Zenon
<1>7. w < q.tick => Filing(b, "overflow")
  BY <1>1, <1>2, <1>3, <1>5, OverflowGood, Zenon
<1>8. ~(w < q.tick) => Filing(c, "delayed")
  BY <1>1, <1>2, <1>3, <1>5, DelayedGood, Zenon
<1> HIDE DEF a, b, c
<1>9. Filing(r, "suspended") \/ Filing(r, "overflow") \/ Filing(r, "delayed")
  <2>1. CASE ticks = MaxTick /\ forever
    <3>1. r = a
      BY <1>4, <2>1
    <3> QED BY <1>6, <3>1, Zenon
  <2>2. CASE ~(ticks = MaxTick /\ forever) /\ w < q.tick
    <3>1. r = b
      BY <1>4, <2>2
    <3> QED BY <1>7, <2>2, <3>1, Zenon
  <2>3. CASE ~(ticks = MaxTick /\ forever) /\ ~(w < q.tick)
    <3>1. r = c
      BY <1>4, <2>3
    <3> QED BY <1>8, <2>3, <3>1, Zenon
  <2> QED BY <2>1, <2>2, <2>3
<1>10. PICK place \in {"suspended", "overflow", "delayed"} : Filing(r, place)
  BY <1>9, Zenon
<1>11. Core(q, r)
  BY <1>2, <1>10, CoreTwice
<1>12. SamePrios(q, r) /\ SameWaits(q, r)
  BY <1>2, <1>10 DEF SamePrios, SameWaits
<1>13. r.at[t] = place /\ \A x \in Task : x # t => r.at[x] = q.at[x]
  BY <1>1, <1>2, <1>10
<1> QED BY <1>10, <1>11, <1>12, <1>13 DEF r, t

\* The event item is put in a list.
LEMMA PlaceGood ==
  ASSUME NEW q, Good(q), NEW l \in EventList, q.ev[q.cur] = "none"
  PROVE  LET r == [q EXCEPT !.wait[l] = InsertSorted(@, q.cur, [u \in Task |-> MaxPrio - q.evp[u]]),
                            !.ev[q.cur] = l]
         IN  /\ Good(r) /\ Core(q, r) /\ SamePrios(q, r) /\ r.at = q.at
             /\ \A u \in Task : r.ev[u] = IF u = q.cur THEN l ELSE q.ev[u]
<1> DEFINE t == q.cur
           key == [u \in Task |-> MaxPrio - q.evp[u]]
           s == InsertSorted(q.wait[l], t, key)
           r == [q EXCEPT !.wait[l] = InsertSorted(@, t, key), !.ev[t] = l]
<1>0. Shape(q) /\ Data(q) /\ t \in Task
  BY DEF Good, Shape, SwitchTypes
<1> HIDE DEF t
<1>a. r = [q EXCEPT !.wait[l] = s, !.ev[t] = l]
  OBVIOUS
<1>1. /\ Data(r) /\ Core(q, r) /\ SameTimes(q, r) /\ SamePrios(q, r) /\ SameReady(q, r)
      /\ SameSleep(q, r) /\ r.at = q.at
      /\ r.wait = [q.wait EXCEPT ![l] = s]
      /\ r.ev = [q.ev EXCEPT ![t] = l]
  <2> HIDE DEF s
  <2> QED BY <1>0, <1>a, ZenonT(40) DEF Data, Fields, Core, SameTimes, SamePrios, SameReady, SameSleep
<1>2. l \in Lists /\ "none" # l
  BY SchedulerAssumption DEF Lists
<1>3. s \in Seq(Task) /\ Holds(s, {u \in Task : q.ev[u] = l} \cup {t})
  <2>1. q.wait[l] \in Seq(Task) /\ Holds(q.wait[l], {u \in Task : q.ev[u] = l})
    BY <1>0, <1>2, Zenon DEF Good, Shape, WaitTypes, WaitOK
  <2>2. t \notin {u \in Task : q.ev[u] = l}
    BY <1>2 DEF t
  <2>3. key \in [Task -> Int]
    BY <1>0, SchedulerAssumption DEF Shape, PrioTypes, Prio
  <2> HIDE DEF key
  <2> QED BY <1>0, <2>1, <2>2, <2>3, InsertSortedIs, Zenon
<1> HIDE DEF r, s, key
<1>4. \A u \in Task : r.ev[u] = IF u = t THEN l ELSE q.ev[u]
  BY <1>0, <1>1 DEF Shape, WaitTypes
<1>5. WaitTypes(r)
  BY <1>0, <1>1, <1>2, <1>3 DEF Shape, WaitTypes
<1>6. Shape(r)
  BY <1>0, <1>1, <1>5, Zenon
      DEF Shape, Core, SameTimes, SamePrios, SameReady, SameSleep, SwitchTypes, TimeTypes, PrioTypes, ListTypes,
          NoteTypes
<1>7. WaitOK(r)
  <2> SUFFICES ASSUME NEW o \in Lists PROVE Holds(r.wait[o], {u \in Task : r.ev[u] = o})
    BY DEF WaitOK
  <2>1. o # "none"
    BY SchedulerAssumption DEF Lists
  <2>a. q.ev[t] = "none"
    BY DEF t
  <2>2. CASE o = l
    <3>1. {u \in Task : r.ev[u] = o} = {u \in Task : q.ev[u] = l} \cup {t}
      BY <1>0, <1>4, <2>2
    <3>2. r.wait[o] = s
      BY <1>0, <1>1, <1>2, <2>2 DEF Shape, WaitTypes
    <3> QED BY <1>3, <3>1, <3>2, Zenon
  <2>3. CASE o # l
    <3>1. {u \in Task : r.ev[u] = o} = {u \in Task : q.ev[u] = o}
      BY <1>4, <2>1, <2>3, <2>a
    <3>2. r.wait[o] = q.wait[o]
      BY <1>0, <1>1, <2>3 DEF Shape, WaitTypes
    <3> QED BY <3>1, <3>2, Zenon DEF Good, WaitOK
  <2> QED BY <2>2, <2>3
<1>8. ReadyOK(r) /\ SleepOK(r) /\ Timely(r)
  BY <1>1, ListsSame DEF Core, SameLists
<1> QED BY <1>1, <1>4, <1>6, <1>7, <1>8 DEF Good, r, t, key

LEMMA PlaceOnEventListGood ==
  ASSUME NEW q, Good(q), NEW l \in EventList, q.ev[q.cur] = "none", NEW ticks \in Time, ticks # 0
  PROVE  LET r == PlaceOnEventList(q, l, ticks)
         IN  /\ Good(r) /\ Core(q, r)
             /\ \A u \in Task : u # q.cur => r.at[u] = q.at[u]
             /\ \A u \in Task : r.ev[u] = IF u = q.cur THEN l ELSE q.ev[u]
             /\ r.at[q.cur] \in {"delayed", "overflow", "suspended"}
<1> DEFINE v == [q EXCEPT !.wait[l] = InsertSorted(@, q.cur, [u \in Task |-> MaxPrio - q.evp[u]]),
                          !.ev[q.cur] = l]
           r == AddCurrentToDelayed(v, ticks, TRUE)
<1>1. /\ Good(v) /\ Core(q, v) /\ SamePrios(q, v) /\ v.at = q.at
      /\ \A u \in Task : v.ev[u] = IF u = q.cur THEN l ELSE q.ev[u]
  BY PlaceGood, Zenon
<1>2. PlaceOnEventList(q, l, ticks) = r
  BY DEF PlaceOnEventList
<1> HIDE DEF v
<1>3. /\ Good(r) /\ Core(v, r) /\ SamePrios(v, r) /\ SameWaits(v, r)
      /\ \A u \in Task : u # v.cur => r.at[u] = v.at[u]
      /\ r.at[v.cur] \in {"delayed", "overflow", "suspended"}
  BY <1>1, AddCurrentGood, Zenon
<1> HIDE DEF r
<1>4. v.cur = q.cur
  BY <1>1 DEF Core
<1>5. Core(q, r)
  BY <1>1, <1>3, CoreTwice
<1> QED BY <1>1, <1>2, <1>3, <1>4, <1>5 DEF SameWaits

-----------------------------------------------------------------------------
(* The switch, the tick and a new task.                                    *)

LEMMA Topmost ==
  ASSUME NEW S \in SUBSET Prio, S # {}
  PROVE  LET p == CHOOSE p \in S : \A o \in S : o <= p IN p \in S /\ \A o \in S : o <= p
<1> DEFINE I == {MaxPrio - o : o \in S}
<1>1. MaxPrio \in Nat /\ \A o \in S : o \in 0..MaxPrio
  BY SchedulerAssumption DEF Prio
<1>2. I \in SUBSET Nat /\ I # {}
  BY <1>1
<1>3. PICK i \in I : \A j \in I : i <= j
  BY <1>2, LeastOf, Zenon
<1>4. PICK p \in S : i = MaxPrio - p
  OBVIOUS
<1>5. ASSUME NEW o \in S PROVE o <= p
  <2>1. MaxPrio - o \in I
    OBVIOUS
  <2>2. i <= MaxPrio - o
    BY <1>3, <2>1
  <2> QED BY <1>1, <1>4, <2>2
<1> QED BY <1>5

LEMMA SwitchContextGood ==
  ASSUME NEW q, Good(q), q.susp = 0, q.top # {}
  PROVE  LET r == SwitchContext(q)
         IN  /\ Good(r) /\ r.on = q.on /\ r.susp = q.susp /\ r.loop = q.loop /\ r.ns = q.ns
             /\ r.at = q.at /\ r.ev = q.ev /\ r.cur \in Task /\ r.at[r.cur] = "ready"
             /\ r.prio = q.prio /\ r.base = q.base
             /\ \A u \in Task : q.at[u] = "ready" => q.prio[u] <= q.prio[r.cur]
<1> DEFINE r == SwitchContext(q)
           p == CHOOSE p \in q.top : \A o \in q.top : o <= p
           i == NextIdx(q.ready[p])
           c == q.ready[p].items[i]
<1>0. Shape(q) /\ Data(q)
  BY DEF Good, Shape
<1>1. p \in q.top /\ p \in Prio /\ \A o \in q.top : o <= p
  <2>1. q.top \in SUBSET Prio
    BY <1>0 DEF Shape, ListTypes
  <2> HIDE DEF p
  <2>2. p \in q.top /\ \A o \in q.top : o <= p
    BY <2>1, Topmost DEF p
  <2> QED BY <2>1, <2>2
<1>2. r = [q EXCEPT !.yp = FALSE, !.pendsv = FALSE, !.ready[p].idx = i, !.cur = c]
  BY DEF SwitchContext
<1> HIDE DEF p
<1>3. RingOK(q.ready[p], ReadyAt(q, p)) /\ ReadyAt(q, p) # {}
  BY <1>1 DEF Good, ReadyOK
<1>4. /\ q.ready[p].items \in Seq(Task) /\ q.ready[p].idx \in Nat /\ q.ready[p].items # <<>>
      /\ Holds(q.ready[p].items, ReadyAt(q, p)) /\ q.ready[p].idx <= Len(q.ready[p].items)
      /\ q.ready[p] = [items |-> q.ready[p].items, idx |-> q.ready[p].idx]
  BY <1>3, HoldsNone DEF RingOK
<1>5. i \in 1..Len(q.ready[p].items) /\ i \in Nat
  <2>1. Len(q.ready[p].items) \in Nat /\ Len(q.ready[p].items) # 0
    BY <1>4
  <2> QED BY <1>4, <2>1 DEF NextIdx
<1> HIDE DEF i
<1>6. c \in ReadyAt(q, p)
  <2>1. DOMAIN q.ready[p].items = 1..Len(q.ready[p].items)
    BY <1>4
  <2> QED BY <1>4, <1>5, <2>1 DEF Holds, ToSet
<1> HIDE DEF c
<1>7. c \in Task /\ q.at[c] = "ready"
  BY <1>6 DEF ReadyAt
<1> HIDE DEF r
<1>8. /\ Data(r) /\ SameTimes(q, r) /\ SamePrios(q, r) /\ SameSleep(q, r) /\ SameWaits(q, r)
      /\ r.at = q.at /\ r.tick = q.tick /\ r.top = q.top
      /\ r.on = q.on /\ r.susp = q.susp /\ r.loop = q.loop /\ r.ns = q.ns
      /\ r.ready = [q.ready EXCEPT ![p] = [@ EXCEPT !.idx = i]] /\ r.cur = c
  BY <1>0, <1>2, ZenonT(40) DEF Data, Fields, SameTimes, SamePrios, SameSleep, SameWaits
<1>9. RingOK([q.ready[p] EXCEPT !.idx = i], ReadyAt(q, p))
  <2>1. [q.ready[p] EXCEPT !.idx = i] = [items |-> q.ready[p].items, idx |-> i]
    BY <1>4
  <2> QED BY <1>4, <1>5, <2>1 DEF RingOK
<1>10. \A o \in Prio : RingOK(r.ready[o], ReadyAt(r, o)) /\ (o \in r.top <=> ReadyAt(r, o) # {})
  <2> SUFFICES ASSUME NEW o \in Prio
               PROVE  RingOK(r.ready[o], ReadyAt(r, o)) /\ (o \in r.top <=> ReadyAt(r, o) # {})
    OBVIOUS
  <2>1. ReadyAt(r, o) = ReadyAt(q, o)
    BY <1>8 DEF ReadyAt, SamePrios
  <2>2. RingOK(q.ready[o], ReadyAt(q, o)) /\ (o \in q.top <=> ReadyAt(q, o) # {})
    BY DEF Good, ReadyOK
  <2>3. r.ready[o] = IF o = p THEN [q.ready[p] EXCEPT !.idx = i] ELSE q.ready[o]
    BY <1>0, <1>1, <1>8 DEF Shape, ListTypes
  <2>4. CASE o = p
    BY <1>8, <1>9, <2>1, <2>2, <2>3, <2>4
  <2>5. CASE o # p
    BY <1>8, <2>1, <2>2, <2>3, <2>5
  <2> QED BY <2>4, <2>5
<1>11. Shape(r)
  <2>1. r.ready \in [Prio -> [items : Seq(Task), idx : Nat]]
    BY <1>0, <1>1, <1>8, <1>9 DEF Shape, ListTypes, RingOK
  <2>2. ListTypes(r)
    BY <1>0, <1>8, <2>1, Zenon DEF Shape, ListTypes, SameSleep
  <2> QED BY <1>0, <1>7, <1>8, <2>2
        DEF Shape, SameTimes, SamePrios, SameWaits, SwitchTypes, TimeTypes, PrioTypes, WaitTypes,
            NoteTypes
<1>12. SleepOK(r)
  BY <1>8 DEF Good, SleepOK, SameSleep, SameTimes
<1>13. WaitOK(r)
  BY <1>8 DEF Good, WaitOK, SameWaits
<1>14. Timely(r)
  BY <1>8 DEF Good, Timely, SameTimes
<1>15. ASSUME NEW u \in Task, q.at[u] = "ready" PROVE q.prio[u] <= q.prio[c]
  <2>1. q.prio[u] \in Prio /\ u \in ReadyAt(q, q.prio[u])
    BY <1>0, <1>15 DEF Shape, PrioTypes, ReadyAt
  <2>2. q.prio[u] \in q.top
    BY <2>1, Zenon DEF Good, ReadyOK
  <2> QED BY <1>1, <1>6, <2>2 DEF ReadyAt
<1> QED BY <1>7, <1>8, <1>10, <1>11, <1>12, <1>13, <1>14, <1>15 DEF Good, ReadyOK, SameWaits, SamePrios, r

\* The count goes up; when it wraps, everybody in the delayed list was due.
LEMMA TickUpGood ==
  ASSUME NEW q, Good(q), q.loop \notin {"due", "owed"}, NEW loop \in {"due", "owed"}
  PROVE  LET r == TickUp(q, loop)
         IN  /\ Good(r) /\ r.on = q.on /\ r.cur = q.cur /\ r.susp = q.susp /\ r.loop = loop
             /\ r.ns = q.ns /\ r.ev = q.ev /\ r.pendsv = q.pendsv
             /\ \A u \in Task : r.at[u] = q.at[u] \/ (r.at[u] = "delayed" /\ q.at[u] = "overflow")
<1> DEFINE n == (q.tick + 1) % (MaxTick + 1)
           sp == [t \in Task |-> IF q.spent[t] < loc[t].asked THEN q.spent[t] + 1 ELSE q.spent[t]]
           s == [q EXCEPT !.tick = n, !.loop = loop, !.sw = FALSE,
                     !.spent = [t \in Task |-> IF @[t] < loc[t].asked THEN @[t] + 1 ELSE @[t]]]
           at == [t \in Task |-> CASE q.at[t] = "overflow" -> "delayed"
                                   [] q.at[t] = "delayed" -> "overflow"
                                   [] OTHER -> q.at[t]]
           w == [s EXCEPT !.delayed = q.overflow, !.overflow = q.delayed,
                   !.at = [t \in Task |-> CASE @[t] = "overflow" -> "delayed"
                                      [] @[t] = "delayed" -> "overflow"
                                      [] OTHER -> @[t]],
                   !.ovf = (@ + 1) % Overflows]
           r == TickUp(q, loop)
<1>0. Shape(q) /\ Data(q) /\ q.tick \in Time
  BY DEF Good, Shape, TimeTypes
<1>a. MaxTick \in Nat /\ MaxTick # 0
  BY SchedulerAssumption
<1>1. /\ n \in Time
      /\ n # 0 => n = q.tick + 1
      /\ n = 0 => q.tick = MaxTick
  <2>1. 1 \in 0..MaxTick /\ q.tick \in 0..MaxTick
    BY <1>0, <1>a DEF Time
  <2>2. /\ n = IF q.tick + 1 <= MaxTick THEN q.tick + 1 ELSE q.tick + 1 - (MaxTick + 1)
        /\ n \in 0..MaxTick
    BY <1>a, <2>1, WrapSum, Zenon
  <2> HIDE DEF n
  <2> QED BY <1>a, <2>1, <2>2 DEF Time
<1>2. r = IF n # 0 THEN s ELSE ResetNext(w)
  BY DEF TickUp
<1> HIDE DEF n, r
<1>3. /\ Data(s) /\ SameTimes(q, s) /\ SamePrios(q, s) /\ SameReady(q, s) /\ SameSleep(q, s) /\ SameWaits(q, s)
      /\ s.at = q.at /\ s.tick = n /\ s.loop = loop /\ s.on = q.on /\ s.cur = q.cur /\ s.susp = q.susp
      /\ s.pendsv = q.pendsv /\ s.ns = q.ns
  <2>1. s = [q EXCEPT !.tick = n, !.loop = loop, !.sw = FALSE, !.spent = sp]
    OBVIOUS
  <2> HIDE DEF s, sp
  <2> QED BY <1>0, <2>1, Zenon DEF Data, Fields, SameTimes, SamePrios, SameReady, SameSleep, SameWaits
<1>4. CASE n # 0
  <2>1. r = s
    BY <1>2, <1>4
  <2> HIDE DEF s
  <2>2. Shape(s)
    BY <1>0, <1>1, <1>3, Zenon
      DEF Shape, SameTimes, SamePrios, SameReady, SameSleep, SameWaits, SwitchTypes, TimeTypes, PrioTypes,
          ListTypes, WaitTypes, NoteTypes
  <2>3. ReadyOK(s)
    <3>1. \A o \in Prio : ReadyAt(s, o) = ReadyAt(q, o)
      BY <1>3 DEF ReadyAt, SamePrios
    <3> QED BY <1>3, <3>1 DEF Good, ReadyOK, SameReady
  <2>4. SleepOK(s)
    BY <1>3 DEF Good, SleepOK, SameSleep, SameTimes
  <2>5. WaitOK(s)
    BY <1>3 DEF Good, WaitOK, SameWaits
  <2>6. Timely(s)
    <3> SUFFICES ASSUME NEW u \in Task, s.at[u] = "overflow" PROVE s.wake[u] < s.tick
      BY <1>3 DEF Timely
    <3>1. q.wake[u] < q.tick /\ q.wake[u] \in Time
      BY <1>0, <1>3 DEF Good, Timely, Shape, TimeTypes
    <3> QED BY <1>0, <1>1, <1>3, <1>4, <3>1 DEF SameTimes, Time
  <2> QED BY <1>3, <2>1, <2>2, <2>3, <2>4, <2>5, <2>6 DEF Good, SameWaits, r
<1>5. CASE n = 0
  <2> DEFINE next == IF q.overflow = <<>> THEN MaxTick ELSE q.wake[Head(q.overflow)]
             v == ResetNext(w)
             fl == (q.ovf + 1) % Overflows
  <2> HIDE DEF s
  <2>1. s.at = q.at
    BY <1>3
  <2>2. w = [s EXCEPT !.delayed = q.overflow, !.overflow = q.delayed, !.at = at, !.ovf = (@ + 1) % Overflows]
    BY <1>3
  <2> HIDE DEF w, at
  <2>3. /\ Data(w) /\ w.wake = q.wake /\ w.next = q.next /\ SamePrios(q, w) /\ SameReady(q, w) /\ SameWaits(q, w)
        /\ w.delayed = q.overflow /\ w.overflow = q.delayed
        /\ w.at = at /\ w.tick = n /\ w.loop = loop /\ w.on = q.on /\ w.cur = q.cur /\ w.susp = q.susp
        /\ w.pendsv = q.pendsv /\ w.ns = q.ns
    BY <1>3, <2>2, ZenonT(40) DEF Data, Fields, SameTimes, SamePrios, SameReady, SameWaits
  <2>4. /\ Data(v) /\ v.wake = q.wake /\ v.next = next /\ SamePrios(q, v) /\ SameReady(q, v) /\ SameWaits(q, v)
        /\ v.delayed = q.overflow /\ v.overflow = q.delayed
        /\ v.at = at /\ v.tick = n /\ v.loop = loop /\ v.on = q.on /\ v.cur = q.cur /\ v.susp = q.susp
        /\ v.pendsv = q.pendsv /\ v.ns = q.ns
    BY <2>3, Zenon DEF ResetNext, Data, Fields, SamePrios, SameReady, SameWaits
  <2>5. r = v
    BY <1>2, <1>5
  <2> HIDE DEF v, next
  <2>6. \A u \in Task : q.at[u] # "delayed"
    <3> SUFFICES ASSUME NEW u \in Task, q.at[u] = "delayed" PROVE FALSE
      OBVIOUS
    <3>1. q.wake[u] > q.tick /\ q.wake[u] \in Time
      BY <1>0 DEF Good, Timely, Shape, TimeTypes
    <3> QED BY <1>a, <1>1, <1>5, <3>1 DEF Time
  <2>7. \A u \in Task : at[u] = IF q.at[u] = "overflow" THEN "delayed" ELSE q.at[u]
    BY <2>6 DEF at
  <2>8. at \in [Task -> Places]
    <3>1. \A u \in Task : at[u] \in Places
      BY <1>0, <2>7 DEF Shape, ListTypes, Places
    <3> QED BY <3>1 DEF at
  <2>9. /\ q.overflow \in Seq(Task) /\ q.delayed \in Seq(Task) /\ q.wake \in [Task -> Time]
        /\ Holds(q.overflow, {u \in Task : q.at[u] = "overflow"}) /\ InOrder(q.overflow, q.wake)
        /\ Holds(q.delayed, {u \in Task : q.at[u] = "delayed"}) /\ InOrder(q.delayed, q.wake)
    BY <1>0 DEF Good, Shape, ListTypes, TimeTypes, SleepOK
  <2>10. next \in Time /\ \A u \in Task : q.at[u] = "overflow" => next <= q.wake[u]
    <3>1. CASE q.overflow = <<>>
      <4>1. {u \in Task : q.at[u] = "overflow"} = {}
        BY <2>9, <3>1, HoldsNone, Zenon
      <4>2. next = MaxTick
        BY <3>1 DEF next
      <4> QED BY <1>a, <4>1, <4>2 DEF Time
    <3>2. CASE q.overflow # <<>>
      <4>1. next = q.wake[Head(q.overflow)]
        BY <3>2 DEF next
      <4>2. Head(q.overflow) \in Task
        BY <2>9, <3>2, HeadIn
      <4>3. ASSUME NEW u \in Task, q.at[u] = "overflow" PROVE next <= q.wake[u]
        <5>1. u \in {x \in Task : q.at[x] = "overflow"}
          BY <4>3
        <5> QED BY <2>9, <4>1, <5>1, HeadFirst
      <4> QED BY <2>9, <4>1, <4>2, <4>3
    <3> QED BY <3>1, <3>2
  <2>11. Shape(v)
    BY <1>0, <1>1, <2>4, <2>8, <2>9, <2>10, Zenon
      DEF Shape, SamePrios, SameReady, SameWaits, SwitchTypes, TimeTypes, PrioTypes,
          ListTypes, WaitTypes, NoteTypes
  <2>12. ReadyOK(v)
    <3>1. \A o \in Prio : ReadyAt(v, o) = ReadyAt(q, o)
      BY <2>4, <2>7 DEF ReadyAt, SamePrios
    <3> QED BY <2>4, <3>1 DEF Good, ReadyOK, SameReady
  <2>13. SleepOK(v)
    <3>1. {u \in Task : v.at[u] = "delayed"} = {u \in Task : q.at[u] = "overflow"}
      BY <2>4, <2>6, <2>7
    <3>2. {u \in Task : v.at[u] = "overflow"} = {u \in Task : q.at[u] = "delayed"}
      BY <2>4, <2>6, <2>7
    <3>3. \A u \in Task : v.at[u] = "delayed" => v.next <= v.wake[u]
      BY <2>4, <2>6, <2>7, <2>10
    <3>4. v.wake = q.wake /\ v.delayed = q.overflow /\ v.overflow = q.delayed
      BY <2>4
    <3> QED BY <2>9, <3>1, <3>2, <3>3, <3>4, Zenon DEF SleepOK
  <2>14. WaitOK(v)
    BY <2>4, Zenon DEF Good, WaitOK, SameWaits
  <2>15. Timely(v)
    BY <2>4, <2>6, <2>7 DEF Timely
  <2> QED BY <2>4, <2>5, <2>7, <2>11, <2>12, <2>13, <2>14, <2>15 DEF Good, SameWaits, r
<1> QED BY <1>4, <1>5

LEMMA NewTaskGood ==
  ASSUME NEW q, Good(q), NEW t \in Task, q.at[t] = "none", scene \in Programs
  PROVE  LET r == NewTask(q, t)
         IN  /\ Good(r) /\ r.on = q.on /\ r.cur = q.cur /\ r.susp = q.susp /\ r.loop = q.loop
             /\ r.pendsv = q.pendsv /\ r.ev = q.ev /\ r.tick = q.tick
             /\ r.at = [q.at EXCEPT ![t] = "ready"] /\ r.ns = [q.ns EXCEPT ![t] = "not"]
             /\ r.prio = [q.prio EXCEPT ![t] = scene.prio[t]]
<1> DEFINE p == scene.prio[t]
           v == [q EXCEPT !.prio[t] = scene.prio[t], !.base[t] = scene.prio[t],
                     !.evp[t] = scene.prio[t], !.held[t] = 0,
                     !.ns[t] = "not", !.nv[t] = 0]
           r == NewTask(q, t)
<1>0. Shape(q) /\ Data(q)
  BY DEF Good, Shape
<1>1. p \in Prio
  BY SchedulerAssumption
<1>2. /\ Data(v) /\ SameTimes(q, v) /\ SameReady(q, v) /\ SameSleep(q, v) /\ SameWaits(q, v)
      /\ v.at = q.at /\ v.tick = q.tick /\ v.on = q.on /\ v.cur = q.cur /\ v.susp = q.susp
      /\ v.loop = q.loop /\ v.pendsv = q.pendsv
      /\ v.prio = [q.prio EXCEPT ![t] = p] /\ v.base = [q.base EXCEPT ![t] = p]
      /\ v.evp = [q.evp EXCEPT ![t] = p] /\ v.ns = [q.ns EXCEPT ![t] = "not"]
  <2>1. v = [q EXCEPT !.prio[t] = p, !.base[t] = p, !.evp[t] = p, !.held[t] = 0, !.ns[t] = "not", !.nv[t] = 0]
    OBVIOUS
  <2> HIDE DEF v, p
  <2> QED BY <1>0, <2>1, ZenonT(40) DEF Data, Fields, SameTimes, SameReady, SameSleep, SameWaits
<1>3. r = AddReady(v, t)
  BY DEF NewTask
<1> HIDE DEF v, p, r
<1>4. Shape(v)
  <2>1. PrioTypes(v)
    BY <1>0, <1>1, <1>2 DEF Shape, PrioTypes
  <2>2. NoteTypes(v)
    BY <1>0, <1>2 DEF Shape, NoteTypes
  <2> QED BY <1>0, <1>2, <2>1, <2>2
        DEF Shape, SameTimes, SameWaits, SameReady, SameSleep, SwitchTypes, TimeTypes, ListTypes,
            WaitTypes
<1>5. ReadyOK(v)
  <2>1. \A u \in Task : u # t => v.prio[u] = q.prio[u]
    BY <1>0, <1>2 DEF Shape, PrioTypes
  <2>2. \A o \in Prio : ReadyAt(v, o) = ReadyAt(q, o)
    BY <1>2, <2>1 DEF ReadyAt
  <2> QED BY <1>2, <2>2 DEF Good, ReadyOK, SameReady
<1>6. SleepOK(v)
  BY <1>2 DEF Good, SleepOK, SameSleep, SameTimes
<1>7. WaitOK(v)
  BY <1>2 DEF Good, WaitOK, SameWaits
<1>8. Timely(v)
  BY <1>2 DEF Good, Timely, SameTimes
<1>9. Good(v) /\ v.at[t] \notin {"ready", "delayed", "overflow"}
  BY <1>2, <1>4, <1>5, <1>6, <1>7, <1>8 DEF Good
<1>10. /\ Good(r) /\ Core(v, r) /\ SameTimes(v, r) /\ SamePrios(v, r) /\ SameWaits(v, r)
       /\ r.at = [v.at EXCEPT ![t] = "ready"]
  BY <1>3, <1>9, AddReadyGood, Zenon
<1> QED BY <1>2, <1>10 DEF Core, SamePrios, SameWaits, r, p

-----------------------------------------------------------------------------
(* Notifications.                                                          *)

Noting(q, t, n, v) == [q EXCEPT !.ns[t] = n, !.nv[t] = v]

LEMMA NoteRests ==
  ASSUME NEW q, Sound(q), NEW t \in Task, NEW n \in {"not", "received"}, NEW v
  PROVE  LET r == Noting(q, t, n, v)
         IN  /\ Sound(r) /\ Follows(q, r) /\ r.at = q.at /\ r.ev = q.ev /\ r.ns[t] = n
             /\ r.susp = q.susp /\ r.cur = q.cur
<1> DEFINE r == Noting(q, t, n, v)
<1>0. Shape(q) /\ Data(q)
  BY DEF Sound, Good, Shape
<1>1. /\ Data(r) /\ SameLists(q, r) /\ SameWaits(q, r)
      /\ r.on = q.on /\ r.cur = q.cur /\ r.susp = q.susp /\ r.loop = q.loop /\ r.pendsv = q.pendsv
      /\ r.ns = [q.ns EXCEPT ![t] = n]
  BY <1>0, Zenon DEF Noting, Data, Fields, SameLists, SameTimes, SamePrios, SameReady, SameSleep, SameWaits
<1> HIDE DEF r
<1>2. /\ SwitchTypes(r) /\ NoteTypes(r) /\ r.ns[t] = n
      /\ \A u \in Task : r.ns[u] = "waiting" => q.ns[u] = "waiting"
  BY <1>0, <1>1 DEF Shape, SwitchTypes, NoteTypes
<1>3. Good(r)
  BY <1>1, <1>2, GoodSame DEF Sound
<1>4. Steady(q, r)
  BY <1>1, <1>2 DEF Steady
<1>5. \A u \in Task : r.at[u] = q.at[u] /\ r.ev[u] = q.ev[u]
  BY <1>1 DEF SameLists, SameWaits
<1>6. Sound(r) /\ Follows(q, r)
  BY <1>3, <1>4, <1>5, Rests
<1> QED BY <1>1, <1>2, <1>6 DEF SameLists, SameWaits, r

LEMMA GivenRests ==
  ASSUME NEW q, Sound(q), NEW x \in Task, NEW action, NEW v
  PROVE  LET u == Given(q, x, action, v)
         IN  /\ Sound(u) /\ Follows(q, u) /\ u.at = q.at /\ u.ev = q.ev /\ u.ns[x] = "received"
             /\ u.susp = q.susp /\ u.cur = q.cur
<1> DEFINE n == "received"
           m == NewValue(q, x, action, v)
           u == Noting(q, x, n, m)
<1>1. n \in {"not", "received"}
  OBVIOUS
<1> HIDE DEF n, m
<1>2. /\ Sound(u) /\ Follows(q, u) /\ u.at = q.at /\ u.ev = q.ev /\ u.ns[x] = n
      /\ u.susp = q.susp /\ u.cur = q.cur
  BY <1>1, NoteRests
<1>3. Given(q, x, action, v) = u
  BY DEF Given, Noting, n, m
<1> HIDE DEF u
<1> QED BY <1>2, <1>3 DEF n

\* The value alone.
LEMMA CountRests ==
  ASSUME NEW q, Sound(q), NEW t, NEW v
  PROVE  LET r == [q EXCEPT !.nv[t] = v] IN Sound(r) /\ Follows(q, r)
<1> DEFINE r == [q EXCEPT !.nv[t] = v]
<1>0. Shape(q) /\ Data(q)
  BY DEF Sound, Good, Shape
<1>1. Data(r) /\ SameLists(q, r) /\ SameWaits(q, r) /\ Core(q, r)
  BY <1>0 DEF Data, Fields, SameLists, SameTimes, SamePrios, SameReady, SameSleep, SameWaits, Core
<1> HIDE DEF r
<1>2. Steady(q, r) /\ r.ns = q.ns
  BY <1>1, CoreSteady DEF Core
<1> QED BY <1>1, <1>2, FlagsRest, Zenon DEF r

LEMMA NotifiedSound ==
  ASSUME NEW q, Sound(q), NEW x \in Task, q.at[x] \notin {"none", "termination"}, NEW action, NEW v
  PROVE  LET r == Notified(q, x, action, v) IN Sound(r) /\ Follows(q, r)
<1> DEFINE u == Given(q, x, action, v)
           a == AddReady(Unlist(u, x), x)
           y == YieldsTo(a, x)
<1>1. Sound(u) /\ Follows(q, u) /\ u.at = q.at /\ u.ev = q.ev
  BY GivenRests
<1>2. Notified(q, x, action, v) = IF q.ns[x] = "waiting" THEN y ELSE u
  BY DEF Notified
<1> HIDE DEF u
<1>3. CASE q.ns[x] = "waiting"
  <2>1. q.ev[x] = "none"
    <3>1. TaskOK(q, x, pc[x], loc[x])
      BY DEF Sound
    <3> QED BY <1>3, <3>1 DEF TaskOK, NoteOK
  <2>2. Sound(a) /\ Follows(u, a)
    BY <1>1, <2>1, ReadyAwakes
  <2> HIDE DEF a
  <2>3. Sound(y) /\ Follows(a, y)
    BY <2>2, YieldsToRests
  <2>4. Follows(q, y)
    BY <1>1, <2>2, <2>3, FollowsTwice
  <2> QED BY <1>2, <1>3, <2>3, <2>4, Zenon
<1>4. CASE q.ns[x] # "waiting"
  BY <1>1, <1>2, <1>4, Zenon
<1> QED BY <1>3, <1>4

LEMMA NotifiedFromISRSound ==
  ASSUME NEW q, Sound(q), NEW x \in Task, q.at[x] \notin {"none", "termination"}, NEW action, NEW v,
         Here(q, x) /\ x = q.cur /\ q.ns[x] = "waiting" /\ q.susp # 0 => Filed(pc[x], loc[x])
  PROVE  LET r == NotifiedFromISR(q, x, action, v) IN Sound(r) /\ Follows(q, r)
<1> DEFINE u == Given(q, x, action, v)
           a == AddReady(Unlist(u, x), x)
           b == Pend(u, x)
           c == IF q.susp = 0 THEN a ELSE b


<1>1. /\ Sound(u) /\ Follows(q, u) /\ u.at = q.at /\ u.ev = q.ev /\ u.ns[x] = "received"
      /\ u.susp = q.susp /\ u.cur = q.cur
  BY GivenRests
<1>2. NotifiedFromISR(q, x, action, v) = IF q.ns[x] # "waiting" THEN u ELSE YieldsTo(Owe(c, x), x)
  BY DEF NotifiedFromISR
<1> HIDE DEF u
<1>3. CASE q.ns[x] = "waiting"
  <2>1. q.ev[x] = "none"
    <3>1. TaskOK(q, x, pc[x], loc[x])
      BY DEF Sound
    <3> QED BY <1>3, <3>1 DEF TaskOK, NoteOK
  <2>2. Sound(c) /\ Follows(u, c)
    <3>1. CASE q.susp = 0
      <4>1. Sound(a) /\ Follows(u, a)
        BY <1>1, <2>1, ReadyAwakes
      <4> HIDE DEF a
      <4> QED BY <1>1, <3>1, <4>1
    <3>2. CASE q.susp # 0
      <4>1. Here(u, x) /\ x = u.cur => Filed(pc[x], loc[x])
        BY <1>1, <1>3, <3>2 DEF Here
      <4>2. u.ns[x] # "waiting" /\ u.ev[x] = "none" /\ u.at[x] \notin {"none", "termination"} /\ u.susp # 0
        BY <1>1, <2>1, <3>2
      <4>3. Sound(b) /\ Follows(u, b)
        BY <1>1, <4>1, <4>2, PendPends
      <4> HIDE DEF b
      <4> QED BY <1>1, <3>2, <4>3
    <3> QED BY <3>1, <3>2
  <2> HIDE DEF c
  <2> DEFINE w == Owe(c, x)
             z == YieldsTo(w, x)
  <2>3. Sound(w) /\ Follows(c, w)
    BY <2>2, OweRests
  <2> HIDE DEF w
  <2>4. Sound(z) /\ Follows(w, z)
    BY <2>3, YieldsToRests
  <2> HIDE DEF z
  <2>5. Follows(q, z)
    BY <1>1, <2>2, <2>3, <2>4, FollowsTwice
  <2>6. NotifiedFromISR(q, x, action, v) = z
    BY <1>2, <1>3 DEF w, z
  <2> QED BY <2>4, <2>5, <2>6, Zenon
<1>4. CASE q.ns[x] # "waiting"
  BY <1>1, <1>2, <1>4, Zenon
<1> QED BY <1>3, <1>4

-----------------------------------------------------------------------------
(* Steps of the running task.                                              *)

Becomes(t, p, l) ==
  /\ DOMAIN pc' = Task /\ DOMAIN loc' = Task /\ pc'[t] = p /\ loc'[t] = l
  /\ \A u \in Task : u # t => pc'[u] = pc[u] /\ loc'[u] = loc[u]

LEMMA GoBecomes ==
  ASSUME DOMAIN pc = Task, DOMAIN loc = Task, NEW t \in Task, NEW p, NEW l,
         pc' = [pc EXCEPT ![t] = p], loc' = [loc EXCEPT ![t] = l]
  PROVE  Becomes(t, p, l)
BY DEF Becomes

LEMMA Domains == ASSUME IInv PROVE DOMAIN pc = Task /\ DOMAIN loc = Task /\ Sound(k)
BY DEF IInv, Control, Sound

LEMMA Concludes ==
  ASSUME IInv, NEW t \in Task, NEW p, NEW l, Becomes(t, p, l), Good(k'),
         k.cur = t, k'.cur = t, k'.on, k'.at[Idle] = "ready", t = Idle => p = "app", pc[Idle] = "app",
         \A u \in Task : u # t => TaskOK(k', u, pc[u], loc[u]),
         TaskOK(k', t, p, l), CurrentOK(k', t, p, l), HoldersOK', scene' = scene
  PROVE  IInv'
<1>1. ASSUME NEW u \in Task PROVE TaskOK(k', u, pc'[u], loc'[u]) /\ (u # k'.cur => ~Closed(pc'[u]))
  <2>1. CASE u = t
    BY <2>1 DEF Becomes
  <2>2. CASE u # t
    BY <2>2 DEF Becomes, IInv, Control
  <2> QED BY <2>1, <2>2
<1>2. BootOK'
  BY SchedulerAssumption DEF BootOK, Becomes
<1>3. CurrentOK(k', k'.cur, pc'[k'.cur], loc'[k'.cur])
  BY DEF Becomes
<1>4. DOMAIN pc' = Task /\ DOMAIN loc' = Task /\ scene' \in Programs
  BY DEF Becomes, IInv, Control
<1> QED BY <1>1, <1>2, <1>3, <1>4 DEF IInv, Control

\* Where the running task is here.
Settled == {"app", "slept", "delay", "try", "hold", "lock", "check", "test", "inherit", "place",
            "expired", "disinherit", "nlook", "nhold", "narm", "nend"}

LEMMA RunsHere ==
  ASSUME IInv, NEW t \in Task, Runs(t), pc[t] \in Settled
  PROVE  Here(k, t)
BY DEF IInv, Control, CurrentOK, Filed, Leaves, Runs, Settled

LEMMA IdleStays ==
  ASSUME IInv, k.on
  PROVE  k.at[Idle] = "ready" /\ pc[Idle] = "app" /\ Idle \in Task
BY SchedulerAssumption DEF IInv, Control, BootOK

LEMMA CallStep ==
  ASSUME IInv, NEW t \in Task, Runs(t), pc[t] \in Settled, pc[t] # "nend" \/ k'.ns[t] # "waiting",
         NEW p, NEW l, Becomes(t, p, l), Sound(k'), Trails(k, k'), PlanOK(p, l), p \notin {"none", "dead"},
         Guarded(k', t, p, l), t = Idle => p = "app", HoldersOK', scene' = scene
  PROVE  IInv'
<1>1. Here(k, t) /\ k.cur = t /\ k.on
  BY RunsHere DEF Runs
<1>2. Here(k', t)
  BY <1>1 DEF Trails, Filed, Settled
<1>3. k'.ns[t] # "waiting"
  <2>1. TaskOK(k, t, pc[t], loc[t])
    BY DEF IInv, Control
  <2> QED BY <2>1 DEF TaskOK, NoteOK, Settled, Trails
<1>4. EventOK(k', t, p)
  BY <1>2, SchedulerAssumption DEF EventOK, Here
<1>5. TaskOK(k', t, p, l)
  BY <1>3, <1>4 DEF TaskOK, NoteOK
<1>6. CurrentOK(k', t, p, l)
  BY <1>2 DEF CurrentOK
<1>7. k'.cur = t /\ k'.on /\ k'.at[Idle] = "ready" /\ pc[Idle] = "app"
  BY <1>1, IdleStays DEF Trails
<1>8. Good(k') /\ \A u \in Task : u # t => TaskOK(k', u, pc[u], loc[u])
  BY DEF Sound
<1> QED BY <1>1, <1>5, <1>6, <1>7, <1>8, Concludes

\* Only the data move.
LEMMA DataStep ==
  ASSUME IInv, k.on, pc' = pc, loc' = loc, Sound(k'), Follows(k, k'), HoldersOK', scene' = scene
  PROVE  IInv'
<1> DEFINE t == k.cur
<1>1. t \in Task
  BY DEF IInv, Good, Shape, SwitchTypes
<1>2. Becomes(t, pc[t], loc[t])
  BY Domains DEF Becomes
<1>3. CurrentOK(k, t, pc[t], loc[t])
  BY DEF IInv, Control
<1>4. Trails(k, k') /\ k'.susp = k.susp
  BY FollowsTrails
<1>5. Guarded(k', t, pc[t], loc[t])
  BY <1>1, <1>3, <1>4 DEF CurrentOK, Guarded, MayBlock, Trails
<1>6. CurrentOK(k', t, pc[t], loc[t])
  BY <1>3, <1>4, <1>5 DEF CurrentOK, Trails, Leaves
<1>7. k'.cur = t /\ k'.on /\ k'.at[Idle] = "ready" /\ pc[Idle] = "app"
  BY <1>4, IdleStays DEF Trails
<1>8. Good(k') /\ \A u \in Task : TaskOK(k', u, pc[u], loc[u])
  BY DEF Sound
<1>9. t = Idle => pc[t] = "app"
  BY <1>7
<1> HIDE DEF t
<1> QED BY <1>1, <1>2, <1>6, <1>7, <1>8, <1>9, Concludes DEF t

\* The running task files itself.
LEMMA FileStep ==
  ASSUME IInv, NEW t \in Task, Runs(t), pc[t] # "app",
         NEW p \in {"resume", "untx"}, NEW l, Becomes(t, p, l), Good(k'), Core(k, k'),
         \A u \in Task : u # t => k'.at[u] = k.at[u] /\ k'.ev[u] = k.ev[u],
         TaskOK(k', t, p, l), Guarded(k', t, p, l), l.yields, HoldersOK', scene' = scene
  PROVE  IInv'
<1>1. k.cur = t /\ k.on /\ k'.cur = t /\ k'.on
  BY DEF Runs, Core
<1>2. t # Idle /\ k'.at[Idle] = "ready" /\ pc[Idle] = "app"
  BY <1>1, IdleStays
<1>3. ASSUME NEW u \in Task, u # t PROVE TaskOK(k', u, pc[u], loc[u])
  <2>1. TaskOK(k, u, pc[u], loc[u])
    BY DEF IInv, Control
  <2>2. EventOK(k', u, pc[u])
    BY <1>3, <2>1 DEF TaskOK, EventOK, Core
  <2>3. NoteOK(k', u, pc[u], loc[u])
    BY <1>3, <2>1 DEF TaskOK, NoteOK, Core
  <2> QED BY <2>1, <2>2, <2>3 DEF TaskOK
<1>4. CurrentOK(k', t, p, l)
  BY DEF CurrentOK, Filed
<1> QED BY <1>1, <1>2, <1>3, <1>4, Concludes

-----------------------------------------------------------------------------
(* What a call starts with, and the counters it touches.                   *)

LEMMA NoCallPlan ==
  /\ DOMAIN NoCall = {"api", "obj", "val", "ticks", "asked", "entry", "timed", "inherited", "then", "back",
                      "yields", "yielded"}
  /\ NoCall.ticks = 0 /\ NoCall.then = "app" /\ NoCall.back = "app" /\ NoCall.yields = FALSE
  /\ NoCall.yielded = FALSE /\ NoCall.entry.tick = 0 /\ 0 \in Time
BY SchedulerAssumption DEF NoCall, Time

LEMMA NoPlan ==
  ASSUME NEW p, p \notin {"try", "hold", "lock", "check", "test", "inherit", "place", "untx", "unrx", "expired",
                       "disinherit", "delay", "nplace", "narm", "nhold"}
  PROVE  PlanOK(p, NoCall)
<1>1. NoCall.yields \in BOOLEAN /\ ~NoCall.yields
  BY NoCallPlan, Zenon
<1>2. ~(p \in InQueue \/ (p \in {"resume", "resumed"} /\ NoCall.then \in {"try", "expired"}))
  BY NoCallPlan DEF InQueue
<1>3. {"api", "obj", "ticks", "entry", "then", "back", "yields", "yielded"} \subseteq DOMAIN NoCall
  BY NoCallPlan
<1> QED BY <1>1, <1>2, <1>3, NoCallPlan DEF PlanOK

LEMMA SuspendTrails ==
  ASSUME NEW q, Sound(q)
  PROVE  LET r == SuspendedAll(q) IN Sound(r) /\ Trails(q, r) /\ r.susp = q.susp + 1
<1> DEFINE r == SuspendedAll(q)
<1>0. Shape(q) /\ Data(q)
  BY DEF Sound, Good, Shape
<1>1. /\ Data(r) /\ SameLists(q, r) /\ SameWaits(q, r) /\ r.susp = q.susp + 1
      /\ r.on = q.on /\ r.cur = q.cur /\ r.loop = q.loop /\ r.pendsv = q.pendsv /\ r.ns = q.ns
  BY <1>0 DEF SuspendedAll, Data, Fields, SameLists, SameTimes, SamePrios, SameReady, SameSleep, SameWaits
<1> HIDE DEF r
<1>2. /\ SwitchTypes(r) /\ NoteTypes(r) /\ r.susp # 0
  BY <1>0, <1>1 DEF Shape, SwitchTypes, NoteTypes
<1>3. Good(r)
  BY <1>1, <1>2, GoodSame DEF Sound
<1>4. q.cur \in Task
  BY <1>0 DEF Shape, SwitchTypes
<1>5. Trails(q, r)
  BY <1>1, <1>4 DEF Trails, Here, SameLists, SameWaits
<1>6. ASSUME NEW u \in Task PROVE TaskOK(r, u, pc[u], loc[u])
  <2>1. TaskOK(q, u, pc[u], loc[u]) /\ r.at[u] = q.at[u] /\ r.ev[u] = q.ev[u]
    BY <1>1 DEF Sound, SameLists, SameWaits
  <2>2. EventOK(r, u, pc[u])
    BY <1>2, <2>1 DEF TaskOK, EventOK
  <2>3. NoteOK(r, u, pc[u], loc[u])
    BY <1>1, <2>1 DEF TaskOK, NoteOK
  <2> QED BY <2>1, <2>2, <2>3 DEF TaskOK
<1> QED BY <1>1, <1>3, <1>5, <1>6 DEF Sound, r

LEMMA TimingRests ==
  ASSUME NEW q, Sound(q), NEW t
  PROVE  LET r == Timing(q, t) IN Sound(r) /\ Follows(q, r) /\ r.susp = q.susp
<1> DEFINE r == Timing(q, t)
<1>0. Shape(q) /\ Data(q)
  BY DEF Sound, Good, Shape
<1>1. Data(r) /\ SameLists(q, r) /\ SameWaits(q, r) /\ Core(q, r)
  BY <1>0 DEF Timing, Data, Fields, SameLists, SameTimes, SamePrios, SameReady, SameSleep, SameWaits, Core
<1> HIDE DEF r
<1>2. Steady(q, r) /\ r.ns = q.ns
  BY <1>1, CoreSteady DEF Core
<1> QED BY <1>1, <1>2, FlagsRest DEF r, Core

LEMMA PendedRests ==
  ASSUME NEW q, Sound(q), NEW n
  PROVE  LET r == [q EXCEPT !.pended = n] IN Sound(r) /\ Follows(q, r) /\ r.susp = q.susp
<1> DEFINE r == [q EXCEPT !.pended = n]
<1>0. Shape(q) /\ Data(q)
  BY DEF Sound, Good, Shape
<1>1. Data(r) /\ SameLists(q, r) /\ SameWaits(q, r) /\ Core(q, r)
  BY <1>0 DEF Data, Fields, SameLists, SameTimes, SamePrios, SameReady, SameSleep, SameWaits, Core
<1> HIDE DEF r
<1>2. Steady(q, r) /\ r.ns = q.ns
  BY <1>1, CoreSteady DEF Core
<1> QED BY <1>1, <1>2, FlagsRest, Zenon DEF r, Core

LEMMA TrailsTwice ==
  ASSUME NEW q, NEW r, NEW s, Follows(q, r), Trails(r, s)
  PROVE  Trails(q, s)
<1>1. r.cur = q.cur
  BY DEF Follows, Steady
<1> QED BY <1>1 DEF Follows, Trails, Steady

-----------------------------------------------------------------------------
(* Steps that change the call of another task, or of none.                 *)

LEMMA ConcludesOther ==
  ASSUME IInv, NEW x \in Task, x # Idle, x # k.cur, NEW p, ~Closed(p), NEW l, Becomes(x, p, l), Good(k'),
         k'.cur = k.cur, k'.on, k'.at[Idle] = "ready", pc[Idle] = "app",
         \A u \in Task : u # x => TaskOK(k', u, pc[u], loc[u]),
         TaskOK(k', x, p, l), CurrentOK(k', k.cur, pc[k.cur], loc[k.cur]), HoldersOK', scene' = scene
  PROVE  IInv'
<1>0. k.cur \in Task
  BY DEF IInv, Good, Shape, SwitchTypes
<1>1. ASSUME NEW u \in Task PROVE TaskOK(k', u, pc'[u], loc'[u]) /\ (u # k'.cur => ~Closed(pc'[u]))
  <2>1. CASE u = x
    BY <2>1 DEF Becomes
  <2>2. CASE u # x
    BY <2>2 DEF Becomes, IInv, Control
  <2> QED BY <2>1, <2>2
<1>2. BootOK'
  BY SchedulerAssumption DEF BootOK, Becomes
<1>3. CurrentOK(k', k'.cur, pc'[k'.cur], loc'[k'.cur])
  BY <1>0 DEF Becomes
<1>4. DOMAIN pc' = Task /\ DOMAIN loc' = Task /\ scene' \in Programs
  BY DEF Becomes, IInv, Control
<1> QED BY <1>1, <1>2, <1>3, <1>4 DEF IInv, Control

LEMMA ConcludesNone ==
  ASSUME IInv, pc' = pc, loc' = loc, Good(k'), k'.on, k'.at[Idle] = "ready", pc[Idle] = "app",
         \A u \in Task : TaskOK(k', u, pc[u], loc[u]) /\ (u # k'.cur => ~Closed(pc[u])),
         CurrentOK(k', k'.cur, pc[k'.cur], loc[k'.cur]), HoldersOK', scene' = scene
  PROVE  IInv'
<1>1. BootOK'
  BY SchedulerAssumption DEF BootOK
<1>2. DOMAIN pc' = Task /\ DOMAIN loc' = Task /\ scene' \in Programs
  BY DEF IInv, Control
<1> QED BY <1>1, <1>2 DEF IInv, Control

LEMMA HoldersStay == ASSUME IInv, qs' = qs PROVE HoldersOK'
BY DEF IInv, Control, HoldersOK

\* Who calls is not the idle task.
LEMMA CallerIsNotIdle ==
  ASSUME IInv, NEW t \in Task, NEW api, May(t, api)
  PROVE  t # Idle
BY SchedulerAssumption DEF IInv, Control, May

LEMMA Calls ==
  ASSUME IInv, NEW t \in Task, NEW api, NEW l, NEW p, Enter(t, api, l, p)
  PROVE  /\ Runs(t) /\ pc[t] = "app" /\ t # Idle /\ k.on /\ k.cur = t /\ Here(k, t)
         /\ Becomes(t, p, [l EXCEPT !.api = api])
<1>1. Runs(t) /\ pc[t] = "app" /\ t # Idle
  BY CallerIsNotIdle DEF Enter, Go
<1>2. Becomes(t, p, [l EXCEPT !.api = api])
  <2> DEFINE m == [l EXCEPT !.api = api]
  <2>1. pc' = [pc EXCEPT ![t] = p] /\ loc' = [loc EXCEPT ![t] = m]
    BY DEF Enter, Go
  <2> HIDE DEF m
  <2>2. Becomes(t, p, m)
    BY <2>1, GoBecomes, Domains, Zenon
  <2> QED BY <2>2 DEF m
<1> QED BY <1>1, <1>2, RunsHere DEF Runs, Settled

LEMMA GoKeeps ==
  ASSUME IInv, NEW t \in Task, NEW from, NEW p, Go(t, from, p), loc' = loc
  PROVE  /\ Runs(t) /\ pc[t] = from /\ k.on /\ k.cur = t /\ Becomes(t, p, loc[t])
BY Domains DEF Go, Becomes, Runs

LEMMA Returns ==
  ASSUME IInv, NEW t \in Task, NEW from, Return(t, from)
  PROVE  /\ Runs(t) /\ pc[t] = from /\ k.on /\ k.cur = t /\ Becomes(t, "app", NoCall)
BY Domains DEF Return, Go, Becomes, Runs

LEMMA GoesOn ==
  ASSUME IInv, NEW t \in Task, NEW from, NEW p, Go(t, from, p), NEW l, loc' = [loc EXCEPT ![t] = l]
  PROVE  /\ Runs(t) /\ pc[t] = from /\ k.on /\ k.cur = t /\ Becomes(t, p, l)
BY Domains DEF Go, Becomes, Runs

LEMMA EmptyPlan ==
  ASSUME NEW api
  PROVE  LET l == [NoCall EXCEPT !.api = api] IN PlanOK("resume", l) /\ PlanOK("dead", l) /\ l.then = "app"
<1> DEFINE l == [NoCall EXCEPT !.api = api]
<1>0. l.yields = FALSE
  BY NoCallPlan, Zenon
<1>1. l.yields \in BOOLEAN /\ ~l.yields
  BY <1>0, Zenon
<1>2. /\ DOMAIN l = DOMAIN NoCall /\ l.ticks = 0 /\ l.then = "app" /\ l.back = "app" /\ l.entry.tick = 0
  BY NoCallPlan
<1> HIDE DEF l
<1>3. {"api", "obj", "ticks", "entry", "then", "back", "yields", "yielded"} \subseteq DOMAIN l
  BY <1>2, NoCallPlan
<1>4. PlanOK("resume", l)
  BY <1>1, <1>2, <1>3, NoCallPlan DEF PlanOK, InQueue
<1>5. PlanOK("dead", l)
  BY <1>1, <1>2, <1>3, NoCallPlan DEF PlanOK, InQueue
<1> QED BY <1>2, <1>4, <1>5 DEF l

LEMMA EasyPlan ==
  ASSUME NEW t \in Task, PlanOK(pc[t], loc[t])
  PROVE  \A p \in {"app", "none", "dead", "suspend", "slept"} : PlanOK(p, loc[t])
BY DEF PlanOK, InQueue

LEMMA SuspNat == ASSUME IInv PROVE k.susp \in Nat /\ k.cur \in Task /\ Good(k) /\ scene \in Programs
BY DEF IInv, Control, Good, Shape, SwitchTypes

-----------------------------------------------------------------------------
(* The task functions of the API.                                          *)

LEMMA TaskYieldKeeps ==
  ASSUME IInv, scene' = scene, qs' = qs, NEW t \in Task, TaskYield(t)
  PROVE  IInv'
<1>1. k.on /\ k' = Yield(k) /\ pc' = pc /\ loc' = loc
  BY DEF TaskYield, Simple, Runs
<1> QED BY <1>1, Domains, YieldRests, HoldersStay, DataStep

LEMMA ResumeKeeps ==
  ASSUME IInv, scene' = scene, qs' = qs, NEW t \in Task, NEW x \in Task, Resume(t, x)
  PROVE  IInv'
<1> DEFINE r == AddReady(Unlist(k, x), x)
<1>1. k.on /\ k' = YieldsTo(r, x) /\ pc' = pc /\ loc' = loc /\ k.at[x] = "suspended" /\ k.ev[x] = "none"
  BY DEF Resume, Simple, Runs, IsSuspended
<1>2. Sound(r) /\ Follows(k, r)
  BY <1>1, Domains, ReadyAwakes
<1> HIDE DEF r
<1>3. Sound(k') /\ Follows(r, k')
  BY <1>1, <1>2, YieldsToRests
<1>4. Follows(k, k')
  BY <1>2, <1>3, FollowsTwice
<1> QED BY <1>1, <1>3, <1>4, HoldersStay, DataStep

LEMMA BaseRests ==
  ASSUME NEW q, Sound(q), NEW t \in Task, NEW p \in Prio
  PROVE  LET r == [q EXCEPT !.base[t] = p] IN Sound(r) /\ Follows(q, r)
<1> DEFINE r == [q EXCEPT !.base[t] = p]
<1>0. Shape(q) /\ Data(q)
  BY DEF Sound, Good, Shape
<1>1. /\ Data(r) /\ SameTimes(q, r) /\ SameReady(q, r) /\ SameSleep(q, r) /\ SameWaits(q, r) /\ Core(q, r)
      /\ r.at = q.at /\ r.prio = q.prio /\ r.evp = q.evp /\ r.base = [q.base EXCEPT ![t] = p]
  BY <1>0 DEF Data, Fields, SameTimes, SameReady, SameSleep, SameWaits, Core
<1> HIDE DEF r
<1>2. Shape(r)
  <2>1. r.base \in [Task -> Prio] /\ PrioTypes(r)
    BY <1>0, <1>1 DEF Shape, PrioTypes
  <2> QED BY <1>0, <1>1, <2>1
        DEF Shape, Core, SameTimes, SameWaits, SameReady, SameSleep, SwitchTypes, TimeTypes, ListTypes,
            WaitTypes, NoteTypes
<1>3. ReadyOK(r)
  <2>1. \A o \in Prio : ReadyAt(r, o) = ReadyAt(q, o)
    BY <1>1 DEF ReadyAt
  <2> QED BY <1>1, <2>1 DEF Sound, Good, ReadyOK, SameReady
<1>4. SleepOK(r)
  BY <1>1 DEF Sound, Good, SleepOK, SameSleep, SameTimes
<1>5. WaitOK(r)
  BY <1>1 DEF Sound, Good, WaitOK, SameWaits
<1>6. Timely(r)
  BY <1>1 DEF Sound, Good, Timely, Core, SameTimes
<1>7. Good(r)
  BY <1>2, <1>3, <1>4, <1>5, <1>6 DEF Good
<1>8. \A u \in Task : r.at[u] = q.at[u] /\ r.ev[u] = q.ev[u]
  BY <1>1 DEF SameWaits
<1>9. Steady(q, r)
  BY <1>1, CoreSteady
<1> QED BY <1>7, <1>8, <1>9, Rests, Zenon DEF r

LEMMA PrioritySetKeeps ==
  ASSUME IInv, scene' = scene, qs' = qs, NEW t \in Task, NEW x \in Task, NEW p \in Prio, PrioritySet(t, x, p)
  PROVE  IInv'
<1>1. Sound(k) /\ k.prio[x] \in Prio
  BY Domains, PriosOf
<1>2. PICK n \in Prio, y \in BOOLEAN :
        LET b == [Reprio(k, x, n) EXCEPT !.base[x] = p]
            r == Revalue(b, x, p)
        IN  k' = IF y THEN Yield(r) ELSE r
  BY <1>1, Zenon DEF PrioritySet, Simple
<1> DEFINE q == Reprio(k, x, n)
           b == [q EXCEPT !.base[x] = p]
           r == Revalue(b, x, p)
<1>3. k.on /\ pc' = pc /\ loc' = loc
  BY DEF PrioritySet, Simple, Runs
<1>4. Sound(q) /\ Follows(k, q)
  BY <1>1, ReprioRests, Zenon
<1> HIDE DEF q
<1>5. Sound(b) /\ Follows(k, b)
  BY <1>4, BaseRests, FollowsTwice
<1> HIDE DEF b
<1>6. Sound(r) /\ Follows(k, r)
  BY <1>5, RevalueRests, FollowsTwice
<1>7. k' = IF y THEN Yield(r) ELSE r
  BY <1>2 DEF q, b, r
<1> HIDE DEF r
<1>8. Sound(k') /\ Follows(k, k')
  BY <1>6, <1>7, YieldRests, FollowsTwice
<1> QED BY <1>3, <1>8, HoldersStay, DataStep

LEMMA LockSchedulerKeeps ==
  ASSUME IInv, scene' = scene, qs' = qs, NEW t \in Task, LockScheduler(t)
  PROVE  IInv'
<1>1. Runs(t) /\ pc[t] = "app" /\ k' = SuspendedAll(k) /\ pc' = pc /\ loc' = loc
  BY DEF LockScheduler, Simple
<1>2. Becomes(t, "app", loc[t])
  BY <1>1, Domains DEF Becomes
<1>3. Sound(k') /\ Trails(k, k')
  BY <1>1, Domains, SuspendTrails
<1>4. PlanOK("app", loc[t])
  BY <1>1 DEF IInv, Control, TaskOK
<1>5. Guarded(k', t, "app", loc[t])
  BY DEF Guarded, Alone, MayBlock
<1> QED BY <1>1, <1>2, <1>3, <1>4, <1>5, HoldersStay, CallStep DEF Settled

LEMMA UnlockSchedulerKeeps ==
  ASSUME IInv, scene' = scene, qs' = qs, NEW t \in Task, UnlockScheduler(t)
  PROVE  IInv'
<1> DEFINE l == [NoCall EXCEPT !.api = "lock"]
<1>1. Runs(t) /\ pc[t] = "app" /\ t # Idle /\ Becomes(t, "resume", l) /\ k' = k /\ k.susp > 0
  BY Calls DEF UnlockScheduler
<1>2. PlanOK("resume", l) /\ l.then = "app"
  BY EmptyPlan
<1> HIDE DEF l
<1>3. Sound(k') /\ Trails(k, k')
  BY <1>1, Domains, FollowsItself, FollowsTrails
<1>4. Guarded(k', t, "resume", l)
  BY <1>1, <1>2, SuspNat DEF Guarded, Alone, MayBlock
<1> QED BY <1>1, <1>2, <1>3, <1>4, HoldersStay, CallStep DEF Settled

LEMMA CatchUpTicksKeeps ==
  ASSUME IInv, scene' = scene, qs' = qs, NEW t \in Task, CatchUpTicks(t)
  PROVE  IInv'
<1> DEFINE l == [NoCall EXCEPT !.api = "catchup"]
           q == [k EXCEPT !.pended = @ + 1]
<1>1. Runs(t) /\ pc[t] = "app" /\ t # Idle /\ Becomes(t, "resume", l) /\ k' = SuspendedAll(q) /\ k.susp = 0
  BY Calls DEF CatchUpTicks
<1>2. PlanOK("resume", l) /\ l.then = "app"
  BY EmptyPlan
<1> HIDE DEF l
<1>3. Sound(q) /\ Follows(k, q) /\ q.susp = k.susp
  BY Domains, PendedRests
<1> HIDE DEF q
<1>4. Sound(k') /\ Trails(k, k') /\ k'.susp = 1
  BY <1>1, <1>3, SuspendTrails, TrailsTwice
<1>5. Guarded(k', t, "resume", l)
  BY <1>2, <1>4 DEF Guarded, Alone, MayBlock
<1> QED BY <1>1, <1>2, <1>4, <1>5, HoldersStay, CallStep DEF Settled

LEMMA DelayKeeps ==
  ASSUME IInv, scene' = scene, qs' = qs, NEW t \in Task, Delay(t)
  PROVE  IInv'
<1>1. PICK api \in Called(t, {"delay"}), n \in scene.waits[t] \ {0} :
        /\ Enter(t, api, [NoCall EXCEPT !.ticks = n, !.asked = n, !.yields = TRUE, !.then = "slept"], "delay")
        /\ k.susp = 0 /\ k' = SuspendedAll(Timing(k, t))
  BY Zenon DEF Delay
<1> DEFINE c == [NoCall EXCEPT !.ticks = n, !.asked = n, !.yields = TRUE, !.then = "slept"]
           l == [c EXCEPT !.api = api]
           q == Timing(k, t)
<1>2. Enter(t, api, c, "delay")
  BY <1>1
<1>3. n \in Time /\ n # 0
  BY SchedulerAssumption, SuspNat
<1>4. l.yields = TRUE
  BY NoCallPlan, Zenon
<1>5. PlanOK("delay", l)
  BY <1>3, NoCallPlan DEF PlanOK, InQueue
<1> HIDE DEF c
<1>6. Runs(t) /\ pc[t] = "app" /\ t # Idle /\ Becomes(t, "delay", l)
  BY <1>2, Calls
<1> HIDE DEF l
<1>7. Sound(q) /\ Follows(k, q) /\ q.susp = k.susp
  BY Domains, TimingRests
<1> HIDE DEF q
<1>8. Sound(k') /\ Trails(k, k') /\ k'.susp = 1
  BY <1>1, <1>7, SuspendTrails, TrailsTwice DEF q
<1>9. Guarded(k', t, "delay", l)
  BY <1>8 DEF Guarded, Alone, MayBlock
<1> QED BY <1>5, <1>6, <1>8, <1>9, HoldersStay, CallStep DEF Settled

LEMMA DelayBlocksKeeps ==
  ASSUME IInv, scene' = scene, qs' = qs, NEW t \in Task, DelayBlocks(t)
  PROVE  IInv'
<1> DEFINE l == loc[t]
<1>1. Runs(t) /\ pc[t] = "delay" /\ k.cur = t /\ Becomes(t, "resume", l) /\ k' = AddCurrentToDelayed(k, l.ticks, FALSE)
  BY GoKeeps DEF DelayBlocks
<1>2. PlanOK("delay", l) /\ NoteOK(k, t, "delay", l) /\ CurrentOK(k, t, "delay", l) /\ Good(k)
  BY <1>1 DEF IInv, Control, TaskOK
<1>3. l.ticks \in Time /\ l.ticks # 0 /\ l.yields /\ l.then = "slept"
  BY <1>2 DEF PlanOK
<1> DEFINE r == AddCurrentToDelayed(k, l.ticks, FALSE)
<1>0. /\ Good(r) /\ Core(k, r) /\ SamePrios(k, r) /\ SameWaits(k, r)
      /\ \A u \in Task : u # k.cur => r.at[u] = k.at[u]
      /\ r.at[k.cur] \in {"delayed", "overflow", "suspended"}
  BY <1>2, <1>3, AddCurrentGood, Zenon
<1> HIDE DEF r
<1>4. /\ Good(k') /\ Core(k, k') /\ SameWaits(k, k')
      /\ \A u \in Task : u # t => k'.at[u] = k.at[u]
  BY <1>0, <1>1, Zenon DEF r
<1>5. Here(k, t)
  BY <1>1, RunsHere DEF Settled
<1>6. PlanOK("resume", l)
  BY <1>2, <1>3 DEF PlanOK, InQueue
<1>7. EventOK(k', t, "resume")
  BY <1>4, <1>5, SchedulerAssumption DEF EventOK, Here, SameWaits
<1>8. NoteOK(k', t, "resume", l)
  BY <1>2, <1>4 DEF NoteOK, Core
<1>9. k.susp = 1 /\ k'.susp = 1
  BY <1>2, <1>4 DEF CurrentOK, Guarded, Alone, Core
<1>10. Guarded(k', t, "resume", l)
  BY <1>9 DEF Guarded, Alone, MayBlock
<1>11. \A u \in Task : u # t => k'.at[u] = k.at[u] /\ k'.ev[u] = k.ev[u]
  BY <1>4 DEF SameWaits
<1>12. TaskOK(k', t, "resume", l)
  BY <1>6, <1>7, <1>8 DEF TaskOK
<1> HIDE DEF l
<1> QED BY <1>1, <1>3, <1>4, <1>10, <1>11, <1>12, HoldersStay, FileStep, Zenon

LEMMA DelayEndsKeeps ==
  ASSUME IInv, scene' = scene, qs' = qs, NEW t \in Task, DelayEnds(t)
  PROVE  IInv'
<1>1. Runs(t) /\ pc[t] = "slept" /\ Becomes(t, "app", NoCall) /\ k' = k
  BY Returns DEF DelayEnds
<1>2. Sound(k') /\ Trails(k, k')
  BY <1>1, Domains, FollowsItself, FollowsTrails
<1>3. Guarded(k', t, "app", NoCall)
  BY DEF Guarded, Alone, MayBlock
<1> QED BY <1>1, <1>2, <1>3, NoPlan, HoldersStay, CallStep DEF Settled

LEMMA TaskFacts ==
  ASSUME IInv, NEW t \in Task
  PROVE  /\ TaskOK(k, t, pc[t], loc[t]) /\ PlanOK(pc[t], loc[t]) /\ EventOK(k, t, pc[t])
         /\ NoteOK(k, t, pc[t], loc[t]) /\ (t # k.cur => ~Closed(pc[t]))
         /\ k.at[t] \in Places /\ k.ev[t] \in Lists \cup {"none"} /\ k.ns[t] \in {"not", "waiting", "received"}
BY DEF IInv, Control, TaskOK, Good, Shape, ListTypes, WaitTypes, NoteTypes

LEMMA RunningFacts ==
  ASSUME IInv, NEW t \in Task, Runs(t)
  PROVE  /\ k.cur = t /\ k.on /\ ~k.pendsv /\ k.loop = "none" /\ k.at[Idle] = "ready" /\ pc[Idle] = "app"
         /\ CurrentOK(k, t, pc[t], loc[t]) /\ Guarded(k, t, pc[t], loc[t])
         /\ Here(k, t) \/ Filed(pc[t], loc[t]) \/ Leaves(k, t, pc[t], loc[t])
BY IdleStays DEF IInv, Control, CurrentOK, Runs

\* A field of the call that is not about where it goes on.
LEMMA WithYielded ==
  ASSUME NEW l, {"api", "obj", "ticks", "entry", "then", "back", "yields", "yielded"} \subseteq DOMAIN l
  PROVE  \A x : LET m == [l EXCEPT !.yielded = x]
               IN  /\ DOMAIN m = DOMAIN l /\ m.then = l.then /\ m.yields = l.yields /\ m.yielded = x
                   /\ m.ticks = l.ticks /\ m.obj = l.obj /\ m.back = l.back /\ m.entry = l.entry
OBVIOUS

-----------------------------------------------------------------------------
(* The scheduler is resumed.                                               *)

LEMMA ResumeAllKeeps ==
  ASSUME IInv, scene' = scene, qs' = qs, NEW t \in Task, ResumeAll(t)
  PROVE  IInv'
<1> DEFINE l == loc[t]
           m == [loc[t] EXCEPT !.yielded = FALSE]
<1>1. Runs(t) /\ pc[t] = "resume" /\ Becomes(t, "resumed", m)
  BY GoesOn, Zenon DEF ResumeAll
<1>2. k' = [k EXCEPT !.susp = @ - 1, !.loop = IF k.susp = 1 THEN "drain" ELSE @]
  BY DEF ResumeAll
<1>3. k.susp \in Nat /\ k.susp # 0 /\ (l.then # "app" => k.susp = 1)
  BY <1>1, RunningFacts, SuspNat DEF Guarded
<1>4. Shape(k) /\ Data(k) /\ Good(k)
  BY SuspNat DEF Good, Shape
<1>5. /\ Data(k') /\ SameLists(k, k') /\ SameWaits(k, k')
      /\ k'.on = k.on /\ k'.cur = k.cur /\ k'.susp = k.susp - 1 /\ k'.ns = k.ns /\ k'.pendsv = k.pendsv
      /\ k'.loop = IF k.susp = 1 THEN "drain" ELSE "none"
  BY <1>1, <1>2, <1>4, Zenon
     DEF Data, Fields, SameLists, SameTimes, SamePrios, SameReady, SameSleep, SameWaits, Runs
<1>6. Good(k')
  <2>1. SwitchTypes(k') /\ NoteTypes(k')
    BY <1>3, <1>4, <1>5 DEF Shape, SwitchTypes, NoteTypes
  <2>2. k.loop = "none"
    BY <1>1 DEF Runs
  <2> QED BY <1>4, <1>5, <2>1, <2>2, GoodSame
<1>7. PlanOK("resume", l)
  BY <1>1, TaskFacts
<1>7a. {"api", "obj", "ticks", "entry", "then", "back", "yields", "yielded"} \subseteq DOMAIN l
  BY <1>7 DEF PlanOK
<1>8. /\ DOMAIN m = DOMAIN l /\ m.then = l.then /\ m.yields = l.yields /\ m.yielded = FALSE
      /\ m.ticks = l.ticks /\ m.obj = l.obj /\ m.back = l.back /\ m.entry = l.entry
  BY <1>7a, WithYielded, Zenon
<1>9. ASSUME NEW u \in Task PROVE k'.at[u] = k.at[u] /\ k'.ev[u] = k.ev[u] /\ k'.ns[u] = k.ns[u]
  BY <1>5 DEF SameLists, SameWaits
<1>10. ASSUME NEW u \in Task, NEW p, p \notin {"none", "dead"} \/ p = pc[u] PROVE EventOK(k', u, p)
  BY <1>3, <1>5, <1>9, <1>10, TaskFacts DEF EventOK
<1>11. ASSUME NEW u \in Task, u # t PROVE TaskOK(k', u, pc[u], loc[u])
  BY <1>9, <1>10, TaskFacts DEF TaskOK, NoteOK
<1> HIDE DEF m
<1>12. PlanOK("resumed", m)
  BY <1>7, <1>8 DEF PlanOK, InQueue
<1>13. NoteOK(k', t, "resumed", m)
  BY <1>1, <1>8, <1>9, TaskFacts DEF NoteOK
<1>14. TaskOK(k', t, "resumed", m)
  BY <1>10, <1>12, <1>13 DEF TaskOK
<1>15. Guarded(k', t, "resumed", m)
  BY <1>3, <1>5, <1>8 DEF Guarded, Alone, MayBlock
<1>16. Here(k', t) \/ Leaves(k', t, "resumed", m)
  <2>1. CASE Here(k, t)
    BY <2>1, <1>9 DEF Here
  <2>2. CASE ~Here(k, t)
    <3>1. l.yields
      BY <1>1, <1>3, <2>2, RunningFacts DEF Filed, Leaves
    <3> QED BY <1>3, <1>5, <1>7, <1>8, <3>1 DEF Leaves, PlanOK
  <2> QED BY <2>1, <2>2
<1>17. /\ t # Idle /\ k.cur = t /\ k'.cur = t /\ k'.on /\ k'.at[Idle] = "ready" /\ pc[Idle] = "app"
       /\ Idle \in Task
  BY <1>1, <1>5, <1>9, RunningFacts, SchedulerAssumption
<1>18. CurrentOK(k', t, "resumed", m)
  BY <1>15, <1>16 DEF CurrentOK
<1> QED BY <1>1, <1>6, <1>11, <1>14, <1>17, <1>18, HoldersStay, Concludes

LEMMA ResumedKeeps ==
  ASSUME IInv, scene' = scene, qs' = qs, NEW t \in Task, Resumed(t)
  PROVE  IInv'
<1> DEFINE l == loc[t]
           p == loc[t].then
           m == IF loc[t].then = "app" THEN NoCall ELSE loc[t]
<1>1. Runs(t) /\ pc[t] = "resumed" /\ Becomes(t, p, m)
  BY Domains DEF Resumed, Go, Becomes
<1>2. k' = IF l.yields /\ ~l.yielded THEN Yield(k) ELSE k
  BY DEF Resumed
<1>3. Sound(k') /\ Follows(k, k') /\ (l.yields /\ ~l.yielded => k'.pendsv)
  BY <1>2, Domains, YieldRests, FollowsItself
<1>4. /\ k'.at = k.at /\ k'.ev = k.ev /\ k'.ns = k.ns /\ k'.susp = k.susp
      /\ k'.on = k.on /\ k'.cur = k.cur /\ k'.loop = k.loop
  BY <1>2, SuspNat DEF Yield, Good, Shape, Data, Fields
<1>5. PlanOK("resumed", l) /\ NoteOK(k, t, "resumed", l) /\ EventOK(k, t, "resumed")
  BY <1>1, TaskFacts
<1>6. p \in {"app", "try", "expired", "slept", "nend"}
  BY <1>5 DEF PlanOK
<1>7. PlanOK(p, m)
  <2>1. CASE p = "app"
    BY <2>1, NoPlan
  <2>2. CASE p # "app"
    BY <1>5, <2>2 DEF PlanOK, InQueue
  <2> QED BY <2>1, <2>2
<1>8. NoteOK(k', t, p, m)
  BY <1>4, <1>5 DEF NoteOK
<1>9. EventOK(k', t, p)
  BY <1>4, <1>5, <1>6 DEF EventOK
<1>10. Guarded(k', t, p, m)
  <2>1. p # "app" => k.susp = 0
    BY <1>1, RunningFacts DEF Guarded, MayBlock
  <2>2. p = "app" => ~MayBlock(k', t, p, m)
    BY DEF MayBlock
  <2> QED BY <1>4, <1>6, <2>1, <2>2 DEF Guarded, Alone
<1>11. Here(k', t) \/ Leaves(k', t, p, m)
  BY <1>1, <1>3, <1>4, RunningFacts DEF Here, Filed, Leaves
<1>12. /\ t # Idle /\ k.cur = t /\ k'.cur = t /\ k'.on /\ k'.at[Idle] = "ready" /\ pc[Idle] = "app"
  BY <1>1, <1>4, RunningFacts
<1>13. Good(k') /\ \A u \in Task : TaskOK(k', u, pc[u], loc[u])
  BY <1>3 DEF Sound
<1>14. CurrentOK(k', t, p, m) /\ TaskOK(k', t, p, m)
  BY <1>7, <1>8, <1>9, <1>10, <1>11 DEF CurrentOK, TaskOK
<1> HIDE DEF p, m
<1> QED BY <1>1, <1>12, <1>13, <1>14, HoldersStay, Concludes

-----------------------------------------------------------------------------
(* Suspending and deleting.                                                *)

LEMMA UnlinkGood ==
  ASSUME NEW q, Good(q), NEW t \in Task
  PROVE  LET r == Unwait(Unlist(q, t), t)
         IN  /\ Good(r) /\ Core(q, r) /\ SameTimes(q, r) /\ SamePrios(q, r)
             /\ \A u \in Task : r.at[u] = IF u = t THEN "none" ELSE q.at[u]
             /\ \A u \in Task : r.ev[u] = IF u = t THEN "none" ELSE q.ev[u]
<1> DEFINE u == Unlist(q, t)
           r == Unwait(u, t)
<1>0. q.at \in [Task -> Places]
  BY DEF Good, Shape, ListTypes
<1>1. /\ Good(u) /\ Core(q, u) /\ SameTimes(q, u) /\ SamePrios(q, u) /\ SameWaits(q, u)
      /\ u.at = [q.at EXCEPT ![t] = "none"]
  BY UnlistGood, Zenon
<1> HIDE DEF u
<1>2. /\ Good(r) /\ Core(u, r) /\ SameTimes(u, r) /\ SamePrios(u, r) /\ r.at = u.at
      /\ \A x \in Task : r.ev[x] = IF x = t THEN "none" ELSE u.ev[x]
  BY <1>1, UnwaitGood, Zenon
<1> HIDE DEF r
<1>3. \A x \in Task : r.at[x] = IF x = t THEN "none" ELSE q.at[x]
  BY <1>0, <1>1, <1>2
<1>4. \A x \in Task : r.ev[x] = IF x = t THEN "none" ELSE q.ev[x]
  BY <1>1, <1>2 DEF SameWaits
<1>5. Core(q, r) /\ SameTimes(q, r) /\ SamePrios(q, r)
  BY <1>1, <1>2, CoreTwice DEF SameTimes, SamePrios
<1> QED BY <1>2, <1>3, <1>4, <1>5 DEF r, u

LEMMA SuspendKeeps ==
  ASSUME IInv, scene' = scene, qs' = qs, NEW t \in Task, NEW x \in Task, Suspend(t, x)
  PROVE  IInv'
<1> DEFINE l == [[NoCall EXCEPT !.obj = x] EXCEPT !.api = "suspend"]
           u == Unwait(Unlist(k, x), x)
           a == [u EXCEPT !.at[x] = "suspended"]
<1>1. /\ Runs(t) /\ pc[t] = "app" /\ Becomes(t, "suspend", l) /\ t # Idle /\ Here(k, t)
      /\ x # Idle /\ k.at[x] \notin {"none", "termination"} /\ (x = t => k.susp = 0)
  BY Calls, Zenon DEF Suspend, Handle
<1>2. k' = [u EXCEPT !.at[x] = "suspended", !.ns[x] = IF @ = "waiting" THEN "not" ELSE @,
                     !.spent[x] = loc[x].asked]
  BY DEF Suspend
<1>3. /\ Good(u) /\ Core(k, u) /\ SameTimes(k, u) /\ SamePrios(k, u)
      /\ \A y \in Task : u.at[y] = IF y = x THEN "none" ELSE k.at[y]
      /\ \A y \in Task : u.ev[y] = IF y = x THEN "none" ELSE k.ev[y]
  BY SuspNat, UnlinkGood, Zenon
<1> HIDE DEF u
<1>4. /\ Good(a) /\ Core(u, a) /\ SameTimes(u, a) /\ SamePrios(u, a) /\ SameWaits(u, a)
      /\ a.at = [u.at EXCEPT ![x] = "suspended"]
  BY <1>3, AtGood, Zenon
<1>5. Data(u) /\ u.at \in [Task -> Places] /\ u.ns \in [Task -> {"not", "waiting", "received"}] /\ SwitchTypes(u)
  BY <1>3 DEF Good, Shape, ListTypes, NoteTypes
<1>6. /\ Data(k') /\ SameLists(a, k') /\ SameWaits(a, k')
      /\ k'.on = u.on /\ k'.cur = u.cur /\ k'.susp = u.susp /\ k'.pendsv = u.pendsv /\ k'.loop = u.loop
      /\ k'.ns = [u.ns EXCEPT ![x] = IF u.ns[x] = "waiting" THEN "not" ELSE u.ns[x]]
  BY <1>2, <1>5, ZenonT(40) DEF Data, Fields, SameLists, SameTimes, SamePrios, SameReady, SameSleep, SameWaits
<1> HIDE DEF a
<1>7. Good(k')
  <2>1. k'.ns \in [Task -> {"not", "waiting", "received"}]
    BY <1>5, <1>6
  <2>2. SwitchTypes(k') /\ NoteTypes(k') /\ k'.loop = a.loop
    BY <1>4, <1>5, <1>6, <2>1 DEF SwitchTypes, NoteTypes, Core
  <2> QED BY <1>4, <1>6, <2>2, GoodSame
<1>8. \A y \in Task : /\ k'.at[y] = IF y = x THEN "suspended" ELSE k.at[y]
                      /\ k'.ev[y] = IF y = x THEN "none" ELSE k.ev[y]
                      /\ k'.ns[y] = "waiting" => k.ns[y] = "waiting" /\ y # x
  <2>1. \A y \in Task : k'.at[y] = IF y = x THEN "suspended" ELSE k.at[y]
    BY <1>3, <1>4, <1>5, <1>6 DEF SameLists
  <2>2. \A y \in Task : k'.ev[y] = IF y = x THEN "none" ELSE k.ev[y]
    BY <1>3, <1>4, <1>6 DEF SameWaits
  <2>3. \A y \in Task : k'.ns[y] = "waiting" => k.ns[y] = "waiting" /\ y # x
    BY <1>3, <1>5, <1>6 DEF Core
  <2> QED BY <2>1, <2>2, <2>3
<1>9. k'.on = k.on /\ k'.cur = k.cur /\ k'.susp = k.susp /\ k'.loop = k.loop
  BY <1>3, <1>6 DEF Core
<1>10. ASSUME NEW y \in Task, NEW p, p = pc[y] \/ p \notin {"none", "dead"} PROVE EventOK(k', y, p)
  BY <1>1, <1>8, <1>9, <1>10, TaskFacts, SchedulerAssumption DEF EventOK
<1>11. ASSUME NEW y \in Task PROVE TaskOK(k', y, pc[y], loc[y])
  BY <1>8, <1>10, TaskFacts DEF TaskOK, NoteOK
<1>12. PlanOK("suspend", l)
  <2>0. l.yields = FALSE
    BY NoCallPlan, Zenon
  <2>1. l.yields \in BOOLEAN /\ ~l.yields
    BY <2>0, Zenon
  <2>2. DOMAIN l = DOMAIN NoCall /\ l.ticks = 0 /\ l.then = "app" /\ l.back = "app" /\ l.entry.tick = 0
    BY NoCallPlan
  <2> HIDE DEF l
  <2>3. {"api", "obj", "ticks", "entry", "then", "back", "yields", "yielded"} \subseteq DOMAIN l
    BY <2>2, NoCallPlan
  <2> QED BY <2>1, <2>2, <2>3, NoCallPlan DEF PlanOK, InQueue
<1>13. l.obj = x
  BY NoCallPlan
<1> HIDE DEF l
<1>14. TaskOK(k', t, "suspend", l)
  <2>1. k'.ns[t] # "waiting"
    BY <1>1, <1>8, TaskFacts DEF NoteOK
  <2> QED BY <1>10, <1>12, <2>1 DEF TaskOK, NoteOK
<1>15. CurrentOK(k', t, "suspend", l)
  <2>1. CASE x = t
    BY <1>1, <1>9, <1>13, <2>1 DEF CurrentOK, Leaves, Guarded, Alone, MayBlock
  <2>2. CASE x # t
    BY <1>1, <1>8, <2>2 DEF CurrentOK, Here, Guarded, Alone, MayBlock
  <2> QED BY <2>1, <2>2
<1>16. k.cur = t /\ k'.cur = t /\ k'.on /\ k'.at[Idle] = "ready" /\ pc[Idle] = "app"
  BY <1>1, <1>8, <1>9, RunningFacts, SchedulerAssumption
<1> QED BY <1>1, <1>7, <1>11, <1>14, <1>15, <1>16, HoldersStay, Concludes

LEMMA NextRests ==
  ASSUME NEW q, Sound(q)
  PROVE  LET r == ResetNext(q) IN Sound(r) /\ Follows(q, r) /\ r.at = q.at /\ r.ev = q.ev
<1> DEFINE r == ResetNext(q)
<1>1. Good(r) /\ Core(q, r) /\ r.wake = q.wake /\ SamePrios(q, r) /\ SameWaits(q, r) /\ r.at = q.at
  BY ResetNextGood DEF Sound
<1> HIDE DEF r
<1>2. Steady(q, r) /\ r.ev = q.ev /\ \A u \in Task : r.at[u] = q.at[u] /\ r.ev[u] = q.ev[u]
  BY <1>1, CoreSteady DEF SameWaits
<1> QED BY <1>1, <1>2, Rests DEF r

LEMMA SuspendEndsKeeps ==
  ASSUME IInv, scene' = scene, qs' = qs, NEW t \in Task, SuspendEnds(t)
  PROVE  IInv'
<1> DEFINE r == ResetNext(k)
<1>1. Runs(t) /\ pc[t] = "suspend" /\ Becomes(t, "app", NoCall)
  BY Returns DEF SuspendEnds
<1>2. k' = IF loc[t].obj = t THEN Yield(r) ELSE r
  BY DEF SuspendEnds
<1>3. Sound(r) /\ Follows(k, r)
  BY Domains, NextRests
<1> HIDE DEF r
<1>4. Sound(k') /\ Follows(k, k') /\ (loc[t].obj = t => k'.pendsv)
  BY <1>2, <1>3, YieldRests, FollowsTwice
<1>5. Good(k') /\ \A u \in Task : TaskOK(k', u, pc[u], loc[u])
  BY <1>4 DEF Sound
<1>6. Here(k', t) \/ Leaves(k', t, "app", NoCall)
  <2>1. k'.susp = k.susp
    BY <1>4 DEF Follows, Steady
  <2>2. CASE Here(k, t)
    BY <1>1, <1>4, <2>2 DEF Follows, Filed, Runs
  <2>3. CASE ~Here(k, t)
    BY <1>1, <1>4, <2>1, <2>3, RunningFacts DEF Filed, Leaves
  <2> QED BY <2>2, <2>3
<1>7. CurrentOK(k', t, "app", NoCall)
  BY <1>6 DEF CurrentOK, Guarded, Alone, MayBlock
<1>8. EventOK(k', t, "app") /\ NoteOK(k', t, "app", NoCall)
  BY <1>1, <1>5 DEF TaskOK, EventOK, NoteOK
<1>9. TaskOK(k', t, "app", NoCall)
  BY <1>8, NoPlan DEF TaskOK
<1>10. k.cur = t /\ k'.cur = t /\ k'.on /\ k'.at[Idle] = "ready" /\ pc[Idle] = "app" /\ t # Idle
  BY <1>1, <1>4, RunningFacts, SchedulerAssumption DEF Follows, Steady
<1> QED BY <1>1, <1>5, <1>7, <1>9, <1>10, HoldersStay, Concludes

LEMMA DeleteKeeps ==
  ASSUME IInv, scene' = scene, qs' = qs, NEW t \in Task, NEW x \in Task, k.cur = t, Delete(t, x)
  PROVE  IInv'
<1> DEFINE u == Unwait(Unlist(k, x), x)
<1>1. /\ Runs(t) /\ pc[t] = "app" /\ x # t /\ x # Idle /\ k' = ResetNext(u)
      /\ k.at[x] \notin {"none", "termination"} /\ Becomes(x, "none", NoCall)
  BY Domains DEF Delete, Handle, Becomes
<1>2. /\ Good(u) /\ Core(k, u) /\ SameTimes(k, u) /\ SamePrios(k, u)
      /\ \A y \in Task : u.at[y] = IF y = x THEN "none" ELSE k.at[y]
      /\ \A y \in Task : u.ev[y] = IF y = x THEN "none" ELSE k.ev[y]
  BY SuspNat, UnlinkGood, Zenon
<1> HIDE DEF u
<1>3. Good(k') /\ Core(u, k') /\ SameWaits(u, k') /\ k'.at = u.at
  BY <1>1, <1>2, ResetNextGood
<1>4. /\ \A y \in Task : k'.at[y] = IF y = x THEN "none" ELSE k.at[y]
      /\ \A y \in Task : k'.ev[y] = IF y = x THEN "none" ELSE k.ev[y]
  BY <1>2, <1>3 DEF SameWaits
<1>5. Core(k, k')
  BY <1>2, <1>3, CoreTwice
<1>6. ASSUME NEW y \in Task, y # x PROVE TaskOK(k', y, pc[y], loc[y])
  <2>1. EventOK(k', y, pc[y])
    BY <1>4, <1>5, <1>6, TaskFacts DEF EventOK, Core
  <2>2. NoteOK(k', y, pc[y], loc[y])
    BY <1>4, <1>5, <1>6, TaskFacts DEF NoteOK, Core
  <2> QED BY <2>1, <2>2, TaskFacts DEF TaskOK
<1>7. TaskOK(k', x, "none", NoCall)
  <2>1. EventOK(k', x, "none")
    BY <1>4, SchedulerAssumption DEF EventOK
  <2>2. NoteOK(k', x, "none", NoCall)
    BY <1>4 DEF NoteOK
  <2> QED BY <2>1, <2>2, NoPlan DEF TaskOK
<1>8. Here(k, t) /\ Here(k', t) /\ k'.cur = t /\ k.cur = t /\ k'.on /\ k'.at[Idle] = "ready" /\ pc[Idle] = "app"
  BY <1>1, <1>4, <1>5, RunsHere, RunningFacts, SchedulerAssumption DEF Settled, Here, Core
<1>9. CurrentOK(k', t, pc[t], loc[t])
  BY <1>1, <1>8 DEF CurrentOK, Guarded, Alone, MayBlock
<1>10. ~Closed("none")
  BY DEF Closed, Alone
<1> QED BY <1>1, <1>3, <1>6, <1>7, <1>8, <1>9, <1>10, HoldersStay, ConcludesOther

LEMMA CreateKeeps ==
  ASSUME IInv, scene' = scene, qs' = qs, NEW t \in Task, NEW x \in Task, k.cur = t, Create(t, x)
  PROVE  IInv'
<1> DEFINE u == NewTask(k, x)
           l == loc[x]
<1>1. /\ Runs(t) /\ pc[t] = "app" /\ x # Idle /\ k' = YieldsTo(u, x)
      /\ k.at[x] = "none" /\ Becomes(x, "app", l)
  BY Domains DEF Create, Becomes
<1>2. /\ Good(u) /\ u.on = k.on /\ u.cur = k.cur /\ u.susp = k.susp /\ u.loop = k.loop
      /\ u.pendsv = k.pendsv /\ u.ev = k.ev /\ u.tick = k.tick
      /\ u.at = [k.at EXCEPT ![x] = "ready"] /\ u.ns = [k.ns EXCEPT ![x] = "not"]
      /\ u.prio = [k.prio EXCEPT ![x] = scene.prio[x]]
  BY <1>1, SuspNat, NewTaskGood, Zenon
<1> HIDE DEF u
<1>3. k.at \in [Task -> Places] /\ k.ns \in [Task -> {"not", "waiting", "received"}]
  BY SuspNat DEF Good, Shape, ListTypes, NoteTypes
<1>4. /\ \A y \in Task : u.at[y] = IF y = x THEN "ready" ELSE k.at[y]
      /\ \A y \in Task : u.ev[y] = k.ev[y]
      /\ \A y \in Task : u.ns[y] = "waiting" => y # x /\ k.ns[y] = "waiting"
  BY <1>2, <1>3
<1>5. ASSUME NEW y \in Task, y # x PROVE TaskOK(u, y, pc[y], loc[y])
  <2>1. EventOK(u, y, pc[y])
    BY <1>2, <1>4, <1>5, TaskFacts DEF EventOK
  <2>2. NoteOK(u, y, pc[y], loc[y])
    BY <1>2, <1>4, <1>5, TaskFacts DEF NoteOK
  <2> QED BY <2>1, <2>2, TaskFacts DEF TaskOK
<1>6. k.ev[x] = "none"
  BY <1>1, TaskFacts DEF EventOK, Lists
<1>7. /\ Data(u) /\ k'.at = u.at /\ k'.ev = u.ev /\ k'.ns = u.ns /\ k'.susp = u.susp /\ k'.loop = u.loop
      /\ k'.cur = u.cur /\ k'.on = u.on
  BY <1>1, <1>2 DEF YieldsTo, Yield, Good, Shape, Data, Fields
<1>8. Good(k')
  <2>1. SameLists(u, k') /\ SameWaits(u, k') /\ Data(k') /\ k'.on = u.on
    BY <1>1, <1>7, Zenon
        DEF YieldsTo, Yield, Data, Fields, SameLists, SameTimes, SamePrios, SameReady, SameSleep, SameWaits
  <2>2. SwitchTypes(k') /\ NoteTypes(k')
    BY <1>2, <1>7, <2>1 DEF Good, Shape, SwitchTypes, NoteTypes
  <2> QED BY <1>2, <1>7, <2>1, <2>2, GoodSame
<1>9. ASSUME NEW y \in Task, y # x PROVE TaskOK(k', y, pc[y], loc[y])
  BY <1>5, <1>7, <1>9 DEF TaskOK, EventOK, NoteOK
<1>10. TaskOK(k', x, "app", l)
  <2>1. EventOK(k', x, "app")
    BY <1>4, <1>6, <1>7, SchedulerAssumption DEF EventOK
  <2>2. NoteOK(k', x, "app", l)
    BY <1>4, <1>7 DEF NoteOK
  <2>3. PlanOK("app", l)
    BY TaskFacts, EasyPlan
  <2> QED BY <2>1, <2>2, <2>3 DEF TaskOK
<1>11. /\ Here(k, t) /\ x # t
       /\ Here(k', t) /\ k'.cur = t /\ k.cur = t /\ k'.on /\ k'.at[Idle] = "ready" /\ pc[Idle] = "app"
  BY <1>1, <1>2, <1>4, <1>7, RunsHere, RunningFacts, SchedulerAssumption DEF Settled, Here
<1>12. CurrentOK(k', t, pc[t], loc[t])
  BY <1>1, <1>11 DEF CurrentOK, Guarded, Alone, MayBlock
<1>13. ~Closed("app")
  BY DEF Closed, Alone
<1> HIDE DEF l
<1> QED BY <1>1, <1>8, <1>9, <1>10, <1>11, <1>12, <1>13, HoldersStay, ConcludesOther

LEMMA DeleteSelfKeeps ==
  ASSUME IInv, scene' = scene, qs' = qs, NEW t \in Task, DeleteSelf(t)
  PROVE  IInv'
<1> DEFINE l == [NoCall EXCEPT !.api = "delete"]
           u == Unlist(k, t)
<1>1. /\ Runs(t) /\ pc[t] = "app" /\ t # Idle /\ k.susp = 0 /\ Becomes(t, "dead", l) /\ Here(k, t) /\ k.cur = t
      /\ k' = [u EXCEPT !.at[t] = "termination"]
  BY Calls DEF DeleteSelf
<1>2. PlanOK("dead", l)
  BY EmptyPlan
<1>3. /\ Good(u) /\ Core(k, u) /\ SameTimes(k, u) /\ SamePrios(k, u) /\ SameWaits(k, u)
      /\ u.at = [k.at EXCEPT ![t] = "none"]
  BY SuspNat, UnlistGood, Zenon
<1> HIDE DEF u, l
<1>4. k.at \in [Task -> Places]
  BY SuspNat DEF Good, Shape, ListTypes
<1>5. /\ Good(k') /\ Core(u, k') /\ SameTimes(u, k') /\ SamePrios(u, k') /\ SameWaits(u, k')
      /\ k'.at = [u.at EXCEPT ![t] = "termination"]
  <2> DEFINE r == [u EXCEPT !.at[t] = "termination"]
  <2>1. u.at[t] \notin {"ready", "delayed", "overflow"}
    BY <1>3, <1>4
  <2>2. /\ Good(r) /\ Core(u, r) /\ SameTimes(u, r) /\ SamePrios(u, r) /\ SameWaits(u, r)
        /\ r.at = [u.at EXCEPT ![t] = "termination"]
    BY <1>3, <2>1, AtGood, Zenon
  <2> QED BY <1>1, <2>2
<1>6. /\ \A y \in Task : k'.at[y] = IF y = t THEN "termination" ELSE k.at[y]
      /\ \A y \in Task : k'.ev[y] = k.ev[y]
  BY <1>3, <1>4, <1>5 DEF SameWaits
<1>7. Core(k, k')
  BY <1>3, <1>5, CoreTwice
<1>8. ASSUME NEW y \in Task, y # t PROVE TaskOK(k', y, pc[y], loc[y])
  <2>1. EventOK(k', y, pc[y])
    BY <1>6, <1>7, <1>8, TaskFacts DEF EventOK, Core
  <2>2. NoteOK(k', y, pc[y], loc[y])
    BY <1>6, <1>7, <1>8, TaskFacts DEF NoteOK, Core
  <2> QED BY <2>1, <2>2, TaskFacts DEF TaskOK
<1>9. TaskOK(k', t, "dead", l)
  <2>1. EventOK(k', t, "dead")
    BY <1>1, <1>6, SchedulerAssumption DEF EventOK, Here
  <2>2. NoteOK(k', t, "dead", l)
    BY <1>1, <1>7, TaskFacts DEF NoteOK, Core
  <2> QED BY <1>2, <2>1, <2>2 DEF TaskOK
<1>10. CurrentOK(k', t, "dead", l)
  BY <1>1, <1>7 DEF CurrentOK, Guarded, Alone, MayBlock, Leaves, Core
<1>11. k'.cur = t /\ k'.on /\ k'.at[Idle] = "ready" /\ pc[Idle] = "app"
  BY <1>1, <1>6, <1>7, RunningFacts, SchedulerAssumption DEF Core
<1> QED BY <1>1, <1>5, <1>8, <1>9, <1>10, <1>11, HoldersStay, Concludes

LEMMA DiesKeeps ==
  ASSUME IInv, scene' = scene, qs' = qs, NEW t \in Task, Dies(t)
  PROVE  IInv'
<1> DEFINE l == loc[t]
<1>1. Runs(t) /\ pc[t] = "dead" /\ k.cur = t /\ Becomes(t, "none", l) /\ k' = Yield(k)
  BY GoKeeps DEF Dies
<1>2. Sound(k') /\ Follows(k, k') /\ k'.pendsv
  BY <1>1, Domains, YieldRests
<1>3. k'.at = k.at /\ k'.ev = k.ev /\ k'.ns = k.ns /\ k'.susp = k.susp /\ k'.on = k.on /\ k'.cur = k.cur
  BY <1>1, SuspNat DEF Yield, Good, Shape, Data, Fields
<1>4. Good(k') /\ \A y \in Task : TaskOK(k', y, pc[y], loc[y])
  BY <1>2 DEF Sound
<1>5. TaskOK(k', t, "none", l)
  <2>1. TaskOK(k', t, "dead", l)
    BY <1>1, <1>4
  <2>2. PlanOK("none", l)
    BY TaskFacts, EasyPlan
  <2> QED BY <2>1, <2>2 DEF TaskOK, EventOK, NoteOK
<1>6. k.at[t] = "termination"
  BY <1>1, TaskFacts DEF EventOK
<1>7. CurrentOK(k', t, "none", l)
  BY <1>1, <1>2, <1>3, <1>6, RunningFacts DEF CurrentOK, Guarded, Alone, MayBlock, Leaves, Here, Filed
<1>8. t # Idle /\ k'.cur = t /\ k'.on /\ k'.at[Idle] = "ready" /\ pc[Idle] = "app"
  BY <1>1, <1>3, RunningFacts
<1> HIDE DEF l
<1> QED BY <1>1, <1>4, <1>5, <1>7, <1>8, HoldersStay, Concludes

LEMMA IdleTaskKeeps ==
  ASSUME IInv, scene' = scene, qs' = qs, IdleTask
  PROVE  IInv'
<1>0. Idle \in Task /\ Runs(Idle) /\ pc[Idle] = "app"
  BY SchedulerAssumption DEF IdleTask
<1>1. CASE k' = Yield(k) /\ pc' = pc /\ loc' = loc
  <2>1. k.on
    BY <1>0 DEF Runs
  <2> QED BY <1>1, <2>1, Domains, YieldRests, HoldersStay, DataStep
<1>2. ASSUME NEW x \in Task, k.at[x] = "termination", k' = [k EXCEPT !.at[x] = "none"],
             loc' = [loc EXCEPT ![x] = NoCall], pc' = [pc EXCEPT ![x] = "none"]
      PROVE  IInv'
  <2>1. Becomes(x, "none", NoCall) /\ k.at \in [Task -> Places]
    BY <1>2, Domains, SuspNat DEF Becomes, Good, Shape, ListTypes
  <2>2. Here(k, Idle) /\ k.cur = Idle /\ k.on /\ x # Idle
    BY <1>0, <1>2, RunsHere DEF Settled, Runs, Here
  <2>3. /\ Good(k') /\ Core(k, k') /\ SameTimes(k, k') /\ SamePrios(k, k') /\ SameWaits(k, k')
        /\ k'.at = [k.at EXCEPT ![x] = "none"]
    <3> DEFINE r == [k EXCEPT !.at[x] = "none"]
    <3>1. /\ Good(r) /\ Core(k, r) /\ SameTimes(k, r) /\ SamePrios(k, r) /\ SameWaits(k, r)
          /\ r.at = [k.at EXCEPT ![x] = "none"]
      <4>1. k.at[x] \notin {"ready", "delayed", "overflow"}
        BY <1>2
      <4> QED BY <4>1, SuspNat, AtGood, Zenon
    <3> QED BY <1>2, <3>1
  <2>4. /\ \A y \in Task : k'.at[y] = IF y = x THEN "none" ELSE k.at[y]
        /\ \A y \in Task : k'.ev[y] = k.ev[y]
    BY <2>1, <2>3 DEF SameWaits
  <2>5. k.ev[x] = "none"
    BY <1>2, TaskFacts DEF EventOK, Lists
  <2>6. ASSUME NEW y \in Task, y # x PROVE TaskOK(k', y, pc[y], loc[y])
    <3>1. EventOK(k', y, pc[y])
      BY <2>3, <2>4, <2>6, TaskFacts DEF EventOK, Core
    <3>2. NoteOK(k', y, pc[y], loc[y])
      BY <2>3, <2>4, <2>6, TaskFacts DEF NoteOK, Core
    <3> QED BY <3>1, <3>2, TaskFacts DEF TaskOK
  <2>7. TaskOK(k', x, "none", NoCall)
    <3>1. EventOK(k', x, "none")
      BY <2>4, <2>5, SchedulerAssumption DEF EventOK
    <3>2. NoteOK(k', x, "none", NoCall)
      BY <2>4, <2>5 DEF NoteOK
    <3> QED BY <3>1, <3>2, NoPlan DEF TaskOK
  <2>8. k'.cur = Idle /\ k'.on /\ k'.at[Idle] = "ready" /\ Here(k', Idle)
    BY <1>0, <2>2, <2>3, <2>4 DEF Core, Here
  <2>9. CurrentOK(k', Idle, pc[Idle], loc[Idle])
    BY <1>0, <2>8 DEF CurrentOK, Guarded, Alone, MayBlock
  <2>10. ~Closed("none")
    BY DEF Closed, Alone
  <2> QED BY <1>0, <2>1, <2>2, <2>3, <2>6, <2>7, <2>8, <2>9, <2>10, HoldersStay, ConcludesOther
<1> QED BY <1>1, <1>2 DEF IdleTask

-----------------------------------------------------------------------------
(* Before the scheduler runs.                                              *)

LEMMA BootFacts ==
  ASSUME IInv, ~k.on
  PROVE  /\ k.susp = 0 /\ k.loop = "none" /\ k.prio[Idle] = 0
         /\ k.at[Idle] = "none" /\ (k.cur = Idle \/ k.at[k.cur] = "ready")
         /\ \A t \in Task : pc[t] \in {"none", "app"} /\ k.ev[t] = "none" /\ k.at[t] \in {"none", "ready"}
BY DEF IInv, Control, BootOK

LEMMA OldTasks ==
  ASSUME IInv, ~k.on, NEW x \in Task, k.at[x] = "none",
         k'.susp = k.susp, k'.ev = k.ev, k'.at = [k.at EXCEPT ![x] = "ready"],
         k'.ns = [k.ns EXCEPT ![x] = "not"], pc' = [pc EXCEPT ![x] = "app"], loc' = loc
  PROVE  /\ \A y \in Task : TaskOK(k', y, pc'[y], loc'[y]) /\ ~Closed(pc'[y])
         /\ \A y \in Task : pc'[y] \in {"none", "app"} /\ k'.ev[y] = "none" /\ k'.at[y] \in {"none", "ready"}
         /\ \A y \in Task : k'.at[y] = IF y = x THEN "ready" ELSE k.at[y]
         /\ DOMAIN pc' = Task /\ DOMAIN loc' = Task
<1>0. /\ k.at \in [Task -> Places] /\ k.ns \in [Task -> {"not", "waiting", "received"}]
      /\ DOMAIN pc = Task /\ DOMAIN loc = Task
  BY SuspNat, Domains DEF Good, Shape, ListTypes, NoteTypes
<1>1. \A y \in Task : k'.at[y] = IF y = x THEN "ready" ELSE k.at[y]
  BY <1>0
<1>2. \A y \in Task : pc'[y] = IF y = x THEN "app" ELSE pc[y]
  BY <1>0
<1>3. \A y \in Task : pc'[y] \in {"none", "app"} /\ k'.ev[y] = "none" /\ k'.at[y] \in {"none", "ready"}
  BY <1>1, <1>2, BootFacts
<1>4. ASSUME NEW y \in Task PROVE TaskOK(k', y, pc'[y], loc'[y])
  <2>1. PlanOK(pc'[y], loc'[y])
    BY <1>2, TaskFacts, EasyPlan
  <2>2. EventOK(k', y, pc'[y])
    <3>1. pc'[y] = "none" => y # x /\ pc[y] = "none"
      BY <1>2
    <3> QED BY <1>1, <1>3, <3>1, TaskFacts, SchedulerAssumption DEF EventOK
  <2>3. NoteOK(k', y, pc'[y], loc'[y])
    <3>1. k'.ns[y] = "waiting" => y # x /\ k.ns[y] = "waiting"
      BY <1>0
    <3> QED BY <1>2, <1>3, <3>1, BootFacts, TaskFacts DEF NoteOK
  <2> QED BY <2>1, <2>2, <2>3 DEF TaskOK
<1>5. \A y \in Task : ~Closed(pc'[y])
  BY <1>3 DEF Closed, Alone
<1> QED BY <1>0, <1>1, <1>3, <1>4, <1>5

LEMMA CreateAtBootKeeps ==
  ASSUME IInv, scene' = scene, qs' = qs, NEW x \in Task, CreateAtBoot(x)
  PROVE  IInv'
<1> DEFINE u == NewTask(k, x)
<1>1. /\ ~k.on /\ x # Idle /\ k.at[x] = "none" /\ pc' = [pc EXCEPT ![x] = "app"] /\ loc' = loc
      /\ k' = [u EXCEPT !.cur = IF scene.prio[k.cur] <= scene.prio[x] THEN x ELSE @]
  BY DEF CreateAtBoot
<1>2. /\ Good(u) /\ u.on = k.on /\ u.cur = k.cur /\ u.susp = k.susp /\ u.loop = k.loop
      /\ u.pendsv = k.pendsv /\ u.ev = k.ev /\ u.tick = k.tick
      /\ u.at = [k.at EXCEPT ![x] = "ready"] /\ u.ns = [k.ns EXCEPT ![x] = "not"]
      /\ u.prio = [k.prio EXCEPT ![x] = scene.prio[x]]
  BY <1>1, SuspNat, NewTaskGood, Zenon
<1> HIDE DEF u
<1>3. Data(u) /\ Shape(u)
  BY <1>2 DEF Good, Shape
<1>4. /\ Data(k') /\ SameLists(u, k') /\ SameWaits(u, k') /\ k'.on = u.on /\ k'.susp = u.susp /\ k'.ns = u.ns
      /\ k'.loop = u.loop /\ k'.prio = u.prio
      /\ k'.cur \in {u.cur, x}
  BY <1>1, <1>3 DEF Data, Fields, SameLists, SameTimes, SamePrios, SameReady, SameSleep, SameWaits
<1>5. Good(k')
  <2>1. SwitchTypes(k') /\ NoteTypes(k')
    BY <1>3, <1>4 DEF Shape, SwitchTypes, NoteTypes
  <2> QED BY <1>2, <1>4, <2>1, GoodSame
<1>6. /\ \A y \in Task : TaskOK(k', y, pc'[y], loc'[y]) /\ ~Closed(pc'[y])
      /\ \A y \in Task : pc'[y] \in {"none", "app"} /\ k'.ev[y] = "none" /\ k'.at[y] \in {"none", "ready"}
      /\ \A y \in Task : k'.at[y] = IF y = x THEN "ready" ELSE k.at[y]
      /\ DOMAIN pc' = Task /\ DOMAIN loc' = Task
  <2>1. k'.susp = k.susp /\ k'.ev = k.ev /\ k'.at = [k.at EXCEPT ![x] = "ready"] /\ k'.ns = [k.ns EXCEPT ![x] = "not"]
    BY <1>2, <1>4 DEF SameLists, SameWaits
  <2> QED BY <1>1, <2>1, OldTasks, Zenon
<1>7. k'.cur \in Task /\ ~k'.on
  BY <1>1, <1>2, <1>4, <1>5 DEF Good, Shape, SwitchTypes
<1>8. CurrentOK(k', k'.cur, pc'[k'.cur], loc'[k'.cur])
  BY <1>6, <1>7 DEF CurrentOK, Guarded, Alone, MayBlock
<1>9. BootOK'
  <2>1. k'.prio[Idle] = 0
    <3>1. k.prio \in [Task -> Prio] /\ Idle \in Task
      BY SuspNat, SchedulerAssumption DEF Good, Shape, PrioTypes
    <3> QED BY <1>1, <1>2, <1>4, <3>1, BootFacts
  <2>2. k'.susp = 0 /\ k'.loop = "none"
    BY <1>1, <1>2, <1>4, BootFacts
  <2>3. k'.at[Idle] = "none" /\ (k'.cur = Idle \/ k'.at[k'.cur] = "ready")
    <3>1. Idle \in Task /\ k.cur \in Task
      BY SuspNat, SchedulerAssumption
    <3> QED BY <1>1, <1>2, <1>4, <1>6, <3>1, BootFacts
  <2> QED BY <1>6, <1>7, <2>1, <2>2, <2>3 DEF BootOK
<1>10. scene' \in Programs
  BY SuspNat
<1> QED BY <1>5, <1>6, <1>8, <1>9, <1>10, HoldersStay DEF IInv, Control

LEMMA StartSchedulerKeeps ==
  ASSUME IInv, scene' = scene, qs' = qs, StartScheduler
  PROVE  IInv'
<1> DEFINE u == NewTask(k, Idle)
<1>0. Idle \in Task /\ 0 \in Time /\ MaxTick \in Time
  BY SchedulerAssumption DEF Time
<1>1. /\ ~k.on /\ k.at[Idle] = "none" /\ pc' = [pc EXCEPT ![Idle] = "app"] /\ loc' = loc
      /\ k' = [u EXCEPT !.on = TRUE, !.next = MaxTick, !.tick = 0,
                        !.cur = IF k.prio[k.cur] <= 0 THEN Idle ELSE @]
  BY BootFacts DEF StartScheduler
<1>2. /\ Good(u) /\ u.on = k.on /\ u.cur = k.cur /\ u.susp = k.susp /\ u.loop = k.loop
      /\ u.pendsv = k.pendsv /\ u.ev = k.ev /\ u.tick = k.tick
      /\ u.at = [k.at EXCEPT ![Idle] = "ready"] /\ u.ns = [k.ns EXCEPT ![Idle] = "not"]
      /\ u.prio = [k.prio EXCEPT ![Idle] = scene.prio[Idle]]
  BY <1>0, <1>1, SuspNat, NewTaskGood, Zenon
<1> HIDE DEF u
<1>3. Data(u) /\ Shape(u)
  BY <1>2 DEF Good, Shape
<1>4. /\ Data(k') /\ k'.on = TRUE /\ k'.next = MaxTick /\ k'.tick = 0
      /\ k'.susp = u.susp /\ k'.ns = u.ns /\ k'.loop = u.loop /\ k'.at = u.at /\ k'.ev = u.ev
      /\ k'.top = u.top /\ k'.ready = u.ready /\ k'.delayed = u.delayed /\ k'.overflow = u.overflow
      /\ k'.wait = u.wait /\ k'.wake = u.wake /\ SamePrios(u, k')
      /\ k'.cur = IF k.prio[k.cur] <= 0 THEN Idle ELSE u.cur
  BY <1>1, <1>3, ZenonT(40) DEF Data, Fields, SamePrios
<1>6. /\ \A y \in Task : TaskOK(k', y, pc'[y], loc'[y]) /\ ~Closed(pc'[y])
      /\ \A y \in Task : pc'[y] \in {"none", "app"} /\ k'.ev[y] = "none" /\ k'.at[y] \in {"none", "ready"}
      /\ \A y \in Task : k'.at[y] = IF y = Idle THEN "ready" ELSE k.at[y]
      /\ DOMAIN pc' = Task /\ DOMAIN loc' = Task
  <2>1. k'.susp = k.susp /\ k'.ev = k.ev /\ k'.at = [k.at EXCEPT ![Idle] = "ready"] /\ k'.ns = [k.ns EXCEPT ![Idle] = "not"]
    BY <1>2, <1>4
  <2> QED BY <1>0, <1>1, <2>1, OldTasks, Zenon
<1>5. Good(k')
  <2>1. k'.on \in BOOLEAN
    BY <1>4, Zenon
  <2>2. Shape(k')
    <3>1. k'.cur \in Task
      BY <1>0, <1>3, <1>4 DEF Shape, SwitchTypes
    <3>2. SwitchTypes(k')
      BY <1>3, <1>4, <2>1, <3>1 DEF Shape, SwitchTypes
    <3>3. TimeTypes(k') /\ PrioTypes(k')
      BY <1>0, <1>3, <1>4 DEF Shape, TimeTypes, PrioTypes, SamePrios
    <3>4. ListTypes(k') /\ WaitTypes(k') /\ NoteTypes(k')
      BY <1>3, <1>4 DEF Shape, ListTypes, WaitTypes, NoteTypes
    <3> QED BY <1>4, <3>2, <3>3, <3>4 DEF Shape
  <2>3. ReadyOK(k')
    <3>1. \A p \in Prio : ReadyAt(k', p) = ReadyAt(u, p)
      BY <1>4 DEF ReadyAt, SamePrios
    <3> QED BY <1>2, <1>4, <3>1 DEF Good, ReadyOK
  <2>4. SleepOK(k')
    BY <1>2, <1>4, <1>6 DEF Good, SleepOK
  <2>5. WaitOK(k')
    BY <1>2, <1>4 DEF Good, WaitOK
  <2>6. Timely(k')
    BY <1>6 DEF Timely
  <2> QED BY <2>2, <2>3, <2>4, <2>5, <2>6 DEF Good
<1>7. k'.cur \in Task /\ k'.at[k'.cur] = "ready" /\ k'.on /\ k'.at[Idle] = "ready" /\ pc'[Idle] = "app"
  <2>1. k.cur \in Task /\ k'.at[k'.cur] = "ready"
    BY <1>0, <1>1, <1>2, <1>4, <1>6, SuspNat, BootFacts
  <2>2. pc'[Idle] = "app"
    BY <1>0, <1>1, Domains
  <2>3. k'.cur \in Task
    BY <1>5 DEF Good, Shape, SwitchTypes
  <2>4. k'.on
    BY <1>4
  <2> QED BY <1>0, <1>6, <2>1, <2>2, <2>3, <2>4
<1>8. CurrentOK(k', k'.cur, pc'[k'.cur], loc'[k'.cur])
  BY <1>6, <1>7 DEF CurrentOK, Guarded, Alone, MayBlock, Here
<1>9. BootOK'
  BY <1>7 DEF BootOK
<1>10. scene' \in Programs
  BY SuspNat
<1> QED BY <1>5, <1>6, <1>8, <1>9, <1>10, HoldersStay DEF IInv, Control

-----------------------------------------------------------------------------
(* The handlers.                                                           *)

LEMMA PendSVKeeps ==
  ASSUME IInv, scene' = scene, qs' = qs, PendSV
  PROVE  IInv'
<1>1. k.on /\ k.loop = "none" /\ k' = SwitchContext(k) /\ pc' = pc /\ loc' = loc
  BY DEF PendSV, Interrupts
<1>2. /\ k.at[Idle] = "ready" /\ pc[Idle] = "app" /\ Idle \in Task /\ k.cur \in Task /\ Good(k) /\ k.susp \in Nat
      /\ CurrentOK(k, k.cur, pc[k.cur], loc[k.cur])
  BY <1>1, IdleStays, SuspNat DEF IInv, Control
<1>3. CASE k.susp # 0
  <2>1. Data(k) /\ Shape(k)
    BY <1>2 DEF Good, Shape
  <2>2. /\ Data(k') /\ SameLists(k, k') /\ SameWaits(k, k') /\ k'.on = k.on /\ k'.cur = k.cur
        /\ k'.susp = k.susp /\ k'.ns = k.ns /\ k'.loop = k.loop
    BY <1>1, <1>3, <2>1, Zenon
        DEF SwitchContext, Data, Fields, SameLists, SameTimes, SamePrios, SameReady, SameSleep, SameWaits
  <2>3. Good(k')
    <3>1. SwitchTypes(k') /\ NoteTypes(k')
      BY <2>1, <2>2 DEF Shape, SwitchTypes, NoteTypes
    <3> QED BY <1>2, <2>2, <3>1, GoodSame
  <2>4. k'.at = k.at /\ k'.ev = k.ev
    BY <2>2 DEF SameLists, SameWaits
  <2>5. \A u \in Task : TaskOK(k', u, pc[u], loc[u]) /\ (u # k'.cur => ~Closed(pc[u]))
    BY <2>2, <2>4, TaskFacts DEF TaskOK, EventOK, NoteOK
  <2>6. CurrentOK(k', k'.cur, pc[k'.cur], loc[k'.cur])
    BY <1>2, <1>3, <2>2, <2>4 DEF CurrentOK, Guarded, MayBlock, Here, Leaves
  <2> QED BY <1>1, <1>2, <2>2, <2>3, <2>4, <2>5, <2>6, HoldersStay, ConcludesNone
<1>4. CASE k.susp = 0
  <2>1. k.top # {}
    <3>1. k.prio[Idle] \in Prio /\ Idle \in ReadyAt(k, k.prio[Idle])
      BY <1>2 DEF Good, Shape, PrioTypes, ReadyAt
    <3> QED BY <1>2, <3>1 DEF Good, ReadyOK
  <2>2. /\ Good(k') /\ k'.on = k.on /\ k'.susp = k.susp /\ k'.loop = k.loop /\ k'.ns = k.ns
        /\ k'.at = k.at /\ k'.ev = k.ev /\ k'.cur \in Task /\ k'.at[k'.cur] = "ready"
    BY <1>1, <1>2, <1>4, <2>1, SwitchContextGood, Zenon
  <2>3. ~Closed(pc[k.cur])
    BY <1>2, <1>4 DEF CurrentOK, Guarded, Closed
  <2>4. \A u \in Task : TaskOK(k', u, pc[u], loc[u]) /\ ~Closed(pc[u])
    BY <2>2, <2>3, TaskFacts DEF TaskOK, EventOK, NoteOK
  <2>5. Here(k', k'.cur)
    <3> DEFINE c == k'.cur
    <3>1. c \in Task /\ EventOK(k, c, pc[c]) /\ k.ev[c] \in Lists \cup {"none"} /\ k.at[c] = "ready"
      BY <2>2, TaskFacts
    <3>2. k.ev[c] = "none"
      BY <1>1, <1>4, <3>1 DEF EventOK, Lists
    <3> QED BY <2>2, <3>2 DEF Here
  <2>6. CurrentOK(k', k'.cur, pc[k'.cur], loc[k'.cur])
    BY <1>4, <2>2, <2>4, <2>5 DEF CurrentOK, Guarded, Closed
  <2> QED BY <1>1, <1>2, <2>2, <2>4, <2>6, HoldersStay, ConcludesNone
<1> QED BY <1>3, <1>4

\* A tick is counted.
LEMMA TickKeeps ==
  ASSUME IInv, k.on, scene' = scene, qs' = qs, pc' = pc, loc' = loc, NEW q, Good(q), q.loop \notin {"due", "owed"},
         NEW loop \in {"due", "owed"}, k' = TickUp(q, loop),
         \A u \in Task : q.at[u] = k.at[u] /\ q.ev[u] = k.ev[u],
         q.on = k.on, q.cur = k.cur, q.susp = k.susp, q.ns = k.ns, q.pendsv = k.pendsv,
         loop = "owed" \/ k.loop = "none"
  PROVE  IInv'
<1>1. /\ Good(k') /\ k'.on = q.on /\ k'.cur = q.cur /\ k'.susp = q.susp /\ k'.loop = loop
      /\ k'.ns = q.ns /\ k'.ev = q.ev /\ k'.pendsv = q.pendsv
      /\ \A u \in Task : k'.at[u] = q.at[u] \/ (k'.at[u] = "delayed" /\ q.at[u] = "overflow")
  <2> DEFINE r == TickUp(q, loop)
  <2>1. /\ Good(r) /\ r.on = q.on /\ r.cur = q.cur /\ r.susp = q.susp /\ r.loop = loop
        /\ r.ns = q.ns /\ r.ev = q.ev /\ r.pendsv = q.pendsv
        /\ \A u \in Task : r.at[u] = q.at[u] \/ (r.at[u] = "delayed" /\ q.at[u] = "overflow")
    <3>0. Good(r)
      BY TickUpGood
    <3>5. r.on = q.on
      BY TickUpGood, Zenon
    <3>1. r.cur = q.cur
      BY TickUpGood
    <3>2. r.susp = q.susp /\ r.loop = loop /\ r.ns = q.ns
      BY TickUpGood
    <3>3. r.ev = q.ev /\ r.pendsv = q.pendsv
      BY TickUpGood
    <3>4. ASSUME NEW u \in Task PROVE r.at[u] = q.at[u] \/ (r.at[u] = "delayed" /\ q.at[u] = "overflow")
      BY TickUpGood
    <3> QED BY <3>0, <3>1, <3>2, <3>3, <3>4, <3>5
  <2>2. k' = r
    OBVIOUS
  <2> HIDE DEF r
  <2> QED BY <2>1, <2>2, Zenon
<1>2. k.at[Idle] = "ready" /\ pc[Idle] = "app" /\ Idle \in Task /\ k.cur \in Task
  BY IdleStays, SuspNat
<1>3. ASSUME NEW u \in Task PROVE TaskOK(k', u, pc[u], loc[u]) /\ (u # k'.cur => ~Closed(pc[u]))
  <2>1. EventOK(k', u, pc[u])
    BY <1>1, TaskFacts DEF EventOK
  <2>2. NoteOK(k', u, pc[u], loc[u])
    BY <1>1, TaskFacts DEF NoteOK
  <2> QED BY <1>1, <2>1, <2>2, TaskFacts DEF TaskOK
<1>4. CurrentOK(k, k.cur, pc[k.cur], loc[k.cur])
  BY DEF IInv, Control
<1>5. CurrentOK(k', k'.cur, pc[k'.cur], loc[k'.cur])
  BY <1>1, <1>2, <1>4 DEF CurrentOK, Guarded, MayBlock, Here, Leaves
<1> QED BY <1>1, <1>2, <1>3, <1>5, HoldersStay, ConcludesNone

LEMMA SysTickKeeps ==
  ASSUME IInv, scene' = scene, qs' = qs, SysTick
  PROVE  IInv'
<1>1. k.on /\ k.loop = "none" /\ pc' = pc /\ loc' = loc
  BY DEF SysTick, Interrupts
<1>2. CASE k.susp # 0
  <2>1. k' = [k EXCEPT !.pended = k.pended + 1]
    BY <1>2 DEF SysTick
  <2>2. Sound(k') /\ Follows(k, k')
    BY <2>1, Domains, PendedRests
  <2> QED BY <1>1, <2>2, HoldersStay, DataStep
<1>3. CASE k.susp = 0
  <2>1. k' = TickUp(k, "due")
    BY <1>3 DEF SysTick
  <2> QED BY <1>1, <2>1, SuspNat, TickKeeps, Zenon
<1> QED BY <1>2, <1>3

LEMMA ResumeFromISRKeeps ==
  ASSUME IInv, scene' = scene, qs' = qs, NEW x \in Task, ResumeFromISR(x)
  PROVE  IInv'
<1> DEFINE r == AddReady(Unlist(k, x), x)
           o == Owe(r, x)
<1>1. /\ k.on /\ pc' = pc /\ loc' = loc /\ k.at[x] = "suspended" /\ k.ev[x] = "none" /\ k.ns[x] # "waiting"
      /\ k' = IF k.susp = 0 THEN YieldsTo(o, x) ELSE Pend(k, x)
  BY DEF ResumeFromISR, Interrupts, IsSuspended
<1>2. Sound(r) /\ Follows(k, r)
  BY <1>1, Domains, ReadyAwakes
<1> HIDE DEF r
<1>3. Sound(o) /\ Follows(k, o)
  BY <1>2, OweRests, FollowsTwice
<1> HIDE DEF o
<1>4. CASE k.susp = 0
  <2>1. Sound(k') /\ Follows(o, k')
    BY <1>1, <1>3, <1>4, YieldsToRests
  <2>2. Follows(k, k')
    BY <1>3, <2>1, FollowsTwice
  <2> QED BY <1>1, <2>1, <2>2, HoldersStay, DataStep
<1>5. CASE k.susp # 0
  <2>1. ~Here(k, x)
    BY <1>1 DEF Here
  <2>2. Sound(k') /\ Follows(k, k')
    BY <1>1, <1>5, <2>1, Domains, PendPends
  <2> QED BY <1>1, <2>2, HoldersStay, DataStep
<1> QED BY <1>4, <1>5

-----------------------------------------------------------------------------
(* The loops of the kernel, one turn at a time.                            *)

LEMMA DueKeeps ==
  ASSUME IInv, k.on, scene' = scene, qs' = qs, Due
  PROVE  IInv'
<1> DEFINE t == Head(k.delayed)
           u == Unlist(k, t)
           v == Unwait(u, t)
           a == AddReady(v, t)
<1>1. /\ k.delayed # <<>> /\ pc' = pc /\ loc' = loc
      /\ k' = [a EXCEPT !.sw = a.sw \/ k.prio[t] > k.prio[k.cur]]
  BY DEF Due, HeadIsDue
<1>2. t \in Task /\ k.at[t] = "delayed" /\ Good(k) /\ Sound(k)
  BY <1>1, Domains, SuspNat, HeadDelayed
<1> HIDE DEF t
<1>3. /\ Good(v) /\ Core(k, v) /\ SameTimes(k, v) /\ SamePrios(k, v)
      /\ \A y \in Task : v.at[y] = IF y = t THEN "none" ELSE k.at[y]
      /\ \A y \in Task : v.ev[y] = IF y = t THEN "none" ELSE k.ev[y]
  BY <1>2, UnlinkGood, Zenon
<1> HIDE DEF v
<1>4. /\ Good(a) /\ Core(v, a) /\ SameTimes(v, a) /\ SamePrios(v, a) /\ SameWaits(v, a)
      /\ a.at = [v.at EXCEPT ![t] = "ready"]
  <2>1. v.at[t] \notin {"ready", "delayed", "overflow"}
    BY <1>2, <1>3
  <2> QED BY <1>2, <1>3, <2>1, AddReadyGood, Zenon
<1>5. v.at \in [Task -> Places]
  BY <1>3 DEF Good, Shape, ListTypes
<1> HIDE DEF a
<1>6. /\ a.at[t] = "ready" /\ a.ev[t] = "none"
      /\ \A y \in Task : y # t => a.at[y] = k.at[y] /\ a.ev[y] = k.ev[y]
  BY <1>2, <1>3, <1>4, <1>5 DEF SameWaits
<1>7. Steady(k, a)
  BY <1>3, <1>4, CoreTwice, CoreSteady
<1>8. Sound(a) /\ Follows(k, a)
  BY <1>2, <1>4, <1>6, <1>7, Awakes, Zenon
<1>9. Data(a)
  BY <1>4 DEF Good, Shape
<1>10. Data(k') /\ SameLists(a, k') /\ SameWaits(a, k') /\ Core(a, k')
  BY <1>1, <1>9, Zenon DEF Data, Fields, SameLists, SameTimes, SamePrios, SameReady, SameSleep, SameWaits, Core
<1>11. Steady(a, k') /\ k'.ns = a.ns
  BY <1>10, CoreSteady DEF Core
<1>12. Sound(k') /\ Follows(a, k')
  BY <1>8, <1>10, <1>11, FlagsRest
<1>13. Follows(k, k')
  BY <1>8, <1>12, FollowsTwice
<1> QED BY <1>1, <1>12, <1>13, HoldersStay, DataStep

LEMMA LoopGood ==
  ASSUME NEW q, Good(q), NEW r, Data(r), SameLists(q, r), SameWaits(q, r), SwitchTypes(r), NoteTypes(r), Timely(r)
  PROVE  Good(r)
<1>1. Shape(r)
  BY DEF Good, Shape, TimeTypes, PrioTypes, ListTypes, WaitTypes,
         SameLists, SameTimes, SamePrios, SameReady, SameSleep, SameWaits
<1>2. ReadyOK(r)
  BY Zenon DEF Good, ReadyOK, ReadyAt, SameLists, SamePrios, SameReady
<1>3. SleepOK(r)
  BY DEF Good, SleepOK, SameLists, SameTimes, SameSleep
<1>4. WaitOK(r)
  BY DEF Good, WaitOK, SameWaits
<1> QED BY <1>1, <1>2, <1>3, <1>4 DEF Good

\* A step of a loop that moves nobody, and changes the loop.
LEMMA LoopKeeps ==
  ASSUME IInv, k.on, scene' = scene, qs' = qs, Good(k'),
         NEW l, Becomes(k.cur, pc[k.cur], l), PlanOK(pc[k.cur], l),
         k'.on = k.on, k'.cur = k.cur, k'.susp = k.susp, k'.ns = k.ns, k'.at = k.at, k'.ev = k.ev,
         k.pendsv => k'.pendsv,
         l.ticks = loc[k.cur].ticks, l.then = loc[k.cur].then, l.obj = loc[k.cur].obj,
         l.yields = loc[k.cur].yields, k'.pendsv \/ ~l.yielded \/ l.yielded = loc[k.cur].yielded,
         \A u \in Task : k.ev[u] = "pending" => k.susp # 0 \/ k'.loop \in {"drain", "owed"}
  PROVE  IInv'
<1> DEFINE t == k.cur
           p == pc[k.cur]
<1>1. t \in Task /\ k.at[Idle] = "ready" /\ pc[Idle] = "app" /\ Idle \in Task
  BY SuspNat, IdleStays
<1>2. Becomes(t, p, l)
  OBVIOUS
<1>3. ASSUME NEW u \in Task PROVE EventOK(k', u, pc[u])
  BY TaskFacts DEF EventOK
<1>4. ASSUME NEW u \in Task PROVE NoteOK(k', u, pc[u], loc[u])
  BY TaskFacts DEF NoteOK
<1>5. ASSUME NEW u \in Task PROVE TaskOK(k', u, pc[u], loc[u])
  BY <1>3, <1>4, TaskFacts DEF TaskOK
<1>6. TaskOK(k', t, p, l)
  <2>1. NoteOK(k', t, p, l)
    BY <1>1, <1>4 DEF NoteOK
  <2> QED BY <1>1, <1>3, <2>1 DEF TaskOK
<1>7. CurrentOK(k, t, p, loc[t])
  BY DEF IInv, Control
<1>8. Guarded(k', t, p, l)
  BY <1>7 DEF CurrentOK, Guarded, MayBlock
<1>9. CurrentOK(k', t, p, l)
  BY <1>7, <1>8 DEF CurrentOK, Here, Filed, Leaves
<1>10. t = Idle => p = "app"
  BY <1>1
<1> HIDE DEF p
<1> QED BY <1>1, <1>2, <1>5, <1>6, <1>9, <1>10, HoldersStay, Concludes

LEMMA NoneDueKeeps ==
  ASSUME IInv, k.on, scene' = scene, qs' = qs, NoneDue
  PROVE  IInv'
<1> DEFINE q == IF k.tick >= k.next THEN ResetNext(k) ELSE k
           switch == k.sw \/ Slices(k) \/ k.yp
           l == loc[k.cur]
<1>1. /\ k.loop \in {"due", "owed"} /\ ~HeadIsDue /\ pc' = pc /\ loc' = loc
      /\ k' = IF k.loop = "due"
              THEN [q EXCEPT !.loop = "none", !.sw = FALSE, !.pendsv = @ \/ switch]
              ELSE [q EXCEPT !.loop = "drain", !.sw = FALSE, !.yp = @ \/ switch]
  BY DEF NoneDue
<1>2. Good(k) /\ k.cur \in Task
  BY SuspNat
<1>3. Good(q) /\ Core(k, q) /\ q.wake = k.wake /\ SameWaits(k, q) /\ q.at = k.at
  <2>1. LET r == ResetNext(k)
        IN  Good(r) /\ Core(k, r) /\ r.wake = k.wake /\ SamePrios(k, r) /\ SameWaits(k, r) /\ r.at = k.at
    BY <1>2, ResetNextGood, Zenon
  <2> QED BY <1>2, <2>1, Zenon DEF Core, SameWaits
<1> HIDE DEF q, switch
<1>4. Data(q) /\ SwitchTypes(q) /\ NoteTypes(q)
  BY <1>3 DEF Good, Shape
<1>5. /\ Data(k') /\ SameLists(q, k') /\ SameWaits(q, k') /\ k'.on = q.on /\ k'.cur = q.cur /\ k'.susp = q.susp
      /\ k'.ns = q.ns /\ k'.loop = IF k.loop = "due" THEN "none" ELSE "drain"
  <2>1. CASE k.loop = "due"
    BY <1>1, <1>4, <2>1, ZenonT(40)
        DEF Data, Fields, SameLists, SameTimes, SamePrios, SameReady, SameSleep, SameWaits
  <2>2. CASE k.loop # "due"
    BY <1>1, <1>4, <2>2, ZenonT(40)
        DEF Data, Fields, SameLists, SameTimes, SamePrios, SameReady, SameSleep, SameWaits
  <2> QED BY <2>1, <2>2
<1>6. k.pendsv => k'.pendsv
  <2>1. q.pendsv = k.pendsv
    BY <1>3 DEF Core
  <2>2. CASE k.loop = "due"
    <3> DEFINE s == q.pendsv \/ switch
    <3>1. k' = [q EXCEPT !.loop = "none", !.sw = FALSE, !.pendsv = s]
      BY <1>1, <2>2
    <3>2. k.pendsv => s
      BY <2>1
    <3> HIDE DEF s
    <3> QED BY <1>4, <3>1, <3>2 DEF Data, Fields
  <2>3. CASE k.loop # "due"
    BY <1>1, <1>4, <2>1, <2>3, Zenon DEF Data, Fields
  <2> QED BY <2>2, <2>3
<1>7. Timely(k')
  <2>1. /\ k'.at = k.at /\ k'.wake = k.wake /\ k'.tick = k.tick
    BY <1>3, <1>5 DEF SameLists, SameTimes, Core
  <2>2. ASSUME NEW u \in Task, k.at[u] = "delayed" PROVE k.wake[u] > k.tick
    <3>1. k.delayed # <<>> /\ k.wake[Head(k.delayed)] <= k.wake[u]
      BY <1>2, <2>2, HeadLeast
    <3>2. k.next <= k.wake[u] /\ k.wake[u] \in Int /\ k.tick \in Int /\ k.next \in Int
      BY <1>2, <2>2, SchedulerAssumption DEF Good, SleepOK, Shape, TimeTypes, Time
    <3>3. Head(k.delayed) \in Task /\ k.wake[Head(k.delayed)] \in Int
      BY <1>2, <3>1, HeadDelayed, SchedulerAssumption DEF Good, Shape, TimeTypes, Time
    <3> QED BY <1>1, <3>1, <3>2, <3>3 DEF HeadIsDue
  <2>3. \A u \in Task : k.at[u] = "overflow" => k.wake[u] < k.tick
    BY <1>2 DEF Good, Timely
  <2> QED BY <2>1, <2>2, <2>3 DEF Timely
<1>8. Good(k')
  <2>1. SwitchTypes(k') /\ NoteTypes(k')
    BY <1>4, <1>5 DEF SwitchTypes, NoteTypes
  <2> QED BY <1>3, <1>5, <1>7, <2>1, LoopGood
<1>9. /\ k'.on = k.on /\ k'.cur = k.cur /\ k'.susp = k.susp /\ k'.ns = k.ns /\ k'.at = k.at /\ k'.ev = k.ev
  BY <1>3, <1>5 DEF Core, SameLists, SameWaits
<1>10. \A u \in Task : k.ev[u] = "pending" => k.susp # 0 \/ k'.loop \in {"drain", "owed"}
  BY <1>1, <1>5, TaskFacts DEF EventOK
<1>11. PlanOK(pc[k.cur], l) /\ Becomes(k.cur, pc[k.cur], l)
  BY <1>1, <1>2, TaskFacts, Domains DEF Becomes
<1> QED BY <1>1, <1>6, <1>8, <1>9, <1>10, <1>11, LoopKeeps, Zenon

LEMMA DrainKeeps ==
  ASSUME IInv, k.on, scene' = scene, qs' = qs, Drain
  PROVE  IInv'
<1> DEFINE t == Head(k.wait["pending"])
           u == Unwait(k, t)
           a == AddReady(Unlist(u, t), t)
           o == Owe(a, t)
<1>1. k.wait["pending"] # <<>> /\ pc' = pc /\ loc' = loc /\ k' = ResetNext(o)
  BY DEF Drain
<1>2. t \in Task /\ k.ev[t] = "pending" /\ Good(k) /\ Sound(k)
  BY <1>1, Domains, SuspNat, HeadWaits DEF Lists
<1>3. k.at[t] \notin {"none", "termination"}
  BY <1>2, TaskFacts DEF EventOK
<1> HIDE DEF t
<1>4. /\ Good(u) /\ Core(k, u) /\ SameTimes(k, u) /\ SamePrios(k, u) /\ u.at = k.at
      /\ \A x \in Task : u.ev[x] = IF x = t THEN "none" ELSE k.ev[x]
  BY <1>2, UnwaitGood, Zenon
<1> HIDE DEF u
<1>5. /\ Good(a) /\ Core(u, a) /\ SameTimes(u, a) /\ SamePrios(u, a) /\ SameWaits(u, a)
      /\ a.at = [u.at EXCEPT ![t] = "ready"]
  BY <1>2, <1>4, ReadyAgain, Zenon
<1> HIDE DEF a
<1>6. u.at \in [Task -> Places]
  BY <1>4 DEF Good, Shape, ListTypes
<1>7. /\ a.at[t] = "ready" /\ a.ev[t] = "none"
      /\ \A y \in Task : y # t => a.at[y] = k.at[y] /\ a.ev[y] = k.ev[y]
  BY <1>2, <1>4, <1>5, <1>6 DEF SameWaits
<1>8. Steady(k, a)
  BY <1>4, <1>5, CoreTwice, CoreSteady
<1>9. Sound(a) /\ Follows(k, a)
  BY <1>2, <1>3, <1>5, <1>7, <1>8, Awakes, Zenon
<1>10. Sound(o) /\ Follows(k, o)
  BY <1>9, OweRests, FollowsTwice
<1> HIDE DEF o
<1>11. Sound(k') /\ Follows(k, k')
  BY <1>1, <1>10, NextRests, FollowsTwice
<1> QED BY <1>1, <1>11, HoldersStay, DataStep

LEMMA CatchUpKeeps ==
  ASSUME IInv, k.on, scene' = scene, qs' = qs, CatchUp
  PROVE  IInv'
<1> DEFINE q == [k EXCEPT !.pended = @ - 1]
<1>1. k.loop = "drain" /\ pc' = pc /\ loc' = loc /\ k' = TickUp(q, "owed")
  BY DEF CatchUp
<1>2. Data(k) /\ Sound(k)
  BY Domains, SuspNat DEF Good, Shape
<1>3. Sound(q)
  BY <1>2, PendedRests
<1>4. /\ q.at = k.at /\ q.ev = k.ev /\ q.on = k.on /\ q.cur = k.cur /\ q.susp = k.susp /\ q.ns = k.ns
      /\ q.pendsv = k.pendsv /\ q.loop = k.loop
  BY <1>2, Zenon DEF Data, Fields
<1> HIDE DEF q
<1>5. Good(q) /\ q.loop \notin {"due", "owed"} /\ \A u \in Task : q.at[u] = k.at[u] /\ q.ev[u] = k.ev[u]
  BY <1>1, <1>3, <1>4 DEF Sound
<1> QED BY <1>1, <1>4, <1>5, TickKeeps, Zenon

LEMMA DrainedKeeps ==
  ASSUME IInv, k.on, scene' = scene, qs' = qs, Drained
  PROVE  IInv'
<1> DEFINE c == loc[k.cur]
           y == k.yp
           l == [loc[k.cur] EXCEPT !.yielded = y]
           s == k.pendsv \/ k.yp
<1>1. /\ k.loop = "drain" /\ k.wait["pending"] = <<>> /\ pc' = pc
      /\ k' = [k EXCEPT !.loop = "none", !.pendsv = s]
  BY DEF Drained
<1>2. Good(k) /\ Data(k) /\ SwitchTypes(k) /\ NoteTypes(k) /\ k.cur \in Task
  BY SuspNat DEF Good, Shape
<1>3. Becomes(k.cur, pc[k.cur], l)
  <2>1. loc' = [loc EXCEPT ![k.cur] = l]
    BY DEF Drained
  <2> HIDE DEF l
  <2> QED BY <1>1, <1>2, <2>1, Domains DEF Becomes
<1>4. PlanOK(pc[k.cur], c)
  BY <1>2, TaskFacts
<1>5. {"api", "obj", "ticks", "entry", "then", "back", "yields", "yielded"} \subseteq DOMAIN c
  BY <1>4 DEF PlanOK
<1>6. /\ DOMAIN l = DOMAIN c /\ l.then = c.then /\ l.yields = c.yields /\ l.yielded = y
      /\ l.ticks = c.ticks /\ l.obj = c.obj /\ l.back = c.back /\ l.entry = c.entry
  BY <1>5, WithYielded, Zenon
<1>7. (k.pendsv => s) /\ (y => s)
  OBVIOUS
<1> HIDE DEF l, s
<1>8. PlanOK(pc[k.cur], l)
  BY <1>4, <1>6 DEF PlanOK
<1>9. /\ Data(k') /\ SameLists(k, k') /\ SameWaits(k, k') /\ k'.on = k.on /\ k'.cur = k.cur /\ k'.susp = k.susp
      /\ k'.ns = k.ns /\ k'.loop = "none" /\ k'.pendsv = s
  BY <1>1, <1>2, Zenon DEF Data, Fields, SameLists, SameTimes, SamePrios, SameReady, SameSleep, SameWaits
<1>10. Good(k')
  <2>1. SwitchTypes(k') /\ NoteTypes(k')
    BY <1>2, <1>9 DEF SwitchTypes, NoteTypes
  <2> QED BY <1>1, <1>2, <1>9, <2>1, GoodSame
<1>11. k'.at = k.at /\ k'.ev = k.ev
  BY <1>9 DEF SameLists, SameWaits
<1>12. \A u \in Task : k.ev[u] # "pending"
  <2>1. Holds(k.wait["pending"], {u \in Task : k.ev[u] = "pending"}) /\ k.wait["pending"] \in Seq(Task)
    BY <1>2, Zenon DEF Good, WaitOK, Shape, WaitTypes, Lists
  <2>2. {u \in Task : k.ev[u] = "pending"} = {}
    BY <1>1, <2>1, HoldsNone, Zenon
  <2> QED BY <2>2
<1>13. (k.pendsv => k'.pendsv) /\ (k'.pendsv \/ ~l.yielded)
  BY <1>6, <1>7, <1>9, Zenon
<1> HIDE DEF c, y
<1> QED BY <1>1, <1>3, <1>6, <1>8, <1>9, <1>10, <1>11, <1>12, <1>13, LoopKeeps, Zenon DEF c

-----------------------------------------------------------------------------
(* The locals of a call and the holders of the mutexes.                    *)

CallFields == {"api", "obj", "ticks", "entry", "then", "back", "yields", "yielded"}

LEMMA WithInherited ==
  ASSUME NEW l, CallFields \subseteq DOMAIN l
  PROVE  \A x : LET m == [l EXCEPT !.inherited = x]
                IN  /\ DOMAIN m = DOMAIN l /\ m.obj = l.obj /\ m.ticks = l.ticks /\ m.entry = l.entry
                    /\ m.then = l.then /\ m.back = l.back /\ m.yields = l.yields /\ m.yielded = l.yielded
BY DEF CallFields

LEMMA WithThen ==
  ASSUME NEW l, CallFields \subseteq DOMAIN l
  PROVE  \A x : LET m == [l EXCEPT !.then = x]
                IN  /\ DOMAIN m = DOMAIN l /\ m.obj = l.obj /\ m.ticks = l.ticks /\ m.entry = l.entry
                    /\ m.then = x /\ m.back = l.back /\ m.yields = l.yields /\ m.yielded = l.yielded
BY DEF CallFields

LEMMA WithYields ==
  ASSUME NEW l, CallFields \subseteq DOMAIN l
  PROVE  \A x : LET m == [l EXCEPT !.yields = x]
                IN  /\ DOMAIN m = DOMAIN l /\ m.obj = l.obj /\ m.ticks = l.ticks /\ m.entry = l.entry
                    /\ m.then = l.then /\ m.back = l.back /\ m.yields = x /\ m.yielded = l.yielded
BY DEF CallFields

Started(l, e) == [l EXCEPT !.timed = TRUE, !.entry = e]
LEMMA WithEntry ==
  ASSUME NEW l, CallFields \subseteq DOMAIN l, NEW e
  PROVE  LET m == Started(l, e)
         IN  /\ DOMAIN m = DOMAIN l /\ m.obj = l.obj /\ m.ticks = l.ticks /\ m.entry = e
             /\ m.then = l.then /\ m.back = l.back /\ m.yields = l.yields
<1> DEFINE y == TRUE
           m == [l EXCEPT !.timed = y, !.entry = e]
<1> HIDE DEF y
<1>1. /\ DOMAIN m = DOMAIN l /\ m.obj = l.obj /\ m.ticks = l.ticks /\ m.entry = e
      /\ m.then = l.then /\ m.back = l.back /\ m.yields = l.yields
  BY DEF CallFields
<1> HIDE DEF m
<1>3. m = Started(l, e)
  BY Zenon DEF m, y, Started
<1> QED BY <1>1, <1>3

Left(l, x, e) == [l EXCEPT !.ticks = x, !.entry = e]
LEMMA WithTicks ==
  ASSUME NEW l, CallFields \subseteq DOMAIN l, NEW x, NEW e
  PROVE  LET m == Left(l, x, e)
         IN  /\ DOMAIN m = DOMAIN l /\ m.obj = l.obj /\ m.ticks = x /\ m.entry = e
             /\ m.then = l.then /\ m.back = l.back /\ m.yields = l.yields
BY DEF CallFields, Left

Waiting(l) == [l EXCEPT !.then = "try", !.yields = TRUE]
LEMMA WithWait ==
  ASSUME NEW l, CallFields \subseteq DOMAIN l
  PROVE  LET m == Waiting(l)
         IN  /\ DOMAIN m = DOMAIN l /\ m.obj = l.obj /\ m.ticks = l.ticks /\ m.entry = l.entry
             /\ m.then = "try" /\ m.back = l.back /\ m.yields \in BOOLEAN /\ m.yields
<1> DEFINE y == TRUE
           m == [l EXCEPT !.then = "try", !.yields = y]
<1> HIDE DEF y
<1>1. /\ DOMAIN m = DOMAIN l /\ m.obj = l.obj /\ m.ticks = l.ticks /\ m.entry = l.entry
      /\ m.then = "try" /\ m.back = l.back /\ m.yields = y
  BY DEF CallFields
<1> HIDE DEF m
<1>2. m.yields \in BOOLEAN /\ m.yields
  BY <1>1, Zenon DEF y
<1>3. m = Waiting(l)
  BY Zenon DEF m, y, Waiting
<1> QED BY <1>1, <1>2, <1>3, Zenon

Trying(l) == [l EXCEPT !.then = "try", !.yields = FALSE]
LEMMA WithTry ==
  ASSUME NEW l, CallFields \subseteq DOMAIN l
  PROVE  LET m == Trying(l)
         IN  /\ DOMAIN m = DOMAIN l /\ m.obj = l.obj /\ m.ticks = l.ticks /\ m.entry = l.entry
             /\ m.then = "try" /\ m.back = l.back /\ m.yields \in BOOLEAN /\ ~m.yields
<1> DEFINE y == FALSE
           m == [l EXCEPT !.then = "try", !.yields = y]
<1> HIDE DEF y
<1>1. /\ DOMAIN m = DOMAIN l /\ m.obj = l.obj /\ m.ticks = l.ticks /\ m.entry = l.entry
      /\ m.then = "try" /\ m.back = l.back /\ m.yields = y
  BY DEF CallFields
<1> HIDE DEF m
<1>2. m.yields \in BOOLEAN /\ ~m.yields
  BY <1>1, Zenon DEF y
<1>3. m = Trying(l)
  BY Zenon DEF m, y, Trying
<1> QED BY <1>1, <1>2, <1>3

Ended(l, x) == [l EXCEPT !.ticks = 0, !.yields = FALSE, !.then = x]
LEMMA WithNoTicks ==
  ASSUME NEW l, CallFields \subseteq DOMAIN l, NEW x
  PROVE  LET m == Ended(l, x)
         IN  /\ DOMAIN m = DOMAIN l /\ m.obj = l.obj /\ m.ticks = 0 /\ m.entry = l.entry
             /\ m.then = x /\ m.back = l.back /\ m.yields \in BOOLEAN /\ ~m.yields
<1> DEFINE y == FALSE
           m == [l EXCEPT !.ticks = 0, !.yields = y, !.then = x]
<1> HIDE DEF y
<1>1. /\ DOMAIN m = DOMAIN l /\ m.obj = l.obj /\ m.ticks = 0 /\ m.entry = l.entry
      /\ m.then = x /\ m.back = l.back /\ m.yields = y
  BY DEF CallFields
<1> HIDE DEF m
<1>2. m.yields \in BOOLEAN /\ ~m.yields
  BY <1>1, Zenon DEF y
<1>3. m = Ended(l, x)
  BY Zenon DEF m, y, Ended
<1> QED BY <1>1, <1>2, <1>3

LEMMA PlanFields ==
  ASSUME IInv, NEW t \in Task
  PROVE  /\ CallFields \subseteq DOMAIN loc[t] /\ loc[t].ticks \in Time /\ loc[t].entry.tick \in Int
         /\ loc[t].back = "app" /\ loc[t].yields \in BOOLEAN
         /\ pc[t] \in InQueue => loc[t].obj \in Queues
BY TaskFacts DEF PlanOK, CallFields

LEMMA HoldersSet ==
  ASSUME IInv, NEW o \in Queues, NEW c, "holder" \in DOMAIN c, c.holder \in Task \cup {NoTask},
         qs' = [qs EXCEPT ![o] = c]
  PROVE  HoldersOK'
BY DEF IInv, Control, HoldersOK

LEMMA HolderOf ==
  ASSUME IInv, NEW o \in Queues
  PROVE  "holder" \in DOMAIN qs[o] /\ qs[o].holder \in Task \cup {NoTask}
BY DEF IInv, Control, HoldersOK

LEMMA WrittenHolder ==
  ASSUME IInv, NEW o \in Queues, NEW where, NEW m
  PROVE  LET c == Written(o, where, m) IN "holder" \in DOMAIN c /\ c.holder \in Task \cup {NoTask}
<1> DEFINE q == qs[o]
           n == IF where = "overwrite" /\ q.count > 0 THEN q.count ELSE q.count + 1
           c1 == [q EXCEPT !.count = n, !.holder = NoTask]
           c2 == [q EXCEPT !.slot[q.wr] = m, !.wr = After(o, q.wr), !.count = n]
           c3 == [q EXCEPT !.slot[q.rd] = m, !.rd = Before(o, q.rd), !.count = n]
<1>1. "holder" \in DOMAIN q /\ q.holder \in Task \cup {NoTask}
  BY HolderOf
<1>2. \/ Written(o, where, m) = c1
      \/ Written(o, where, m) = c2
      \/ Written(o, where, m) = c3
  BY DEF Written
<1> HIDE DEF q, n
<1>3. "holder" \in DOMAIN c1 /\ c1.holder = NoTask
  BY <1>1
<1>4. "holder" \in DOMAIN c2 /\ c2.holder = q.holder
  BY <1>1
<1>5. "holder" \in DOMAIN c3 /\ c3.holder = q.holder
  BY <1>1
<1> HIDE DEF c1, c2, c3
<1> QED BY <1>1, <1>2, <1>3, <1>4, <1>5

LEMMA TakenHolder ==
  ASSUME IInv, NEW o \in Queues
  PROVE  LET c == Taken(o) IN "holder" \in DOMAIN c /\ c.holder \in Task \cup {NoTask}
BY HolderOf DEF Taken

-----------------------------------------------------------------------------
(* Calls on queues that do not wait.                                       *)

LEMMA CallKeeps ==
  ASSUME IInv, scene' = scene, NEW t \in Task, NEW api, NEW o \in Queues, NEW v, NEW n \in Time,
         Call(t, api, o, v, n)
  PROVE  IInv'
<1> DEFINE c == [NoCall EXCEPT !.obj = o, !.val = v, !.ticks = n, !.asked = n]
           l == [c EXCEPT !.api = api]
<1>1. /\ Runs(t) /\ pc[t] = "app" /\ t # Idle /\ Becomes(t, "try", l) /\ k' = Timing(k, t) /\ qs' = qs
      /\ n # 0 => k.susp = 0
  BY Calls, Zenon DEF Call
<1>2. l.yields = FALSE
  BY NoCallPlan, Zenon
<1>3. l.yields \in BOOLEAN /\ ~l.yields
  BY <1>2, Zenon
<1>4. /\ DOMAIN l = DOMAIN NoCall /\ l.ticks = n /\ l.then = "app" /\ l.back = "app" /\ l.entry.tick = 0
      /\ l.obj = o
  BY NoCallPlan
<1> HIDE DEF l
<1>5. {"api", "obj", "ticks", "entry", "then", "back", "yields", "yielded"} \subseteq DOMAIN l
  BY <1>4, NoCallPlan
<1>6. PlanOK("try", l)
  BY <1>3, <1>4, <1>5 DEF PlanOK, InQueue
<1>7. Sound(k') /\ Trails(k, k') /\ k'.susp = k.susp
  BY <1>1, Domains, TimingRests, FollowsTrails
<1>8. Guarded(k', t, "try", l)
  BY <1>1, <1>4, <1>7 DEF Guarded, Alone, MayBlock
<1> QED BY <1>1, <1>6, <1>7, <1>8, HoldersStay, CallStep DEF Settled

LEMMA SceneFacts ==
  ASSUME IInv, NEW t \in Task
  PROVE  scene.waits[t] \subseteq Time /\ scene.uses[t] \subseteq Queues /\ scene.uses["isr"] \subseteq Queues
         /\ 0 \in Time
BY SuspNat, SchedulerAssumption, QueueAssumption DEF Time

LEMMA EntriesKeep ==
  ASSUME IInv, scene' = scene, NEW t \in Task, Send(t) \/ Give(t) \/ Receive(t) \/ Take(t)
  PROVE  IInv'
<1>1. CASE Send(t)
  BY <1>1, SceneFacts, CallKeeps DEF Send
<1>2. CASE Give(t)
  BY <1>2, SceneFacts, CallKeeps DEF Give
<1>3. CASE Receive(t)
  BY <1>3, SceneFacts, CallKeeps DEF Receive
<1>4. CASE Take(t)
  BY <1>4, SceneFacts, CallKeeps DEF Take
<1> QED BY <1>1, <1>2, <1>3, <1>4

LEMMA ResetKeeps ==
  ASSUME IInv, scene' = scene, NEW t \in Task, Reset(t)
  PROVE  IInv'
<1>1. PICK o \in scene.uses[t] :
        /\ Simple(t, "reset", WakeFirst(k, TxList[o]))
        /\ qs' = [qs EXCEPT ![o] = [NewQueue(o) EXCEPT !.slot = qs[o].slot]]
  BY Zenon DEF Reset
<1>2. o \in Queues /\ TxList[o] \in EventList
  BY SceneFacts, QueueAssumption
<1>3. k.on /\ pc' = pc /\ loc' = loc /\ k' = WakeFirst(k, TxList[o])
  BY <1>1 DEF Simple, Runs
<1>4. Sound(k') /\ Follows(k, k')
  BY <1>2, <1>3, Domains, WakeFirstSound
<1>5. HoldersOK'
  <2> DEFINE c == [NewQueue(o) EXCEPT !.slot = qs[o].slot]
  <2>1. "holder" \in DOMAIN c /\ c.holder = NoTask
    BY DEF NewQueue
  <2>2. qs' = [qs EXCEPT ![o] = c]
    BY <1>1
  <2> HIDE DEF c
  <2> QED BY <1>2, <2>1, <2>2, HoldersSet, Zenon
<1> QED BY <1>3, <1>4, <1>5, DataStep

\* The call ends where it is.
LEMMA ReturnStep ==
  ASSUME IInv, scene' = scene, NEW t \in Task, NEW from \in Settled, from # "nend", Return(t, from),
         Sound(k'), Follows(k, k'), HoldersOK'
  PROVE  IInv'
<1>1. Runs(t) /\ pc[t] = from /\ Becomes(t, "app", NoCall)
  BY Returns
<1>2. Trails(k, k')
  BY FollowsTrails
<1>3. Guarded(k', t, "app", NoCall)
  BY DEF Guarded, Alone, MayBlock
<1> QED BY <1>1, <1>2, <1>3, NoPlan, CallStep

LEMMA CallerFacts ==
  ASSUME IInv, NEW t \in Task, pc[t] \in InQueue
  PROVE  /\ loc[t].obj \in Queues /\ RxList[loc[t].obj] \in EventList /\ TxList[loc[t].obj] \in EventList
         /\ Sound(k)
BY PlanFields, Domains, QueueAssumption

LEMMA SentKeeps ==
  ASSUME IInv, scene' = scene, NEW t \in Task, Sent(t)
  PROVE  IInv'
<1> DEFINE l == loc[t]
           o == loc[t].obj
           q == IF Kind[o] = "mutex" THEN PriorityDisinherit(k, t) ELSE k
           gaveUp == Kind[o] = "mutex" /\ Disinherits(k, t)
<1>1. /\ Return(t, "try") /\ pc[t] = "try"
      /\ qs' = [qs EXCEPT ![o] = Written(o, l.api, l.val)]
      /\ k' = IF q.wait[RxList[o]] = <<>> /\ gaveUp THEN Yield(q) ELSE WakeFirst(q, RxList[o])
  BY DEF Sent, Return, Go
<1>2. o \in Queues /\ RxList[o] \in EventList /\ Sound(k)
  BY <1>1, CallerFacts DEF InQueue
<1>3. Sound(q) /\ Follows(k, q)
  BY <1>2, PriorityDisinheritSound, FollowsItself
<1> HIDE DEF q, gaveUp, o
<1>4. Sound(k') /\ Follows(q, k')
  BY <1>1, <1>2, <1>3, YieldRests, WakeFirstSound
<1>5. Follows(k, k')
  BY <1>3, <1>4, FollowsTwice
<1>6. HoldersOK'
  BY <1>1, <1>2, WrittenHolder, HoldersSet, Zenon
<1> QED BY <1>1, <1>4, <1>5, <1>6, ReturnStep DEF Settled

LEMMA HeldRests ==
  ASSUME NEW q, Sound(q), NEW t, NEW n
  PROVE  LET r == [q EXCEPT !.held[t] = n] IN Sound(r) /\ Follows(q, r)
<1> DEFINE r == [q EXCEPT !.held[t] = n]
<1>0. Shape(q) /\ Data(q)
  BY DEF Sound, Good, Shape
<1>1. Data(r) /\ SameLists(q, r) /\ SameWaits(q, r) /\ Core(q, r)
  BY <1>0 DEF Data, Fields, SameLists, SameTimes, SamePrios, SameReady, SameSleep, SameWaits, Core
<1> HIDE DEF r
<1>2. Steady(q, r) /\ r.ns = q.ns
  BY <1>1, CoreSteady DEF Core
<1> QED BY <1>1, <1>2, FlagsRest, Zenon DEF r

LEMMA ReceivedKeeps ==
  ASSUME IInv, scene' = scene, NEW t \in Task, Received(t)
  PROVE  IInv'
<1> DEFINE o == loc[t].obj
           h == [k EXCEPT !.held[t] = @ + 1]
           q == IF Kind[o] = "mutex" THEN h ELSE k
           c == IF Kind[o] = "mutex" THEN [Taken(o) EXCEPT !.holder = t] ELSE Taken(o)
<1>1. /\ Return(t, "try") /\ pc[t] = "try" /\ qs' = [qs EXCEPT ![o] = c] /\ k' = WakeFirst(q, TxList[o])
  BY DEF Received, Return, Go
<1>2. o \in Queues /\ TxList[o] \in EventList /\ Sound(k)
  BY <1>1, CallerFacts DEF InQueue
<1>3. Sound(h) /\ Follows(k, h)
  BY <1>2, HeldRests
<1> HIDE DEF h, o
<1>4. Sound(q) /\ Follows(k, q)
  BY <1>2, <1>3, FollowsItself
<1> HIDE DEF q
<1>5. Sound(k') /\ Follows(k, k')
  BY <1>1, <1>2, <1>4, WakeFirstSound, FollowsTwice
<1>6. "holder" \in DOMAIN c /\ c.holder \in Task \cup {NoTask}
  BY <1>2, TakenHolder
<1> HIDE DEF c
<1>7. HoldersOK'
  BY <1>1, <1>2, <1>6, HoldersSet, Zenon
<1> QED BY <1>1, <1>5, <1>7, ReturnStep DEF Settled

LEMMA PeekedKeeps ==
  ASSUME IInv, scene' = scene, NEW t \in Task, Peeked(t)
  PROVE  IInv'
<1>1. /\ Return(t, "try") /\ pc[t] = "try" /\ qs' = qs /\ k' = WakeFirst(k, RxList[loc[t].obj])
  BY DEF Peeked, Return, Go
<1>2. Sound(k') /\ Follows(k, k')
  BY <1>1, CallerFacts, WakeFirstSound DEF InQueue
<1> QED BY <1>1, <1>2, HoldersStay, ReturnStep DEF Settled

LEMMA RefusedKeeps ==
  ASSUME IInv, scene' = scene, NEW t \in Task, Refused(t)
  PROVE  IInv'
<1>1. Return(t, "try") /\ qs' = qs /\ k' = k
  BY DEF Refused
<1>2. Sound(k') /\ Follows(k, k')
  BY <1>1, Domains, FollowsItself
<1> QED BY <1>1, <1>2, HoldersStay, ReturnStep DEF Settled

-----------------------------------------------------------------------------
(* Calls on queues that wait.                                              *)

LEMMA StartWaitKeeps ==
  ASSUME IInv, scene' = scene, NEW t \in Task, StartWait(t)
  PROVE  IInv'
<1> DEFINE l == loc[t]
           e == IF l.ticks = MaxTick THEN l.entry ELSE Now
           m == IF l.timed THEN l ELSE Started(l, e)
<1>0. CallFields \subseteq DOMAIN l
  BY PlanFields
<1>1. /\ Runs(t) /\ pc[t] = "try" /\ l.ticks # 0 /\ qs' = qs
      /\ k' = IF l.timed THEN k ELSE Timing(k, t)
  BY DEF StartWait, Go
<1>2. loc' = IF l.timed THEN loc ELSE [loc EXCEPT ![t] = Started(l, e)]
  BY Zenon DEF StartWait, Started
<1>3. PlanOK("try", l)
  BY <1>1, TaskFacts
<1>4. k.tick \in Int /\ Now.tick = k.tick
  BY SuspNat, SchedulerAssumption DEF Now, Good, Shape, TimeTypes, Time
<1>5. e.tick \in Int
  BY <1>3, <1>4 DEF PlanOK
<1>6. /\ DOMAIN m = DOMAIN l /\ m.obj = l.obj /\ m.ticks = l.ticks /\ m.entry.tick \in Int
      /\ m.then = l.then /\ m.back = l.back /\ m.yields = l.yields
  <2>1. CASE l.timed
    <3>1. m = l
      BY <2>1
    <3>2. l.entry.tick \in Int
      BY <1>3 DEF PlanOK
    <3> HIDE DEF m
    <3> QED BY <3>1, <3>2
  <2>2. CASE ~l.timed
    <3> DEFINE n == Started(l, e)
    <3>1. m = n
      BY <2>2
    <3>2. /\ DOMAIN n = DOMAIN l /\ n.obj = l.obj /\ n.ticks = l.ticks /\ n.entry = e
          /\ n.then = l.then /\ n.back = l.back /\ n.yields = l.yields
      BY <1>0, WithEntry
    <3> HIDE DEF m, n, e
    <3> QED BY <1>5, <3>1, <3>2
  <2> QED BY <2>1, <2>2
<1>7. Becomes(t, "hold", m)
  <2>1. pc' = [pc EXCEPT ![t] = "hold"]
    BY DEF StartWait, Go
  <2>2. CASE l.timed
    <3>1. m = l /\ loc' = loc
      BY <1>2, <2>2
    <3> HIDE DEF m
    <3> QED BY <2>1, <3>1, Domains DEF Becomes
  <2>3. CASE ~l.timed
    <3>1. loc' = [loc EXCEPT ![t] = m]
      BY <1>2, <2>3
    <3> HIDE DEF m
    <3> QED BY <2>1, <3>1, Domains DEF Becomes
  <2> QED BY <2>2, <2>3
<1> HIDE DEF m, e
<1>8. PlanOK("hold", m)
  BY <1>1, <1>3, <1>6 DEF PlanOK, InQueue
<1>9. Sound(k') /\ Trails(k, k') /\ k'.susp = k.susp
  BY <1>1, Domains, TimingRests, FollowsItself, FollowsTrails
<1>10. k.susp = 0
  BY <1>1, RunningFacts DEF Guarded, MayBlock
<1>11. Guarded(k', t, "hold", m)
  BY <1>9, <1>10 DEF Guarded, Alone
<1>12. t # Idle
  BY <1>1, RunningFacts
<1> QED BY <1>1, <1>7, <1>8, <1>9, <1>11, <1>12, HoldersStay, CallStep DEF Settled

LEMMA HoldKeeps ==
  ASSUME IInv, scene' = scene, NEW t \in Task, Hold(t)
  PROVE  IInv'
<1> DEFINE l == loc[t]
<1>1. Runs(t) /\ pc[t] = "hold" /\ Becomes(t, "lock", l) /\ k' = SuspendedAll(k) /\ qs' = qs
  BY GoKeeps DEF Hold
<1>2. PlanOK("hold", l) /\ k.susp = 0 /\ t # Idle
  BY <1>1, TaskFacts, RunningFacts DEF Guarded, MayBlock
<1>3. PlanOK("lock", l)
  BY <1>2 DEF PlanOK, InQueue
<1>4. Sound(k') /\ Trails(k, k') /\ k'.susp = 1
  BY <1>1, <1>2, Domains, SuspendTrails
<1>5. Guarded(k', t, "lock", l)
  BY <1>4 DEF Guarded, MayBlock
<1> HIDE DEF l
<1> QED BY <1>1, <1>2, <1>3, <1>4, <1>5, HoldersStay, CallStep DEF Settled

\* A step between the suspension and the resumption that moves nobody.
LEMMA InsideStep ==
  ASSUME IInv, scene' = scene, NEW t \in Task, Runs(t), pc[t] \in Alone \cap Settled, k' = k, HoldersOK',
         NEW p \in Alone, NEW m, Becomes(t, p, m), PlanOK(p, m)
  PROVE  IInv'
<1>1. k.susp = 1 /\ t # Idle
  BY RunningFacts DEF Guarded, Alone
<1>2. Sound(k') /\ Trails(k, k')
  BY Domains, FollowsItself, FollowsTrails
<1>3. Guarded(k', t, p, m)
  BY <1>1 DEF Guarded, Alone, MayBlock
<1>4. pc[t] \in Settled /\ pc[t] # "nend" /\ p \notin {"none", "dead"}
  BY DEF Alone
<1> QED BY <1>1, <1>2, <1>3, <1>4, CallStep

LEMMA LockQueueKeeps ==
  ASSUME IInv, scene' = scene, NEW t \in Task, LockQueue(t)
  PROVE  IInv'
<1> DEFINE l == loc[t]
           o == l.obj
           c == [qs[o] EXCEPT !.tx = IF @ = -1 THEN 0 ELSE @, !.rx = IF @ = -1 THEN 0 ELSE @]
<1>1. Runs(t) /\ pc[t] = "lock" /\ Becomes(t, "check", l) /\ k' = k
  BY GoKeeps DEF LockQueue
<1>2. o \in Queues /\ PlanOK("lock", l)
  BY <1>1, TaskFacts, CallerFacts DEF InQueue
<1>3. qs' = [qs EXCEPT ![o] = c]
  BY <1>2, Domains, Zenon DEF LockQueue, IInv, Control, HoldersOK
<1>4. "holder" \in DOMAIN c /\ c.holder \in Task \cup {NoTask}
  BY <1>2, HolderOf
<1> HIDE DEF c, o
<1>5. HoldersOK'
  BY <1>2, <1>3, <1>4, HoldersSet, Zenon
<1>6. PlanOK("check", l)
  BY <1>2 DEF PlanOK, InQueue
<1> HIDE DEF l
<1> QED BY <1>1, <1>5, <1>6, InsideStep DEF Settled, Alone

LEMMA ModRange ==
  ASSUME NEW a \in Int, NEW m \in Nat
  PROVE  a % (m + 1) \in 0..m
OBVIOUS

LEMMA CheckForTimeOutKeeps ==
  ASSUME IInv, scene' = scene, NEW t \in Task, CheckForTimeOut(t)
  PROVE  IInv'
<1> DEFINE l == loc[t]
<1>0. CallFields \subseteq DOMAIN l
  BY PlanFields
<1>1. pc[t] = "check" /\ k' = k /\ qs' = qs
  BY DEF CheckForTimeOut
<1>2. PlanOK("check", l)
  BY <1>1, TaskFacts
<1>3. CASE TimedOut(l.entry, l.ticks)
  <2> DEFINE x == IF l.api \in Sends THEN "app" ELSE "expired"
             m == Ended(l, x)
  <2>1. Go(t, "check", "untx") /\ loc' = [loc EXCEPT ![t] = m]
    BY <1>3, Zenon DEF CheckForTimeOut, Ended
  <2>2. /\ DOMAIN m = DOMAIN l /\ m.obj = l.obj /\ m.ticks = 0 /\ m.entry = l.entry
        /\ m.then = x /\ m.back = l.back /\ m.yields \in BOOLEAN /\ ~m.yields
    BY <1>0, WithNoTicks
  <2> HIDE DEF m
  <2>4. x \in {"app", "expired"} /\ 0 \in Time
    BY SceneFacts
  <2>5. PlanOK("untx", m)
    BY <1>2, <2>2, <2>4 DEF PlanOK, InQueue
  <2>6. Runs(t) /\ pc[t] = "check" /\ Becomes(t, "untx", m)
    BY <2>1, GoesOn, Zenon
  <2> QED BY <1>1, <2>5, <2>6, HoldersStay, InsideStep DEF Alone, Settled
<1>4. CASE ~TimedOut(l.entry, l.ticks)
  <2> DEFINE e == Elapsed(l.entry)
             n == Left(l, l.ticks - e, Now)
             m == StillWaiting(l)
  <2>1. Go(t, "check", "test") /\ loc' = [loc EXCEPT ![t] = m]
    BY <1>4 DEF CheckForTimeOut
  <2>2. /\ k.tick \in Int /\ Now.tick = k.tick /\ l.entry.tick \in Int /\ l.ticks \in Time /\ MaxTick \in Nat
    BY <1>2, SuspNat, SchedulerAssumption DEF Now, Good, Shape, TimeTypes, Time, PlanOK
  <2>3. e \in 0..MaxTick
    <3>1. k.tick - l.entry.tick \in Int
      BY <2>2
    <3> QED BY <2>2, <3>1, ModRange, Zenon DEF Elapsed
  <2>4. /\ DOMAIN n = DOMAIN l /\ n.obj = l.obj /\ n.ticks = l.ticks - e /\ n.entry = Now
        /\ n.then = l.then /\ n.back = l.back /\ n.yields = l.yields
    BY <1>0, WithTicks
  <2>5. m = l \/ (m = n /\ l.ticks # MaxTick)
    BY DEF StillWaiting, Left
  <2>6. l.ticks = MaxTick \/ ~(e >= l.ticks)
    BY <1>4 DEF TimedOut
  <2> HIDE DEF m, n, e
  <2>7. PlanOK("test", l)
    BY <1>2 DEF PlanOK, InQueue
  <2>8. (n.ticks \in Time /\ n.ticks # 0) \/ l.ticks = MaxTick
    BY <2>2, <2>3, <2>4, <2>6 DEF Time
  <2>9. l.ticks = MaxTick \/ PlanOK("test", n)
    BY <2>2, <2>4, <2>7, <2>8 DEF PlanOK, InQueue
  <2>10. PlanOK("test", m)
    BY <2>5, <2>7, <2>9
  <2>11. Runs(t) /\ pc[t] = "check" /\ Becomes(t, "test", m)
    BY <2>1, GoesOn, Zenon
  <2> QED BY <1>1, <2>10, <2>11, HoldersStay, InsideStep DEF Alone, Settled
<1> QED BY <1>3, <1>4

LEMMA TestKeeps ==
  ASSUME IInv, scene' = scene, NEW t \in Task, Test(t)
  PROVE  IInv'
<1> DEFINE l == loc[t]
           m == Trying(l)
           p == IF Kind[l.obj] = "mutex" THEN "inherit" ELSE "place"
<1>0. CallFields \subseteq DOMAIN l
  BY PlanFields
<1>1. pc[t] = "test" /\ k' = k /\ qs' = qs
  BY DEF Test
<1>2. PlanOK("test", l)
  BY <1>1, TaskFacts
<1>3. CASE Go(t, "test", p) /\ loc' = loc
  <2>1. p \in {"inherit", "place"}
    OBVIOUS
  <2> HIDE DEF p
  <2>2. PlanOK(p, l)
    BY <1>2, <2>1 DEF PlanOK, InQueue
  <2>3. Runs(t) /\ Becomes(t, p, l)
    BY <1>3, GoKeeps
  <2> HIDE DEF l
  <2> QED BY <1>1, <2>1, <2>2, <2>3, HoldersStay, InsideStep DEF Alone, Settled
<1>4. CASE Go(t, "test", "untx") /\ loc' = [loc EXCEPT ![t] = m]
  <2>1. /\ DOMAIN m = DOMAIN l /\ m.obj = l.obj /\ m.ticks = l.ticks /\ m.entry = l.entry
        /\ m.then = "try" /\ m.back = l.back /\ m.yields \in BOOLEAN /\ ~m.yields
    BY <1>0, WithTry
  <2> HIDE DEF m
  <2>3. PlanOK("untx", m)
    BY <1>2, <2>1 DEF PlanOK, InQueue
  <2>4. Runs(t) /\ Becomes(t, "untx", m)
    BY <1>4, GoesOn, Zenon
  <2> QED BY <1>1, <2>3, <2>4, HoldersStay, InsideStep DEF Alone, Settled
<1> QED BY <1>3, <1>4, Zenon DEF Test, Trying

LEMMA InheritKeeps ==
  ASSUME IInv, scene' = scene, NEW t \in Task, Inherit(t)
  PROVE  IInv'
<1> DEFINE l == loc[t]
           h == qs[l.obj].holder
           b == h # NoTask /\ Inherits(k, h)
           m == [l EXCEPT !.inherited = b]
<1>0. CallFields \subseteq DOMAIN l
  BY PlanFields
<1>1. /\ Go(t, "inherit", "place") /\ pc[t] = "inherit" /\ qs' = qs /\ loc' = [loc EXCEPT ![t] = m]
      /\ k' = IF h = NoTask THEN k ELSE PriorityInherit(k, h)
  BY DEF Inherit, Go
<1>2. PlanOK("inherit", l) /\ l.obj \in Queues /\ Sound(k)
  BY <1>1, TaskFacts, PlanFields, Domains DEF InQueue
<1>3. /\ DOMAIN m = DOMAIN l /\ m.obj = l.obj /\ m.ticks = l.ticks /\ m.entry = l.entry
      /\ m.then = l.then /\ m.back = l.back /\ m.yields = l.yields /\ m.yielded = l.yielded
  BY <1>0, WithInherited, Zenon
<1>4. h \in Task \cup {NoTask}
  BY <1>2, HolderOf
<1> HIDE DEF m, b, h
<1>5. PlanOK("place", m)
  BY <1>2, <1>3 DEF PlanOK, InQueue
<1>6. Runs(t) /\ Becomes(t, "place", m)
  BY <1>1, GoesOn, Zenon
<1>7. Sound(k') /\ Follows(k, k')
  BY <1>1, <1>2, <1>4, PriorityInheritSound, FollowsItself
<1>8. Trails(k, k') /\ k'.susp = k.susp
  BY <1>7, FollowsTrails
<1>9. k.susp = 1 /\ t # Idle
  BY <1>1, <1>6, RunningFacts DEF Guarded, Alone
<1>10. Guarded(k', t, "place", m)
  BY <1>8, <1>9 DEF Guarded, MayBlock
<1> QED BY <1>1, <1>5, <1>6, <1>7, <1>8, <1>9, <1>10, HoldersStay, CallStep DEF Settled

LEMMA PlaceKeeps ==
  ASSUME IInv, scene' = scene, NEW t \in Task, Place(t)
  PROVE  IInv'
<1> DEFINE l == loc[t]
           w == WaitsIn(l)
           n == l.ticks
           m == Waiting(l)
           r == PlaceOnEventList(k, w, n)
<1>0. CallFields \subseteq DOMAIN l
  BY PlanFields
<1>1. Go(t, "place", "untx") /\ pc[t] = "place" /\ qs' = qs /\ loc' = [loc EXCEPT ![t] = m] /\ k' = r
  BY Zenon DEF Place, Go, Waiting
<1>2. /\ PlanOK("place", l) /\ l.obj \in Queues /\ Good(k)
      /\ NoteOK(k, t, "place", l)
  BY <1>1, TaskFacts, PlanFields, SuspNat DEF InQueue
<1>3. Runs(t) /\ Becomes(t, "untx", m)
  BY <1>1, GoesOn, Zenon
<1>4. w \in EventList /\ n \in Time /\ n # 0
  BY <1>2, QueueAssumption DEF PlanOK, WaitsIn
<1>5. Here(k, t) /\ k.cur = t /\ k.susp = 1
  BY <1>1, <1>3, RunsHere, RunningFacts DEF Settled, Guarded, Alone
<1>6. /\ DOMAIN m = DOMAIN l /\ m.obj = l.obj /\ m.ticks = l.ticks /\ m.entry = l.entry
      /\ m.then = "try" /\ m.back = l.back /\ m.yields \in BOOLEAN /\ m.yields
  BY <1>0, WithWait
<1> HIDE DEF m, w, n
<1>8. PlanOK("untx", m)
  BY <1>2, <1>6 DEF PlanOK, InQueue
<1>9. k.ev[k.cur] = "none"
  BY <1>5 DEF Here
<1>10. /\ Good(r) /\ Core(k, r)
       /\ \A u \in Task : u # k.cur => r.at[u] = k.at[u]
       /\ \A u \in Task : r.ev[u] = IF u = k.cur THEN w ELSE k.ev[u]
       /\ r.at[k.cur] \in {"delayed", "overflow", "suspended"}
  BY <1>2, <1>4, <1>9, PlaceOnEventListGood, Zenon
<1> HIDE DEF r
<1>11. /\ Good(k') /\ Core(k, k') /\ k'.ev[t] = w /\ k'.at[t] \in {"delayed", "overflow", "suspended"}
       /\ \A u \in Task : u # t => k'.at[u] = k.at[u] /\ k'.ev[u] = k.ev[u]
  BY <1>1, <1>5, <1>10
<1>12. EventOK(k', t, "untx")
  BY <1>4, <1>11, SchedulerAssumption DEF EventOK
<1>13. NoteOK(k', t, "untx", m)
  BY <1>2, <1>11 DEF NoteOK, Core
<1>14. TaskOK(k', t, "untx", m)
  BY <1>8, <1>12, <1>13 DEF TaskOK
<1>15. Guarded(k', t, "untx", m)
  BY <1>5, <1>11 DEF Guarded, MayBlock, Core
<1> QED BY <1>1, <1>3, <1>6, <1>11, <1>14, <1>15, HoldersStay, FileStep

-----------------------------------------------------------------------------
(* The unlocking of a queue, one turn of its loops at a time.              *)

LEMMA UnlockStep ==
  ASSUME IInv, scene' = scene, NEW t \in Task, k.on, k.cur = t, pc[t] \in {"untx", "unrx"},
         k.loop \in {"unlock", "none"}, NEW r, Sound(r), Follows(k, r),
         NEW x \in {"unlock", "none"}, k' = [r EXCEPT !.loop = x],
         NEW p \in {"untx", "unrx", "resume"}, Becomes(t, p, loc[t]), HoldersOK'
  PROVE  IInv'
<1> DEFINE l == loc[t]
<1>1. Good(r) /\ Shape(r) /\ Data(r)
  BY DEF Sound, Good, Shape
<1>2. CurrentOK(k, t, pc[t], l) /\ PlanOK(pc[t], l) /\ NoteOK(k, t, pc[t], l)
  BY TaskFacts DEF IInv, Control
<1>3. k.susp = 1 /\ (Here(k, t) \/ l.yields)
  BY <1>2 DEF CurrentOK, Guarded, Alone, Leaves, Filed
<1>4. /\ r.on = k.on /\ r.cur = t /\ r.susp = 1 /\ (r.ns[t] = "waiting" => k.ns[t] = "waiting")
      /\ r.at[Idle] = "ready"
  BY <1>3, IdleStays DEF Follows, Steady
<1>5. Here(r, t) \/ l.yields
  BY <1>3 DEF Follows, Filed
<1>6. /\ Data(k') /\ SameLists(r, k') /\ SameWaits(r, k') /\ k'.on = r.on /\ k'.cur = r.cur
      /\ k'.susp = r.susp /\ k'.ns = r.ns
  BY <1>1 DEF Data, Fields, SameLists, SameTimes, SamePrios, SameReady, SameSleep, SameWaits
<1>7. SwitchTypes(k') /\ NoteTypes(k')
  BY <1>1, <1>6 DEF Shape, SwitchTypes, NoteTypes
<1>8. Timely(k')
  <2>1. r.loop = k.loop /\ k.loop \notin {"due", "owed"}
    BY <1>3 DEF Follows, Steady
  <2> QED BY <1>1, <1>6, <2>1 DEF Good, Timely, SameLists, SameTimes
<1>9. Good(k')
  BY <1>1, <1>6, <1>7, <1>8, LoopGood
<1>10. ASSUME NEW u \in Task PROVE TaskOK(k', u, pc[u], loc[u])
  <2>1. TaskOK(r, u, pc[u], loc[u])
    BY DEF Sound
  <2>2. k'.at = r.at /\ k'.ev = r.ev /\ k'.susp # 0
    BY <1>4, <1>6 DEF SameLists, SameWaits
  <2> QED BY <1>6, <2>1, <2>2 DEF TaskOK, EventOK, NoteOK
<1>11. TaskOK(k', t, p, l)
  <2>1. PlanOK(p, l)
    BY <1>2 DEF PlanOK, InQueue
  <2>2. EventOK(k', t, p)
    BY <1>10 DEF TaskOK, EventOK
  <2>3. NoteOK(k', t, p, l)
    BY <1>2, <1>4, <1>6 DEF NoteOK
  <2> QED BY <2>1, <2>2, <2>3 DEF TaskOK
<1>12. CurrentOK(k', t, p, l)
  <2>1. Guarded(k', t, p, l)
    BY <1>4, <1>6 DEF Guarded, MayBlock
  <2>2. Here(k', t) \/ Filed(p, l)
    BY <1>5, <1>6 DEF Here, Filed, SameLists, SameWaits
  <2> QED BY <2>1, <2>2 DEF CurrentOK
<1>13. k'.cur = t /\ k'.on /\ k'.at[Idle] = "ready" /\ pc[Idle] = "app" /\ t # Idle
  BY <1>4, <1>6, IdleStays, Zenon DEF SameLists
<1> HIDE DEF l
<1> QED BY <1>9, <1>10, <1>11, <1>12, <1>13, Concludes DEF l

\* One of the two halves.
LEMMA UnlockHalf ==
  ASSUME IInv, scene' = scene, NEW t \in Task, NEW at \in {"untx", "unrx"}, Unlocks(t, at),
         NEW l \in EventList, NEW c, NEW d, "holder" \in DOMAIN c, "holder" \in DOMAIN d,
         c.holder \in Task \cup {NoTask}, d.holder \in Task \cup {NoTask},
         NEW o \in Queues, NEW p \in {"unrx", "resume"},
         \/ /\ k.wait[l] # <<>> /\ k' = [RemoveFromEventList(k, l) EXCEPT !.loop = "unlock"]
            /\ qs' = [qs EXCEPT ![o] = c] /\ pc' = pc
         \/ /\ k' = [k EXCEPT !.loop = "none"] /\ qs' = [qs EXCEPT ![o] = d]
            /\ pc' = [pc EXCEPT ![t] = p]
  PROVE  IInv'
<1>1. /\ k.on /\ k.cur = t /\ pc[t] \in {"untx", "unrx"} /\ k.loop \in {"unlock", "none"} /\ loc' = loc
  BY DEF Unlocks
<1>2. DOMAIN pc = Task /\ DOMAIN loc = Task /\ Sound(k)
  BY Domains
<1>3. CASE /\ k.wait[l] # <<>> /\ k' = [RemoveFromEventList(k, l) EXCEPT !.loop = "unlock"]
           /\ qs' = [qs EXCEPT ![o] = c] /\ pc' = pc
  <2> DEFINE r == RemoveFromEventList(k, l)
  <2>1. Sound(r) /\ Follows(k, r)
    BY <1>2, <1>3, RemoveFromEventListSound
  <2>2. k' = [r EXCEPT !.loop = "unlock"]
    BY <1>3
  <2> HIDE DEF r
  <2>3. Becomes(t, pc[t], loc[t])
    BY <1>1, <1>2, <1>3 DEF Becomes
  <2>4. HoldersOK'
    BY <1>3, HoldersSet, Zenon
  <2> QED BY <1>1, <2>1, <2>2, <2>3, <2>4, UnlockStep, ZenonT(40)
<1>4. CASE k' = [k EXCEPT !.loop = "none"] /\ qs' = [qs EXCEPT ![o] = d] /\ pc' = [pc EXCEPT ![t] = p]
  <2>1. Becomes(t, p, loc[t])
    BY <1>1, <1>2, <1>4 DEF Becomes
  <2>2. HoldersOK'
    BY <1>4, HoldersSet, Zenon
  <2> QED BY <1>1, <1>2, <1>4, <2>1, <2>2, FollowsItself, UnlockStep, Zenon
<1> QED BY <1>3, <1>4

LEMMA UnlockTxKeeps ==
  ASSUME IInv, scene' = scene, NEW t \in Task, UnlockTx(t)
  PROVE  IInv'
<1> DEFINE o == loc[t].obj
           c == [qs[o] EXCEPT !.tx = @ - 1]
           d == [qs[o] EXCEPT !.tx = -1]
<1>1. Unlocks(t, "untx") /\ pc[t] = "untx"
  BY DEF UnlockTx, Unlocks
<1>2. o \in Queues /\ RxList[o] \in EventList
  BY <1>1, CallerFacts DEF InQueue
<1>3. o \in DOMAIN qs /\ "holder" \in DOMAIN qs[o] /\ qs[o].holder \in Task \cup {NoTask}
  BY <1>2, HolderOf DEF IInv, Control, HoldersOK
<1>4. \/ /\ k.wait[RxList[o]] # <<>> /\ k' = [RemoveFromEventList(k, RxList[o]) EXCEPT !.loop = "unlock"]
         /\ qs' = [qs EXCEPT ![o] = c] /\ pc' = pc
      \/ k' = [k EXCEPT !.loop = "none"] /\ qs' = [qs EXCEPT ![o] = d] /\ pc' = [pc EXCEPT ![t] = "unrx"]
  BY <1>3 DEF UnlockTx
<1>5. /\ "holder" \in DOMAIN c /\ c.holder \in Task \cup {NoTask}
      /\ "holder" \in DOMAIN d /\ d.holder \in Task \cup {NoTask}
  BY <1>3
<1> HIDE DEF c, d, o
<1> QED BY <1>1, <1>2, <1>4, <1>5, UnlockHalf

LEMMA UnlockRxKeeps ==
  ASSUME IInv, scene' = scene, NEW t \in Task, UnlockRx(t)
  PROVE  IInv'
<1> DEFINE o == loc[t].obj
           c == [qs[o] EXCEPT !.rx = @ - 1]
           d == [qs[o] EXCEPT !.rx = -1]
<1>1. Unlocks(t, "unrx") /\ pc[t] = "unrx"
  BY DEF UnlockRx, Unlocks
<1>2. o \in Queues /\ TxList[o] \in EventList
  BY <1>1, CallerFacts DEF InQueue
<1>3. o \in DOMAIN qs /\ "holder" \in DOMAIN qs[o] /\ qs[o].holder \in Task \cup {NoTask}
  BY <1>2, HolderOf DEF IInv, Control, HoldersOK
<1>4. \/ /\ k.wait[TxList[o]] # <<>> /\ k' = [RemoveFromEventList(k, TxList[o]) EXCEPT !.loop = "unlock"]
         /\ qs' = [qs EXCEPT ![o] = c] /\ pc' = pc
      \/ k' = [k EXCEPT !.loop = "none"] /\ qs' = [qs EXCEPT ![o] = d] /\ pc' = [pc EXCEPT ![t] = "resume"]
  BY <1>3 DEF UnlockRx
<1>5. /\ "holder" \in DOMAIN c /\ c.holder \in Task \cup {NoTask}
      /\ "holder" \in DOMAIN d /\ d.holder \in Task \cup {NoTask}
  BY <1>3
<1> HIDE DEF c, d, o
<1> QED BY <1>1, <1>2, <1>4, <1>5, UnlockHalf

-----------------------------------------------------------------------------
(* The end of a time-out, and the calls of interrupts.                     *)

LEMMA ExpiredKeeps ==
  ASSUME IInv, scene' = scene, NEW t \in Task, Expired(t)
  PROVE  IInv'
<1> DEFINE l == loc[t]
<1>1. pc[t] = "expired" /\ k' = k /\ qs' = qs
  BY DEF Expired
<1>2. PlanOK("expired", l) /\ HoldersOK' /\ Sound(k) /\ Sound(k')
  BY <1>1, TaskFacts, HoldersStay, Domains
<1>3. Follows(k, k') /\ Trails(k, k')
  BY <1>1, FollowsItself, FollowsTrails
<1>4. CASE Return(t, "expired")
  BY <1>2, <1>3, <1>4, ReturnStep DEF Settled
<1>5. ASSUME NEW p \in {"disinherit", "try"}, Go(t, "expired", p), loc' = loc PROVE IInv'
  <2>1. Runs(t) /\ Becomes(t, p, l)
    BY <1>5, GoKeeps
  <2>2. k.susp = 0 /\ t # Idle
    BY <1>1, <2>1, RunningFacts DEF Guarded, MayBlock
  <2>3. PlanOK(p, l)
    BY <1>2, <1>5 DEF PlanOK, InQueue
  <2>4. Guarded(k', t, p, l)
    BY <1>1, <2>2 DEF Guarded, Alone
  <2> HIDE DEF l
  <2> QED BY <1>1, <1>2, <1>3, <2>1, <2>2, <2>3, <2>4, CallStep DEF Settled
<1> QED BY <1>4, <1>5 DEF Expired

LEMMA HighestIsPrio ==
  ASSUME IInv, NEW o \in Queues
  PROVE  HighestWaiting(o) \in Prio
<1>1. Good(k) /\ RxList[o] \in Lists
  BY SuspNat, QueueAssumption DEF Lists
<1>2. 0 \in Prio
  BY SchedulerAssumption DEF Prio
<1>3. k.wait[RxList[o]] # <<>> => k.evp[Head(k.wait[RxList[o]])] \in Prio
  BY <1>1, HeadWaits DEF Good, Shape, PrioTypes
<1> QED BY <1>2, <1>3 DEF HighestWaiting

LEMMA DisinheritKeeps ==
  ASSUME IInv, scene' = scene, NEW t \in Task, Disinherit(t)
  PROVE  IInv'
<1> DEFINE o == loc[t].obj
           h == qs[o].holder
           r == DisinheritAfterTimeout(k, h, HighestWaiting(o))
<1>1. Return(t, "disinherit") /\ pc[t] = "disinherit" /\ qs' = qs /\ k' = IF h = NoTask THEN k ELSE r
  BY DEF Disinherit, Return, Go
<1>2. o \in Queues /\ Sound(k)
  BY <1>1, CallerFacts DEF InQueue
<1>3. h \in Task \cup {NoTask} /\ HighestWaiting(o) \in Prio
  BY <1>2, HolderOf, HighestIsPrio
<1>4. h \in Task => Sound(r) /\ Follows(k, r)
  BY <1>2, <1>3, DisinheritAfterTimeoutSound
<1> HIDE DEF h, r
<1>5. Sound(k') /\ Follows(k, k')
  BY <1>1, <1>2, <1>3, <1>4, FollowsItself
<1> QED BY <1>1, <1>5, HoldersStay, ReturnStep DEF Settled

\* An interrupt moves an item and wakes who waits, or notes it on the lock.
LEMMA FromISRKeeps ==
  ASSUME IInv, scene' = scene, pc' = pc, loc' = loc, Interrupts, NEW o \in Queues, NEW l \in EventList,
         NEW c, "holder" \in DOMAIN c, c.holder \in Task \cup {NoTask},
         NEW d, "holder" \in DOMAIN d, d.holder \in Task \cup {NoTask},
         \/ qs' = [qs EXCEPT ![o] = c] /\ k' = WakeFirst(k, l)
         \/ qs' = [qs EXCEPT ![o] = d] /\ k' = k
  PROVE  IInv'
<1>1. Sound(k) /\ k.on
  BY Domains DEF Interrupts
<1>2. Sound(k') /\ Follows(k, k')
  BY <1>1, WakeFirstSound, FollowsItself
<1>3. HoldersOK'
  BY HoldersSet
<1> QED BY <1>1, <1>2, <1>3, DataStep

LEMMA SendFromISRKeeps ==
  ASSUME IInv, scene' = scene, NEW o \in Queues, NEW where, NEW m, SendFromISR(o, where, m)
  PROVE  IInv'
<1> DEFINE c == Written(o, where, m)
           d == [c EXCEPT !.tx = Owed(@)]
<1>1. "holder" \in DOMAIN c /\ c.holder \in Task \cup {NoTask} /\ RxList[o] \in EventList
  BY WrittenHolder, QueueAssumption
<1>2. /\ pc' = pc /\ loc' = loc /\ Interrupts
      /\ \/ qs' = [qs EXCEPT ![o] = c] /\ k' = WakeFirst(k, RxList[o])
         \/ qs' = [qs EXCEPT ![o] = d] /\ k' = k
  BY DEF SendFromISR
<1> HIDE DEF c
<1>3. "holder" \in DOMAIN d /\ d.holder \in Task \cup {NoTask}
  BY <1>1
<1> HIDE DEF d
<1> QED BY <1>1, <1>2, <1>3, FromISRKeeps

LEMMA GiveFromISRKeeps ==
  ASSUME IInv, scene' = scene, NEW o \in Queues, GiveFromISR(o)
  PROVE  IInv'
<1> DEFINE c == [qs[o] EXCEPT !.count = @ + 1]
           d == [c EXCEPT !.tx = Owed(@)]
<1>1. "holder" \in DOMAIN c /\ c.holder \in Task \cup {NoTask} /\ RxList[o] \in EventList
  BY HolderOf, QueueAssumption
<1>2. /\ pc' = pc /\ loc' = loc /\ Interrupts
      /\ \/ qs' = [qs EXCEPT ![o] = c] /\ k' = WakeFirst(k, RxList[o])
         \/ qs' = [qs EXCEPT ![o] = d] /\ k' = k
  BY DEF GiveFromISR
<1> HIDE DEF c
<1>3. "holder" \in DOMAIN d /\ d.holder \in Task \cup {NoTask}
  BY <1>1
<1> HIDE DEF d
<1> QED BY <1>1, <1>2, <1>3, FromISRKeeps

LEMMA ReceiveFromISRKeeps ==
  ASSUME IInv, scene' = scene, NEW o \in Queues, ReceiveFromISR(o)
  PROVE  IInv'
<1> DEFINE c == Taken(o)
           d == [c EXCEPT !.rx = Owed(@)]
<1>1. "holder" \in DOMAIN c /\ c.holder \in Task \cup {NoTask} /\ TxList[o] \in EventList
  BY TakenHolder, QueueAssumption
<1>2. /\ pc' = pc /\ loc' = loc /\ Interrupts
      /\ \/ qs' = [qs EXCEPT ![o] = c] /\ k' = WakeFirst(k, TxList[o])
         \/ qs' = [qs EXCEPT ![o] = d] /\ k' = k
  BY DEF ReceiveFromISR
<1> HIDE DEF c
<1>3. "holder" \in DOMAIN d /\ d.holder \in Task \cup {NoTask}
  BY <1>1
<1> HIDE DEF d
<1> QED BY <1>1, <1>2, <1>3, FromISRKeeps

LEMMA QueueNextKeeps ==
  ASSUME IInv, QueueNext
  PROVE  IInv'
<1>1. scene' = scene
  BY DEF QueueNext
<1>2. CASE QueueHandlers
  BY <1>1, <1>2, SceneFacts, SchedulerAssumption, SendFromISRKeeps, GiveFromISRKeeps, ReceiveFromISRKeeps
      DEF QueueHandlers
<1>3. ASSUME NEW t \in Task, QueueStep(t) PROVE IInv'
  <2>1. CASE Send(t) \/ Give(t) \/ Receive(t) \/ Take(t)
    BY <1>1, <2>1, EntriesKeep
  <2>2. CASE Reset(t)
    BY <1>1, <2>2, ResetKeeps
  <2>3. CASE Sent(t) \/ Received(t) \/ Peeked(t) \/ Refused(t)
    BY <1>1, <2>3, SentKeeps, ReceivedKeeps, PeekedKeeps, RefusedKeeps
  <2>4. CASE StartWait(t) \/ Hold(t) \/ LockQueue(t) \/ CheckForTimeOut(t) \/ Test(t)
    BY <1>1, <2>4, StartWaitKeeps, HoldKeeps, LockQueueKeeps, CheckForTimeOutKeeps, TestKeeps
  <2>5. CASE Inherit(t) \/ Place(t) \/ UnlockTx(t) \/ UnlockRx(t) \/ Expired(t) \/ Disinherit(t)
    BY <1>1, <2>5, InheritKeeps, PlaceKeeps, UnlockTxKeeps, UnlockRxKeeps, ExpiredKeeps, DisinheritKeeps
  <2> QED BY <1>3, <2>1, <2>2, <2>3, <2>4, <2>5 DEF QueueStep
<1> QED BY <1>2, <1>3 DEF QueueNext

-----------------------------------------------------------------------------
(* Notifications.                                                          *)

LEMMA NotifyWaitKeeps ==
  ASSUME IInv, scene' = scene, qs' = qs, NEW t \in Task, NotifyWait(t)
  PROVE  IInv'
<1>1. PICK api \in Called(t, Waits), n \in scene.waits[t], b \in {0, 1} :
        /\ n # 0 => k.susp = 0
        /\ Enter(t, api, [NoCall EXCEPT !.val = b, !.ticks = n, !.asked = n], "nlook")
        /\ k' = Timing(k, t)
  BY Zenon DEF NotifyWait
<1> DEFINE c == [NoCall EXCEPT !.val = b, !.ticks = n, !.asked = n]
           l == [c EXCEPT !.api = api]
<1>2. /\ Runs(t) /\ pc[t] = "app" /\ t # Idle /\ Becomes(t, "nlook", l) /\ n \in Time
  BY <1>1, Calls, SceneFacts, Zenon
<1>3. l.yields = FALSE
  BY NoCallPlan, Zenon
<1>4. l.yields \in BOOLEAN /\ ~l.yields
  BY <1>3, Zenon
<1>5. /\ DOMAIN l = DOMAIN NoCall /\ l.ticks = n /\ l.then = "app" /\ l.back = "app" /\ l.entry.tick = 0
  BY NoCallPlan
<1> HIDE DEF l
<1>6. {"api", "obj", "ticks", "entry", "then", "back", "yields", "yielded"} \subseteq DOMAIN l
  BY <1>5, NoCallPlan
<1>7. PlanOK("nlook", l)
  BY <1>2, <1>4, <1>5, <1>6 DEF PlanOK, InQueue
<1>8. Sound(k') /\ Trails(k, k') /\ k'.susp = k.susp
  BY <1>1, Domains, TimingRests, FollowsTrails
<1>9. Guarded(k', t, "nlook", l)
  BY <1>1, <1>5, <1>8 DEF Guarded, Alone, MayBlock
<1> QED BY <1>2, <1>7, <1>8, <1>9, HoldersStay, CallStep, SMTT(30) DEF Settled

LEMMA LookKeeps ==
  ASSUME IInv, scene' = scene, qs' = qs, NEW t \in Task, Look(t)
  PROVE  IInv'
<1> DEFINE l == loc[t]
           p == IF Noted(t) \/ l.ticks = 0 THEN "nend" ELSE "nhold"
<1>1. Go(t, "nlook", p) /\ k' = k /\ loc' = loc
  BY DEF Look
<1>2. p = "nend" \/ (p = "nhold" /\ l.ticks # 0)
  OBVIOUS
<1> HIDE DEF p
<1>3. Runs(t) /\ pc[t] = "nlook" /\ Becomes(t, p, l)
  BY <1>1, GoKeeps
<1>4. PlanOK("nlook", l) /\ k.ns[t] # "waiting" /\ (l.ticks # 0 => k.susp = 0) /\ t # Idle
  BY <1>3, TaskFacts, RunningFacts DEF NoteOK, Guarded, MayBlock
<1>5. PlanOK(p, l)
  BY <1>2, <1>4 DEF PlanOK, InQueue
<1>6. Sound(k') /\ Trails(k, k')
  BY <1>1, Domains, FollowsItself, FollowsTrails
<1>7. Guarded(k', t, p, l)
  BY <1>1, <1>2, <1>4 DEF Guarded, Alone, MayBlock
<1> HIDE DEF l
<1> QED BY <1>2, <1>3, <1>4, <1>5, <1>6, <1>7, HoldersStay, CallStep DEF Settled

LEMMA HoldToArmKeeps ==
  ASSUME IInv, scene' = scene, qs' = qs, NEW t \in Task, HoldToArm(t)
  PROVE  IInv'
<1> DEFINE l == loc[t]
           x == "nend"
           m == [l EXCEPT !.then = x]
<1>0. CallFields \subseteq DOMAIN l
  BY PlanFields
<1>1. Go(t, "nhold", "narm") /\ k' = SuspendedAll(k) /\ loc' = [loc EXCEPT ![t] = m]
  BY DEF HoldToArm
<1>2. /\ DOMAIN m = DOMAIN l /\ m.obj = l.obj /\ m.ticks = l.ticks /\ m.entry = l.entry
      /\ m.then = x /\ m.back = l.back /\ m.yields = l.yields /\ m.yielded = l.yielded
  BY <1>0, WithThen, Zenon
<1> HIDE DEF m
<1>3. Runs(t) /\ pc[t] = "nhold" /\ Becomes(t, "narm", m)
  BY <1>1, GoesOn, Zenon
<1>4. PlanOK("nhold", l) /\ k.susp = 0 /\ t # Idle
  BY <1>3, TaskFacts, RunningFacts DEF Guarded, MayBlock
<1>5. PlanOK("narm", m)
  BY <1>2, <1>4 DEF PlanOK, InQueue
<1>6. Sound(k') /\ Trails(k, k') /\ k'.susp = 1
  BY <1>1, <1>4, Domains, SuspendTrails
<1>7. Guarded(k', t, "narm", m)
  BY <1>6 DEF Guarded, MayBlock
<1> QED BY <1>3, <1>4, <1>5, <1>6, <1>7, HoldersStay, CallStep DEF Settled

LEMMA ArmedGood ==
  ASSUME IInv, NEW t \in Task, Here(k, t), k.cur = t, k.susp = 1, NEW v
  PROVE  LET n == "waiting"
             r == Noting(k, t, n, v)
         IN  /\ Good(r) /\ r.on = k.on /\ r.cur = k.cur /\ r.susp = k.susp /\ r.at = k.at /\ r.ev = k.ev
             /\ r.loop = k.loop /\ r.pendsv = k.pendsv
             /\ \A u \in Task : u # t => TaskOK(r, u, pc[u], loc[u])
<1> DEFINE n == "waiting"
           r == Noting(k, t, n, v)
<1>0. Shape(k) /\ Data(k) /\ Good(k)
  BY SuspNat DEF Good, Shape
<1>1. n \in {"not", "waiting", "received"}
  OBVIOUS
<1> HIDE DEF n
<1>2. /\ Data(r) /\ SameLists(k, r) /\ SameWaits(k, r)
      /\ r.on = k.on /\ r.cur = k.cur /\ r.susp = k.susp /\ r.loop = k.loop /\ r.pendsv = k.pendsv
      /\ r.ns = [k.ns EXCEPT ![t] = n]
  BY <1>0, Zenon DEF Noting, Data, Fields, SameLists, SameTimes, SamePrios, SameReady, SameSleep, SameWaits
<1> HIDE DEF r
<1>3. SwitchTypes(r) /\ NoteTypes(r) /\ \A u \in Task : u # t => r.ns[u] = k.ns[u]
  BY <1>0, <1>1, <1>2 DEF Shape, SwitchTypes, NoteTypes
<1>4. Good(r)
  BY <1>0, <1>2, <1>3, GoodSame
<1>5. ASSUME NEW u \in Task, u # t PROVE TaskOK(r, u, pc[u], loc[u])
  BY <1>2, <1>3, <1>5, TaskFacts DEF TaskOK, EventOK, NoteOK, SameLists, SameWaits
<1> QED BY <1>2, <1>4, <1>5 DEF SameLists, SameWaits, r, n

LEMMA ArmKeeps ==
  ASSUME IInv, scene' = scene, qs' = qs, NEW t \in Task, Arm(t)
  PROVE  IInv'
<1> DEFINE l == loc[t]
           y == ~Noted(t)
           p == IF Noted(t) THEN "resume" ELSE "nplace"
           m == [l EXCEPT !.yields = y]
<1>0. CallFields \subseteq DOMAIN l
  BY PlanFields
<1>1. Go(t, "narm", p) /\ loc' = [loc EXCEPT ![t] = m]
  BY DEF Arm
<1>2. y \in BOOLEAN /\ (y <=> ~Noted(t)) /\ p = IF Noted(t) THEN "resume" ELSE "nplace"
  OBVIOUS
<1> HIDE DEF y, p
<1>3. /\ DOMAIN m = DOMAIN l /\ m.obj = l.obj /\ m.ticks = l.ticks /\ m.entry = l.entry
      /\ m.then = l.then /\ m.back = l.back /\ m.yields = y /\ m.yielded = l.yielded
  BY <1>0, WithYields, Zenon
<1> HIDE DEF m
<1>4. Runs(t) /\ pc[t] = "narm" /\ Becomes(t, p, m)
  BY <1>1, GoesOn, Zenon
<1>5. /\ PlanOK("narm", l) /\ k.susp = 1 /\ t # Idle /\ k.ns[t] # "waiting" /\ k.on /\ k.cur = t
      /\ k.at[Idle] = "ready" /\ pc[Idle] = "app"
  BY <1>4, TaskFacts, RunningFacts DEF Guarded, Alone, NoteOK
<1>6. m.yields \in BOOLEAN /\ (m.yields <=> ~Noted(t))
  BY <1>2, <1>3
<1>7. PlanOK(p, m)
  BY <1>2, <1>3, <1>5, <1>6 DEF PlanOK, InQueue
<1>8. CASE Noted(t)
  <2>1. k' = k /\ p = "resume"
    BY <1>2, <1>8 DEF Arm
  <2>2. Sound(k') /\ Trails(k, k')
    BY <2>1, Domains, FollowsItself, FollowsTrails
  <2>3. Guarded(k', t, p, m)
    BY <1>5, <2>1 DEF Guarded, Alone, MayBlock
  <2> QED BY <1>4, <1>5, <1>7, <2>1, <2>2, <2>3, HoldersStay, CallStep DEF Settled
<1>9. CASE ~Noted(t)
  <2> DEFINE v == IF l.api = "nwait" THEN Cleared(k.nv[t], l.val) ELSE k.nv[t]
             n == "waiting"
             r == Noting(k, t, n, v)
  <2>1. k' = r /\ p = "nplace"
    <3>1. Data(k)
      BY SuspNat DEF Good, Shape
    <3>2. t \in DOMAIN k.nv \/ t \notin DOMAIN k.nv
      OBVIOUS
    <3> QED BY <1>2, <1>9, <3>1 DEF Arm, Noting
  <2> HIDE DEF v
  <2>2. Here(k, t)
    BY <1>4, RunsHere DEF Settled
  <2>3. /\ Good(r) /\ r.on = k.on /\ r.cur = k.cur /\ r.susp = k.susp /\ r.at = k.at /\ r.ev = k.ev
        /\ r.loop = k.loop /\ r.pendsv = k.pendsv
        /\ \A u \in Task : u # t => TaskOK(r, u, pc[u], loc[u])
    BY <1>5, <2>2, ArmedGood, Zenon
  <2> HIDE DEF r
  <2>4. EventOK(k', t, p)
    BY <2>1, <2>2, <2>3, SchedulerAssumption DEF EventOK, Here
  <2>5. NoteOK(k', t, p, m)
    BY <2>1, <2>2, <2>3 DEF NoteOK, Here
  <2>6. Here(k', t) /\ Guarded(k', t, p, m)
    BY <1>5, <2>1, <2>2, <2>3 DEF Here, Guarded, MayBlock
  <2>7. TaskOK(k', t, p, m) /\ CurrentOK(k', t, p, m)
    BY <1>7, <2>4, <2>5, <2>6 DEF TaskOK, CurrentOK
  <2> QED BY <1>4, <1>5, <2>1, <2>3, <2>7, HoldersStay, Concludes
<1> QED BY <1>8, <1>9

LEMMA FileToWaitKeeps ==
  ASSUME IInv, scene' = scene, qs' = qs, NEW t \in Task, FileToWait(t)
  PROVE  IInv'
<1> DEFINE l == loc[t]
           n == l.ticks
           f == TRUE
           r == AddCurrentToDelayed(k, n, f)
<1>1. Go(t, "nplace", "resume") /\ k' = r /\ loc' = loc
  BY DEF FileToWait
<1>2. Runs(t) /\ pc[t] = "nplace" /\ Becomes(t, "resume", l)
  BY <1>1, GoKeeps
<1>3. /\ PlanOK("nplace", l) /\ EventOK(k, t, "nplace") /\ NoteOK(k, t, "nplace", l)
      /\ k.susp = 1 /\ Good(k) /\ k.cur = t
  BY <1>2, TaskFacts, RunningFacts, SuspNat DEF Guarded, Alone
<1>4. n \in Time /\ n # 0 /\ l.then = "nend" /\ l.yields
  BY <1>3 DEF PlanOK
<1> HIDE DEF n, f
<1>5. /\ Good(r) /\ Core(k, r) /\ SamePrios(k, r) /\ SameWaits(k, r)
      /\ \A u \in Task : u # k.cur => r.at[u] = k.at[u]
      /\ r.at[k.cur] \in {"delayed", "overflow", "suspended"}
  BY <1>3, <1>4, AddCurrentGood, Zenon
<1> HIDE DEF r
<1>6. EventOK(k', t, "resume") /\ NoteOK(k', t, "resume", l)
  BY <1>1, <1>3, <1>4, <1>5 DEF EventOK, NoteOK, Core, SameWaits
<1>7. PlanOK("resume", l)
  BY <1>3, <1>4 DEF PlanOK, InQueue
<1>8. Guarded(k', t, "resume", l)
  BY <1>1, <1>3, <1>5 DEF Guarded, Alone, MayBlock, Core
<1>9. TaskOK(k', t, "resume", l)
  BY <1>6, <1>7 DEF TaskOK
<1>10. Good(k') /\ Core(k, k') /\ \A u \in Task : u # t => k'.at[u] = k.at[u] /\ k'.ev[u] = k.ev[u]
  BY <1>1, <1>3, <1>5 DEF SameWaits
<1> HIDE DEF l
<1> QED BY <1>2, <1>4, <1>8, <1>9, <1>10, HoldersStay, FileStep DEF l

LEMMA NotifyEndsKeeps ==
  ASSUME IInv, scene' = scene, qs' = qs, NEW t \in Task, NotifyEnds(t)
  PROVE  IInv'
<1> DEFINE v == k.nv[t]
           left == CASE loc[t].api = "ntake" /\ v = 0 -> 0
                   [] loc[t].api = "ntake" -> IF loc[t].val = 1 THEN 0 ELSE v - 1
                   [] OTHER -> IF k.ns[t] = "received" THEN Cleared(v, loc[t].val) ELSE v
           n == "not"
<1>1. loc[t].back = "app"
  BY PlanFields
<1>2. Return(t, "nend") /\ k' = Noting(k, t, n, left)
  BY <1>1 DEF NotifyEnds, Return, Noting
<1>3. n \in {"not", "received"} /\ n # "waiting"
  OBVIOUS
<1> HIDE DEF left, n
<1>4. Sound(k') /\ Follows(k, k') /\ k'.ns[t] = n
  BY <1>2, <1>3, Domains, NoteRests
<1>5. Runs(t) /\ pc[t] = "nend" /\ Becomes(t, "app", NoCall)
  BY <1>2, Returns
<1>6. Trails(k, k')
  BY <1>4, FollowsTrails
<1>7. Guarded(k', t, "app", NoCall)
  BY DEF Guarded, Alone, MayBlock
<1> QED BY <1>3, <1>4, <1>5, <1>6, <1>7, HoldersStay, NoPlan, CallStep DEF Settled

LEMMA TaskNotifyKeeps ==
  ASSUME IInv, scene' = scene, qs' = qs, NEW t \in Task, NEW x \in Task, TaskNotify(t, x)
  PROVE  IInv'
<1>1. PICK a \in NoteActions :
        /\ k.at[x] \notin {"none", "termination"} /\ k.on /\ pc' = pc /\ loc' = loc
        /\ k' = Notified(k, x, a, 1)
  BY DEF TaskNotify, Simple, Handle, Runs
<1>2. Sound(k') /\ Follows(k, k')
  BY <1>1, Domains, NotifiedSound
<1> QED BY <1>1, <1>2, HoldersStay, DataStep

LEMMA NotifyFromISRKeeps ==
  ASSUME IInv, scene' = scene, qs' = qs, NEW x \in Task, NotifyFromISR(x)
  PROVE  IInv'
<1>1. PICK a \in NoteActions :
        /\ k.at[x] \notin {"none", "termination"} /\ k.on /\ pc' = pc /\ loc' = loc
        /\ k' = NotifiedFromISR(k, x, a, 1)
  BY DEF NotifyFromISR, Handle, Interrupts
<1>2. Here(k, x) /\ x = k.cur /\ k.ns[x] = "waiting" /\ k.susp # 0 => Filed(pc[x], loc[x])
  <2>1. ASSUME Here(k, x), x = k.cur, k.ns[x] = "waiting", k.susp # 0 PROVE Filed(pc[x], loc[x])
    <3>1. Guarded(k, x, pc[x], loc[x])
      BY <2>1 DEF IInv, Control, CurrentOK
    <3>2. PlanOK(pc[x], loc[x]) /\ EventOK(k, x, pc[x]) /\ NoteOK(k, x, pc[x], loc[x])
      BY TaskFacts
    <3>3. pc[x] # "none"
      BY <1>1, <3>2 DEF EventOK
    <3> QED BY <2>1, <3>1, <3>2, <3>3 DEF NoteOK, PlanOK, Guarded, MayBlock, Filed
  <2> QED BY <2>1
<1>3. Sound(k') /\ Follows(k, k')
  BY <1>1, <1>2, Domains, NotifiedFromISRSound
<1> QED BY <1>1, <1>3, HoldersStay, DataStep

LEMMA NotifyStateClearKeeps ==
  ASSUME IInv, scene' = scene, qs' = qs, NEW t \in Task, NEW x \in Task, NotifyStateClear(t, x)
  PROVE  IInv'
<1> DEFINE n == "not"
<1>0. Shape(k) /\ Data(k) /\ Sound(k) /\ Good(k)
  BY Domains, SuspNat DEF Good, Shape
<1>1. k.on /\ pc' = pc /\ loc' = loc /\ k' = [k EXCEPT !.ns[x] = n]
  BY DEF NotifyStateClear, Simple, Runs
<1>2. n \in {"not", "received"}
  OBVIOUS
<1> HIDE DEF n
<1>3. /\ Data(k') /\ SameLists(k, k') /\ SameWaits(k, k')
      /\ k'.on = k.on /\ k'.cur = k.cur /\ k'.susp = k.susp /\ k'.loop = k.loop /\ k'.pendsv = k.pendsv
      /\ k'.ns = [k.ns EXCEPT ![x] = n]
  BY <1>0, <1>1 DEF Data, Fields, SameLists, SameTimes, SamePrios, SameReady, SameSleep, SameWaits
<1>4. /\ SwitchTypes(k') /\ NoteTypes(k')
      /\ \A u \in Task : k'.ns[u] = "waiting" => k.ns[u] = "waiting"
  BY <1>0, <1>2, <1>3 DEF Shape, SwitchTypes, NoteTypes
<1>5. Good(k')
  BY <1>0, <1>3, <1>4, GoodSame
<1>6. Steady(k, k')
  BY <1>3, <1>4 DEF Steady
<1>7. \A u \in Task : k'.at[u] = k.at[u] /\ k'.ev[u] = k.ev[u]
  BY <1>3 DEF SameLists, SameWaits
<1>8. Sound(k') /\ Follows(k, k')
  BY <1>0, <1>5, <1>6, <1>7, Rests
<1> QED BY <1>1, <1>8, HoldersStay, DataStep

LEMMA NotifyValueClearKeeps ==
  ASSUME IInv, scene' = scene, qs' = qs, NEW t \in Task, NEW x \in Task, NotifyValueClear(t, x)
  PROVE  IInv'
<1>1. PICK b \in NoteValues :
        k.on /\ pc' = pc /\ loc' = loc /\ k' = [k EXCEPT !.nv[x] = Cleared(@, b)]
  BY DEF NotifyValueClear, Simple, Runs
<1> DEFINE v == Cleared(k.nv[x], b)
<1>2. k' = [k EXCEPT !.nv[x] = v]
  BY <1>1
<1> HIDE DEF v
<1>3. Sound(k') /\ Follows(k, k')
  BY <1>2, Domains, CountRests
<1> QED BY <1>1, <1>3, HoldersStay, DataStep

-----------------------------------------------------------------------------
(* Every step keeps the invariant, and the invariant says what it should.  *)

LEMMA NotifyNextKeeps ==
  ASSUME IInv, NotifyNext
  PROVE  IInv'
<1>1. scene' = scene /\ qs' = qs
  BY DEF NotifyNext
<1>2. CASE NotifyHandlers
  BY <1>1, <1>2, NotifyFromISRKeeps DEF NotifyHandlers
<1>3. ASSUME NEW t \in Task, NotifyStep(t) PROVE IInv'
  <2>1. CASE NotifyWait(t) \/ Look(t) \/ HoldToArm(t)
    BY <1>1, <2>1, NotifyWaitKeeps, LookKeeps, HoldToArmKeeps
  <2>2. CASE Arm(t) \/ FileToWait(t) \/ NotifyEnds(t)
    BY <1>1, <2>2, ArmKeeps, FileToWaitKeeps, NotifyEndsKeeps
  <2>3. CASE \E x \in Task : TaskNotify(t, x) \/ NotifyStateClear(t, x) \/ NotifyValueClear(t, x)
    BY <1>1, <2>3, TaskNotifyKeeps, NotifyStateClearKeeps, NotifyValueClearKeeps
  <2> QED BY <1>3, <2>1, <2>2, <2>3 DEF NotifyStep
<1> QED BY <1>2, <1>3 DEF NotifyNext

LEMMA TaskStepKeeps ==
  ASSUME IInv, scene' = scene, qs' = qs, NEW t \in Task, k.cur = t, TaskStep(t)
  PROVE  IInv'
<1>1. CASE TaskYield(t) \/ Delay(t) \/ DelayBlocks(t) \/ DelayEnds(t)
  BY <1>1, TaskYieldKeeps, DelayKeeps, DelayBlocksKeeps, DelayEndsKeeps
<1>2. CASE LockScheduler(t) \/ UnlockScheduler(t) \/ CatchUpTicks(t) \/ ResumeAll(t) \/ Resumed(t)
  BY <1>2, LockSchedulerKeeps, UnlockSchedulerKeeps, CatchUpTicksKeeps, ResumeAllKeeps, ResumedKeeps
<1>3. CASE \E x \in Task : Suspend(t, x) \/ Resume(t, x) \/ Delete(t, x) \/ Create(t, x)
  BY <1>3, SuspendKeeps, ResumeKeeps, DeleteKeeps, CreateKeeps
<1>4. CASE \E x \in Task, p \in Prio : PrioritySet(t, x, p)
  BY <1>4, PrioritySetKeeps
<1>5. CASE SuspendEnds(t) \/ DeleteSelf(t) \/ Dies(t)
  BY <1>5, SuspendEndsKeeps, DeleteSelfKeeps, DiesKeeps
<1> QED BY <1>1, <1>2, <1>3, <1>4, <1>5 DEF TaskStep

LEMMA SchedNextKeeps ==
  ASSUME IInv, SchedNext, qs' = qs
  PROVE  IInv'
<1>1. scene' = scene
  BY DEF SchedNext
<1>2. CASE Boot
  BY <1>1, <1>2, StartSchedulerKeeps, CreateAtBootKeeps DEF Boot
<1>3. CASE Handlers
  BY <1>1, <1>3, PendSVKeeps, SysTickKeeps, ResumeFromISRKeeps DEF Handlers
<1>4. CASE Loops
  <2>1. k.loop # "none"
    BY <1>4 DEF Loops, Due, NoneDue, Drain, CatchUp, Drained
  <2>2. k.on
    <3>1. k.on \in BOOLEAN
      BY SuspNat DEF Good, Shape, SwitchTypes
    <3> QED BY <2>1, <3>1, BootFacts
  <2> QED BY <1>1, <1>4, <2>2, DueKeeps, NoneDueKeeps, DrainKeeps, CatchUpKeeps, DrainedKeeps DEF Loops
<1>5. CASE IdleTask
  BY <1>1, <1>5, IdleTaskKeeps
<1>6. CASE \E t \in Task : k.cur = t /\ TaskStep(t)
  BY <1>1, <1>6, TaskStepKeeps
<1> QED BY <1>2, <1>3, <1>4, <1>5, <1>6 DEF SchedNext

\* The invariant holds at first, and under every step.
LEMMA IInvHolds == Init => IInv
<1> SUFFICES ASSUME Init PROVE IInv
  OBVIOUS
<1>1. /\ scene \in Programs /\ k.on = FALSE /\ k.cur = Idle /\ k.tick = 0 /\ k.susp = 0 /\ k.pendsv = FALSE
      /\ k.next = MaxTick /\ k.loop = "none" /\ k.top = {} /\ k.ready = [p \in Prio |-> EmptyRing]
      /\ k.delayed = <<>> /\ k.overflow = <<>> /\ k.wait = [l \in Lists |-> <<>>]
      /\ k.at = [t \in Task |-> "none"] /\ k.ev = [t \in Task |-> "none"] /\ k.wake = [t \in Task |-> 0]
      /\ k.prio = scene.prio /\ k.base = scene.prio /\ k.evp = scene.prio /\ k.ns = [t \in Task |-> "not"]
  BY DEF Init, SchedInit, Lists
<1>2. Data(k)
  BY Zenon DEF Init, SchedInit, Data, Fields
<1>3. pc = [t \in Task |-> "none"] /\ loc = [t \in Task |-> NoCall] /\ qs = [o \in Queues |-> NewQueue(o)]
  BY DEF Init, SchedInit, QueueInit
<1>4. /\ scene.prio \in [Task -> Prio] /\ scene.prio[Idle] = 0 /\ Idle \in Task /\ 0 \in Time /\ MaxTick \in Time
      /\ MaxTick \in Nat /\ EmptyRing = [items |-> <<>>, idx |-> 0]
  BY <1>1, SchedulerAssumption DEF Time, EmptyRing
<1>5. Shape(k)
  <2>0. k.on \in BOOLEAN
    BY <1>1, Zenon
  <2>1. SwitchTypes(k) /\ PrioTypes(k)
    BY <1>1, <1>4, <2>0 DEF SwitchTypes, PrioTypes
  <2>4. TimeTypes(k) /\ NoteTypes(k)
    BY <1>1, <1>4 DEF TimeTypes, NoteTypes
  <2>2. ListTypes(k)
    BY <1>1, <1>4 DEF ListTypes, Places
  <2>3. WaitTypes(k)
    BY <1>1 DEF WaitTypes
  <2> QED BY <1>2, <2>1, <2>2, <2>3, <2>4 DEF Shape
<1>6. Holds(<<>>, {})
  BY DEF Holds, Once, ToSet
<1>7. ReadyOK(k)
  <2> SUFFICES ASSUME NEW p \in Prio
               PROVE  RingOK(k.ready[p], ReadyAt(k, p)) /\ (p \in k.top <=> ReadyAt(k, p) # {})
    BY DEF ReadyOK
  <2>1. ReadyAt(k, p) = {} /\ k.ready[p] = [items |-> <<>>, idx |-> 0] /\ p \notin k.top
    BY <1>1, <1>4 DEF ReadyAt
  <2> QED BY <1>6, <2>1 DEF RingOK
<1>8. SleepOK(k)
  <2>1. {t \in Task : k.at[t] = "delayed"} = {} /\ {t \in Task : k.at[t] = "overflow"} = {}
    BY <1>1
  <2>2. InOrder(k.delayed, k.wake) /\ InOrder(k.overflow, k.wake)
    BY <1>1 DEF InOrder
  <2>3. Holds(k.delayed, {}) /\ Holds(k.overflow, {})
    BY <1>1, <1>6
  <2>4. \A t \in Task : k.at[t] # "delayed"
    BY <2>1
  <2> QED BY <2>1, <2>2, <2>3, <2>4 DEF SleepOK
<1>9. WaitOK(k)
  <2> SUFFICES ASSUME NEW l \in Lists PROVE Holds(k.wait[l], {t \in Task : k.ev[t] = l})
    BY DEF WaitOK
  <2>1. {t \in Task : k.ev[t] = l} = {}
    BY <1>1, SchedulerAssumption DEF Lists
  <2> QED BY <1>1, <1>6, <2>1, Zenon
<1>10. Timely(k)
  BY <1>1 DEF Timely
<1>11. ASSUME NEW t \in Task PROVE TaskOK(k, t, pc[t], loc[t]) /\ ~Closed(pc[t])
  <2>1. pc[t] = "none" /\ loc[t] = NoCall /\ k.at[t] = "none" /\ k.ev[t] = "none" /\ k.ns[t] = "not"
    BY <1>1, <1>3
  <2>2. PlanOK("none", NoCall)
    BY NoPlan
  <2> QED BY <2>1, <2>2, SchedulerAssumption DEF TaskOK, EventOK, NoteOK, Closed, Alone
<1>12. CurrentOK(k, k.cur, pc[k.cur], loc[k.cur])
  BY <1>1, <1>3, <1>4 DEF CurrentOK, Guarded, Alone, MayBlock
<1>13. BootOK
  BY <1>1, <1>3, <1>4 DEF BootOK
<1>14. HoldersOK
  BY <1>3 DEF HoldersOK, NewQueue
<1> QED BY <1>1, <1>3, <1>5, <1>7, <1>8, <1>9, <1>10, <1>11, <1>12, <1>13, <1>14 DEF IInv, Control, Good

LEMMA IInvKeeps == IInv /\ [Next]_vars => IInv'
<1> SUFFICES ASSUME IInv, [Next]_vars PROVE IInv'
  OBVIOUS
<1>1. CASE UNCHANGED vars
  <2>1. k' = k /\ pc' = pc /\ loc' = loc /\ qs' = qs /\ scene' = scene
    BY <1>1 DEF vars
  <2> QED BY <2>1
          DEF IInv, Control, HoldersOK, BootOK
<1>2. CASE SchedNext /\ qs' = qs
  BY <1>2, SchedNextKeeps
<1>3. CASE QueueNext
  BY <1>3, QueueNextKeeps
<1>4. CASE NotifyNext
  BY <1>4, NotifyNextKeeps
<1> QED BY <1>1, <1>2, <1>3, <1>4 DEF Next

(* The ready, delayed, overflow, pending and event lists, the container of *)
(* each list item, the bit map of ready priorities and the time of the     *)
(* next wake-up agree between any two steps, for every program.            *)
THEOREM ListsStayTogether == Spec => []ListsAgree
<1>1. IInv => ListsAgree
  <2> SUFFICES ASSUME IInv PROVE ListsAgree
    OBVIOUS
  <2>1. Good(k) /\ Shape(k)
    BY SuspNat DEF Good
  <2>2. ReadyListsAgree
    <3> SUFFICES ASSUME NEW p \in Prio
                 PROVE  /\ Holds(k.ready[p].items, {t \in At("ready") : k.prio[t] = p})
                        /\ k.ready[p].idx \in 0..Len(k.ready[p].items)
                        /\ (p \in k.top) <=> (k.ready[p].items # <<>>)
      BY Zenon DEF ReadyListsAgree
    <3>1. RingOK(k.ready[p], ReadyAt(k, p)) /\ (p \in k.top <=> ReadyAt(k, p) # {})
      BY <2>1 DEF Good, ReadyOK
    <3>2. ReadyAt(k, p) = {t \in At("ready") : k.prio[t] = p}
      BY DEF ReadyAt, At
    <3>3. k.ready[p].items \in Seq(Task) /\ k.ready[p].idx \in 0..Len(k.ready[p].items)
      BY <3>1 DEF RingOK
    <3>4. k.ready[p].items = <<>> <=> ReadyAt(k, p) = {}
      BY <3>1, <3>3, HoldsNone DEF RingOK
    <3> QED BY <3>1, <3>2, <3>3, <3>4 DEF RingOK
  <2>3. WaitListsAgree
    <3>1. DOMAIN k.wait = Lists
      BY <2>1 DEF Shape, WaitTypes
    <3> QED BY <2>1, <3>1 DEF WaitListsAgree, Good, SleepOK, WaitOK, At
  <2>4. Sorted(k.delayed) /\ Sorted(k.overflow)
    BY <2>1 DEF Sorted, Good, SleepOK, InOrder
  <2>5. k.delayed # <<>> => k.next <= k.wake[Head(k.delayed)]
    BY <2>1, HeadDelayed, Zenon DEF Good, SleepOK
  <2> QED BY <2>2, <2>3, <2>4, <2>5 DEF ListsAgree
<1> QED BY <1>1, IInvHolds, IInvKeeps, PTL DEF Spec

(* No task is left asleep beyond its tick, through a wrap of the count, a  *)
(* suspended scheduler and the ticks it owes, for every program.           *)
THEOREM NobodyOversleeps == Spec => []NoneOverdue
<1>1. IInv => NoneOverdue
  BY DEF IInv, Good, Timely, NoneOverdue, At
<1> QED BY <1>1, IInvHolds, IInvKeeps, PTL DEF Spec

-----------------------------------------------------------------------------
(* Preemption, for a program that uses no mutex: a task that is ready and  *)
(* of a higher priority than the running one is always owed a switch, and  *)
(* the debt is paid before application code runs on.                       *)

MutexFree == \A t \in Task : \A o \in scene.uses[t] : Kind[o] # "mutex"

Above(q, u) == q.prio[u] > q.prio[q.cur]
Owing(q) ==
  \/ q.pendsv
  \/ q.yp /\ (q.susp # 0 \/ q.loop \in {"drain", "owed"})
  \/ q.sw /\ q.loop \in {"due", "owed"}
Preempts(q) == \A u \in Task : q.at[u] = "ready" /\ Above(q, u) => Owing(q)

\* From q to r nobody overtakes the running task without a debt.
Calm(q, r) ==
  /\ r.on = q.on /\ r.cur = q.cur /\ r.prio = q.prio /\ r.base = q.base
  /\ Owing(q) => Owing(r)
  /\ \A u \in Task : r.at[u] = "ready" /\ q.at[u] # "ready" /\ Above(q, u) => Owing(r)

LEMMA CalmItself == ASSUME NEW q PROVE Calm(q, q)
BY DEF Calm

LEMMA CalmTwice == ASSUME NEW q, NEW r, NEW s, Calm(q, r), Calm(r, s) PROVE Calm(q, s)
<1>1. s.on = q.on /\ s.cur = q.cur /\ s.prio = q.prio /\ s.base = q.base /\ (Owing(q) => Owing(s))
  BY DEF Calm
<1>2. ASSUME NEW u \in Task, s.at[u] = "ready", q.at[u] # "ready", Above(q, u) PROVE Owing(s)
  BY <1>2 DEF Calm, Above
<1> QED BY <1>1, <1>2 DEF Calm

LEMMA CalmPreempts == ASSUME NEW q, NEW r, Preempts(q), Calm(q, r) PROVE Preempts(r)
BY DEF Preempts, Calm, Above

-----------------------------------------------------------------------------
(* The helpers, seen from the debt.                                        *)

Quiet(q, r) ==
  /\ r.on = q.on /\ r.cur = q.cur /\ r.susp = q.susp /\ r.loop = q.loop /\ r.pendsv = q.pendsv
  /\ r.yp = q.yp /\ r.sw = q.sw /\ r.prio = q.prio /\ r.base = q.base

LEMMA QuietTwice == ASSUME NEW q, NEW r, NEW s, Quiet(q, r), Quiet(r, s) PROVE Quiet(q, s)
BY DEF Quiet

LEMMA QuietCalm ==
  ASSUME NEW q, NEW r, Quiet(q, r), \A u \in Task : r.at[u] = "ready" => q.at[u] = "ready"
  PROVE  Calm(q, r)
BY DEF Quiet, Calm, Owing

LEMMA UnlistQuiet ==
  ASSUME NEW q, Data(q), NEW t
  PROVE  LET r == Unlist(q, t) IN Data(r) /\ Quiet(q, r) /\ r.at = [q.at EXCEPT ![t] = "none"]
BY ZenonT(40) DEF Data, Fields, Unlist, Quiet

LEMMA AddReadyQuiet ==
  ASSUME NEW q, Data(q), NEW t
  PROVE  LET r == AddReady(q, t) IN Data(r) /\ Quiet(q, r) /\ r.at = [q.at EXCEPT ![t] = "ready"]
BY ZenonT(40) DEF Data, Fields, AddReady, Quiet

LEMMA UnwaitQuiet ==
  ASSUME NEW q, Data(q), NEW t
  PROVE  LET r == Unwait(q, t) IN Data(r) /\ Quiet(q, r) /\ r.at = q.at
BY ZenonT(40) DEF Data, Fields, Unwait, Quiet

LEMMA PendQuiet ==
  ASSUME NEW q, Data(q), NEW t
  PROVE  LET r == Pend(q, t) IN Data(r) /\ Quiet(q, r) /\ r.at = q.at
BY ZenonT(40) DEF Data, Fields, Pend, Quiet

LEMMA ResetNextQuiet ==
  ASSUME NEW q, Data(q)
  PROVE  LET r == ResetNext(q) IN Data(r) /\ Quiet(q, r) /\ r.at = q.at
BY ZenonT(40) DEF Data, Fields, ResetNext, Quiet

\* t becomes ready: the only one who may be above the running task.
LEMMA ReadyQuiet ==
  ASSUME NEW q, Data(q), NEW t, DOMAIN q.at = Task
  PROVE  LET r == AddReady(Unlist(q, t), t)
         IN  /\ Data(r) /\ Quiet(q, r) /\ DOMAIN r.at = Task
             /\ \A u \in Task : u # t => r.at[u] = q.at[u]
<1> DEFINE v == Unlist(q, t)
           r == AddReady(v, t)
<1>1. Data(v) /\ Quiet(q, v) /\ v.at = [q.at EXCEPT ![t] = "none"]
  BY UnlistQuiet, Zenon
<1> HIDE DEF v
<1>2. Data(r) /\ Quiet(v, r) /\ r.at = [v.at EXCEPT ![t] = "ready"]
  BY <1>1, AddReadyQuiet, Zenon
<1> HIDE DEF r
<1>3. Quiet(q, r)
  BY <1>1, <1>2, QuietTwice
<1>4. DOMAIN r.at = Task /\ \A u \in Task : u # t => r.at[u] = q.at[u]
  BY <1>1, <1>2
<1> QED BY <1>2, <1>3, <1>4 DEF r, v

LEMMA YieldOwes ==
  ASSUME NEW q, Data(q)
  PROVE  LET r == Yield(q)
         IN  /\ Data(r) /\ Owing(r) /\ r.at = q.at /\ Calm(q, r)
             /\ r.on = q.on /\ r.cur = q.cur /\ r.prio = q.prio /\ r.base = q.base
<1> DEFINE r == Yield(q)
<1>1. /\ Data(r) /\ r.pendsv /\ r.at = q.at
      /\ r.on = q.on /\ r.cur = q.cur /\ r.prio = q.prio /\ r.base = q.base
  BY Zenon DEF Data, Fields, Yield
<1> HIDE DEF r
<1>2. Owing(r)
  BY <1>1 DEF Owing
<1> QED BY <1>1, <1>2 DEF Calm, r

\* The switch owed is noted in yp, and stays owed where it was.
LEMMA OweNotes ==
  ASSUME NEW q, Data(q), NEW t
  PROVE  LET r == Owe(q, t)
         IN  /\ Data(r) /\ Calm(q, r) /\ r.at = q.at /\ r.susp = q.susp /\ r.loop = q.loop
             /\ (Above(q, t) => r.yp)
<1> DEFINE r == Owe(q, t)
<1>1. CASE Above(q, t)
  <2>1. r = [q EXCEPT !.yp = TRUE]
    BY <1>1 DEF Owe, Above
  <2> HIDE DEF r
  <2>2. /\ Data(r) /\ r.yp /\ r.at = q.at /\ r.susp = q.susp /\ r.loop = q.loop
        /\ r.pendsv = q.pendsv /\ r.sw = q.sw
        /\ r.on = q.on /\ r.cur = q.cur /\ r.prio = q.prio /\ r.base = q.base
    BY <2>1, ZenonT(40) DEF Data, Fields
  <2>3. Owing(q) => Owing(r)
    BY <2>2 DEF Owing
  <2> QED BY <2>2, <2>3 DEF Calm, r
<1>2. CASE ~Above(q, t)
  <2>1. r = q
    BY <1>2 DEF Owe, Above
  <2> QED BY <1>2, <2>1, CalmItself
<1> QED BY <1>1, <1>2

LEMMA YieldsToCalm ==
  ASSUME NEW q, Data(q), NEW x
  PROVE  LET r == YieldsTo(q, x)
         IN  Data(r) /\ Calm(q, r) /\ r.at = q.at /\ (Above(q, x) => Owing(r))
<1>1. CASE Above(q, x)
  <2>1. YieldsTo(q, x) = Yield(q)
    BY <1>1 DEF YieldsTo, Above
  <2> QED BY <2>1, YieldOwes, Zenon
<1>2. CASE ~Above(q, x)
  <2>1. YieldsTo(q, x) = q
    BY <1>2 DEF YieldsTo, Above
  <2> QED BY <1>2, <2>1, CalmItself
<1> QED BY <1>1, <1>2

\* One task gets ready; if it is above the running one, the debt is noted.
LEMMA RousedCalm ==
  ASSUME NEW q, NEW r, NEW s, NEW t, Quiet(q, r), \A u \in Task : u # t => r.at[u] = q.at[u],
         Calm(r, s), s.at = r.at, Above(r, t) => Owing(s)
  PROVE  Calm(q, s)
<1>1. s.on = q.on /\ s.cur = q.cur /\ s.prio = q.prio /\ s.base = q.base /\ (Owing(q) => Owing(s))
  BY DEF Calm, Quiet, Owing
<1>2. ASSUME NEW u \in Task, s.at[u] = "ready", q.at[u] # "ready", Above(q, u) PROVE Owing(s)
  <2>1. u = t
    BY <1>2
  <2> QED BY <1>2, <2>1 DEF Quiet, Above
<1> QED BY <1>1, <1>2 DEF Calm

LEMMA ResumesCalm ==
  ASSUME NEW q, Data(q), NEW t, DOMAIN q.at = Task
  PROVE  Calm(q, YieldsTo(AddReady(Unlist(q, t), t), t))
<1> DEFINE r == AddReady(Unlist(q, t), t)
           s == YieldsTo(r, t)
<1>1. Data(r) /\ Quiet(q, r) /\ \A u \in Task : u # t => r.at[u] = q.at[u]
  BY ReadyQuiet, Zenon
<1> HIDE DEF r
<1>2. Calm(r, s) /\ s.at = r.at /\ (Above(r, t) => Owing(s))
  BY <1>1, YieldsToCalm, Zenon
<1> HIDE DEF s
<1>3. Calm(q, s)
  BY <1>1, <1>2, RousedCalm
<1> QED BY <1>3 DEF s, r

\* The waiter taken from an event list, with and without the scheduler.
LEMMA RemovedIs ==
  ASSUME NEW q, Data(q), NEW l, DOMAIN q.at = Task
  PROVE  LET r == RemoveFromEventList(q, l)
             t == Woken(q, l)
         IN  /\ Data(r) /\ r.on = q.on /\ r.cur = q.cur /\ r.prio = q.prio /\ r.base = q.base
             /\ r.susp = q.susp /\ r.loop = q.loop /\ (Owing(q) => Owing(r))
             /\ \A u \in Task : r.at[u] = "ready" /\ q.at[u] # "ready" => u = t /\ q.susp = 0
<1> DEFINE t == Woken(q, l)
           u == Unwait(q, t)
           v == IF q.susp = 0 THEN AddReady(Unlist(u, t), t) ELSE Pend(u, t)
           r == Owe(v, t)
<1>1. Data(u) /\ Quiet(q, u) /\ u.at = q.at
  BY UnwaitQuiet, Zenon
<1> HIDE DEF u, t
<1>2. /\ Data(v) /\ Quiet(u, v)
      /\ \A w \in Task : v.at[w] = "ready" /\ u.at[w] # "ready" => w = t /\ q.susp = 0
  <2>1. CASE q.susp = 0
    <3>1. v = AddReady(Unlist(u, t), t)
      BY <2>1
    <3> HIDE DEF v
    <3>2. DOMAIN u.at = Task
      BY <1>1
    <3>3. Data(v) /\ Quiet(u, v) /\ \A w \in Task : w # t => v.at[w] = u.at[w]
      BY <1>1, <3>1, <3>2, ReadyQuiet, Zenon
    <3> QED BY <2>1, <3>3
  <2>2. CASE q.susp # 0
    <3>1. v = Pend(u, t)
      BY <2>2
    <3>2. Data(v) /\ Quiet(u, v) /\ v.at = u.at
      BY <1>1, <3>1, PendQuiet, Zenon
    <3> QED BY <3>2
  <2> QED BY <2>1, <2>2
<1> HIDE DEF v
<1>3. Data(r) /\ Calm(v, r) /\ r.at = v.at /\ r.susp = v.susp /\ r.loop = v.loop
  BY <1>2, OweNotes, Zenon
<1> HIDE DEF r
<1>4. RemoveFromEventList(q, l) = r
  BY DEF RemoveFromEventList, r, v, u, t
<1>5. Quiet(q, v)
  BY <1>1, <1>2, QuietTwice
<1>6. Owing(q) => Owing(v)
  BY <1>5 DEF Quiet, Owing
<1>7. Owing(q) => Owing(r)
  BY <1>3, <1>6 DEF Calm
<1>8. ASSUME NEW w \in Task, r.at[w] = "ready", q.at[w] # "ready" PROVE w = t /\ q.susp = 0
  BY <1>1, <1>2, <1>3, <1>8
<1> QED BY <1>3, <1>4, <1>5, <1>7, <1>8 DEF t, Calm, Quiet

\* With the scheduler suspended nobody gets ready.
LEMMA RemovedCalm ==
  ASSUME NEW q, Data(q), NEW l, DOMAIN q.at = Task, q.susp # 0
  PROVE  LET r == RemoveFromEventList(q, l) IN Data(r) /\ Calm(q, r) /\ r.susp = q.susp
<1> DEFINE r == RemoveFromEventList(q, l)
<1>1. /\ Data(r) /\ r.on = q.on /\ r.cur = q.cur /\ r.prio = q.prio /\ r.base = q.base
      /\ r.susp = q.susp /\ r.loop = q.loop /\ (Owing(q) => Owing(r))
      /\ \A u \in Task : r.at[u] = "ready" /\ q.at[u] # "ready" => q.susp = 0
  BY RemovedIs, Zenon
<1> HIDE DEF r
<1> QED BY <1>1 DEF Calm, r

LEMMA WakeFirstCalm ==
  ASSUME NEW q, Data(q), NEW l, DOMAIN q.at = Task
  PROVE  Calm(q, WakeFirst(q, l))
<1> DEFINE t == Woken(q, l)
           r == RemoveFromEventList(q, l)
<1>1. /\ Data(r) /\ r.on = q.on /\ r.cur = q.cur /\ r.prio = q.prio /\ r.base = q.base
      /\ (Owing(q) => Owing(r))
      /\ \A u \in Task : r.at[u] = "ready" /\ q.at[u] # "ready" => u = t
  BY RemovedIs, Zenon
<1>2. CASE q.wait[l] = <<>>
  <2>1. WakeFirst(q, l) = q
    BY <1>2 DEF WakeFirst
  <2> QED BY <2>1, CalmItself
<1>3. CASE q.wait[l] # <<>> /\ ~Above(q, t)
  <2>1. WakeFirst(q, l) = r
    BY <1>3 DEF WakeFirst, WokeHigher, Above
  <2> HIDE DEF r, t
  <2>2. Calm(q, r)
    BY <1>1, <1>3 DEF Calm
  <2> QED BY <2>1, <2>2
<1>4. CASE q.wait[l] # <<>> /\ Above(q, t)
  <2>1. WakeFirst(q, l) = Yield(r)
    BY <1>4 DEF WakeFirst, WokeHigher, Above
  <2> HIDE DEF r, t
  <2> DEFINE s == Yield(r)
  <2>2. Owing(s) /\ s.on = r.on /\ s.cur = r.cur /\ s.prio = r.prio /\ s.base = r.base
    BY <1>1, YieldOwes, Zenon
  <2> HIDE DEF s
  <2>3. Calm(q, s)
    BY <1>1, <2>2 DEF Calm
  <2> QED BY <2>1, <2>3 DEF s
<1> QED BY <1>2, <1>3, <1>4

-----------------------------------------------------------------------------
(* The invariant.  Without a mutex every task has its own priority, and    *)
(* before the scheduler runs the current task is the highest created.      *)

Uses(p, l) == p \in InQueue \/ (p \in {"resume", "resumed"} /\ l.then \in {"try", "expired"})
Plain(p, l) ==
  /\ p \notin {"inherit", "disinherit"} /\ "inherited" \in DOMAIN l /\ ~l.inherited
  /\ Uses(p, l) => Kind[l.obj] # "mutex"

Preemption ==
  /\ k.on => Preempts(k)
  /\ ~k.on => k.prio = scene.prio /\ \A u \in Task : k.at[u] = "ready" => ~Above(k, u)
  /\ k.prio = k.base
  /\ \A t \in Task : Plain(pc[t], loc[t])

LEMMA DataFacts == ASSUME IInv PROVE Data(k) /\ DOMAIN k.at = Task /\ k.susp \in Nat
BY DEF IInv, Good, Shape, ListTypes, SwitchTypes

LEMMA DataCalm ==
  ASSUME Preemption, k.on, pc' = pc, loc' = loc, Calm(k, k')
  PROVE  Preemption'
<1>1. Preempts(k)
  BY DEF Preemption
<1>2. Preempts(k') /\ k'.on = k.on /\ k'.prio = k'.base
  BY <1>1, CalmPreempts DEF Preemption, Calm
<1>3. \A u \in Task : Plain(pc'[u], loc'[u])
  BY DEF Preemption
<1>4. k'.on
  BY <1>2
<1> QED BY <1>2, <1>3, <1>4 DEF Preemption

LEMMA CallCalm ==
  ASSUME Preemption, k.on, NEW t \in Task, NEW p, NEW l, Becomes(t, p, l), Plain(p, l), Calm(k, k')
  PROVE  Preemption'
<1>1. Preempts(k)
  BY DEF Preemption
<1>2. Preempts(k') /\ k'.on = k.on /\ k'.prio = k'.base
  BY <1>1, CalmPreempts DEF Preemption, Calm
<1>3. ASSUME NEW u \in Task PROVE Plain(pc'[u], loc'[u])
  <2>1. CASE u = t
    BY <2>1 DEF Becomes
  <2>2. CASE u # t
    <3>1. Plain(pc[u], loc[u]) /\ pc'[u] = pc[u] /\ loc'[u] = loc[u]
      BY <2>2 DEF Becomes, Preemption
    <3> QED BY <3>1, Zenon
  <2> QED BY <2>1, <2>2
<1>4. k'.on
  BY <1>2
<1> QED BY <1>2, <1>3, <1>4 DEF Preemption

\* Where the call is on no queue.
Aside == {"app", "none", "dead", "suspend", "delay", "slept", "nlook", "nhold", "narm", "nplace", "nend"}

LEMMA PlainOf == ASSUME Preemption, NEW t \in Task PROVE Plain(pc[t], loc[t])
BY DEF Preemption

\* The call goes on with what it had.
LEMMA PlainGoesOn ==
  ASSUME NEW p, NEW l, Plain(p, l), NEW r, NEW m, "inherited" \in DOMAIN m, m.inherited = l.inherited,
         r \notin {"inherit", "disinherit"}, Uses(r, m) => Uses(p, l) /\ m.obj = l.obj
  PROVE  Plain(r, m)
<1>1. ~m.inherited
  BY Zenon DEF Plain
<1> QED BY <1>1 DEF Plain

LEMMA PlainAside ==
  ASSUME NEW p, NEW l, Plain(p, l), NEW r \in Aside
  PROVE  Plain(r, l)
BY DEF Plain, Uses, Aside, InQueue

LEMMA NoCallPlain == "inherited" \in DOMAIN NoCall /\ ~NoCall.inherited
<1>1. NoCall.inherited = FALSE
  BY Zenon DEF NoCall
<1>2. "inherited" \in DOMAIN NoCall
  BY NoCallPlan
<1> QED BY <1>1, <1>2, Zenon

LEMMA PlainNoCall ==
  ASSUME NEW p \in Aside
  PROVE  Plain(p, NoCall)
BY NoCallPlain DEF Plain, Uses, Aside, InQueue

\* What a call that is on no queue starts with.
Fresh(l) == "inherited" \in DOMAIN l /\ ~l.inherited /\ l.then \notin {"try", "expired"}
LEMMA PlainFresh ==
  ASSUME NEW l, Fresh(l), NEW p \in Aside \cup {"resume"}
  PROVE  Plain(p, l)
BY DEF Plain, Uses, Aside, InQueue, Fresh

LEMMA QuietSame == ASSUME NEW q, NEW r, Quiet(q, r), r.at = q.at PROVE Calm(q, r)
BY QuietCalm

LEMMA TimingCalm == ASSUME NEW q, Data(q), NEW t PROVE LET r == Timing(q, t) IN Data(r) /\ Quiet(q, r) /\ r.at = q.at
BY ZenonT(40) DEF Data, Fields, Timing, Quiet

LEMMA PendedCalm ==
  ASSUME NEW q, Data(q), NEW n PROVE LET r == [q EXCEPT !.pended = n] IN Data(r) /\ Quiet(q, r) /\ r.at = q.at
BY ZenonT(40) DEF Data, Fields, Quiet

LEMMA SuspendCalm ==
  ASSUME NEW q, Data(q), q.susp \in Nat
  PROVE  Calm(q, SuspendedAll(q))
<1> DEFINE r == SuspendedAll(q)
<1>1. /\ r.on = q.on /\ r.cur = q.cur /\ r.susp = q.susp + 1 /\ r.loop = q.loop /\ r.pendsv = q.pendsv
      /\ r.yp = q.yp /\ r.sw = q.sw /\ r.prio = q.prio /\ r.base = q.base /\ r.at = q.at
  BY ZenonT(40) DEF Data, Fields, SuspendedAll
<1> HIDE DEF r
<1>2. r.susp # 0
  BY <1>1
<1>3. Owing(q) => Owing(r)
  BY <1>1, <1>2 DEF Owing
<1> QED BY <1>1, <1>3 DEF Calm, r

\* The running task leaves the ready lists.
LEMMA AddCurrentCalm ==
  ASSUME NEW q, Data(q), NEW n, NEW b, DOMAIN q.at = Task
  PROVE  Calm(q, AddCurrentToDelayed(q, n, b))
<1> DEFINE t == q.cur
           u == Unlist(q, t)
           w == (q.tick + n) % (MaxTick + 1)
           d == [u EXCEPT !.wake[t] = w]
           s1 == [u EXCEPT !.at[t] = "suspended"]
           s2 == [d EXCEPT !.overflow = InsertSorted(@, t, d.wake), !.at[t] = "overflow"]
           s3 == [d EXCEPT !.delayed = InsertSorted(@, t, d.wake), !.at[t] = "delayed",
                           !.next = IF w < @ THEN w ELSE @]
           r == AddCurrentToDelayed(q, n, b)
<1>1. Data(u) /\ Quiet(q, u) /\ u.at = [q.at EXCEPT ![t] = "none"]
  BY UnlistQuiet, Zenon
<1>2. r = s1 \/ r = s2 \/ r = s3
  BY Zenon DEF AddCurrentToDelayed
<1> HIDE DEF u, w, t, r
<1>3. Data(d) /\ Quiet(u, d) /\ d.at = u.at
  BY <1>1, ZenonT(40) DEF Data, Fields, Quiet
<1>4. Quiet(u, s1) /\ s1.at = [u.at EXCEPT ![t] = "suspended"]
  BY <1>1, ZenonT(40) DEF Data, Fields, Quiet
<1> DEFINE o == InsertSorted(d.overflow, t, d.wake)
           e == InsertSorted(d.delayed, t, d.wake)
           x == IF w < d.next THEN w ELSE d.next
<1>5. /\ s2 = [d EXCEPT !.overflow = o, !.at[t] = "overflow"]
      /\ s3 = [d EXCEPT !.delayed = e, !.at[t] = "delayed", !.next = x]
  OBVIOUS
<1> HIDE DEF d, o, e, x, s2, s3
<1>6. Quiet(d, s2) /\ s2.at = [d.at EXCEPT ![t] = "overflow"]
  BY <1>3, <1>5, ZenonT(40) DEF Data, Fields, Quiet
<1>7. Quiet(d, s3) /\ s3.at = [d.at EXCEPT ![t] = "delayed"]
  BY <1>3, <1>5, ZenonT(40) DEF Data, Fields, Quiet
<1> HIDE DEF s1
<1>8. Quiet(q, s1) /\ Quiet(q, s2) /\ Quiet(q, s3)
  BY <1>1, <1>3, <1>4, <1>6, <1>7, QuietTwice
<1>9. Quiet(q, r) /\ \E z \in {"suspended", "overflow", "delayed"} : r.at = [u.at EXCEPT ![t] = z]
  BY <1>2, <1>3, <1>4, <1>6, <1>7, <1>8
<1>10. ASSUME NEW y \in Task, r.at[y] = "ready" PROVE q.at[y] = "ready"
  BY <1>1, <1>9, <1>10
<1>11. Calm(q, r)
  BY <1>9, <1>10, QuietCalm
<1> QED BY <1>11 DEF r

-----------------------------------------------------------------------------
(* The task functions.                                                     *)

LEMMA SimpleCalm ==
  ASSUME Preemption, NEW t \in Task, NEW api, NEW q, Simple(t, api, q), Calm(k, q)
  PROVE  Preemption'
<1>1. k.on /\ pc' = pc /\ loc' = loc /\ k' = q
  BY DEF Simple, Runs
<1> QED BY <1>1, DataCalm

LEMMA EnterCalm ==
  ASSUME IInv, Preemption, NEW t \in Task, NEW api, NEW l, NEW p, Enter(t, api, l, p),
         Plain(p, [l EXCEPT !.api = api]), Calm(k, k')
  PROVE  Preemption'
<1>1. k.on /\ Becomes(t, p, [l EXCEPT !.api = api])
  BY Calls, Zenon
<1> QED BY <1>1, CallCalm, Zenon

LEMMA GoCalm ==
  ASSUME IInv, Preemption, NEW t \in Task, NEW from, NEW p, Go(t, from, p), loc' = loc,
         Plain(p, loc[t]), Calm(k, k')
  PROVE  Preemption'
BY GoKeeps, CallCalm

LEMMA ReturnCalm ==
  ASSUME IInv, Preemption, NEW t \in Task, NEW from, Return(t, from), Calm(k, k')
  PROVE  Preemption'
<1>1. k.on /\ Becomes(t, "app", NoCall)
  BY Returns
<1>2. Plain("app", NoCall)
  BY PlainNoCall DEF Aside
<1> QED BY <1>1, <1>2, CallCalm

LEMMA ApiFresh ==
  ASSUME NEW api
  PROVE  Fresh([NoCall EXCEPT !.api = api])
<1> DEFINE l == [NoCall EXCEPT !.api = api]
<1>1. DOMAIN l = DOMAIN NoCall /\ l.then = NoCall.then /\ l.inherited = NoCall.inherited
  BY NoCallPlan
<1> HIDE DEF l
<1>2. "inherited" \in DOMAIN l /\ ~l.inherited
  BY <1>1, NoCallPlain, Zenon
<1>3. l.then = "app"
  BY <1>1, NoCallPlan
<1>4. Fresh(l)
  BY <1>2, <1>3 DEF Fresh
<1> QED BY <1>4 DEF l

LEMMA TaskYieldCalm ==
  ASSUME IInv, Preemption, NEW t \in Task, TaskYield(t)
  PROVE  Preemption'
<1>1. Calm(k, Yield(k))
  BY DataFacts, YieldOwes, Zenon
<1> QED BY <1>1, SimpleCalm DEF TaskYield

LEMMA DelayCalm ==
  ASSUME IInv, Preemption, NEW t \in Task, Delay(t)
  PROVE  Preemption'
<1> DEFINE y == TRUE
           c(n) == [NoCall EXCEPT !.ticks = n, !.asked = n, !.yields = y, !.then = "slept"]
<1>1. PICK api, n : Enter(t, api, c(n), "delay") /\ k' = SuspendedAll(Timing(k, t))
  BY Zenon DEF Delay
<1> HIDE DEF y
<1> DEFINE l == [c(n) EXCEPT !.api = api]
<1>2. DOMAIN l = DOMAIN NoCall /\ l.then = "slept" /\ l.inherited = NoCall.inherited
  BY NoCallPlan
<1> HIDE DEF l
<1>3. "inherited" \in DOMAIN l /\ ~l.inherited
  BY <1>2, NoCallPlain, Zenon
<1>4. Plain("delay", l)
  BY <1>2, <1>3, PlainFresh DEF Fresh, Aside
<1> DEFINE q == Timing(k, t)
<1>5. Data(q) /\ Quiet(k, q) /\ q.at = k.at
  BY DataFacts, TimingCalm, Zenon
<1> HIDE DEF q
<1>6. q.susp \in Nat
  BY <1>5, DataFacts DEF Quiet
<1>7. Calm(k, q) /\ Calm(q, SuspendedAll(q))
  BY <1>5, <1>6, QuietSame, SuspendCalm
<1>8. Calm(k, k')
  BY <1>1, <1>7, CalmTwice DEF q
<1> QED BY <1>1, <1>4, <1>8, EnterCalm, Zenon DEF l

LEMMA DelayBlocksCalm ==
  ASSUME IInv, Preemption, NEW t \in Task, DelayBlocks(t)
  PROVE  Preemption'
<1>1. Go(t, "delay", "resume") /\ loc' = loc /\ pc[t] = "delay"
  BY DEF DelayBlocks, Go
<1>2. loc[t].then = "slept"
  BY <1>1, TaskFacts DEF PlanOK
<1>3. Plain("resume", loc[t])
  BY <1>1, <1>2, PlainOf DEF Plain, Uses, InQueue
<1>4. Calm(k, k')
  BY DataFacts, AddCurrentCalm, Zenon DEF DelayBlocks
<1> QED BY <1>1, <1>3, <1>4, GoCalm

LEMMA DelayEndsCalm ==
  ASSUME IInv, Preemption, NEW t \in Task, DelayEnds(t)
  PROVE  Preemption'
BY ReturnCalm, CalmItself DEF DelayEnds

LEMMA LockSchedulerCalm ==
  ASSUME IInv, Preemption, NEW t \in Task, LockScheduler(t)
  PROVE  Preemption'
<1>1. Calm(k, SuspendedAll(k))
  BY DataFacts, SuspendCalm
<1> QED BY <1>1, SimpleCalm DEF LockScheduler

LEMMA UnlockSchedulerCalm ==
  ASSUME IInv, Preemption, NEW t \in Task, UnlockScheduler(t)
  PROVE  Preemption'
<1>1. Enter(t, "lock", NoCall, "resume") /\ Calm(k, k')
  BY CalmItself DEF UnlockScheduler
<1>2. Plain("resume", [NoCall EXCEPT !.api = "lock"])
  BY ApiFresh, PlainFresh, Zenon
<1> QED BY <1>1, <1>2, EnterCalm, Zenon

LEMMA CatchUpTicksCalm ==
  ASSUME IInv, Preemption, NEW t \in Task, CatchUpTicks(t)
  PROVE  Preemption'
<1> DEFINE n == k.pended + 1
           q == [k EXCEPT !.pended = n]
<1>1. Enter(t, "catchup", NoCall, "resume") /\ k' = SuspendedAll(q)
  BY DEF CatchUpTicks
<1> HIDE DEF n
<1>2. Plain("resume", [NoCall EXCEPT !.api = "catchup"])
  BY ApiFresh, PlainFresh, Zenon
<1>3. Data(q) /\ Quiet(k, q) /\ q.at = k.at
  BY DataFacts, PendedCalm, Zenon
<1> HIDE DEF q
<1>4. q.susp \in Nat
  BY <1>3, DataFacts DEF Quiet
<1>5. Calm(k, q) /\ Calm(q, SuspendedAll(q))
  BY <1>3, <1>4, QuietSame, SuspendCalm
<1>6. Calm(k, k')
  BY <1>1, <1>5, CalmTwice
<1> QED BY <1>1, <1>2, <1>6, EnterCalm, Zenon

\* What a change of another field of the locals keeps.
Keeps(l, m) == "inherited" \in DOMAIN m /\ m.inherited = l.inherited /\ m.obj = l.obj
Call3 == {"inherited", "obj", "then"}

LEMMA LocalFields ==
  ASSUME IInv, Preemption, NEW t \in Task
  PROVE  Call3 \cup CallFields \subseteq DOMAIN loc[t]
BY TaskFacts, PlainOf DEF PlanOK, Plain, CallFields, Call3

LEMMA YieldedKeeps ==
  ASSUME NEW l, Call3 \cup CallFields \subseteq DOMAIN l
  PROVE  \A x : LET m == [l EXCEPT !.yielded = x] IN Keeps(l, m) /\ m.then = l.then
BY DEF Keeps, Call3

LEMMA ResumeAllCalm ==
  ASSUME IInv, Preemption, NEW t \in Task, ResumeAll(t)
  PROVE  Preemption'
<1> DEFINE y == FALSE
           m == [loc[t] EXCEPT !.yielded = y]
<1>1. Go(t, "resume", "resumed") /\ loc' = [loc EXCEPT ![t] = m] /\ Runs(t) /\ pc[t] = "resume"
  BY Zenon DEF ResumeAll, Go
<1> HIDE DEF y
<1>2. k.on /\ Becomes(t, "resumed", m)
  BY <1>1, GoesOn, Zenon
<1>3. Keeps(loc[t], m) /\ m.then = loc[t].then
  BY LocalFields, YieldedKeeps
<1> HIDE DEF m
<1>4. Plain("resumed", m)
  BY <1>1, <1>3, PlainOf, PlainGoesOn DEF Keeps, Uses, InQueue
<1>5. k.loop = "none" /\ ~k.pendsv /\ k.susp # 0
  BY <1>1, RunningFacts DEF Guarded
<1> DEFINE s == k.susp - 1
           o == IF k.susp = 1 THEN "drain" ELSE k.loop
<1>6. k' = [k EXCEPT !.susp = s, !.loop = o]
  BY DEF ResumeAll
<1>7. s # 0 \/ o = "drain"
  BY DataFacts
<1> HIDE DEF s, o
<1>8. /\ k'.on = k.on /\ k'.cur = k.cur /\ k'.susp = s /\ k'.loop = o /\ k'.pendsv = k.pendsv
      /\ k'.yp = k.yp /\ k'.sw = k.sw /\ k'.prio = k.prio /\ k'.base = k.base /\ k'.at = k.at
  BY <1>6, DataFacts, ZenonT(40) DEF Data, Fields
<1>9. Owing(k) => Owing(k')
  BY <1>5, <1>7, <1>8 DEF Owing
<1>10. Calm(k, k')
  BY <1>8, <1>9 DEF Calm
<1> QED BY <1>2, <1>4, <1>10, CallCalm

LEMMA ResumedCalm ==
  ASSUME IInv, Preemption, NEW t \in Task, Resumed(t)
  PROVE  Preemption'
<1>1. Go(t, "resumed", loc[t].then) /\ pc[t] = "resumed"
  BY DEF Resumed, Go
<1>2. Calm(k, k')
  <2>1. k' = Yield(k) \/ k' = k
    BY Zenon DEF Resumed
  <2> QED BY <2>1, DataFacts, YieldOwes, CalmItself, Zenon
<1>3. CASE loc[t].then = "app"
  <2>1. Return(t, "resumed")
    BY <1>1, <1>3 DEF Resumed, Return
  <2> QED BY <1>2, <2>1, ReturnCalm
<1>4. CASE loc[t].then # "app"
  <2>1. loc' = loc
    BY <1>4 DEF Resumed
  <2>2. Plain(loc[t].then, loc[t])
    <3>1. loc[t].then \in {"try", "expired", "slept", "nend"}
      BY <1>4, TaskFacts DEF PlanOK
    <3> QED BY <1>1, <3>1, PlainOf DEF Plain, Uses, InQueue
  <2> QED BY <1>1, <1>2, <2>1, <2>2, GoCalm
<1> QED BY <1>3, <1>4

\* A task is taken out of all lists, and filed elsewhere.
LEMMA UnlinkCalm ==
  ASSUME NEW q, Data(q), NEW x, DOMAIN q.at = Task
  PROVE  LET u == Unwait(Unlist(q, x), x) IN Data(u) /\ Quiet(q, u) /\ u.at = [q.at EXCEPT ![x] = "none"]
<1> DEFINE v == Unlist(q, x)
           u == Unwait(v, x)
<1>1. Data(v) /\ Quiet(q, v) /\ v.at = [q.at EXCEPT ![x] = "none"]
  BY UnlistQuiet, Zenon
<1> HIDE DEF v
<1>2. Data(u) /\ Quiet(v, u) /\ u.at = v.at
  BY <1>1, UnwaitQuiet, Zenon
<1> HIDE DEF u
<1>3. Quiet(q, u)
  BY <1>1, <1>2, QuietTwice
<1>4. u.at = [q.at EXCEPT ![x] = "none"]
  BY <1>1, <1>2
<1> QED BY <1>2, <1>3, <1>4 DEF u, v

LEMMA SuspendTaskCalm ==
  ASSUME IInv, Preemption, NEW t \in Task, NEW x \in Task, Suspend(t, x)
  PROVE  Preemption'
<1> DEFINE l == [NoCall EXCEPT !.obj = x]
           m == [l EXCEPT !.api = "suspend"]
           u == Unwait(Unlist(k, x), x)
           s == IF u.ns[x] = "waiting" THEN "not" ELSE u.ns[x]
           e == loc[x].asked
<1>1. Enter(t, "suspend", l, "suspend") /\ k' = [u EXCEPT !.at[x] = "suspended", !.ns[x] = s, !.spent[x] = e]
  BY DEF Suspend
<1>2. DOMAIN m = DOMAIN NoCall /\ m.then = NoCall.then /\ m.inherited = NoCall.inherited
  BY NoCallPlan
<1> HIDE DEF m
<1>3. "inherited" \in DOMAIN m /\ ~m.inherited
  BY <1>2, NoCallPlain, Zenon
<1>4. Plain("suspend", m)
  BY <1>2, <1>3, NoCallPlan, PlainFresh DEF Fresh, Aside
<1>5. Data(u) /\ Quiet(k, u) /\ u.at = [k.at EXCEPT ![x] = "none"]
  BY DataFacts, UnlinkCalm, Zenon
<1> HIDE DEF u, s, e
<1>6. Quiet(u, k') /\ k'.at = [u.at EXCEPT ![x] = "suspended"]
  BY <1>1, <1>5, ZenonT(40) DEF Data, Fields, Quiet
<1>7. Quiet(k, k')
  BY <1>5, <1>6, QuietTwice
<1>8. \A y \in Task : k'.at[y] = "ready" => k.at[y] = "ready"
  BY <1>5, <1>6, DataFacts
<1>9. Calm(k, k')
  BY <1>7, <1>8, QuietCalm
<1> QED BY <1>1, <1>4, <1>9, EnterCalm, Zenon DEF m

LEMMA ResetNextCalm ==
  ASSUME NEW q, Data(q)
  PROVE  LET r == ResetNext(q) IN Data(r) /\ Calm(q, r) /\ r.at = q.at
BY ResetNextQuiet, QuietSame, Zenon

LEMMA SuspendEndsCalm ==
  ASSUME IInv, Preemption, NEW t \in Task, SuspendEnds(t)
  PROVE  Preemption'
<1> DEFINE q == ResetNext(k)
<1>1. Data(q) /\ Calm(k, q)
  BY DataFacts, ResetNextCalm, Zenon
<1>2. Return(t, "suspend") /\ (k' = Yield(q) \/ k' = q)
  BY Zenon DEF SuspendEnds
<1> HIDE DEF q
<1>3. Calm(q, k')
  BY <1>1, <1>2, YieldOwes, CalmItself, Zenon
<1> QED BY <1>1, <1>2, <1>3, CalmTwice, ReturnCalm

LEMMA ResumeCalm ==
  ASSUME IInv, Preemption, NEW t \in Task, NEW x \in Task, Resume(t, x)
  PROVE  Preemption'
<1>1. Calm(k, YieldsTo(AddReady(Unlist(k, x), x), x))
  BY DataFacts, ResumesCalm, Zenon
<1> QED BY <1>1, SimpleCalm DEF Resume

LEMMA DeleteCalm ==
  ASSUME IInv, Preemption, NEW t \in Task, NEW x \in Task, Delete(t, x)
  PROVE  Preemption'
<1> DEFINE u == Unwait(Unlist(k, x), x)
<1>1. k.on /\ k' = ResetNext(u) /\ pc' = [pc EXCEPT ![x] = "none"] /\ loc' = [loc EXCEPT ![x] = NoCall]
  BY DEF Delete, Runs
<1>2. Data(u) /\ Quiet(k, u) /\ u.at = [k.at EXCEPT ![x] = "none"]
  BY DataFacts, UnlinkCalm, Zenon
<1> HIDE DEF u
<1>3. \A y \in Task : u.at[y] = "ready" => k.at[y] = "ready"
  BY <1>2, DataFacts
<1>4. Calm(k, u) /\ Calm(u, k')
  BY <1>1, <1>2, <1>3, QuietCalm, ResetNextCalm, Zenon
<1>5. Becomes(x, "none", NoCall)
  BY <1>1, GoBecomes, Domains
<1>6. Plain("none", NoCall)
  BY PlainNoCall DEF Aside
<1> QED BY <1>1, <1>4, <1>5, <1>6, CalmTwice, CallCalm

LEMMA DeleteSelfCalm ==
  ASSUME IInv, Preemption, NEW t \in Task, DeleteSelf(t)
  PROVE  Preemption'
<1> DEFINE u == Unlist(k, t)
<1>1. Enter(t, "delete", NoCall, "dead") /\ k' = [u EXCEPT !.at[t] = "termination"]
  BY DEF DeleteSelf
<1>2. Plain("dead", [NoCall EXCEPT !.api = "delete"])
  <2>1. "dead" \in Aside
    BY DEF Aside
  <2> QED BY <2>1, ApiFresh, PlainFresh, Zenon
<1>3. Data(u) /\ Quiet(k, u) /\ u.at = [k.at EXCEPT ![t] = "none"]
  BY DataFacts, UnlistQuiet, Zenon
<1> HIDE DEF u
<1>4. Quiet(u, k') /\ k'.at = [u.at EXCEPT ![t] = "termination"]
  BY <1>1, <1>3, ZenonT(40) DEF Data, Fields, Quiet
<1>5. \A y \in Task : k'.at[y] = "ready" => k.at[y] = "ready"
  BY <1>3, <1>4, DataFacts
<1>6. Calm(k, k')
  BY <1>3, <1>4, <1>5, QuietTwice, QuietCalm
<1> QED BY <1>1, <1>2, <1>6, EnterCalm, Zenon

LEMMA DiesCalm ==
  ASSUME IInv, Preemption, NEW t \in Task, Dies(t)
  PROVE  Preemption'
<1>1. Go(t, "dead", "none") /\ loc' = loc /\ k' = Yield(k)
  BY DEF Dies
<1>2. Plain("none", loc[t])
  BY PlainOf, PlainAside DEF Aside
<1>3. Calm(k, k')
  BY <1>1, DataFacts, YieldOwes, Zenon
<1> QED BY <1>1, <1>2, <1>3, GoCalm

LEMMA IdleTaskCalm ==
  ASSUME IInv, Preemption, IdleTask
  PROVE  Preemption'
<1>1. k.on
  BY DEF IdleTask, Runs
<1>2. CASE k' = Yield(k) /\ pc' = pc /\ loc' = loc
  <2>1. Calm(k, k')
    BY <1>2, DataFacts, YieldOwes, Zenon
  <2> QED BY <1>1, <1>2, <2>1, DataCalm
<1>3. ASSUME NEW x \in Task, k' = [k EXCEPT !.at[x] = "none"], loc' = [loc EXCEPT ![x] = NoCall],
             pc' = [pc EXCEPT ![x] = "none"]
      PROVE  Preemption'
  <2>1. Quiet(k, k') /\ k'.at = [k.at EXCEPT ![x] = "none"]
    BY <1>3, DataFacts, ZenonT(40) DEF Data, Fields, Quiet
  <2>2. \A y \in Task : k'.at[y] = "ready" => k.at[y] = "ready"
    BY <2>1, DataFacts
  <2>3. Calm(k, k')
    BY <2>1, <2>2, QuietCalm
  <2>4. Becomes(x, "none", NoCall)
    BY <1>3, GoBecomes, Domains
  <2>5. Plain("none", NoCall)
    BY PlainNoCall DEF Aside
  <2> QED BY <1>1, <2>3, <2>4, <2>5, CallCalm
<1> QED BY <1>2, <1>3 DEF IdleTask

-----------------------------------------------------------------------------
(* Priorities change, tasks are created.                                   *)

Flags(q, r) ==
  /\ r.on = q.on /\ r.cur = q.cur /\ r.susp = q.susp /\ r.loop = q.loop /\ r.pendsv = q.pendsv
  /\ r.yp = q.yp /\ r.sw = q.sw

LEMMA FlagsOwe == ASSUME NEW q, NEW r, Flags(q, r), Owing(q) PROVE Owing(r)
BY DEF Flags, Owing

LEMMA PrioFlags ==
  ASSUME NEW q, Data(q), NEW t, NEW p
  PROVE  LET r == [q EXCEPT !.prio[t] = p]
         IN  Data(r) /\ Flags(q, r) /\ r.prio = [q.prio EXCEPT ![t] = p] /\ r.base = q.base /\ r.at = q.at
BY ZenonT(40) DEF Data, Fields, Flags

LEMMA RevalueQuiet ==
  ASSUME NEW q, Data(q), NEW t, NEW p
  PROVE  LET r == Revalue(q, t, p) IN Data(r) /\ Quiet(q, r) /\ r.at = q.at
BY ZenonT(40) DEF Data, Fields, Quiet, Revalue

LEMMA ReprioFlags ==
  ASSUME NEW q, Data(q), NEW t \in Task, NEW p, DOMAIN q.at = Task
  PROVE  LET r == Reprio(q, t, p)
         IN  /\ Data(r) /\ Flags(q, r) /\ r.prio = [q.prio EXCEPT ![t] = p] /\ r.base = q.base
             /\ \A u \in Task : r.at[u] = q.at[u]
<1> DEFINE u == Unlist(q, t)
           v == [u EXCEPT !.prio[t] = p]
           w == AddReady(v, t)
<1>1. CASE q.at[t] = "ready"
  <2>1. Reprio(q, t, p) = w
    BY <1>1 DEF Reprio
  <2>2. Data(u) /\ Quiet(q, u) /\ u.at = [q.at EXCEPT ![t] = "none"]
    BY UnlistQuiet, Zenon
  <2> HIDE DEF u
  <2>3. Data(v) /\ Flags(u, v) /\ v.prio = [u.prio EXCEPT ![t] = p] /\ v.base = u.base /\ v.at = u.at
    BY <2>2, ZenonT(40) DEF Data, Fields, Flags
  <2> HIDE DEF v
  <2>4. Data(w) /\ Quiet(v, w) /\ w.at = [v.at EXCEPT ![t] = "ready"]
    BY <2>3, AddReadyQuiet, Zenon
  <2> HIDE DEF w
  <2>5. \A y \in Task : w.at[y] = q.at[y]
    BY <1>1, <2>2, <2>3, <2>4
  <2>6. Flags(q, w) /\ w.prio = [q.prio EXCEPT ![t] = p] /\ w.base = q.base
    BY <2>2, <2>3, <2>4 DEF Flags, Quiet
  <2> QED BY <2>1, <2>4, <2>5, <2>6
<1>2. CASE q.at[t] # "ready"
  <2>1. Reprio(q, t, p) = [q EXCEPT !.prio[t] = p]
    BY <1>2 DEF Reprio
  <2> QED BY <2>1, PrioFlags
<1> QED BY <1>1, <1>2

LEMMA ReprioIs ==
  ASSUME NEW q, Data(q), NEW t \in Task, NEW p, DOMAIN q.at = Task, NEW r, r = Reprio(q, t, p)
  PROVE  /\ Data(r) /\ Flags(q, r) /\ r.prio = [q.prio EXCEPT ![t] = p] /\ r.base = q.base
         /\ \A u \in Task : r.at[u] = q.at[u]
BY ReprioFlags

LEMMA RevalueIs ==
  ASSUME NEW q, Data(q), NEW t, NEW p, NEW r, r = Revalue(q, t, p)
  PROVE  Data(r) /\ Quiet(q, r) /\ r.at = q.at
BY RevalueQuiet, Zenon

LEMMA ReadyIs ==
  ASSUME NEW q, Data(q), NEW t, DOMAIN q.at = Task, NEW r, r = AddReady(Unlist(q, t), t)
  PROVE  /\ Data(r) /\ Quiet(q, r) /\ DOMAIN r.at = Task
         /\ \A u \in Task : u # t => r.at[u] = q.at[u]
BY ReadyQuiet, Zenon

\* Nobody's call goes on.
LEMMA StaysPlain ==
  ASSUME Preemption, k'.on, pc' = pc, loc' = loc, Preempts(k'), k'.prio = k'.base
  PROVE  Preemption'
BY DEF Preemption

LEMMA PrioritySetCalm ==
  ASSUME IInv, Preemption, NEW t \in Task, NEW x \in Task, NEW p \in Prio, PrioritySet(t, x, p)
  PROVE  Preemption'
<1> DEFINE q == Reprio(k, x, p)
           b == [q EXCEPT !.base[x] = p]
           r == Revalue(b, x, p)
           yield == IF p > k.base[x] THEN x # t /\ p > k.prio[t] ELSE x = t
<1>1. k.prio = k.base
  BY DEF Preemption
<1>2. /\ k.on /\ k.cur = t /\ pc' = pc /\ loc' = loc
      /\ k' = IF yield THEN Yield(r) ELSE r
  <2>1. /\ k.on /\ k.cur = t /\ pc' = pc /\ loc' = loc
    BY DEF PrioritySet, Simple, Runs
  <2>2. k.base[x] = k.prio[x]
    BY <1>1
  <2> QED BY <2>1, <2>2, Zenon DEF PrioritySet, Simple
<1>3. /\ Data(q) /\ Flags(k, q) /\ q.prio = [k.prio EXCEPT ![x] = p] /\ q.base = k.base
      /\ \A u \in Task : q.at[u] = k.at[u]
  <2>1. q = Reprio(k, x, p)
    OBVIOUS
  <2> HIDE DEF q
  <2> QED BY <2>1, DataFacts, ReprioIs
<1> HIDE DEF q
<1>4. Data(b) /\ Flags(q, b) /\ b.base = [q.base EXCEPT ![x] = p] /\ b.prio = q.prio /\ b.at = q.at
  BY <1>3, ZenonT(40) DEF Data, Fields, Flags
<1> HIDE DEF b
<1>5. Data(r) /\ Quiet(b, r) /\ r.at = b.at
  <2>1. r = Revalue(b, x, p)
    OBVIOUS
  <2> HIDE DEF r
  <2> QED BY <1>4, <2>1, RevalueIs
<1> HIDE DEF r, yield
<1>6. /\ Data(r) /\ Flags(k, r) /\ r.prio = [k.prio EXCEPT ![x] = p] /\ r.prio = r.base
      /\ \A u \in Task : r.at[u] = k.at[u]
  BY <1>1, <1>3, <1>4, <1>5 DEF Flags, Quiet
<1>7. /\ k'.cur = t /\ k'.on /\ k'.prio = r.prio /\ k'.base = r.base /\ k'.at = r.at
      /\ (Owing(r) \/ yield => Owing(k'))
  <2>1. CASE yield
    <3>1. k' = Yield(r)
      BY <1>2, <2>1
    <3>2. /\ Owing(Yield(r)) /\ Yield(r).at = r.at /\ Yield(r).on = r.on /\ Yield(r).cur = r.cur
          /\ Yield(r).prio = r.prio /\ Yield(r).base = r.base
      BY <1>6, YieldOwes, Zenon
    <3> QED BY <1>2, <1>6, <3>1, <3>2 DEF Flags
  <2>2. CASE ~yield
    BY <1>2, <1>6, <2>2 DEF Flags
  <2> QED BY <2>1, <2>2
<1>8. k.prio \in [Task -> Int] /\ p \in Int
  BY SuspNat, SchedulerAssumption DEF Good, Shape, PrioTypes, Prio
<1>9. ASSUME NEW u \in Task, k'.at[u] = "ready", Above(k', u), ~Owing(k') PROVE FALSE
  <2>1. ~Owing(k) /\ ~yield
    BY <1>6, <1>7, <1>9, FlagsOwe
  <2>2. ~Above(k, u)
    BY <1>2, <1>6, <1>7, <1>9, <2>1 DEF Preemption, Preempts
  <2> QED BY <1>1, <1>2, <1>6, <1>7, <1>8, <1>9, <2>1, <2>2 DEF Above, yield
<1>10. Preempts(k')
  BY <1>9 DEF Preempts
<1> QED BY <1>2, <1>6, <1>7, <1>10, StaysPlain

LEMMA NewTaskFlags ==
  ASSUME NEW q, Data(q), NEW t
  PROVE  LET r == NewTask(q, t)
         IN  /\ Data(r) /\ Flags(q, r) /\ r.at = [q.at EXCEPT ![t] = "ready"]
             /\ r.prio = [q.prio EXCEPT ![t] = scene.prio[t]]
             /\ r.base = [q.base EXCEPT ![t] = scene.prio[t]]
<1> DEFINE p == scene.prio[t]
           v == [q EXCEPT !.prio[t] = p, !.base[t] = p, !.evp[t] = p, !.held[t] = 0, !.ns[t] = "not", !.nv[t] = 0]
           r == AddReady(v, t)
<1>1. NewTask(q, t) = r
  BY DEF NewTask
<1> HIDE DEF p
<1>2. /\ Data(v) /\ Flags(q, v) /\ v.at = q.at
      /\ v.prio = [q.prio EXCEPT ![t] = p] /\ v.base = [q.base EXCEPT ![t] = p]
  BY ZenonT(40) DEF Data, Fields, Flags
<1> HIDE DEF v
<1>3. Data(r) /\ Quiet(v, r) /\ r.at = [v.at EXCEPT ![t] = "ready"]
  BY <1>2, AddReadyQuiet, Zenon
<1> HIDE DEF r
<1> QED BY <1>1, <1>2, <1>3 DEF Flags, Quiet, p

LEMMA CreateCalm ==
  ASSUME IInv, Preemption, NEW t \in Task, NEW x \in Task, Create(t, x)
  PROVE  Preemption'
<1> DEFINE u == NewTask(k, x)
           p == scene.prio[x]
<1>1. /\ Runs(t) /\ pc[t] = "app" /\ k.cur = t /\ k.on /\ k' = YieldsTo(u, x) /\ k.at[x] = "none"
      /\ pc' = [pc EXCEPT ![x] = "app"] /\ loc' = loc
  BY DEF Create, Runs
<1>2. x # t
  BY <1>1, RunsHere DEF Settled, Here
<1>3. /\ Data(u) /\ Flags(k, u) /\ u.at = [k.at EXCEPT ![x] = "ready"]
      /\ u.prio = [k.prio EXCEPT ![x] = p] /\ u.base = [k.base EXCEPT ![x] = p]
  BY DataFacts, NewTaskFlags, Zenon
<1> HIDE DEF u, p
<1>4. Calm(u, k') /\ k'.at = u.at /\ (Above(u, x) => Owing(k'))
  BY <1>1, <1>3, YieldsToCalm, Zenon
<1>5. DOMAIN k.prio = Task
  BY SuspNat DEF Good, Shape, PrioTypes
<1>6. ASSUME NEW y \in Task, k'.at[y] = "ready", Above(k', y) PROVE Owing(k')
  <2>1. CASE y = x
    BY <1>4, <1>6, <2>1 DEF Calm, Above
  <2>2. CASE y # x
    <3>1. k.at[y] = "ready" /\ Above(k, y)
      BY <1>1, <1>2, <1>3, <1>4, <1>5, <1>6, <2>2, DataFacts DEF Calm, Flags, Above
    <3>2. Owing(k)
      BY <1>1, <3>1 DEF Preemption, Preempts
    <3> QED BY <1>3, <1>4, <3>2, FlagsOwe DEF Calm
  <2> QED BY <2>1, <2>2
<1>7. Preempts(k')
  BY <1>6 DEF Preempts
<1>8. k'.on /\ k'.prio = k'.base
  BY <1>1, <1>3, <1>4 DEF Calm, Flags, Preemption
<1>9. ASSUME NEW y \in Task PROVE Plain(pc'[y], loc'[y])
  <2>1. Plain("app", loc[y])
    BY PlainOf, PlainAside DEF Aside
  <2>2. pc'[y] = IF y = x THEN "app" ELSE pc[y]
    BY <1>1, Domains
  <2> QED BY <1>1, <2>1, <2>2, PlainOf
<1> QED BY <1>7, <1>8, <1>9 DEF Preemption

\* Before the scheduler runs.
LEMMA BootPlain ==
  ASSUME IInv, Preemption, NEW x \in Task, pc' = [pc EXCEPT ![x] = "app"], loc' = loc
  PROVE  \A y \in Task : Plain(pc'[y], loc'[y])
<1> SUFFICES ASSUME NEW y \in Task PROVE Plain(pc'[y], loc'[y])
  OBVIOUS
<1>1. Plain("app", loc[y])
  BY PlainOf, PlainAside DEF Aside
<1>2. pc'[y] = IF y = x THEN "app" ELSE pc[y]
  BY Domains
<1> QED BY <1>1, <1>2, PlainOf

LEMMA CreateAtBootCalm ==
  ASSUME IInv, Preemption, scene' = scene, NEW x \in Task, CreateAtBoot(x)
  PROVE  Preemption'
<1> DEFINE u == NewTask(k, x)
           p == scene.prio[x]
           c == IF scene.prio[u.cur] <= p THEN x ELSE u.cur
<1>1. /\ ~k.on /\ k' = [u EXCEPT !.cur = IF scene.prio[k.cur] <= scene.prio[x] THEN x ELSE @]
      /\ pc' = [pc EXCEPT ![x] = "app"] /\ loc' = loc
  BY DEF CreateAtBoot
<1>2. /\ Data(u) /\ Flags(k, u) /\ u.at = [k.at EXCEPT ![x] = "ready"]
      /\ u.prio = [k.prio EXCEPT ![x] = p] /\ u.base = [k.base EXCEPT ![x] = p]
  BY DataFacts, NewTaskFlags, Zenon
<1>3. k' = [u EXCEPT !.cur = c]
  BY <1>1, <1>2 DEF Flags
<1> HIDE DEF u, c
<1>4. /\ k'.on = u.on /\ k'.cur = c /\ k'.at = u.at /\ k'.prio = u.prio /\ k'.base = u.base
  BY <1>2, <1>3, Zenon DEF Data, Fields
<1>5. k.prio = scene.prio /\ k.base = scene.prio /\ \A y \in Task : k.at[y] = "ready" => ~Above(k, y)
  BY <1>1 DEF Preemption
<1>6. scene.prio \in [Task -> Int] /\ k.cur \in Task
  BY <1>5, SuspNat, SchedulerAssumption DEF Good, Shape, PrioTypes, Prio
<1>7. k'.prio = scene.prio /\ k'.base = scene.prio
  BY <1>2, <1>4, <1>5, <1>6 DEF p
<1>8. ASSUME NEW y \in Task, k'.at[y] = "ready" PROVE ~Above(k', y)
  <2>1. u.cur = k.cur
    BY <1>2 DEF Flags
  <2>2. y = x \/ scene.prio[y] <= scene.prio[k.cur]
    <3> SUFFICES ASSUME y # x PROVE scene.prio[y] <= scene.prio[k.cur]
      OBVIOUS
    <3>1. k.at[y] = "ready"
      BY <1>2, <1>4, <1>8, DataFacts
    <3> QED BY <1>5, <1>6, <3>1 DEF Above
  <2> QED BY <1>4, <1>6, <1>7, <2>1, <2>2 DEF Above, c, p
<1>9. ~k'.on
  BY <1>1, <1>2, <1>4 DEF Flags
<1> QED BY <1>1, <1>7, <1>8, <1>9, BootPlain DEF Preemption

LEMMA StartSchedulerCalm ==
  ASSUME IInv, Preemption, scene' = scene, StartScheduler
  PROVE  Preemption'
<1> DEFINE u == NewTask(k, Idle)
           p == scene.prio[Idle]
           c == IF k.prio[k.cur] <= 0 THEN Idle ELSE u.cur
           y == TRUE
<1>0. Idle \in Task /\ p = 0 /\ k.cur \in Task
  BY SuspNat, SchedulerAssumption
<1>1. /\ ~k.on /\ k' = [u EXCEPT !.on = y, !.next = MaxTick, !.tick = 0, !.cur = c]
      /\ pc' = [pc EXCEPT ![Idle] = "app"] /\ loc' = loc
  BY DEF StartScheduler
<1>2. /\ Data(u) /\ Flags(k, u) /\ u.at = [k.at EXCEPT ![Idle] = "ready"]
      /\ u.prio = [k.prio EXCEPT ![Idle] = p] /\ u.base = [k.base EXCEPT ![Idle] = p]
  BY <1>0, DataFacts, NewTaskFlags, Zenon
<1>a. y
  OBVIOUS
<1> HIDE DEF u, c, p, y
<1>4. /\ k'.on = y /\ k'.cur = c /\ k'.at = u.at /\ k'.prio = u.prio /\ k'.base = u.base
  BY <1>1, <1>2, ZenonT(40) DEF Data, Fields
<1>5. k.prio = scene.prio /\ k.base = scene.prio /\ \A z \in Task : k.at[z] = "ready" => ~Above(k, z)
  BY <1>1 DEF Preemption
<1>6. scene.prio \in [Task -> Nat]
  BY <1>5, SuspNat, SchedulerAssumption DEF Good, Shape, PrioTypes, Prio
<1>7. k'.prio = scene.prio /\ k'.base = scene.prio
  BY <1>0, <1>2, <1>4, <1>5, <1>6 DEF p
<1>8. ASSUME NEW z \in Task, k'.at[z] = "ready" PROVE ~Above(k', z)
  <2>1. u.cur = k.cur
    BY <1>2 DEF Flags
  <2>2. z = Idle \/ scene.prio[z] <= scene.prio[k.cur]
    <3> SUFFICES ASSUME z # Idle PROVE scene.prio[z] <= scene.prio[k.cur]
      OBVIOUS
    <3>1. k.at[z] = "ready"
      BY <1>0, <1>2, <1>4, <1>8, DataFacts
    <3> QED BY <1>0, <1>5, <1>6, <3>1 DEF Above
  <2>3. scene.prio[Idle] = 0
    BY <1>0 DEF p
  <2> QED BY <1>0, <1>4, <1>5, <1>6, <1>7, <2>1, <2>2, <2>3 DEF Above, c
<1>9. k'.on
  BY <1>4, <1>a, Zenon
<1>10. Preempts(k')
  BY <1>8 DEF Preempts
<1> QED BY <1>0, <1>1, <1>7, <1>9, <1>10, BootPlain DEF Preemption

-----------------------------------------------------------------------------
(* The handlers and the loops.                                             *)

LEMMA PendSVCalm ==
  ASSUME IInv, Preemption, PendSV
  PROVE  Preemption'
<1>1. k.on /\ k' = SwitchContext(k) /\ pc' = pc /\ loc' = loc
  BY DEF PendSV, Interrupts
<1>2. Good(k) /\ Data(k) /\ k.prio \in [Task -> Int]
  BY SuspNat, SchedulerAssumption DEF Good, Shape, PrioTypes, Prio
<1>3. CASE k.susp # 0
  <2> DEFINE y == TRUE
             n == FALSE
  <2>1. k' = [k EXCEPT !.yp = y, !.pendsv = n]
    BY <1>1, <1>3 DEF SwitchContext
  <2>2. y
    OBVIOUS
  <2> HIDE DEF y, n
  <2>3. /\ k'.on = k.on /\ k'.cur = k.cur /\ k'.susp = k.susp /\ k'.yp = y
        /\ k'.prio = k.prio /\ k'.base = k.base /\ k'.at = k.at
    BY <1>2, <2>1, Zenon DEF Data, Fields
  <2>4. k'.yp
    BY <2>2, <2>3, Zenon
  <2>5. Owing(k')
    BY <1>3, <2>3, <2>4 DEF Owing
  <2>6. Calm(k, k')
    BY <2>3, <2>5 DEF Calm
  <2> QED BY <1>1, <2>6, DataCalm
<1>4. CASE k.susp = 0
  <2>1. k.top # {}
    <3>1. k.at[Idle] = "ready" /\ Idle \in Task
      BY <1>1, IdleStays
    <3>2. k.prio[Idle] \in Prio /\ Idle \in ReadyAt(k, k.prio[Idle])
      BY <1>2, <3>1 DEF Good, Shape, PrioTypes, ReadyAt
    <3> QED BY <1>2, <3>2 DEF Good, ReadyOK
  <2>2. /\ k'.on = k.on /\ k'.prio = k.prio /\ k'.base = k.base /\ k'.at = k.at /\ k'.cur \in Task
        /\ \A u \in Task : k.at[u] = "ready" => k.prio[u] <= k.prio[k'.cur]
    BY <1>1, <1>2, <1>4, <2>1, SwitchContextGood, Zenon
  <2>3. ASSUME NEW u \in Task, k'.at[u] = "ready" PROVE ~Above(k', u)
    BY <1>2, <2>2, <2>3 DEF Above
  <2>4. Preempts(k')
    BY <2>3 DEF Preempts
  <2>5. k'.on /\ k'.prio = k'.base
    BY <1>1, <2>2 DEF Preemption
  <2> QED BY <1>1, <2>4, <2>5, StaysPlain
<1> QED BY <1>3, <1>4

LEMMA TickUpFlags ==
  ASSUME NEW q, Data(q), DOMAIN q.at = Task, NEW loop
  PROVE  LET r == TickUp(q, loop)
         IN  /\ r.on = q.on /\ r.cur = q.cur /\ r.susp = q.susp /\ r.loop = loop /\ r.pendsv = q.pendsv
             /\ r.yp = q.yp /\ r.prio = q.prio /\ r.base = q.base
             /\ \A u \in Task : r.at[u] = "ready" => q.at[u] = "ready"
<1> DEFINE n == (q.tick + 1) % (MaxTick + 1)
           sp == [t \in Task |-> IF q.spent[t] < loc[t].asked THEN q.spent[t] + 1 ELSE q.spent[t]]
           s == [q EXCEPT !.tick = n, !.loop = loop, !.sw = FALSE,
                     !.spent = [t \in Task |-> IF @[t] < loc[t].asked THEN @[t] + 1 ELSE @[t]]]
           at == [t \in Task |-> CASE s.at[t] = "overflow" -> "delayed"
                                   [] s.at[t] = "delayed" -> "overflow"
                                   [] OTHER -> s.at[t]]
           o == (s.ovf + 1) % Overflows
           w == [s EXCEPT !.delayed = q.overflow, !.overflow = q.delayed,
                   !.at = [t \in Task |-> CASE @[t] = "overflow" -> "delayed"
                                      [] @[t] = "delayed" -> "overflow"
                                      [] OTHER -> @[t]],
                   !.ovf = (@ + 1) % Overflows]
           v == ResetNext(w)
           r == TickUp(q, loop)
<1>1. r = IF n # 0 THEN s ELSE v
  BY DEF TickUp
<1>2. /\ Data(s) /\ s.on = q.on /\ s.cur = q.cur /\ s.susp = q.susp /\ s.loop = loop /\ s.pendsv = q.pendsv
      /\ s.yp = q.yp /\ s.prio = q.prio /\ s.base = q.base /\ s.at = q.at
      /\ s.delayed = q.delayed /\ s.overflow = q.overflow
  <2> DEFINE f == FALSE
  <2>1. s = [q EXCEPT !.tick = n, !.loop = loop, !.sw = f, !.spent = sp]
    OBVIOUS
  <2> HIDE DEF s, sp, n, f
  <2> QED BY <2>1, ZenonT(40) DEF Data, Fields
<1>3. w = [s EXCEPT !.delayed = q.overflow, !.overflow = q.delayed, !.at = at, !.ovf = o]
  OBVIOUS
<1> HIDE DEF s, o, w
<1>4. \A u \in Task : at[u] = "ready" => s.at[u] = "ready"
  OBVIOUS
<1> HIDE DEF at
<1>5. /\ Data(w) /\ w.on = q.on /\ w.cur = q.cur /\ w.susp = q.susp /\ w.loop = loop /\ w.pendsv = q.pendsv
      /\ w.yp = q.yp /\ w.prio = q.prio /\ w.base = q.base /\ w.at = at
  BY <1>2, <1>3, ZenonT(40) DEF Data, Fields
<1>6. Quiet(w, v) /\ v.at = w.at
  BY <1>5, ResetNextQuiet, Zenon
<1> HIDE DEF v, n, r
<1>7. CASE r = s
  BY <1>2, <1>7 DEF r
<1>8. CASE r = v
  BY <1>2, <1>4, <1>5, <1>6, <1>8 DEF Quiet, r
<1> QED BY <1>1, <1>7, <1>8

LEMMA TickUpIs ==
  ASSUME NEW q, Data(q), DOMAIN q.at = Task, NEW loop, NEW r, r = TickUp(q, loop)
  PROVE  /\ r.on = q.on /\ r.cur = q.cur /\ r.susp = q.susp /\ r.loop = loop /\ r.pendsv = q.pendsv
         /\ r.yp = q.yp /\ r.prio = q.prio /\ r.base = q.base
         /\ \A u \in Task : r.at[u] = "ready" => q.at[u] = "ready"
BY TickUpFlags

LEMMA SysTickCalm ==
  ASSUME IInv, Preemption, SysTick
  PROVE  Preemption'
<1>1. k.on /\ k.loop = "none" /\ pc' = pc /\ loc' = loc
  BY DEF SysTick, Interrupts
<1>2. CASE k.susp # 0
  <2>1. k' = [k EXCEPT !.pended = k.pended + 1]
    BY <1>2 DEF SysTick
  <2>2. Calm(k, k')
    BY <2>1, DataFacts, PendedCalm, QuietSame, Zenon
  <2> QED BY <1>1, <2>2, DataCalm
<1>3. CASE k.susp = 0
  <2>1. k' = TickUp(k, "due")
    BY <1>3 DEF SysTick
  <2>2. /\ k'.on = k.on /\ k'.cur = k.cur /\ k'.susp = k.susp /\ k'.loop = "due" /\ k'.pendsv = k.pendsv
        /\ k'.yp = k.yp /\ k'.prio = k.prio /\ k'.base = k.base
        /\ \A u \in Task : k'.at[u] = "ready" => k.at[u] = "ready"
    BY <2>1, DataFacts, TickUpIs
  <2>3. Owing(k) => Owing(k')
    BY <1>1, <1>3, <2>2 DEF Owing
  <2>4. Calm(k, k')
    BY <2>2, <2>3 DEF Calm
  <2> QED BY <1>1, <2>4, DataCalm
<1> QED BY <1>2, <1>3

LEMMA ResumeFromISRCalm ==
  ASSUME IInv, Preemption, NEW x \in Task, ResumeFromISR(x)
  PROVE  Preemption'
<1> DEFINE r == AddReady(Unlist(k, x), x)
           o == Owe(r, x)
           s == YieldsTo(o, x)
<1>1. /\ k.on /\ pc' = pc /\ loc' = loc
      /\ k' = IF k.susp = 0 THEN s ELSE Pend(k, x)
  BY DEF ResumeFromISR, Interrupts
<1>2. Data(r) /\ Quiet(k, r) /\ \A u \in Task : u # x => r.at[u] = k.at[u]
  BY DataFacts, ReadyQuiet, Zenon
<1> HIDE DEF r
<1>3. Data(o) /\ Calm(r, o) /\ o.at = r.at
  BY <1>2, OweNotes, Zenon
<1> HIDE DEF o
<1>4. Calm(o, s) /\ s.at = o.at /\ (Above(o, x) => Owing(s))
  BY <1>3, YieldsToCalm, Zenon
<1> HIDE DEF s
<1>5. Calm(r, s) /\ s.at = r.at /\ (Above(r, x) => Owing(s))
  BY <1>3, <1>4, CalmTwice DEF Calm, Above
<1>6. Calm(k, s)
  BY <1>2, <1>5, RousedCalm
<1>7. Calm(k, Pend(k, x))
  BY DataFacts, PendQuiet, QuietSame, Zenon
<1>8. Calm(k, k')
  BY <1>1, <1>6, <1>7
<1> QED BY <1>1, <1>8, DataCalm

LEMMA DueCalm ==
  ASSUME IInv, k.on, Preemption, Due
  PROVE  Preemption'
<1> DEFINE t == Head(k.delayed)
           u == Unwait(Unlist(k, t), t)
           a == AddReady(u, t)
           b == a.sw \/ k.prio[t] > k.prio[k.cur]
<1>1. /\ k.loop \in {"due", "owed"} /\ pc' = pc /\ loc' = loc /\ k' = [a EXCEPT !.sw = b]
  BY DEF Due
<1> HIDE DEF t
<1>2. Data(u) /\ Quiet(k, u) /\ u.at = [k.at EXCEPT ![t] = "none"]
  BY DataFacts, UnlinkCalm, Zenon
<1> HIDE DEF u
<1>3. Data(a) /\ Quiet(u, a) /\ a.at = [u.at EXCEPT ![t] = "ready"]
  BY <1>2, AddReadyQuiet, Zenon
<1>4. (a.sw => b) /\ (Above(k, t) => b)
  BY DEF Above
<1> HIDE DEF a, b
<1>5. /\ k'.on = a.on /\ k'.cur = a.cur /\ k'.susp = a.susp /\ k'.loop = a.loop /\ k'.pendsv = a.pendsv
      /\ k'.yp = a.yp /\ k'.sw = b /\ k'.prio = a.prio /\ k'.base = a.base /\ k'.at = a.at
  BY <1>1, <1>3, ZenonT(40) DEF Data, Fields
<1>6. Owing(k) => Owing(k')
  BY <1>2, <1>3, <1>4, <1>5 DEF Quiet, Owing
<1>7. b => Owing(k')
  BY <1>1, <1>2, <1>3, <1>5 DEF Quiet, Owing
<1>8. ASSUME NEW y \in Task, k'.at[y] = "ready", k.at[y] # "ready", Above(k, y) PROVE Owing(k')
  <2>1. y = t
    BY <1>2, <1>3, <1>5, <1>8, DataFacts
  <2> QED BY <1>4, <1>7, <1>8, <2>1
<1>9. Calm(k, k')
  BY <1>2, <1>3, <1>5, <1>6, <1>8 DEF Quiet, Calm
<1> QED BY <1>1, <1>9, DataCalm

LEMMA NoneDueCalm ==
  ASSUME IInv, k.on, Preemption, NoneDue
  PROVE  Preemption'
<1> DEFINE q == IF k.tick >= k.next THEN ResetNext(k) ELSE k
           switch == k.sw \/ Slices(k) \/ k.yp
           s == q.pendsv \/ switch
           z == q.yp \/ switch
           f == FALSE
<1>1. /\ k.loop \in {"due", "owed"} /\ pc' = pc /\ loc' = loc
      /\ k' = IF k.loop = "due"
              THEN [q EXCEPT !.loop = "none", !.sw = f, !.pendsv = s]
              ELSE [q EXCEPT !.loop = "drain", !.sw = f, !.yp = z]
  BY DEF NoneDue
<1>2. Data(q) /\ Quiet(k, q) /\ q.at = k.at
  <2>1. LET r == ResetNext(k) IN Data(r) /\ Quiet(k, r) /\ r.at = k.at
    BY DataFacts, ResetNextQuiet, Zenon
  <2>2. Quiet(k, k)
    BY DEF Quiet
  <2> QED BY <2>1, <2>2, DataFacts
<1>3. (k.pendsv \/ k.sw \/ k.yp => s) /\ (k.sw \/ k.yp => z)
  BY <1>2 DEF Quiet
<1> HIDE DEF q, s, z, f
<1>4. CASE k.loop = "due"
  <2>1. k' = [q EXCEPT !.loop = "none", !.sw = f, !.pendsv = s]
    BY <1>1, <1>4
  <2>2. /\ k'.on = q.on /\ k'.cur = q.cur /\ k'.pendsv = s /\ k'.prio = q.prio /\ k'.base = q.base
        /\ k'.at = q.at
    BY <1>2, <2>1, ZenonT(40) DEF Data, Fields
  <2>3. Owing(k) => Owing(k')
    BY <1>3, <2>2 DEF Owing
  <2> QED BY <1>1, <1>2, <2>2, <2>3, DataCalm DEF Calm, Quiet
<1>5. CASE k.loop # "due"
  <2>1. k' = [q EXCEPT !.loop = "drain", !.sw = f, !.yp = z]
    BY <1>1, <1>5
  <2>2. /\ k'.on = q.on /\ k'.cur = q.cur /\ k'.pendsv = q.pendsv /\ k'.prio = q.prio /\ k'.base = q.base
        /\ k'.at = q.at /\ k'.yp = z /\ k'.loop = "drain"
    BY <1>2, <2>1, ZenonT(40) DEF Data, Fields
  <2>3. Owing(k) => Owing(k')
    BY <1>2, <1>3, <2>2 DEF Owing, Quiet
  <2> QED BY <1>1, <1>2, <2>2, <2>3, DataCalm DEF Calm, Quiet
<1> QED BY <1>4, <1>5

LEMMA DrainCalm ==
  ASSUME IInv, k.on, Preemption, Drain
  PROVE  Preemption'
<1> DEFINE t == Head(k.wait["pending"])
           u == Unwait(k, t)
           r == AddReady(Unlist(u, t), t)
           o == Owe(r, t)
<1>1. k.loop = "drain" /\ pc' = pc /\ loc' = loc /\ k' = ResetNext(o)
  BY DEF Drain
<1> HIDE DEF t
<1>2. Data(u) /\ Quiet(k, u) /\ u.at = k.at
  BY DataFacts, UnwaitQuiet, Zenon
<1> HIDE DEF u
<1>3. Data(r) /\ Quiet(u, r) /\ \A y \in Task : y # t => r.at[y] = u.at[y]
  <2>1. DOMAIN u.at = Task
    BY <1>2, DataFacts
  <2>2. r = AddReady(Unlist(u, t), t)
    OBVIOUS
  <2> HIDE DEF r
  <2> QED BY <1>2, <2>1, <2>2, ReadyIs
<1> HIDE DEF r
<1>4. Data(o) /\ Calm(r, o) /\ o.at = r.at /\ o.loop = r.loop /\ (Above(r, t) => o.yp)
  BY <1>3, OweNotes, Zenon
<1> HIDE DEF o
<1>5. o.loop = "drain"
  BY <1>1, <1>2, <1>3, <1>4 DEF Quiet
<1>6. Above(r, t) => Owing(o)
  BY <1>4, <1>5 DEF Owing
<1>7. Quiet(k, r) /\ \A y \in Task : y # t => r.at[y] = k.at[y]
  BY <1>2, <1>3, QuietTwice
<1>8. Calm(k, o)
  BY <1>4, <1>6, <1>7, RousedCalm
<1>9. Calm(o, k')
  BY <1>1, <1>4, ResetNextCalm, Zenon
<1>10. Calm(k, k')
  BY <1>8, <1>9, CalmTwice
<1> QED BY <1>1, <1>10, DataCalm

LEMMA CatchUpCalm ==
  ASSUME IInv, k.on, Preemption, CatchUp
  PROVE  Preemption'
<1> DEFINE n == k.pended - 1
           q == [k EXCEPT !.pended = n]
<1>1. k.loop = "drain" /\ pc' = pc /\ loc' = loc /\ k' = TickUp(q, "owed")
  BY DEF CatchUp
<1> HIDE DEF n
<1>2. Data(q) /\ Quiet(k, q) /\ q.at = k.at
  BY DataFacts, PendedCalm, Zenon
<1> HIDE DEF q
<1>3. DOMAIN q.at = Task
  BY <1>2, DataFacts
<1>4. /\ k'.on = q.on /\ k'.cur = q.cur /\ k'.susp = q.susp /\ k'.loop = "owed" /\ k'.pendsv = q.pendsv
      /\ k'.yp = q.yp /\ k'.prio = q.prio /\ k'.base = q.base
      /\ \A u \in Task : k'.at[u] = "ready" => q.at[u] = "ready"
  BY <1>1, <1>2, <1>3, TickUpIs
<1>5. Owing(k) => Owing(k')
  BY <1>1, <1>2, <1>4 DEF Owing, Quiet
<1>6. Calm(k, k')
  BY <1>2, <1>4, <1>5 DEF Calm, Quiet
<1> QED BY <1>1, <1>6, DataCalm

LEMMA DrainedCalm ==
  ASSUME IInv, k.on, Preemption, Drained
  PROVE  Preemption'
<1> DEFINE t == k.cur
           y == k.yp
           m == [loc[t] EXCEPT !.yielded = y]
           s == k.pendsv \/ k.yp
<1>1. /\ k.loop = "drain" /\ pc' = pc /\ loc' = [loc EXCEPT ![t] = m]
      /\ k' = [k EXCEPT !.loop = "none", !.pendsv = s]
  BY DEF Drained
<1>2. k.pendsv \/ k.yp => s
  OBVIOUS
<1>3. t \in Task
  BY SuspNat
<1> HIDE DEF y, s, t
<1>4. Keeps(loc[t], m) /\ m.then = loc[t].then
  BY <1>3, LocalFields, YieldedKeeps
<1> HIDE DEF m
<1>5. Becomes(t, pc[t], m)
  BY <1>1, <1>3, Domains DEF Becomes
<1>6. Plain(pc[t], m)
  <2> DEFINE p == pc[t]
             l == loc[t]
  <2>1. Plain(p, l) /\ p \notin {"inherit", "disinherit"}
    BY <1>3, PlainOf DEF Plain
  <2> HIDE DEF p, l
  <2>2. Keeps(l, m) /\ m.then = l.then
    BY <1>4 DEF l
  <2>3. Plain(p, m)
    BY <2>1, <2>2, PlainGoesOn DEF Keeps, Uses
  <2> QED BY <2>3 DEF p
<1>7. /\ k'.on = k.on /\ k'.cur = k.cur /\ k'.pendsv = s /\ k'.prio = k.prio /\ k'.base = k.base
      /\ k'.at = k.at
  BY <1>1, DataFacts, ZenonT(40) DEF Data, Fields
<1>8. Owing(k) => Owing(k')
  BY <1>1, <1>2, <1>7 DEF Owing
<1>9. Calm(k, k')
  BY <1>7, <1>8 DEF Calm
<1> QED BY <1>3, <1>5, <1>6, <1>9, CallCalm

-----------------------------------------------------------------------------
(* The calls on queues.                                                    *)

LEMMA CallFresh ==
  ASSUME IInv, Preemption, NEW t \in Task, NEW api, NEW o, Kind[o] # "mutex", NEW v, NEW n, Call(t, api, o, v, n)
  PROVE  Preemption'
<1> DEFINE c == [NoCall EXCEPT !.obj = o, !.val = v, !.ticks = n, !.asked = n]
           l == [c EXCEPT !.api = api]
<1>1. k.on /\ Becomes(t, "try", l) /\ k' = Timing(k, t)
  BY Calls, Zenon DEF Call
<1>2. DOMAIN l = DOMAIN NoCall /\ l.obj = o /\ l.inherited = NoCall.inherited
  BY NoCallPlan
<1> HIDE DEF l
<1>3. "inherited" \in DOMAIN l /\ ~l.inherited
  BY <1>2, NoCallPlain, Zenon
<1>4. Plain("try", l)
  BY <1>2, <1>3 DEF Plain, Uses, InQueue
<1> DEFINE q == Timing(k, t)
<1>5. Data(q) /\ Quiet(k, q) /\ q.at = k.at
  BY DataFacts, TimingCalm, Zenon
<1> HIDE DEF q
<1>6. Calm(k, q)
  BY <1>5, QuietSame
<1>7. Calm(k, k')
  BY <1>1, <1>6 DEF q
<1> QED BY <1>1, <1>4, <1>7, CallCalm

LEMMA NoMutex == ASSUME MutexFree, NEW t \in Task, NEW o \in scene.uses[t] PROVE Kind[o] # "mutex"
BY DEF MutexFree

LEMMA EntriesCalm ==
  ASSUME IInv, MutexFree, Preemption, NEW t \in Task, Send(t) \/ Give(t) \/ Receive(t) \/ Take(t)
  PROVE  Preemption'
<1>1. CASE Send(t)
  BY <1>1, NoMutex, CallFresh DEF Send
<1>2. CASE Give(t)
  BY <1>2, NoMutex, CallFresh DEF Give
<1>3. CASE Receive(t)
  BY <1>3, NoMutex, CallFresh DEF Receive
<1>4. CASE Take(t)
  BY <1>4, NoMutex, CallFresh DEF Take
<1> QED BY <1>1, <1>2, <1>3, <1>4

LEMMA ResetCalm ==
  ASSUME IInv, Preemption, NEW t \in Task, Reset(t)
  PROVE  Preemption'
<1>1. PICK o : Simple(t, "reset", WakeFirst(k, TxList[o]))
  BY Zenon DEF Reset
<1>2. Calm(k, WakeFirst(k, TxList[o]))
  BY DataFacts, WakeFirstCalm
<1> QED BY <1>1, <1>2, SimpleCalm, Zenon

\* What a call on a queue knows of itself.
LEMMA OnPlain ==
  ASSUME Preemption, NEW t \in Task, pc[t] \in InQueue
  PROVE  /\ Kind[loc[t].obj] # "mutex" /\ "inherited" \in DOMAIN loc[t] /\ ~loc[t].inherited
         /\ pc[t] \notin {"inherit", "disinherit"}
BY PlainOf DEF Plain, Uses

LEMMA GoesOnPlain ==
  ASSUME Preemption, NEW t \in Task, pc[t] \in InQueue, NEW m, Keeps(loc[t], m),
         NEW p, p \notin {"inherit", "disinherit"}
  PROVE  Plain(p, m)
<1>1. ~m.inherited /\ "inherited" \in DOMAIN m /\ m.obj = loc[t].obj
  BY OnPlain, Zenon DEF Keeps
<1> QED BY <1>1, OnPlain DEF Plain

LEMMA SentCalm ==
  ASSUME IInv, Preemption, NEW t \in Task, Sent(t)
  PROVE  Preemption'
<1>1. Return(t, "try") /\ pc[t] \in InQueue
  BY DEF Sent, Return, Go, InQueue
<1>2. k' = WakeFirst(k, RxList[loc[t].obj])
  BY <1>1, OnPlain DEF Sent
<1>3. Calm(k, k')
  BY <1>2, DataFacts, WakeFirstCalm
<1> QED BY <1>1, <1>3, ReturnCalm

LEMMA ReceivedCalm ==
  ASSUME IInv, Preemption, NEW t \in Task, Received(t)
  PROVE  Preemption'
<1>1. Return(t, "try") /\ pc[t] \in InQueue
  BY DEF Received, Return, Go, InQueue
<1>2. k' = WakeFirst(k, TxList[loc[t].obj])
  BY <1>1, OnPlain DEF Received
<1>3. Calm(k, k')
  BY <1>2, DataFacts, WakeFirstCalm
<1> QED BY <1>1, <1>3, ReturnCalm

LEMMA PeekedCalm ==
  ASSUME IInv, Preemption, NEW t \in Task, Peeked(t) \/ Refused(t)
  PROVE  Preemption'
<1>1. Return(t, "try")
  BY DEF Peeked, Refused
<1>2. Calm(k, k')
  BY DataFacts, WakeFirstCalm, CalmItself DEF Peeked, Refused
<1> QED BY <1>1, <1>2, ReturnCalm

LEMMA StartedKeeps ==
  ASSUME NEW l, Call3 \cup CallFields \subseteq DOMAIN l, NEW e
  PROVE  Keeps(l, Started(l, e))
<1> DEFINE y == TRUE
           m == [l EXCEPT !.timed = y, !.entry = e]
<1> HIDE DEF y
<1>1. Keeps(l, m)
  BY DEF Keeps, Call3
<1> HIDE DEF m
<1>2. m = Started(l, e)
  BY Zenon DEF m, y, Started
<1> QED BY <1>1, <1>2

LEMMA StartWaitCalm ==
  ASSUME IInv, Preemption, NEW t \in Task, StartWait(t)
  PROVE  Preemption'
<1> DEFINE l == loc[t]
           e == IF l.ticks = MaxTick THEN l.entry ELSE Now
           n == Started(l, e)
           q == Timing(k, t)
<1>1. Go(t, "try", "hold") /\ pc[t] \in InQueue
  BY DEF StartWait, Go, InQueue
<1>2. \/ loc' = loc /\ k' = k
      \/ loc' = [loc EXCEPT ![t] = n] /\ k' = q
  BY Zenon DEF StartWait, Started
<1>3. Keeps(l, n)
  BY LocalFields, StartedKeeps
<1> HIDE DEF n
<1>4. Data(q) /\ Quiet(k, q) /\ q.at = k.at
  BY DataFacts, TimingCalm, Zenon
<1> HIDE DEF q
<1>5. Calm(k, k')
  BY <1>2, <1>4, QuietSame, CalmItself
<1>6. Plain("hold", n)
  BY <1>1, <1>3, GoesOnPlain
<1>7. CASE loc' = [loc EXCEPT ![t] = n]
  <2>1. k.on /\ Becomes(t, "hold", n)
    BY <1>1, <1>7, GoesOn, Zenon
  <2> QED BY <1>5, <1>6, <2>1, CallCalm
<1>8. CASE loc' = loc
  <2>1. Keeps(l, l)
    BY LocalFields DEF Keeps, Call3
  <2>2. Plain("hold", l)
    BY <1>1, <2>1, GoesOnPlain
  <2> QED BY <1>1, <1>5, <1>8, <2>2, GoCalm
<1> QED BY <1>2, <1>7, <1>8

LEMMA HoldCalm ==
  ASSUME IInv, Preemption, NEW t \in Task, Hold(t) \/ LockQueue(t)
  PROVE  Preemption'
<1>1. PICK from \in {"hold", "lock"}, p \in {"lock", "check"} : Go(t, from, p) /\ loc' = loc
  BY DEF Hold, LockQueue
<1>2. pc[t] \in InQueue
  BY <1>1 DEF Go, InQueue
<1>3. Keeps(loc[t], loc[t])
  BY LocalFields DEF Keeps, Call3
<1>4. Plain(p, loc[t])
  BY <1>2, <1>3, GoesOnPlain
<1>5. Calm(k, SuspendedAll(k))
  BY DataFacts, SuspendCalm
<1>6. Calm(k, k')
  BY <1>5, CalmItself DEF Hold, LockQueue
<1> QED BY <1>1, <1>4, <1>6, GoCalm

LEMMA EndedKeeps ==
  ASSUME NEW l, Call3 \cup CallFields \subseteq DOMAIN l, NEW x
  PROVE  Keeps(l, Ended(l, x))
<1> DEFINE y == FALSE
           m == [l EXCEPT !.ticks = 0, !.yields = y, !.then = x]
<1> HIDE DEF y
<1>1. Keeps(l, m)
  BY DEF Keeps, Call3
<1> HIDE DEF m
<1>2. m = Ended(l, x)
  BY Zenon DEF m, y, Ended
<1> QED BY <1>1, <1>2

LEMMA LeftKeeps ==
  ASSUME NEW l, Call3 \cup CallFields \subseteq DOMAIN l, NEW x, NEW e
  PROVE  Keeps(l, Left(l, x, e))
BY DEF Keeps, Call3, Left

LEMMA ItselfKeeps == ASSUME NEW l, Call3 \cup CallFields \subseteq DOMAIN l PROVE Keeps(l, l)
BY DEF Keeps, Call3

\* The call goes on, and the kernel stands still.
LEMMA MoveCalm ==
  ASSUME IInv, Preemption, NEW t \in Task, NEW from \in InQueue, NEW p, Go(t, from, p),
         p \notin {"inherit", "disinherit"}, NEW m, Keeps(loc[t], m), loc' = [loc EXCEPT ![t] = m], Calm(k, k')
  PROVE  Preemption'
<1>1. k.on /\ pc[t] \in InQueue /\ Becomes(t, p, m)
  BY GoesOn, Zenon
<1>2. Plain(p, m)
  BY <1>1, GoesOnPlain
<1> QED BY <1>1, <1>2, CallCalm

LEMMA CheckForTimeOutCalm ==
  ASSUME IInv, Preemption, NEW t \in Task, CheckForTimeOut(t)
  PROVE  Preemption'
<1> DEFINE l == loc[t]
           x == IF l.api \in Sends THEN "app" ELSE "expired"
           a == Ended(l, x)
           e == Elapsed(l.entry)
           n == Left(l, l.ticks - e, Now)
           b == StillWaiting(l)
<1>0. Call3 \cup CallFields \subseteq DOMAIN l
  BY LocalFields
<1>1. \/ Go(t, "check", "untx") /\ loc' = [loc EXCEPT ![t] = a]
      \/ Go(t, "check", "test") /\ loc' = [loc EXCEPT ![t] = b]
  BY Zenon DEF CheckForTimeOut, Ended
<1>2. b = l \/ b = n
  BY DEF StillWaiting, Left
<1>3. Keeps(l, a) /\ Keeps(l, n) /\ Keeps(l, l)
  BY <1>0, EndedKeeps, LeftKeeps, ItselfKeeps
<1>4. Calm(k, k')
  BY CalmItself DEF CheckForTimeOut
<1> HIDE DEF a, b, n
<1>5. Keeps(l, b)
  BY <1>2, <1>3
<1>6. "check" \in InQueue
  BY DEF InQueue
<1> HIDE DEF l
<1>7. CASE Go(t, "check", "untx") /\ loc' = [loc EXCEPT ![t] = a]
  BY <1>3, <1>4, <1>6, <1>7, MoveCalm, Zenon DEF l
<1>8. CASE Go(t, "check", "test") /\ loc' = [loc EXCEPT ![t] = b]
  BY <1>4, <1>5, <1>6, <1>8, MoveCalm, Zenon DEF l
<1> QED BY <1>1, <1>7, <1>8

LEMMA TryingKeeps ==
  ASSUME NEW l, Call3 \cup CallFields \subseteq DOMAIN l
  PROVE  Keeps(l, Trying(l))
<1> DEFINE y == FALSE
           m == [l EXCEPT !.then = "try", !.yields = y]
<1> HIDE DEF y
<1>1. Keeps(l, m)
  BY DEF Keeps, Call3
<1> HIDE DEF m
<1>2. m = Trying(l)
  BY Zenon DEF m, y, Trying
<1> QED BY <1>1, <1>2

LEMMA WaitingKeeps ==
  ASSUME NEW l, Call3 \cup CallFields \subseteq DOMAIN l
  PROVE  Keeps(l, Waiting(l))
<1> DEFINE y == TRUE
           m == [l EXCEPT !.then = "try", !.yields = y]
<1> HIDE DEF y
<1>1. Keeps(l, m)
  BY DEF Keeps, Call3
<1> HIDE DEF m
<1>2. m = Waiting(l)
  BY Zenon DEF m, y, Waiting
<1> QED BY <1>1, <1>2

LEMMA TestCalm ==
  ASSUME IInv, Preemption, NEW t \in Task, Test(t)
  PROVE  Preemption'
<1> DEFINE l == loc[t]
           m == Trying(l)
<1>0. pc[t] \in InQueue /\ "test" \in InQueue
  BY DEF Test, InQueue
<1>1. Kind[l.obj] # "mutex"
  BY <1>0, OnPlain
<1>2. \/ Go(t, "test", "place") /\ loc' = loc
      \/ Go(t, "test", "untx") /\ loc' = [loc EXCEPT ![t] = m]
  BY <1>1, Zenon DEF Test, Trying
<1>3. Calm(k, k')
  BY CalmItself DEF Test
<1>4. Keeps(l, m) /\ Keeps(l, l)
  BY LocalFields, TryingKeeps, ItselfKeeps
<1> HIDE DEF m
<1>5. Plain("place", l)
  BY <1>0, <1>4, GoesOnPlain
<1>6. CASE Go(t, "test", "place") /\ loc' = loc
  BY <1>3, <1>5, <1>6, GoCalm
<1>7. CASE Go(t, "test", "untx") /\ loc' = [loc EXCEPT ![t] = m]
  BY <1>0, <1>3, <1>4, <1>7, MoveCalm, Zenon
<1> QED BY <1>2, <1>6, <1>7

LEMMA PlaceOnCalm ==
  ASSUME NEW q, Data(q), NEW l, NEW n, DOMAIN q.at = Task
  PROVE  Calm(q, PlaceOnEventList(q, l, n))
<1> DEFINE w == InsertSorted(q.wait[l], q.cur, [u \in Task |-> MaxPrio - q.evp[u]])
           t == q.cur
           p == [q EXCEPT !.wait[l] = w, !.ev[t] = l]
           y == TRUE
<1>1. PlaceOnEventList(q, l, n) = AddCurrentToDelayed(p, n, y)
  BY DEF PlaceOnEventList
<1> HIDE DEF w, t, y
<1>2. Data(p) /\ Quiet(q, p) /\ p.at = q.at
  BY ZenonT(40) DEF Data, Fields, Quiet
<1> HIDE DEF p
<1>3. Calm(p, AddCurrentToDelayed(p, n, y))
  BY <1>2, AddCurrentCalm
<1>4. Calm(q, p)
  BY <1>2, QuietSame
<1> QED BY <1>1, <1>3, <1>4, CalmTwice

LEMMA PlaceCalm ==
  ASSUME IInv, Preemption, NEW t \in Task, Place(t)
  PROVE  Preemption'
<1> DEFINE m == Waiting(loc[t])
<1>1. Go(t, "place", "untx") /\ loc' = [loc EXCEPT ![t] = m] /\ k' = PlaceOnEventList(k, WaitsIn(loc[t]), loc[t].ticks)
  BY Zenon DEF Place, Waiting
<1>2. Keeps(loc[t], m)
  BY LocalFields, WaitingKeeps
<1> HIDE DEF m
<1>3. Calm(k, k')
  BY <1>1, DataFacts, PlaceOnCalm
<1>4. "place" \in InQueue
  BY DEF InQueue
<1> QED BY <1>1, <1>2, <1>3, <1>4, MoveCalm, Zenon

-----------------------------------------------------------------------------
(* Releasing the scheduler, the tick, the interrupts and notifications.   *)

LEMMA LoopCalm ==
  ASSUME NEW q, Data(q), q.loop \notin {"drain", "due", "owed"}, q.susp # 0, NEW x
  PROVE  Calm(q, [q EXCEPT !.loop = x])
<1> DEFINE r == [q EXCEPT !.loop = x]
<1>1. /\ r.on = q.on /\ r.cur = q.cur /\ r.susp = q.susp /\ r.pendsv = q.pendsv
      /\ r.yp = q.yp /\ r.prio = q.prio /\ r.base = q.base /\ r.at = q.at
  BY ZenonT(40) DEF Data, Fields
<1> HIDE DEF r
<1>2. Owing(q) => Owing(r)
  BY <1>1 DEF Owing
<1> QED BY <1>1, <1>2 DEF Calm, r

\* One turn of the unlocking.
LEMMA UnlockCalm ==
  ASSUME IInv, Preemption, NEW t \in Task, NEW at \in {"untx", "unrx"}, Unlocks(t, at), NEW l,
         NEW x, NEW p \in {"untx", "unrx", "resume"}, Becomes(t, p, loc[t]),
         \/ k' = [RemoveFromEventList(k, l) EXCEPT !.loop = x]
         \/ k' = [k EXCEPT !.loop = x]
  PROVE  Preemption'
<1>1. k.on /\ k.cur = t /\ pc[t] = at /\ loc' = loc /\ k.loop \notin {"drain", "due", "owed"}
  BY DEF Unlocks
<1>2. k.susp # 0
  BY <1>1 DEF IInv, Control, CurrentOK, Guarded, Alone
<1>3. pc[t] \in InQueue
  BY <1>1 DEF InQueue
<1>4. Keeps(loc[t], loc[t])
  BY LocalFields, ItselfKeeps
<1>5. Plain(p, loc[t])
  BY <1>3, <1>4, GoesOnPlain
<1> DEFINE r == RemoveFromEventList(k, l)
<1>7. Data(r) /\ Calm(k, r) /\ r.susp = k.susp /\ r.loop = k.loop
  BY <1>2, DataFacts, RemovedCalm, RemovedIs, Zenon
<1> HIDE DEF r
<1>8. Calm(k, k')
  <2>1. CASE k' = [r EXCEPT !.loop = x]
    <3>1. Calm(r, k')
      BY <1>1, <1>2, <1>7, <2>1, LoopCalm
    <3> QED BY <1>7, <3>1, CalmTwice
  <2>2. CASE k' = [k EXCEPT !.loop = x]
    BY <1>1, <1>2, <2>2, DataFacts, LoopCalm
  <2> QED BY <2>1, <2>2 DEF r
<1> QED BY <1>1, <1>5, <1>8, CallCalm

LEMMA UnlocksCalm ==
  ASSUME IInv, Preemption, NEW t \in Task, UnlockTx(t) \/ UnlockRx(t)
  PROVE  Preemption'
<1>0. DOMAIN pc = Task /\ DOMAIN loc = Task
  BY Domains
<1>1. CASE UnlockTx(t)
  <2>1. Unlocks(t, "untx") /\ pc[t] = "untx"
    BY <1>1 DEF UnlockTx, Unlocks
  <2>2. \/ k' = [RemoveFromEventList(k, RxList[loc[t].obj]) EXCEPT !.loop = "unlock"] /\ pc' = pc
        \/ k' = [k EXCEPT !.loop = "none"] /\ pc' = [pc EXCEPT ![t] = "unrx"]
    BY <1>1, Zenon DEF UnlockTx
  <2>4. CASE k' = [RemoveFromEventList(k, RxList[loc[t].obj]) EXCEPT !.loop = "unlock"] /\ pc' = pc
    <3>1. Becomes(t, "untx", loc[t])
      BY <1>0, <2>1, <2>4 DEF Becomes, Unlocks
    <3>2. k' = [RemoveFromEventList(k, RxList[loc[t].obj]) EXCEPT !.loop = "unlock"]
      BY <2>4
    <3> QED BY <2>1, <3>1, <3>2, UnlockCalm, Zenon
  <2>5. CASE k' = [k EXCEPT !.loop = "none"] /\ pc' = [pc EXCEPT ![t] = "unrx"]
    <3>1. Becomes(t, "unrx", loc[t])
      BY <1>0, <2>1, <2>5 DEF Becomes, Unlocks
    <3>2. k' = [k EXCEPT !.loop = "none"]
      BY <2>5
    <3> QED BY <2>1, <3>1, <3>2, UnlockCalm, Zenon
  <2> QED BY <2>2, <2>4, <2>5
<1>2. CASE UnlockRx(t)
  <2>1. Unlocks(t, "unrx") /\ pc[t] = "unrx"
    BY <1>2 DEF UnlockRx, Unlocks
  <2>2. \/ k' = [RemoveFromEventList(k, TxList[loc[t].obj]) EXCEPT !.loop = "unlock"] /\ pc' = pc
        \/ k' = [k EXCEPT !.loop = "none"] /\ pc' = [pc EXCEPT ![t] = "resume"]
    BY <1>2, Zenon DEF UnlockRx
  <2>4. CASE k' = [RemoveFromEventList(k, TxList[loc[t].obj]) EXCEPT !.loop = "unlock"] /\ pc' = pc
    <3>1. Becomes(t, "unrx", loc[t])
      BY <1>0, <2>1, <2>4 DEF Becomes, Unlocks
    <3>2. k' = [RemoveFromEventList(k, TxList[loc[t].obj]) EXCEPT !.loop = "unlock"]
      BY <2>4
    <3> QED BY <2>1, <3>1, <3>2, UnlockCalm, Zenon
  <2>5. CASE k' = [k EXCEPT !.loop = "none"] /\ pc' = [pc EXCEPT ![t] = "resume"]
    <3>1. Becomes(t, "resume", loc[t])
      BY <1>0, <2>1, <2>5 DEF Becomes, Unlocks
    <3>2. k' = [k EXCEPT !.loop = "none"]
      BY <2>5
    <3> QED BY <2>1, <3>1, <3>2, UnlockCalm, Zenon
  <2> QED BY <2>2, <2>4, <2>5
<1> QED BY <1>1, <1>2

LEMMA ExpiredCalm ==
  ASSUME IInv, Preemption, NEW t \in Task, Expired(t)
  PROVE  Preemption'
<1>1. pc[t] \in InQueue /\ k' = k
  BY DEF Expired, InQueue
<1>2. ~loc[t].inherited
  BY <1>1, OnPlain, Zenon
<1>3. Return(t, "expired") \/ (Go(t, "expired", "try") /\ loc' = loc)
  BY <1>2 DEF Expired
<1>4. Keeps(loc[t], loc[t])
  BY LocalFields, ItselfKeeps
<1>5. Plain("try", loc[t])
  BY <1>1, <1>4, GoesOnPlain
<1>6. Calm(k, k')
  BY <1>1, CalmItself
<1> QED BY <1>3, <1>5, <1>6, GoCalm, ReturnCalm

LEMMA NeverInherits ==
  ASSUME IInv, Preemption, NEW t \in Task, Inherit(t) \/ Disinherit(t)
  PROVE  FALSE
BY PlainOf DEF Inherit, Disinherit, Return, Go, Plain

LEMMA FromISRCalm ==
  ASSUME IInv, Preemption, NEW o, \/ \E where, m : SendFromISR(o, where, m)
                                  \/ GiveFromISR(o) \/ ReceiveFromISR(o)
  PROVE  Preemption'
<1>1. k.on /\ pc' = pc /\ loc' = loc
  BY DEF SendFromISR, GiveFromISR, ReceiveFromISR, Interrupts
<1>2. k' = k \/ \E l : k' = WakeFirst(k, l)
  BY Zenon DEF SendFromISR, GiveFromISR, ReceiveFromISR
<1>3. Calm(k, k')
  BY <1>2, DataFacts, WakeFirstCalm, CalmItself
<1> QED BY <1>1, <1>3, DataCalm

LEMMA QueueNextCalm ==
  ASSUME IInv, MutexFree, Preemption, QueueNext
  PROVE  Preemption'
<1>1. CASE QueueHandlers
  BY <1>1, FromISRCalm DEF QueueHandlers
<1>2. ASSUME NEW t \in Task, QueueStep(t) PROVE Preemption'
  <2>1. CASE Send(t) \/ Give(t) \/ Receive(t) \/ Take(t)
    BY <2>1, EntriesCalm
  <2>2. CASE Reset(t)
    BY <2>2, ResetCalm
  <2>3. CASE Sent(t) \/ Received(t) \/ Peeked(t) \/ Refused(t)
    BY <2>3, SentCalm, ReceivedCalm, PeekedCalm
  <2>4. CASE StartWait(t) \/ Hold(t) \/ LockQueue(t) \/ CheckForTimeOut(t) \/ Test(t)
    BY <2>4, StartWaitCalm, HoldCalm, CheckForTimeOutCalm, TestCalm
  <2>5. CASE Inherit(t) \/ Place(t) \/ UnlockTx(t) \/ UnlockRx(t) \/ Expired(t) \/ Disinherit(t)
    BY <2>5, NeverInherits, PlaceCalm, UnlocksCalm, ExpiredCalm
  <2> QED BY <1>2, <2>1, <2>2, <2>3, <2>4, <2>5 DEF QueueStep
<1> QED BY <1>1, <1>2 DEF QueueNext

-----------------------------------------------------------------------------
(* Notifications.                                                          *)

LEMMA NotifyWaitCalm ==
  ASSUME IInv, Preemption, NEW t \in Task, NotifyWait(t)
  PROVE  Preemption'
<1>1. PICK api, n, b : /\ Enter(t, api, [NoCall EXCEPT !.val = b, !.ticks = n, !.asked = n], "nlook")
                       /\ k' = Timing(k, t)
  BY Zenon DEF NotifyWait
<1> DEFINE c == [NoCall EXCEPT !.val = b, !.ticks = n, !.asked = n]
           l == [c EXCEPT !.api = api]
           q == Timing(k, t)
<1>2. k.on /\ Becomes(t, "nlook", l)
  BY <1>1, Calls, Zenon
<1>3. DOMAIN l = DOMAIN NoCall /\ l.then = NoCall.then /\ l.inherited = NoCall.inherited
  BY NoCallPlan
<1> HIDE DEF l
<1>4. "inherited" \in DOMAIN l /\ ~l.inherited
  BY <1>3, NoCallPlain, Zenon
<1>5. Plain("nlook", l)
  BY <1>3, <1>4, NoCallPlan, PlainFresh DEF Fresh, Aside
<1>6. Data(q) /\ Quiet(k, q) /\ q.at = k.at
  BY DataFacts, TimingCalm, Zenon
<1> HIDE DEF q
<1>7. Calm(k, q)
  BY <1>6, QuietSame
<1>8. Calm(k, k')
  BY <1>1, <1>7 DEF q
<1> QED BY <1>2, <1>5, <1>8, CallCalm

LEMMA LookCalm ==
  ASSUME IInv, Preemption, NEW t \in Task, Look(t)
  PROVE  Preemption'
<1>1. PICK p \in {"nend", "nhold"} : Go(t, "nlook", p) /\ loc' = loc /\ k' = k
  BY DEF Look
<1>2. Plain(p, loc[t])
  BY PlainOf, PlainAside DEF Aside
<1> QED BY <1>1, <1>2, CalmItself, GoCalm

LEMMA ThenKeeps ==
  ASSUME NEW l, Call3 \cup CallFields \subseteq DOMAIN l, NEW x
  PROVE  LET m == [l EXCEPT !.then = x] IN Keeps(l, m) /\ m.then = x
BY DEF Keeps, Call3

LEMMA YieldsKeeps ==
  ASSUME NEW l, Call3 \cup CallFields \subseteq DOMAIN l, NEW x
  PROVE  LET m == [l EXCEPT !.yields = x] IN Keeps(l, m) /\ m.then = l.then
BY DEF Keeps, Call3

LEMMA HoldToArmCalm ==
  ASSUME IInv, Preemption, NEW t \in Task, HoldToArm(t)
  PROVE  Preemption'
<1> DEFINE m == [loc[t] EXCEPT !.then = "nend"]
<1>1. Go(t, "nhold", "narm") /\ loc' = [loc EXCEPT ![t] = m] /\ k' = SuspendedAll(k)
  BY Zenon DEF HoldToArm
<1>2. Keeps(loc[t], m) /\ m.then = "nend"
  BY LocalFields, ThenKeeps
<1> HIDE DEF m
<1>3. k.on /\ Becomes(t, "narm", m)
  BY <1>1, GoesOn, Zenon
<1>4. "inherited" \in DOMAIN m /\ ~m.inherited
  <2>1. ~loc[t].inherited
    BY PlainOf, Zenon DEF Plain
  <2> QED BY <1>2, <2>1 DEF Keeps
<1>5. Plain("narm", m)
  BY <1>2, <1>4, PlainFresh DEF Fresh, Aside
<1>6. Calm(k, k')
  BY <1>1, DataFacts, SuspendCalm
<1> QED BY <1>3, <1>5, <1>6, CallCalm

LEMMA ArmCalm ==
  ASSUME IInv, Preemption, NEW t \in Task, Arm(t)
  PROVE  Preemption'
<1> DEFINE l == loc[t]
           y == ~Noted(t)
           m == [l EXCEPT !.yields = y]
           v == IF l.api = "nwait" THEN Cleared(k.nv[t], l.val) ELSE k.nv[t]
           r == [k EXCEPT !.ns[t] = "waiting", !.nv[t] = v]
<1>1. PICK p \in {"resume", "nplace"} : Go(t, "narm", p) /\ pc[t] = "narm" /\ loc' = [loc EXCEPT ![t] = m]
  BY DEF Arm, Go
<1>2. k' = k \/ k' = r
  BY DEF Arm
<1> HIDE DEF y, v
<1>3. Keeps(l, m) /\ m.then = l.then
  BY LocalFields, YieldsKeeps
<1> HIDE DEF m
<1>4. k.on /\ Becomes(t, p, m)
  BY <1>1, GoesOn, Zenon
<1>5. l.then = "nend"
  BY <1>1, TaskFacts DEF PlanOK
<1>6. "inherited" \in DOMAIN m /\ ~m.inherited
  <2>1. ~l.inherited
    BY PlainOf, Zenon DEF Plain
  <2> QED BY <1>3, <2>1 DEF Keeps
<1>7. Plain(p, m)
  BY <1>3, <1>5, <1>6, PlainFresh DEF Fresh, Aside
<1>8. Data(r) /\ Quiet(k, r) /\ r.at = k.at
  BY DataFacts, ZenonT(40) DEF Data, Fields, Quiet
<1> HIDE DEF r
<1>9. Calm(k, k')
  BY <1>2, <1>8, QuietSame, CalmItself
<1> QED BY <1>4, <1>7, <1>9, CallCalm

LEMMA FileToWaitCalm ==
  ASSUME IInv, Preemption, NEW t \in Task, FileToWait(t)
  PROVE  Preemption'
<1> DEFINE y == TRUE
<1>1. Go(t, "nplace", "resume") /\ loc' = loc /\ pc[t] = "nplace" /\ k' = AddCurrentToDelayed(k, loc[t].ticks, y)
  BY DEF FileToWait, Go
<1> HIDE DEF y
<1>2. loc[t].then = "nend"
  BY <1>1, TaskFacts DEF PlanOK
<1>3. Plain("resume", loc[t])
  BY <1>1, <1>2, PlainOf DEF Plain, Uses, InQueue
<1>4. Calm(k, k')
  BY <1>1, DataFacts, AddCurrentCalm
<1> QED BY <1>1, <1>3, <1>4, GoCalm

LEMMA NotifyEndsCalm ==
  ASSUME IInv, Preemption, NEW t \in Task, NotifyEnds(t)
  PROVE  Preemption'
<1> DEFINE v == k.nv[t]
           left == CASE loc[t].api = "ntake" /\ v = 0 -> 0
                   [] loc[t].api = "ntake" -> IF loc[t].val = 1 THEN 0 ELSE v - 1
                   [] OTHER -> IF k.ns[t] = "received" THEN Cleared(v, loc[t].val) ELSE v
           r == [k EXCEPT !.ns[t] = "not", !.nv[t] = left]
<1>1. loc[t].back = "app"
  BY PlanFields
<1>2. Return(t, "nend") /\ k' = r
  BY <1>1 DEF NotifyEnds, Return
<1> HIDE DEF left
<1>3. Data(r) /\ Quiet(k, r) /\ r.at = k.at
  BY DataFacts, ZenonT(40) DEF Data, Fields, Quiet
<1> HIDE DEF r
<1>4. Calm(k, k')
  BY <1>2, <1>3, QuietSame
<1> QED BY <1>2, <1>4, ReturnCalm

LEMMA GivenCalm ==
  ASSUME NEW q, Data(q), NEW x, NEW a, NEW v
  PROVE  LET r == Given(q, x, a, v) IN Data(r) /\ Quiet(q, r) /\ r.at = q.at
<1> DEFINE n == NewValue(q, x, a, v)
           r == [q EXCEPT !.ns[x] = "received", !.nv[x] = n]
<1>1. Given(q, x, a, v) = r
  BY DEF Given
<1> HIDE DEF n
<1>2. Data(r) /\ Quiet(q, r) /\ r.at = q.at
  BY ZenonT(40) DEF Data, Fields, Quiet
<1> HIDE DEF r
<1> QED BY <1>1, <1>2

LEMMA NotifiedCalm ==
  ASSUME NEW q, Data(q), DOMAIN q.at = Task, NEW x, NEW a, NEW v
  PROVE  Calm(q, Notified(q, x, a, v))
<1> DEFINE u == Given(q, x, a, v)
<1>1. Data(u) /\ Quiet(q, u) /\ u.at = q.at
  BY GivenCalm, Zenon
<1>2. Notified(q, x, a, v) = u \/ Notified(q, x, a, v) = YieldsTo(AddReady(Unlist(u, x), x), x)
  BY DEF Notified
<1> HIDE DEF u
<1>3. Calm(q, u)
  BY <1>1, QuietSame
<1>4. Calm(u, YieldsTo(AddReady(Unlist(u, x), x), x))
  BY <1>1, ResumesCalm
<1> QED BY <1>2, <1>3, <1>4, CalmTwice

LEMMA NotifiedFromISRCalm ==
  ASSUME NEW q, Data(q), DOMAIN q.at = Task, NEW x, NEW a, NEW v
  PROVE  Calm(q, NotifiedFromISR(q, x, a, v))
<1> DEFINE u == Given(q, x, a, v)
           c == IF q.susp = 0 THEN AddReady(Unlist(u, x), x) ELSE Pend(u, x)
           o == Owe(c, x)
           s == YieldsTo(o, x)
<1>1. Data(u) /\ Quiet(q, u) /\ u.at = q.at
  BY GivenCalm, Zenon
<1>2. NotifiedFromISR(q, x, a, v) = u \/ NotifiedFromISR(q, x, a, v) = s
  BY <1>1 DEF NotifiedFromISR, Quiet
<1> HIDE DEF u
<1>3. Data(c) /\ Quiet(u, c) /\ \A y \in Task : y # x => c.at[y] = u.at[y]
  <2>1. CASE q.susp = 0
    <3>1. c = AddReady(Unlist(u, x), x)
      BY <2>1
    <3> HIDE DEF c
    <3>2. DOMAIN u.at = Task
      BY <1>1
    <3> QED BY <1>1, <3>1, <3>2, ReadyIs
  <2>2. CASE q.susp # 0
    <3>1. c = Pend(u, x)
      BY <2>2
    <3> HIDE DEF c
    <3>2. Data(c) /\ Quiet(u, c) /\ c.at = u.at
      BY <1>1, <3>1, PendQuiet, Zenon
    <3> QED BY <3>2
  <2> QED BY <2>1, <2>2
<1> HIDE DEF c
<1>4. Data(o) /\ Calm(c, o) /\ o.at = c.at
  BY <1>3, OweNotes, Zenon
<1> HIDE DEF o
<1>5. Calm(o, s) /\ s.at = o.at /\ (Above(o, x) => Owing(s))
  BY <1>4, YieldsToCalm, Zenon
<1> HIDE DEF s
<1>6. Calm(c, s) /\ s.at = c.at /\ (Above(c, x) => Owing(s))
  BY <1>4, <1>5, CalmTwice DEF Calm, Above
<1>7. Calm(u, s)
  BY <1>3, <1>6, RousedCalm
<1>8. Calm(q, u)
  BY <1>1, QuietSame
<1> QED BY <1>2, <1>7, <1>8, CalmTwice

LEMMA NotifiesCalm ==
  ASSUME IInv, Preemption, NEW x, NotifyFromISR(x) \/ \E t \in Task : TaskNotify(t, x)
  PROVE  Preemption'
<1>1. k.on /\ pc' = pc /\ loc' = loc
  BY DEF NotifyFromISR, TaskNotify, Simple, Runs, Interrupts
<1>2. \E a : k' = Notified(k, x, a, 1) \/ k' = NotifiedFromISR(k, x, a, 1)
  BY Zenon DEF NotifyFromISR, TaskNotify, Simple
<1>3. Calm(k, k')
  BY <1>2, DataFacts, NotifiedCalm, NotifiedFromISRCalm
<1> QED BY <1>1, <1>3, DataCalm

LEMMA NotifyClearCalm ==
  ASSUME IInv, Preemption, NEW t \in Task, NEW x \in Task, NotifyStateClear(t, x) \/ NotifyValueClear(t, x)
  PROVE  Preemption'
<1>1. k.on /\ pc' = pc /\ loc' = loc
  BY DEF NotifyStateClear, NotifyValueClear, Simple, Runs
<1>2. (\E s : k' = [k EXCEPT !.ns[x] = s]) \/ (\E v : k' = [k EXCEPT !.nv[x] = v])
  BY Zenon DEF NotifyStateClear, NotifyValueClear, Simple
<1>3. Quiet(k, k') /\ k'.at = k.at
  BY <1>2, DataFacts, ZenonT(40) DEF Data, Fields, Quiet
<1> QED BY <1>1, <1>3, QuietSame, DataCalm

LEMMA NotifyNextCalm ==
  ASSUME IInv, Preemption, NotifyNext
  PROVE  Preemption'
<1>1. CASE NotifyHandlers
  BY <1>1, NotifiesCalm DEF NotifyHandlers
<1>2. ASSUME NEW t \in Task, NotifyStep(t) PROVE Preemption'
  <2>1. CASE NotifyWait(t) \/ Look(t) \/ HoldToArm(t)
    BY <2>1, NotifyWaitCalm, LookCalm, HoldToArmCalm
  <2>2. CASE Arm(t) \/ FileToWait(t) \/ NotifyEnds(t)
    BY <2>2, ArmCalm, FileToWaitCalm, NotifyEndsCalm
  <2>3. CASE \E x \in Task : TaskNotify(t, x) \/ NotifyStateClear(t, x) \/ NotifyValueClear(t, x)
    BY <2>3, NotifiesCalm, NotifyClearCalm
  <2> QED BY <1>2, <2>1, <2>2, <2>3 DEF NotifyStep
<1> QED BY <1>1, <1>2 DEF NotifyNext

-----------------------------------------------------------------------------
(* Every step of a program without a mutex keeps Preemption.               *)

LEMMA TaskStepCalm ==
  ASSUME IInv, Preemption, NEW t \in Task, TaskStep(t)
  PROVE  Preemption'
<1>1. CASE TaskYield(t) \/ Delay(t) \/ DelayBlocks(t) \/ DelayEnds(t)
  BY <1>1, TaskYieldCalm, DelayCalm, DelayBlocksCalm, DelayEndsCalm
<1>2. CASE LockScheduler(t) \/ UnlockScheduler(t) \/ CatchUpTicks(t) \/ ResumeAll(t) \/ Resumed(t)
  BY <1>2, LockSchedulerCalm, UnlockSchedulerCalm, CatchUpTicksCalm, ResumeAllCalm, ResumedCalm
<1>3. CASE \E x \in Task : Suspend(t, x) \/ Resume(t, x) \/ Delete(t, x) \/ Create(t, x)
  BY <1>3, SuspendTaskCalm, ResumeCalm, DeleteCalm, CreateCalm
<1>4. CASE \E x \in Task, p \in Prio : PrioritySet(t, x, p)
  BY <1>4, PrioritySetCalm
<1>5. CASE SuspendEnds(t) \/ DeleteSelf(t) \/ Dies(t)
  BY <1>5, SuspendEndsCalm, DeleteSelfCalm, DiesCalm
<1> QED BY <1>1, <1>2, <1>3, <1>4, <1>5 DEF TaskStep

LEMMA SchedNextCalm ==
  ASSUME IInv, Preemption, SchedNext
  PROVE  Preemption'
<1>1. scene' = scene
  BY DEF SchedNext
<1>2. CASE Boot
  BY <1>1, <1>2, StartSchedulerCalm, CreateAtBootCalm DEF Boot
<1>3. CASE Handlers
  BY <1>3, PendSVCalm, SysTickCalm, ResumeFromISRCalm DEF Handlers
<1>4. CASE Loops
  <2>1. k.loop # "none"
    BY <1>4 DEF Loops, Due, NoneDue, Drain, CatchUp, Drained
  <2>2. k.on
    <3>1. k.on \in BOOLEAN
      BY SuspNat DEF Good, Shape, SwitchTypes
    <3> QED BY <2>1, <3>1, BootFacts
  <2> QED BY <1>4, <2>2, DueCalm, NoneDueCalm, DrainCalm, CatchUpCalm, DrainedCalm DEF Loops
<1>5. CASE IdleTask
  BY <1>5, IdleTaskCalm
<1>6. ASSUME NEW t \in Task, TaskStep(t) PROVE Preemption'
  BY <1>6, TaskStepCalm
<1> QED BY <1>2, <1>3, <1>4, <1>5, <1>6 DEF SchedNext

LEMMA PreemptionHolds == Init => Preemption
<1> SUFFICES ASSUME Init PROVE Preemption
  OBVIOUS
<1> DEFINE f == FALSE
<1>1. /\ k.on = f /\ k.prio = scene.prio /\ k.base = scene.prio /\ k.at = [t \in Task |-> "none"]
      /\ pc = [t \in Task |-> "none"] /\ loc = [t \in Task |-> NoCall]
  BY Zenon DEF Init, SchedInit
<1>2. ~f
  OBVIOUS
<1> HIDE DEF f
<1>3. ~k.on
  BY <1>1, <1>2, Zenon
<1>4. ASSUME NEW t \in Task PROVE k.at[t] # "ready" /\ Plain(pc[t], loc[t])
  <2>1. pc[t] = "none" /\ loc[t] = NoCall /\ k.at[t] = "none"
    BY <1>1
  <2> QED BY <2>1, PlainNoCall DEF Aside
<1> QED BY <1>1, <1>3, <1>4 DEF Preemption

JInv == IInv /\ (MutexFree => Preemption)

LEMMA PreemptionKeeps == JInv /\ [Next]_vars => JInv'
<1> SUFFICES ASSUME JInv, [Next]_vars PROVE JInv'
  OBVIOUS
<1>1. IInv /\ IInv'
  BY IInvKeeps DEF JInv
<1>2. scene' = scene
  BY DEF Next, SchedNext, QueueNext, NotifyNext, vars
<1>3. MutexFree' <=> MutexFree
  BY <1>2 DEF MutexFree
<1>4. ASSUME MutexFree PROVE Preemption'
  <2>1. Preemption
    BY <1>4 DEF JInv
  <2>2. CASE Next
    BY <1>1, <1>4, <2>1, <2>2, SchedNextCalm, QueueNextCalm, NotifyNextCalm DEF Next
  <2>3. CASE UNCHANGED vars
    <3>1. k' = k /\ pc' = pc /\ loc' = loc /\ scene' = scene
      BY <2>3 DEF vars
    <3> QED BY <2>1, <3>1 DEF Preemption, Preempts, Above, Owing
  <2> QED BY <2>2, <2>3
<1> QED BY <1>1, <1>3, <1>4 DEF JInv

(* Preemption, for every program that uses no mutex: between two steps of  *)
(* the application the running task is ready, and no ready task has a      *)
(* higher priority, unless the scheduler is suspended.  With mutexes       *)
(* HighestRuns is a property of single programs (queue.c:1047).            *)
THEOREM HighestRunsWithoutMutex == Spec => [](MutexFree => HighestRuns)
<1>1. JInv => (MutexFree => HighestRuns)
  <2> SUFFICES ASSUME JInv, MutexFree, Runs(k.cur), k.susp = 0, pc[k.cur] = "app"
               PROVE  k.at[k.cur] = "ready" /\ \A t \in At("ready") : k.prio[t] <= k.prio[k.cur]
    BY DEF HighestRuns
  <2> DEFINE c == k.cur
  <2>1. IInv /\ Preemption /\ c \in Task
    BY SuspNat DEF JInv
  <2>2. k.at[c] = "ready"
    BY <2>1, RunsHere DEF Here, Settled
  <2>3. k.on /\ ~Owing(k)
    BY DEF Runs, Owing
  <2>4. k.prio \in [Task -> Int]
    BY <2>1, SuspNat, SchedulerAssumption DEF Good, Shape, PrioTypes, Prio
  <2>5. ASSUME NEW t \in Task, k.at[t] = "ready" PROVE k.prio[t] <= k.prio[c]
    BY <2>1, <2>3, <2>4, <2>5 DEF Preemption, Preempts, Above
  <2> QED BY <2>2, <2>5 DEF At
<1>2. Init => JInv
  BY IInvHolds, PreemptionHolds DEF JInv
<1> QED BY <1>1, <1>2, PreemptionKeeps, PTL DEF Spec
=============================================================================
