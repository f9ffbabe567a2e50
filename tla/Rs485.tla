-------------------------------- MODULE Rs485 --------------------------------
(***************************************************************************)
(* The receiver of rs485.c and the peer on its line.  Frames are           *)
(* [ID_H] [ID_L] [DLC] [DATA]; nothing but the length byte marks where one *)
(* ends.                                                                   *)
(***************************************************************************)
EXTENDS Integers, Sequences

CONSTANTS
  MaxDlc,       \* 64
  Frames,       \* frames the peer sends, as sequences of bytes
  RsQueueLen    \* RS485_RX_QUEUE_LEN

ASSUME Rs485Assumption ==
  /\ MaxDlc \in Nat /\ RsQueueLen \in Nat \ {0}
  /\ \A f \in Frames : f \in Seq(Nat) /\ f[3] \in 0..MaxDlc /\ Len(f) = 3 + f[3]

VARIABLES
  buf,      \* the first s_rx_len bytes of s_rx_buf
  rsq,      \* number of frames in xRS485RxQueue
  peer,     \* the frame the peer is sending, and how much of it is sent
  whole     \* no byte was missed since peer and receiver last were between frames
rs485 == <<buf, rsq, peer, whole>>

Rs485Init ==
  /\ buf = <<>> /\ rsq = 0 /\ whole = TRUE
  /\ peer \in [frame : Frames, pos : {0}]

Stored(b) == IF Len(buf) < 3 + MaxDlc THEN Append(buf, b) ELSE buf

\* Mutant: one byte more is waited for.
CompleteLate(s) == Len(s) >= 3 /\ s[3] <= MaxDlc /\ Len(s) > 3 + s[3]

Complete(s) == Len(s) >= 3 /\ s[3] <= MaxDlc /\ Len(s) >= 3 + s[3]
Dropped(s) == Len(s) >= 3 /\ s[3] > MaxDlc

\* HAL_UART_RxCpltCallback; a full queue loses the frame
RxCplt(b) ==
  LET s == Stored(b)
  IN  /\ buf' = IF Complete(s) \/ Dropped(s) THEN <<>> ELSE s
      /\ rsq' = IF Complete(s) /\ rsq < RsQueueLen THEN rsq + 1 ELSE rsq

\* The peer sends a byte, whether or not the receiver hears it.
PeerSends(heard) ==
  LET n == peer.pos + 1
  IN  /\ IF n = Len(peer.frame)
         THEN peer' \in [frame : Frames, pos : {0}] ELSE peer' = [peer EXCEPT !.pos = n]
      /\ IF heard THEN RxCplt(peer.frame[n]) ELSE UNCHANGED <<buf, rsq>>
      /\ whole' = ((whole /\ heard) \/ (peer'.pos = 0 /\ buf' = <<>>))

\* A restart of the firmware forgets what has been received.
Rs485Restart ==
  /\ buf' = <<>> /\ rsq' = 0 /\ whole' = (peer.pos = 0)
  /\ UNCHANGED peer

=============================================================================
