----------------------------- MODULE IsoTpProps -----------------------------
(* What the transport must and must not do.                                *)
EXTENDS IsoTp

TypeOK ==
    /\ build \in {"app", "bootloader"} /\ gone \in BOOLEAN
    /\ rx.state \in {"IDLE", "WAIT_CF"} /\ rx.stream \in BOOLEAN
    /\ rx.total \in {0} \cup Lengths /\ rx.received \in 0..rx.total
    /\ rx.seq \in 0..(SeqMod - 1)
    /\ tx.state \in {"IDLE", "WAIT_FC", "SEND_CF"}
    /\ tx.total \in Responses \cup {0} /\ tx.sent \in 0..tx.total
    /\ tx.seq \in 0..(SeqMod - 1) /\ tx.wft \in 0..MaxWft
    /\ rxAge \in 0..Cap /\ txAge \in 0..Cap /\ lag \in NotRead..MaxLag

(* What is handed on as complete, to the UDS server or by END to the sink, *)
(* is one message of the tester, whole and in order, whatever was lost,    *)
(* repeated or abandoned before it.                                        *)
HandedWhole ==
    handed # <<>> => handed = Body(handed[1], 0, handed[1].total)

(* The sink sees BEGIN, data and exactly one END or ERROR, in this order,  *)
(* whatever cuts a reception off: no event comes out of turn, it is open   *)
(* exactly while a streamed reception is under way, and has all of it.     *)
SinkFollows ==
    /\ sink # Upset
    /\ sink.open <=> rx.state = "WAIT_CF" /\ rx.stream
    /\ sink.open => Len(sink.data) = rx.received

(* A tester that drops what is out of sequence or beyond what it granted   *)
(* has received exactly what has been sent.                                *)
PeerFollows ==
    /\ reply # Refused
    /\ tx.state # "IDLE" => reply.got = tx.sent /\ reply.total = tx.total

(* Segmented transmission ends whatever the tester answers: WFTmax bounds  *)
(* FC.WAIT, the timeout silence, the length the rest.                      *)
TxEnds == tx.state # "IDLE" ~> tx.state = "IDLE"

(* Reception does not outlive the tester.                                  *)
RxEnds == gone ~> rx.state = "IDLE"

(* Neither direction of the one context is ever taken for good.            *)
TransfersEnd == TxEnds /\ RxEnds

EndsEarly ==
    \/ rx.state = "WAIT_CF" /\ rx'.state = "IDLE" /\ rxAge < Timeout
    \/ tx.state = "WAIT_FC" /\ tx'.state = "IDLE" /\ txAge < Timeout
(* Nobody is given up on before the timeout: iso_tp.c:28 "CF receive wait  *)
(* timeout".                                                               *)
NoEarlyTimeout == [][Tick => ~EndsEarly]_vars
=============================================================================
