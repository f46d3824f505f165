---------------------------- MODULE TcpReceiveInv ---------------------------
(***************************************************************************)
(* The inductive invariant of TcpReceive.  Sequence numbers wrap, so it is *)
(* written with positions: a position is the number of bytes of the stream *)
(* in front of it, and sequence numbers are those of positions.            *)
(***************************************************************************)
EXTENDS TcpReceive

\* Positions of a segment: of its first byte, after its last byte and after its
\* FIN
At(seg) == Minus(seg.seqno, ISS)
Past(seg) == At(seg) + Len(seg.p)
Reach(seg) == At(seg) + TCP_TCPLEN(seg)

\* Segments that hold what the stream has at their positions
Honest ==
    {seg \in Segments :
        /\ Past(seg) <= Total /\ (seg.fin => Past(seg) = Total)
        /\ seg = Sent(At(seg), Len(seg.p), seg.fin)}

\* A queue of such segments between the positions lo and hi, sorted and without
\* overlap, in which only the last can carry the FIN
Sound(q, lo, hi) ==
    /\ q \in Seq(Honest)
    /\ \A i \in 1 .. Len(q) : lo <= At(q[i]) /\ Reach(q[i]) <= hi
    /\ \A i, j \in 1 .. Len(q) : i < j => Past(q[i]) <= At(q[j]) /\ ~q[i].fin

\* What has been received is the front of the stream.
ReceivedInv ==
    /\ Len(received) <= Total
    /\ \A i \in 1 .. Len(received) : received[i] = i
    /\ rcv_nxt = Plus(ISS, Len(received) + FinSeen)
    /\ state = IF eof THEN "CLOSE_WAIT" ELSE "ESTABLISHED"
    /\ eof => Len(received) = Total /\ ooseq = <<>>

\* Position edge is where the window that was last announced ends: what the
\* sender knows does not go beyond it, and it lies in the announced window.
EdgeInv(edge) ==
    /\ rcv_ann_right_edge = Plus(ISS, edge)
    /\ snd_edge <= edge /\ edge <= Len(received) + rcv_ann_wnd

WindowInv ==
    /\ rcv_wnd + unread = TCP_WND
    /\ snd_una <= Len(received) + FinSeen
    /\ ~eof => rcv_ann_wnd <= rcv_wnd /\ \E edge \in 0 .. Total + TCP_WND : EdgeInv(edge)

QueueInv == ~eof => Sound(ooseq, Len(received) + 1, Len(received) + rcv_wnd)

IndInv == TypeOK /\ ReceivedInv /\ WindowInv /\ QueueInv
=============================================================================
