----------------------------- MODULE TcpReceive -----------------------------
(***************************************************************************)
(* The receiving side of one lwIP connection in ESTABLISHED: tcp_input,    *)
(* the data half of tcp_receive with its out-of-sequence queue, and the    *)
(* receive window that tcp_recved and tcp_update_rcv_ann_wnd manage.       *)
(*                                                                         *)
(* The sender is the TCP of the local machine behind the tun device.  It   *)
(* sends a stream of Total bytes and a FIN, keeps to the window it has     *)
(* seen, and may cut, repeat and overlap its segments as it likes.  The    *)
(* tun queue loses segments and acknowledgements and old copies may come   *)
(* late, so any segment the sender could have sent may arrive at any time. *)
(* lwIP's timers never run here: nothing is sent but in answer to a call.  *)
(*                                                                         *)
(* Sequence numbers are counted modulo Modulus, as 32-bit ones wrap.  Byte *)
(* i of the stream is the number i.                                        *)
(***************************************************************************)
EXTENDS Integers, Sequences, TcpSeq

CONSTANTS
    ISS,        \* sequence number of byte 1
    Total,      \* bytes of the sender's stream
    TCP_WND,    \* receive window
    mss,        \* most bytes of a segment, pcb->mss
    TCP_WND_UPDATE_THRESHOLD

ASSUME ReceiveAssumption ==
    /\ ISS \in 0 .. Modulus - 1
    /\ Total \in Nat /\ TCP_WND \in Nat \ {0} /\ mss \in Nat \ {0}
    /\ TCP_WND_UPDATE_THRESHOLD \in Nat \ {0}
    \* a segment does not live as long as half the sequence numbers
    /\ Total + TCP_WND + 1 < Modulus \div 2

VARIABLES
    \* struct tcp_pcb
    state, rcv_nxt, rcv_wnd, rcv_ann_wnd, rcv_ann_right_edge, ooseq, flags,
    \* what tcp_recv_func has been given, and what is not yet tcp_recved
    received, eof, unread,
    \* what the sender knows: the bytes acknowledged and the window's edge
    snd_una, snd_edge

pcbVars == <<state, rcv_nxt, rcv_wnd, rcv_ann_wnd, rcv_ann_right_edge, ooseq,
             flags>>
vars == <<pcbVars, received, eof, unread, snd_una, snd_edge>>

Segments == [seqno : SeqNo, p : Seq(1 .. Total), fin : BOOLEAN]

TypeOK ==
    /\ state \in {"ESTABLISHED", "CLOSE_WAIT"}
    /\ rcv_nxt \in SeqNo /\ rcv_ann_right_edge \in SeqNo
    /\ rcv_wnd \in 0 .. TCP_WND /\ rcv_ann_wnd \in 0 .. TCP_WND
    /\ ooseq \in Seq(Segments)
    /\ flags \subseteq {"ACK_DELAY", "ACK_NOW"}
    /\ received \in Seq(1 .. Total) /\ eof \in BOOLEAN /\ unread \in 0 .. TCP_WND
    /\ snd_una \in 0 .. Total + 1 /\ snd_edge \in 0 .. Total + 1 + TCP_WND

\* The connection has been accepted; the SYN|ACK carried the window.
Init ==
    /\ state = "ESTABLISHED" /\ rcv_nxt = ISS
    /\ rcv_wnd = TCP_WND /\ rcv_ann_wnd = TCP_WND
    /\ rcv_ann_right_edge = (ISS + TCP_WND) % Modulus
    /\ ooseq = <<>> /\ flags = {}
    /\ received = <<>> /\ eof = FALSE /\ unread = 0
    /\ snd_una = 0 /\ snd_edge = TCP_WND

-----------------------------------------------------------------------------
(* Segments *)

TCP_TCPLEN(seg) == Len(seg.p) + (IF seg.fin THEN 1 ELSE 0)
End(seg) == Plus(seg.seqno, Len(seg.p))

\* pbuf_realloc: keep the first n bytes
Trim(seg, n) == [seg EXCEPT !.p = SubSeq(@, 1, n)]

-----------------------------------------------------------------------------
(* Acknowledgements *)

\* tcp_ack: every second segment is acknowledged at once.
tcp_ack(fl) ==
    IF "ACK_DELAY" \in fl THEN (fl \ {"ACK_DELAY"}) \cup {"ACK_NOW"}
                          ELSE fl \cup {"ACK_DELAY"}

\* Mutant of AnnouncedWindow: only whole segments are announced.
AnnounceSegments(nxt, wnd) == mss * (wnd \div mss)

\* tcp_update_rcv_ann_wnd: grow the window only by a worthwhile step, else keep
\* its right edge where the sender has last seen it.
AnnouncedWindow(nxt, wnd) ==
    IF TCP_SEQ_LEQ(Plus(rcv_ann_right_edge,
                        IF TCP_WND \div 2 < mss THEN TCP_WND \div 2 ELSE mss),
                   Plus(nxt, wnd))
    THEN wnd
    ELSE IF TCP_SEQ_LT(rcv_ann_right_edge, nxt) THEN 0
         ELSE Minus(rcv_ann_right_edge, nxt)

Larger(a, b) == IF a < b THEN b ELSE a

\* tcp_send_empty_ack: what may become of the segment.  "unsent": no memory, the
\* flags are left for a timer.  "lost": dropped by the tun device or its queue.
Fates == {"seen", "lost", "unsent"}

\* pos is the position of nxt in the stream.
SendAck(nxt, ann, pos, fate) ==
    /\ flags' = IF fate = "unsent" THEN {"ACK_DELAY", "ACK_NOW"} ELSE {}
    /\ rcv_ann_right_edge' = IF fate = "unsent" THEN rcv_ann_right_edge
                                                ELSE Plus(nxt, ann)
    /\ IF fate = "seen"
       THEN /\ snd_una' = Larger(snd_una, pos)
            /\ snd_edge' = Larger(snd_edge, pos + ann)
       ELSE UNCHANGED <<snd_una, snd_edge>>

\* tcp_output, with nothing unsent
tcp_output(fl, nxt, ann, pos, fate) ==
    \/ "ACK_NOW" \in fl /\ SendAck(nxt, ann, pos, fate)
    \/ /\ "ACK_NOW" \notin fl
       /\ flags' = fl /\ UNCHANGED <<rcv_ann_right_edge, snd_una, snd_edge>>

-----------------------------------------------------------------------------
(* The out-of-sequence queue *)

\* How far a walk over q gets that goes on while the segments are good ones
Walk(q, good) == CHOOSE k \in 0 .. Len(q) : 1 .. k \subseteq good /\ k + 1 \notin good

\* How many segments at the head of q end no later than sequence number e
Covered(q, e) == Walk(q, {i \in 1 .. Len(q) : TCP_SEQ_LEQ(End(q[i]), e)})

\* seg is cut where the first segment of rest begins.
CutAfter(seg, rest) ==
    IF rest # <<>> /\ TCP_SEQ_LT(Head(rest).seqno, End(seg))
    THEN Trim(seg, Minus(Head(rest).seqno, seg.seqno)) ELSE seg

\* The segments of q that seg covers go and their FIN moves to seg; a segment
\* with a FIN covers all that follow.  Both tcp_oos_insert_segment and the
\* in-sequence branch of tcp_receive do this.
Merge(seg, q) ==
    LET k == Covered(q, End(seg))
        rest == SubSeq(q, k + 1, Len(q))
        fin == \E i \in 1 .. k : q[i].fin
    IN  IF seg.fin THEN [seg |-> seg, rest |-> <<>>]
        ELSE [seg |-> CutAfter([seg EXCEPT !.fin = fin], rest), rest |-> rest]

tcp_oos_insert_segment(seg, q) == <<Merge(seg, q).seg>> \o Merge(seg, q).rest

\* Mutant of CutBefore: the overlap with the segment before is kept.
KeepOverlap(seg, seqno) == seg

\* The segment before a new one is cut where the new one begins.
CutBefore(seg, seqno) ==
    IF TCP_SEQ_LT(seqno, End(seg)) THEN Trim(seg, Minus(seqno, seg.seqno)) ELSE seg

\* What does not fit into the window is cut off, the FIN first.
FitWindow(seg) ==
    IF Minus(seg.seqno, rcv_nxt) + TCP_TCPLEN(seg) > rcv_wnd
    THEN [Trim(seg, rcv_wnd - Minus(seg.seqno, rcv_nxt)) EXCEPT !.fin = FALSE]
    ELSE seg

\* Put an out-of-sequence segment where its sequence number belongs, behind the
\* n segments with smaller ones.
Queue(seg, q) ==
    LET n == Walk(q, {i \in 1 .. Len(q) : TCP_SEQ_LT(q[i].seqno, seg.seqno)})
        head == SubSeq(q, 1, n)
        tail == SubSeq(q, n + 1, Len(q))
        cut == [head EXCEPT ![n] = CutBefore(@, seg.seqno)]
    IN  IF q = <<>> THEN <<seg>>
        ELSE IF n = Len(q)
             THEN IF q[n].fin THEN q ELSE Append(cut, FitWindow(seg))
        ELSE IF q[n + 1].seqno # seg.seqno
             THEN cut \o tcp_oos_insert_segment(seg, tail)
        ELSE IF Len(seg.p) > Len(q[n + 1].p)
             THEN head \o tcp_oos_insert_segment(seg, tail)
        ELSE q

-----------------------------------------------------------------------------
(* tcp_input and tcp_receive *)

\* Mutant of TrimFront: only the sequence number is moved.
RenumberFront(seg) ==
    IF TCP_SEQ_BETWEEN(rcv_nxt, Plus(seg.seqno, 1),
                       Plus(seg.seqno, TCP_TCPLEN(seg) - 1))
    THEN [seg EXCEPT !.seqno = rcv_nxt] ELSE seg

\* Cut off what has been received before.
TrimFront(seg) ==
    IF TCP_SEQ_BETWEEN(rcv_nxt, Plus(seg.seqno, 1),
                       Plus(seg.seqno, TCP_TCPLEN(seg) - 1))
    THEN LET off == Minus(rcv_nxt, seg.seqno)
         IN  [seqno |-> rcv_nxt, p |-> SubSeq(seg.p, off + 1, Len(seg.p)),
              fin |-> seg.fin]
    ELSE seg

\* How many segments at the head of q are now in sequence
InSequence(q, nxt) ==
    Walk(q, {i \in 1 .. Len(q) :
                 q[i].seqno = IF i = 1 THEN nxt
                              ELSE Plus(q[i - 1].seqno, TCP_TCPLEN(q[i - 1]))})

\* pbuf_cat: the bytes of a chain of segments
Chained(chain) ==
    LET cat[i \in 0 .. Len(chain)] ==
            IF i = 0 THEN <<>> ELSE cat[i - 1] \o chain[i].p
    IN  cat[Len(chain)]

\* Mutant of CorrectedWindow: the correction is left out.
UncorrectedWindow(wnd, fin) == wnd

\* The session will not call tcp_recved for the number the FIN takes.
CorrectedWindow(wnd, fin) == IF fin /\ wnd # TCP_WND THEN wnd + 1 ELSE wnd

\* chain is what goes to tcp_recv_func, in one pbuf chain; rest stays queued.  A
\* FIN calls tcp_recv_func once more, without a pbuf.
Deliver(chain, rest, fate) ==
    \E data \in {Chained(chain)},
       fin \in {\E i \in 1 .. Len(chain) : chain[i].fin} :
    \E len \in {Len(data) + IF fin THEN 1 ELSE 0} :
    \E ann \in {AnnouncedWindow(Plus(rcv_nxt, len), rcv_wnd - len)} :
        /\ ooseq' = rest
        /\ rcv_nxt' = Plus(rcv_nxt, len)
        /\ rcv_wnd' = CorrectedWindow(rcv_wnd - len, fin)
        /\ rcv_ann_wnd' = ann
        /\ received' = received \o data /\ unread' = unread + Len(data)
        /\ eof' = fin
        /\ state' = IF fin THEN "CLOSE_WAIT" ELSE state
        /\ tcp_output(tcp_ack(flags) \cup IF fin THEN {"ACK_NOW"} ELSE {},
                      Plus(rcv_nxt, len), ann, Len(received) + len, fate)

\* The incoming segment is the next in sequence: it goes to tcp_recv_func with
\* the queued segments that now follow.
ReceiveInSequence(seg, fate) ==
    \E m \in {Merge(FitWindow(seg), ooseq)} :
    \E n \in {InSequence(m.rest, Plus(rcv_nxt, TCP_TCPLEN(m.seg)))} :
        Deliver(<<m.seg>> \o SubSeq(m.rest, 1, n),
                SubSeq(m.rest, n + 1, Len(m.rest)), fate)

\* tcp_send_empty_ack with the window as it is
AckAgain(fate) ==
    /\ SendAck(rcv_nxt, rcv_ann_wnd, Len(received), fate)
    /\ UNCHANGED <<state, rcv_nxt, rcv_wnd, rcv_ann_wnd, received, eof, unread>>

\* The segment leaves a gap: it is queued, unless memory is short, and the
\* sender is told at once.
ReceiveOutOfSequence(seg, fate) ==
    /\ ooseq' \in {Queue(seg, ooseq), ooseq}
    /\ AckAgain(fate)

InWindow(seqno) ==
    TCP_SEQ_BETWEEN(seqno, rcv_nxt, Plus(rcv_nxt, rcv_wnd - 1))

tcp_receive(inseg, fate) ==
    LET seg == TrimFront(inseg) IN
    \/ /\ TCP_TCPLEN(inseg) > 0 /\ InWindow(seg.seqno)
       /\ \/ seg.seqno = rcv_nxt /\ ReceiveInSequence(seg, fate)
          \/ seg.seqno # rcv_nxt /\ ReceiveOutOfSequence(seg, fate)
    \/ /\ ~InWindow(seg.seqno)
       /\ AckAgain(fate) /\ UNCHANGED ooseq
    \/ /\ TCP_TCPLEN(inseg) = 0 /\ InWindow(seg.seqno)
       /\ tcp_output(flags, rcv_nxt, rcv_ann_wnd, Len(received), fate)
       /\ UNCHANGED <<state, rcv_nxt, rcv_wnd, rcv_ann_wnd, ooseq, received, eof,
                      unread>>

\* A segment the sender may have sent: inside the window it has seen, or the
\* one byte with which it probes a closed window.
MaySend(pos, len, fin) ==
    LET end == pos + len + IF fin THEN 1 ELSE 0 IN
    /\ pos + len <= Total /\ (fin => pos + len = Total)
    /\ \/ end <= snd_edge
       \/ pos = snd_una /\ pos = snd_edge /\ end = pos + 1

\* The len bytes of the stream after the first pos
Sent(pos, len, fin) ==
    [seqno |-> Plus(ISS, pos), p |-> [i \in 1 .. len |-> pos + i], fin |-> fin]

\* tcp_input for a segment of this connection.  After the FIN tcp_recv_func has
\* closed the connection.
Input(pos, len, fin, fate) ==
    /\ state = "ESTABLISHED" /\ MaySend(pos, len, fin)
    /\ tcp_receive(Sent(pos, len, fin), fate)

\* tcp_recved: the session has written n bytes to the server.  A window update
\* is sent when the right edge moves by the threshold.
tcp_recved(n, fate) ==
    LET wnd == IF rcv_wnd + n > TCP_WND THEN TCP_WND ELSE rcv_wnd + n
        ann == AnnouncedWindow(rcv_nxt, wnd)
        grown == ann = wnd /\ Minus(Plus(rcv_nxt, wnd), rcv_ann_right_edge)
                              >= TCP_WND_UPDATE_THRESHOLD
    IN  /\ state = "ESTABLISHED" /\ n <= unread /\ unread' = unread - n
        /\ rcv_wnd' = wnd /\ rcv_ann_wnd' = ann
        /\ IF grown
           THEN tcp_output(flags \cup {"ACK_NOW"}, rcv_nxt, ann, Len(received), fate)
           ELSE UNCHANGED <<flags, rcv_ann_right_edge, snd_una, snd_edge>>
        /\ UNCHANGED <<state, rcv_nxt, ooseq, received, eof>>

\* A data segment of the other direction goes out and carries the ACK.
Piggyback(fate) ==
    /\ state = "ESTABLISHED" /\ fate # "unsent"
    /\ AckAgain(fate) /\ UNCHANGED ooseq

Next == \E fate \in Fates :
    \/ \E pos \in 0 .. Total, len \in 0 .. mss, fin \in BOOLEAN :
           Input(pos, len, fin, fate)
    \/ \E n \in 1 .. TCP_WND : tcp_recved(n, fate)
    \/ Piggyback(fate)

Spec == Init /\ [][Next]_vars

\* The sender repeats its first unacknowledged segment, or its probe of a
\* closed window, until the answer gets through.
Retransmit == \E len \in 0 .. mss, fin \in BOOLEAN :
    (len > 0 \/ fin) /\ Input(snd_una, len, fin, "seen")

FairSpec ==
    /\ Spec
    /\ WF_vars(Retransmit)
    /\ WF_vars(\E n \in 1 .. TCP_WND, fate \in Fates : tcp_recved(n, fate))

-----------------------------------------------------------------------------
(* Properties *)

FinSeen == IF eof THEN 1 ELSE 0

\* However the sender's segments are cut, overlapped, repeated and reordered,
\* tcp_recv_func is given the bytes of the stream in order and each once, and
\* the end of the stream only after the last byte.
Stream == INSTANCE ByteStream WITH out <- received, closed <- eof
ReceivesStream == Stream!Spec

\* The out-of-sequence queue is sorted, its segments do not overlap, lie beyond
\* rcv_nxt and inside the window and hold the bytes their numbers say, and only
\* the last can carry the FIN: what the walk in tcp_receive relies on.
QueueSound ==
    /\ \A i \in 1 .. Len(ooseq) :
          LET seg == ooseq[i]
              pos == Len(received) + Minus(seg.seqno, rcv_nxt)
          IN  /\ TCP_SEQ_LT(rcv_nxt, seg.seqno)
              /\ Minus(seg.seqno, rcv_nxt) + TCP_TCPLEN(seg) <= rcv_wnd
              /\ seg.p = [j \in 1 .. Len(seg.p) |-> pos + j]
              /\ seg.fin => i = Len(ooseq) /\ pos + Len(seg.p) = Total
    /\ \A i \in 1 .. Len(ooseq) - 1 :
          TCP_SEQ_LEQ(End(ooseq[i]), ooseq[i + 1].seqno)
    /\ eof => ooseq = <<>>

\* Every byte of the window is accounted for: free, or in the session's hands.
\* The sender is never promised more than is free, so honest data is never cut.
WindowHonest ==
    /\ rcv_wnd + unread = TCP_WND
    /\ ~eof => /\ snd_edge <= Len(received) + rcv_wnd
               /\ rcv_ann_wnd <= rcv_wnd

\* The right edge of the announced window never moves back.
EdgeNeverRetreats == [][~TCP_SEQ_LT(rcv_ann_right_edge', rcv_ann_right_edge)]_vars

\* If the sender goes on repeating and the session goes on writing, the whole
\* stream and its end arrive: neither a delayed ACK that no timer sends, nor a
\* window update held back below the threshold or lost, stops the connection.
StreamEnds == <>eof

=============================================================================
