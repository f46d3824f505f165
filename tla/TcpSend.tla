------------------------------- MODULE TcpSend -------------------------------
(***************************************************************************)
(* The sending side of one established lwIP connection: tcp_write as the   *)
(* session calls it (no copy), tcp_output with Nagle's algorithm disabled, *)
(* the ACK half of tcp_receive with the windows of sender and congestion,  *)
(* and fast retransmit.  The other side is the TCP of the local machine    *)
(* behind the tun device, which keeps packets in order but may lose them.  *)
(*                                                                         *)
(* lwIP's timers never run in this program, so there is no retransmission  *)
(* time-out and no probe of a closed window: the connection lives on the   *)
(* acknowledgements alone.                                                 *)
(*                                                                         *)
(* Sequence numbers start at 0 and do not wrap here (TcpReceive has the    *)
(* arithmetic).  Memory for the copy of a packet is assumed to be there.   *)
(***************************************************************************)
EXTENDS Integers, SequencesExt

CONSTANTS
    mss,            \* pcb->mss
    TCP_SND_BUF,    \* bytes that may be queued
    U16,            \* largest value of a window, 0xFFFF in the code
    PeerWindow,     \* receive buffer of the local machine's socket
    Chunks,         \* sizes of the session's reads from the server
    MaxData,        \* bound: bytes the session writes
    MaxSaid         \* bound: data segments of the local machine

ASSUME SendAssumption ==
    /\ mss \in Nat \ {0} /\ TCP_SND_BUF \in Nat \ {0} /\ PeerWindow \in Nat \ {0}
    /\ 2 * mss <= PeerWindow /\ PeerWindow <= U16 /\ TCP_SND_BUF <= U16
    /\ Chunks \subseteq 1 .. TCP_SND_BUF /\ MaxData \in Nat /\ MaxSaid \in Nat

VARIABLES
    pcb,    \* struct tcp_pcb, the fields of the sending side
    wire,   \* data segments on their way to the local machine
    acks,   \* segments on their way to lwIP
    peer,   \* the local machine's end of the connection
    fault   \* what has gone wrong on the link; one thing at most

vars == <<pcb, wire, acks, peer, fault>>

Least(a, b) == IF a < b THEN a ELSE b
Most(a, b) == IF a < b THEN b ELSE a

End(seg) == seg.seqno + seg.len
Sum(q, f(_)) == FoldSeq(LAMBDA seg, n : f(seg) + n, 0, q)
Bytes(q) == Sum(q, LAMBDA seg : seg.len)
Pbufs(q) == Sum(q, LAMBDA seg : seg.clen)
Sorted(q) == SortSeq(q, LAMBDA a, b : a.seqno < b.seqno)

\* LWIP_TCP_CALC_INITIAL_CWND for the mss the program uses
InitialCwnd == 3 * mss

Init ==
    /\ pcb = [unsent |-> <<>>, unacked |-> <<>>, lastack |-> 0, snd_nxt |-> 0,
              snd_lbb |-> 0, snd_buf |-> TCP_SND_BUF, snd_queuelen |-> 0,
              snd_wnd |-> PeerWindow, snd_wnd_max |-> PeerWindow,
              snd_wl1 |-> 0, snd_wl2 |-> 0, cwnd |-> InitialCwnd,
              ssthresh |-> TCP_SND_BUF, bytes_acked |-> 0, dupacks |-> 0,
              infr |-> FALSE, rtime |-> FALSE]
    /\ wire = <<>> /\ acks = <<>> /\ fault = "none"
    /\ peer = [nxt |-> 0, ooo |-> {}, unread |-> 0, told |-> PeerWindow,
               owes |-> FALSE, seq |-> 0]

Segment == [seqno : Nat, len : 1 .. mss, clen : Nat \ {0}]

TypeOK ==
    /\ pcb.unsent \in Seq(Segment) /\ pcb.unacked \in Seq(Segment)
    /\ pcb.snd_buf \in 0 .. TCP_SND_BUF /\ pcb.snd_queuelen \in Nat
    /\ 0 <= pcb.lastack /\ pcb.lastack <= pcb.snd_nxt
    /\ pcb.snd_nxt <= pcb.snd_lbb /\ pcb.snd_lbb <= MaxData
    /\ pcb.snd_wnd \in 0 .. U16 /\ pcb.snd_wnd_max \in 0 .. U16
    /\ pcb.cwnd \in 1 .. U16 /\ pcb.ssthresh \in 1 .. U16
    /\ pcb.bytes_acked \in 0 .. U16 /\ pcb.dupacks \in 0 .. 255
    /\ pcb.infr \in BOOLEAN /\ pcb.rtime \in BOOLEAN
    /\ fault \in {"none", "lost", "repeated"}
    /\ peer.unread \in 0 .. PeerWindow

-----------------------------------------------------------------------------
(* tcp_output *)

\* Mutant of Sendable: only the congestion window counts.
SendableByCwnd(p) ==
    LET fits(i) == End(p.unsent[i]) - p.lastack <= p.cwnd
    IN  Cardinality({i \in 1 .. Len(p.unsent) : \A j \in 1 .. i : fits(j)})

\* How many of the unsent segments fit into both windows
Sendable(p) ==
    LET wnd == Least(p.snd_wnd, p.cwnd)
        fits(i) == End(p.unsent[i]) - p.lastack <= wnd
    IN  Cardinality({i \in 1 .. Len(p.unsent) : \A j \in 1 .. i : fits(j)})

\* The segments go to the tun device and to unacked, which stays sorted when a
\* retransmitted segment is among them.
tcp_output(p, w) ==
    LET k == Sendable(p)
        out == SubSeq(p.unsent, 1, k)
    IN  /\ wire' = w \o [i \in 1 .. k |-> [seqno |-> out[i].seqno, len |-> out[i].len]]
        /\ pcb' = IF k = 0 THEN p ELSE
                  [p EXCEPT !.unsent = SubSeq(@, k + 1, Len(@)),
                            !.unacked = Sorted(@ \o out),
                            !.snd_nxt = Most(@, End(Last(out))),
                            !.rtime = TRUE]

-----------------------------------------------------------------------------
(* tcp_write *)

\* No segment is bigger than half the biggest window ever seen.
MssLocal(p) == IF p.snd_wnd_max \div 2 = 0 THEN mss
               ELSE Least(mss, p.snd_wnd_max \div 2)

\* Phase 3: segments of at most m bytes, a header and a reference each
NewSegments(seqno, n, m) ==
    [i \in 1 .. (n + m - 1) \div m |->
        [seqno |-> seqno + (i - 1) * m, len |-> Least(m, n - (i - 1) * m), clen |-> 2]]

\* Mutant of tcp_write: the bytes appended to the last segment are not taken
\* off the ones to be put into new segments.
tcp_writeTwice(p, n) ==
    LET m == MssLocal(p)
        add == IF p.unsent = <<>> THEN 0 ELSE Least(m - Last(p.unsent).len, n)
        old == IF add = 0 THEN p.unsent
               ELSE [p.unsent EXCEPT ![Len(p.unsent)].len = @ + add,
                                     ![Len(p.unsent)].clen = @ + 1]
        new == NewSegments(p.snd_lbb, n, m)
    IN  [p EXCEPT !.unsent = old \o new, !.snd_lbb = @ + n, !.snd_buf = @ - n,
                  !.snd_queuelen = @ + Pbufs(old) - Pbufs(p.unsent) + Pbufs(new)]

\* Phase 2 chains a reference to the last unsent segment while it has room.
\* Phase 1 needs a copy, which the session does not ask for.
tcp_write(p, n) ==
    LET m == MssLocal(p)
        add == IF p.unsent = <<>> THEN 0 ELSE Least(m - Last(p.unsent).len, n)
        old == IF add = 0 THEN p.unsent
               ELSE [p.unsent EXCEPT ![Len(p.unsent)].len = @ + add,
                                     ![Len(p.unsent)].clen = @ + 1]
        new == NewSegments(p.snd_lbb + add, n - add, m)
    IN  [p EXCEPT !.unsent = old \o new, !.snd_lbb = @ + n, !.snd_buf = @ - n,
                  !.snd_queuelen = @ + Pbufs(old) - Pbufs(p.unsent) + Pbufs(new)]

\* The session has read n bytes from the server.
Write(n) ==
    /\ n <= pcb.snd_buf /\ pcb.snd_lbb + n <= MaxData
    /\ tcp_output(tcp_write(pcb, n), wire)
    /\ UNCHANGED <<acks, peer, fault>>

-----------------------------------------------------------------------------
(* tcp_receive, the ACK half *)

TCP_WND_INC(wnd, inc) == Least(wnd + inc, U16)

UpdateWindow(p, a) ==
    IF \/ p.snd_wl1 < a.seqno
       \/ p.snd_wl1 = a.seqno /\ p.snd_wl2 < a.ackno
       \/ p.snd_wl2 = a.ackno /\ a.wnd > p.snd_wnd
    THEN [p EXCEPT !.snd_wnd = a.wnd, !.snd_wnd_max = Most(@, a.wnd),
                   !.snd_wl1 = a.seqno, !.snd_wl2 = a.ackno]
    ELSE p

\* Mutant of tcp_rexmit_fast: the segment is put behind the unsent ones.
RexmitLast(p) ==
    IF p.unacked = <<>> \/ p.infr THEN p
    ELSE LET half == Most(Least(p.cwnd, p.snd_wnd) \div 2, 2 * mss)
         IN  [p EXCEPT !.unacked = Tail(@), !.unsent = Append(@, Head(p.unacked)),
                       !.ssthresh = half, !.cwnd = half + 3 * mss, !.infr = TRUE]

\* tcp_rexmit_fast and tcp_rexmit: the first unacknowledged segment goes back to
\* unsent, once until new data is acknowledged.
tcp_rexmit_fast(p) ==
    IF p.unacked = <<>> \/ p.infr THEN p
    ELSE LET half == Most(Least(p.cwnd, p.snd_wnd) \div 2, 2 * mss)
         IN  [p EXCEPT !.unacked = Tail(@), !.unsent = Sorted(<<Head(p.unacked)>> \o @),
                       !.ssthresh = half, !.cwnd = half + 3 * mss, !.infr = TRUE]

\* p is the pcb before, q the pcb after its window has been updated.
IsDupAck(p, q, a) ==
    /\ a.tcplen = 0
    /\ q.snd_wl2 + q.snd_wnd = p.snd_wl2 + p.snd_wnd
    /\ p.rtime
    /\ p.lastack = a.ackno

DuplicateAck(q) ==
    LET n == Least(q.dupacks + 1, 255)
        r == [q EXCEPT !.dupacks = n,
                       !.cwnd = IF n > 3 THEN TCP_WND_INC(@, mss) ELSE @]
    IN  IF n >= 3 THEN tcp_rexmit_fast(r) ELSE r

\* How many segments at the head of q are acknowledged entirely
Acked(q, ackno) ==
    Cardinality({i \in 1 .. Len(q) : \A j \in 1 .. i : End(q[j]) <= ackno})

\* cwnd and bytes_acked after acked more bytes
Congestion(p, acked) ==
    LET sum == TCP_WND_INC(p.bytes_acked, acked) IN
    IF p.cwnd < p.ssthresh
    THEN [p EXCEPT !.cwnd = TCP_WND_INC(@, Least(acked, 2 * mss))]
    ELSE IF sum >= p.cwnd
         THEN [p EXCEPT !.bytes_acked = sum - p.cwnd, !.cwnd = TCP_WND_INC(@, mss)]
         ELSE [p EXCEPT !.bytes_acked = sum]

\* Mutant of FreeAcked: the room is given back for the bytes acknowledged, not
\* for the segments freed.
FreeByAckno(p, ackno) ==
    LET n == Acked(p.unacked, ackno)
        m == Acked(p.unsent, ackno)
        gone == SubSeq(p.unacked, 1, n) \o SubSeq(p.unsent, 1, m)
    IN  [p EXCEPT !.unacked = SubSeq(@, n + 1, Len(@)),
                  !.unsent = SubSeq(@, m + 1, Len(@)),
                  !.snd_queuelen = @ - Pbufs(gone),
                  !.snd_buf = @ + ackno - p.lastack,
                  !.rtime = Len(p.unacked) > n]

\* tcp_free_acked_segments on both queues; the room in snd_buf comes back.
FreeAcked(p, ackno) ==
    LET n == Acked(p.unacked, ackno)
        m == Acked(p.unsent, ackno)
        gone == SubSeq(p.unacked, 1, n) \o SubSeq(p.unsent, 1, m)
    IN  [p EXCEPT !.unacked = SubSeq(@, n + 1, Len(@)),
                  !.unsent = SubSeq(@, m + 1, Len(@)),
                  !.snd_queuelen = @ - Pbufs(gone), !.snd_buf = @ + Bytes(gone),
                  !.rtime = Len(p.unacked) > n]

NewAck(q, a) ==
    LET r == IF q.infr THEN [q EXCEPT !.infr = FALSE, !.cwnd = q.ssthresh,
                                      !.bytes_acked = 0]
                       ELSE q
        s == [Congestion(r, a.ackno - q.lastack) EXCEPT !.dupacks = 0]
    IN  [FreeAcked(s, a.ackno) EXCEPT !.lastack = a.ackno]

\* Mutant of tcp_receive: the windows are not looked at again for an ACK that
\* acknowledges nothing new.
ReceiveWithoutUpdate(p, a) ==
    LET q == IF a.ackno <= p.lastack THEN p ELSE UpdateWindow(p, a) IN
    IF a.ackno <= p.lastack
    THEN IF IsDupAck(p, q, a) THEN DuplicateAck(q) ELSE [q EXCEPT !.dupacks = 0]
    ELSE IF a.ackno <= p.snd_nxt THEN NewAck(q, a) ELSE q

tcp_receive(p, a) ==
    LET q == UpdateWindow(p, a) IN
    IF a.ackno <= p.lastack
    THEN IF IsDupAck(p, q, a) THEN DuplicateAck(q) ELSE [q EXCEPT !.dupacks = 0]
    ELSE IF a.ackno <= p.snd_nxt THEN NewAck(q, a) ELSE q

\* tcp_input: when the segment is processed, what now fits is sent.
Input ==
    /\ acks # <<>> /\ acks' = Tail(acks)
    /\ tcp_output(tcp_receive(pcb, Head(acks)), wire)
    /\ UNCHANGED <<peer, fault>>

-----------------------------------------------------------------------------
(* The local machine and the tun device *)

\* The right edge of the window the local machine offers
Edge(k) == k.nxt + PeerWindow - k.unread

Say(k, tcplen, seqno) ==
    Append(acks, [seqno |-> seqno, tcplen |-> tcplen, ackno |-> k.nxt,
                  wnd |-> Edge(k) - k.nxt])

\* The peer's state once it has said k's acknowledgement number and window
Said(k) == [k EXCEPT !.told = Edge(k), !.owes = FALSE]

\* A segment arrives.  What is in sequence is acknowledged soon, anything else
\* at once.
PeerReceive ==
    LET seg == Head(wire)
        have == peer.ooo \cup {i \in seg.seqno .. End(seg) - 1 :
                                  peer.nxt <= i /\ i < Edge(peer)}
        new == CHOOSE n \in peer.nxt .. peer.nxt + Cardinality(have) :
                   n \notin have /\ peer.nxt .. n - 1 \subseteq have
        k == [peer EXCEPT !.nxt = new, !.ooo = {i \in have : i > new},
                          !.unread = @ + new - peer.nxt]
    IN  /\ wire # <<>> /\ wire' = Tail(wire)
        /\ IF new > peer.nxt /\ k.ooo = {}
           THEN peer' = [k EXCEPT !.owes = TRUE] /\ UNCHANGED acks
           ELSE peer' = Said(k) /\ acks' = Say(k, 0, k.seq)
        /\ UNCHANGED <<pcb, fault>>

\* The delayed acknowledgement, or a window update
PeerAck ==
    /\ peer.owes /\ peer' = Said(peer) /\ acks' = Say(peer, 0, peer.seq)
    /\ UNCHANGED <<pcb, wire, fault>>

\* The application reads what there is.  The window is announced again when it
\* has doubled.
PeerRead ==
    LET k == [peer EXCEPT !.unread = 0]
        now == peer.told - peer.nxt
    IN  /\ peer.unread > 0
        /\ peer' = [k EXCEPT !.owes = @ \/ 2 * now <= PeerWindow]
        /\ UNCHANGED <<pcb, wire, acks, fault>>

\* A data segment of the local machine carries the acknowledgement.
PeerData ==
    LET k == [peer EXCEPT !.seq = @ + 1] IN
    /\ peer.seq < MaxSaid
    /\ peer' = Said(k) /\ acks' = Say(k, 1, peer.seq)
    /\ UNCHANGED <<pcb, wire, fault>>

\* It sends an old one again: it was lost, or lwIP has not acknowledged it.
PeerRepeat ==
    /\ peer.seq > 0 /\ fault = "none" /\ fault' = "repeated"
    /\ peer' = Said(peer) /\ acks' = Say(peer, 1, peer.seq - 1)
    /\ UNCHANGED <<pcb, wire>>

Lose ==
    /\ fault = "none" /\ fault' = "lost"
    /\ \/ \E i \in 1 .. Len(wire) : wire' = RemoveAt(wire, i) /\ UNCHANGED acks
       \/ \E i \in 1 .. Len(acks) : acks' = RemoveAt(acks, i) /\ UNCHANGED wire
    /\ UNCHANGED <<pcb, peer>>

Next ==
    \/ \E n \in Chunks : Write(n)
    \/ Input
    \/ PeerReceive \/ PeerAck \/ PeerRead
    \/ PeerData \/ PeerRepeat \/ Lose

Spec == Init /\ [][Next]_vars

\* Packets do not stay in the tun device: the io_context reads it, and so does
\* the local machine, whose TCP has its timers and whose application reads.
Taken(queue) == queue # <<>> /\ queue' = Tail(queue)

FairSpec ==
    /\ Spec
    /\ WF_acks(Taken(acks)) /\ WF_wire(Taken(wire))
    /\ WF_vars(PeerAck) /\ WF_vars(PeerRead)

-----------------------------------------------------------------------------
(* Properties *)

\* The two queues together hold every byte from the first unacknowledged
\* segment to snd_lbb exactly once, whatever has been retransmitted,
\* acknowledged and appended, so tcp_write gives new data the numbers that
\* follow.  (After an overrun, see WithinOffer, a retransmitted segment can be
\* stuck in unsent behind a closed window; tcp_write then appends to it.)
QueuesCover ==
    LET q == Sorted(pcb.unacked \o pcb.unsent) IN
    fault # "repeated" =>
    /\ \A i \in 1 .. Len(q) - 1 : End(q[i]) = q[i + 1].seqno
    /\ q = <<>> => pcb.lastack = pcb.snd_lbb
    /\ q # <<>> => /\ End(Last(q)) = pcb.snd_lbb
                   /\ Head(q).seqno <= pcb.lastack /\ pcb.lastack < End(Head(q))

\* Both queues stay sorted, and room in the send buffer and the count of pbufs
\* are given back exactly when the segments that took them go: the session's
\* read loop stops on snd_buf, and assertions in tcp_write and
\* tcp_free_acked_segments rely on snd_queuelen.
RoomAccounted ==
    /\ pcb.unacked = Sorted(pcb.unacked) /\ pcb.unsent = Sorted(pcb.unsent)
    /\ pcb.snd_buf + Bytes(pcb.unacked \o pcb.unsent) = TCP_SND_BUF
    /\ pcb.snd_queuelen = Pbufs(pcb.unacked \o pcb.unsent)

\* lwIP never sends past the window the local machine offers, unless that
\* machine repeats an old segment: its acknowledgement moves lastack, from which
\* tcp_output measures the window, but its window is ignored for its number.
WithinOffer ==
    fault # "repeated" => \A i \in 1 .. Len(wire) : End(wire[i]) <= Edge(peer)

Quiet == wire = <<>> /\ acks = <<>> /\ ~peer.owes

\* After a loss the third duplicate acknowledgement brings the segment back: the
\* connection comes to rest only if fewer than three arrived.
FastRetransmitRecovers ==
    fault = "lost" /\ Quiet /\ pcb.unacked # <<>> => pcb.dupacks < 3

\* Without loss everything the session writes is acknowledged in the end: no
\* delayed acknowledgement and no closed window leaves the connection waiting
\* for one of the timers that never run.
AllAcknowledged ==
    [](fault = "none") => []<>(pcb.lastack = pcb.snd_lbb)
=============================================================================
