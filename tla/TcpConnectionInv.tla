-------------------------- MODULE TcpConnectionInv --------------------------
(***************************************************************************)
(* The inductive invariant of TcpConnection.  The device keeps the order   *)
(* of segments, so lwIP passes from one incarnation to the next and never  *)
(* back; what an old incarnation can still do is be reset by its numbers,  *)
(* and those are apart from the numbers of the new one.                    *)
(***************************************************************************)
EXTENDS TcpConnection

\* The n-th number after the initial one of incarnation i, and the numbers that
\* come after its SYN, its bytes and its FIN
Number(i, n) == Plus(PeerISS[i], n)
Places == 1 .. MaxBytes + 2
Numbers(i) == {Number(i, n) : n \in Places}

\* The segments that are of no incarnation before i
NotBefore(i) == {u \in Segments : u.inc = 0 \/ i <= u.inc}

\* lwIP has come as far as incarnation i: its pcb is of no earlier one, and
\* neither is a segment on its way to it.
Reached(i) ==
    /\ i \in Incs /\ i <= peer.inc
    /\ pcb.state # "NONE" => i <= pcb.inc
    /\ up \in Seq(NotBefore(i))

\* The local machine has given up incarnation i.
GivenUp(i) == i \in Incs /\ (i < peer.inc \/ (i = peer.inc /\ peer.state = "CLOSED"))

\* A pcb waits for the number after what it was given, and its window has room
\* for the bytes it was not given.
PcbInv ==
    /\ IF pcb.state = "NONE" THEN pcb = NoPcb ELSE Reached(pcb.inc)
    /\ pcb.state = "SYN_RCVD" => pcb.rcv_nxt = Number(pcb.inc, 1) /\ pcb.rcv_wnd = TCP_WND
    /\ pcb.state = "ESTABLISHED" =>
           /\ Len(got) <= MaxBytes /\ pcb.rcv_nxt = Number(pcb.inc, Len(got) + 1)
           /\ TCP_WND <= pcb.rcv_wnd + Len(got)
    /\ pcb.state = "LAST_ACK" => pcb.rcv_nxt \in Numbers(pcb.inc)
    /\ pcb.state # "ESTABLISHED" => got = <<>>

\* A segment of the local machine: an acknowledgement is of an established
\* incarnation, a reset has a number of one that was given up.
UpSegment(u) ==
    /\ u.inc = 0 => u.flags = {"RST"}
    /\ u.inc <= peer.inc
    /\ "ACK" \in u.flags => u.inc \in opened
    /\ "RST" \in u.flags => \E i \in Incs : GivenUp(i) /\ u.seqno \in Numbers(i)
    /\ "SYN" \in u.flags => u.flags = {"SYN"} /\ u.seqno = PeerISS[u.inc]
    /\ u.flags \cap {"ACK", "RST", "SYN"} # {}
    /\ u.len = 1 => \E n \in 1 .. MaxBytes : u.seqno = Number(u.inc, n)

UpInv ==
    /\ up \in Seq({u \in Segments : UpSegment(u)})
    /\ \A k, l \in 1 .. Len(up) :
           k < l /\ up[k].inc # 0 /\ up[l].inc # 0 => up[k].inc <= up[l].inc

\* A segment of lwIP that is no reset acknowledges a number of an incarnation lwIP
\* has reached.  Of the one the local machine is opening it acknowledges the SYN,
\* and the pcb that does is still there.
DownSegment(d) ==
    /\ "SYN" \in d.flags => "RST" \notin d.flags
    /\ "RST" \notin d.flags =>
           \E i \in Incs, n \in Places :
               /\ Reached(i) /\ d.ackno = Number(i, n)
               /\ peer.state = "SYN_SENT" /\ i = peer.inc =>
                      n = 1 /\ pcb.state = "SYN_RCVD" /\ pcb.inc = i

DownInv == down \in Seq({d \in Segments : DownSegment(d)})

\* The local machine opens an incarnation once, and has sent a byte when it waits
\* for one to be acknowledged.
PeerLocal ==
    /\ peer.state # "CLOSED" => peer.inc \in Incs
    /\ peer.state = "SYN_SENT" => peer.sent = 0 /\ peer.inc \notin opened
    /\ peer.state \notin {"CLOSED", "SYN_SENT"} => peer.inc \in opened
    /\ peer.state = "ESTABLISHED" /\ ~peer.acked => peer.sent > 0

\* It sees an incarnation established when lwIP has reached it.
PeerInv == PeerLocal /\ \A i \in opened : Reached(i)

IndInv ==
    /\ TypeOK
    /\ PcbInv /\ UpInv /\ DownInv /\ PeerInv
    /\ AcceptedIsOpen /\ OwnBytes /\ EstablishedHasPcb
=============================================================================
