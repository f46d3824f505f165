--------------------------- MODULE TcpConnection ---------------------------
(***************************************************************************)
(* The life of lwIP's connections on one pair of address and port: the     *)
(* listener, the handshake, resets, the passive close, and what happens    *)
(* when the local machine gives a connection up and opens it again.        *)
(*                                                                         *)
(* The other end is the TCP of the local machine.  It opens the pair up to *)
(* MaxInc times, each time with a new initial number; an opening is an     *)
(* incarnation.  It sends bytes one at a time, each when the one before is *)
(* acknowledged: segments out of order are the subject of TcpReceive, and  *)
(* the data lwIP sends that of TcpSend.  The tun device keeps the order of *)
(* segments and may lose some.  lwIP's timers never run, so whatever it    *)
(* sends answers a segment; only the local machine retransmits.            *)
(***************************************************************************)
EXTENDS Integers, FiniteSets, Sequences, TcpSeq

CONSTANTS
    MaxInc,    \* incarnations of the pair
    PeerISS,   \* initial sequence number of each
    ISS,       \* tcp_next_iss: tcp_ticks stays 0, so every pcb has the same
    TCP_WND,   \* receive window
    MaxBytes,  \* bytes an incarnation sends
    MaxLoss,   \* segments lost
    MaxQueue   \* segments in flight when the local machine sends of its own

Incs == 1 .. MaxInc

ASSUME ConnectionAssumption ==
    /\ MaxInc \in Nat \ {0} /\ PeerISS \in [Incs -> SeqNo] /\ ISS \in SeqNo
    /\ TCP_WND \in Nat \ {0} /\ MaxBytes \in Nat
    /\ MaxLoss \in Nat /\ MaxQueue \in Nat \ {0}
    \* the numbers of an incarnation are distinct, and those of two are apart
    /\ MaxBytes + TCP_WND + 2 < Modulus
    /\ \A i, j \in Incs :
           i # j => Minus(PeerISS[i], PeerISS[j]) > MaxBytes + TCP_WND + 2

VARIABLES
    pcb,       \* the active pcb of the pair, or NoPcb
    session,   \* its TcpSession: "none", "open", or "closed" by the SOCKS5 side
    got,       \* the bytes given to that session
    peer,      \* the local machine's end
    up, down,  \* segments on their way to lwIP and from it
    \* history
    opened,    \* incarnations the local machine saw established
    closed,    \* incarnations lwIP's user closed with tcp_close
    lost       \* the segments lost: <<"up" or "down", segment>>

vars == <<pcb, session, got, peer, up, down, opened, closed, lost>>

Flags == {"SYN", "ACK", "FIN", "RST"}
Segments == [flags : SUBSET Flags, seqno : SeqNo, ackno : SeqNo, len : {0, 1},
             inc : 0 .. MaxInc]

Seg(flags, seqno, ackno) ==
    [flags |-> flags, seqno |-> seqno, ackno |-> ackno, len |-> 0, inc |-> 0]
tcplen(seg) == seg.len + (IF seg.flags \cap {"SYN", "FIN"} # {} THEN 1 ELSE 0)

NoPcb == [state |-> "NONE", inc |-> 0, rcv_nxt |-> 0, rcv_wnd |-> 0,
          snd_nxt |-> 0, lastack |-> 0, dupacks |-> 0, ack_delay |-> FALSE,
          infr |-> FALSE]

Pcbs == [state : {"NONE", "SYN_RCVD", "ESTABLISHED", "LAST_ACK"},
         inc : 0 .. MaxInc, rcv_nxt : SeqNo, rcv_wnd : 0 .. TCP_WND,
         snd_nxt : SeqNo, lastack : SeqNo, dupacks : 0 .. 3, ack_delay : BOOLEAN,
         infr : BOOLEAN]  \* TF_INFR

Peers == [state : {"CLOSED", "SYN_SENT", "ESTABLISHED", "FIN_WAIT", "TIME_WAIT"},
          inc : 0 .. MaxInc, sent : 0 .. MaxBytes, acked : BOOLEAN, rcv_nxt : SeqNo]

TypeOK ==
    /\ pcb \in Pcbs /\ peer \in Peers
    /\ session \in {"none", "open", "closed"}
    /\ got \in Seq(Incs \X SeqNo)
    /\ up \in Seq(Segments) /\ down \in Seq(Segments)
    /\ opened \subseteq Incs /\ closed \subseteq Incs
    /\ lost \subseteq {"up", "down"} \X Segments

Init ==
    /\ pcb = NoPcb /\ session = "none" /\ got = <<>>
    /\ peer = [state |-> "CLOSED", inc |-> 0, sent |-> 0, acked |-> TRUE,
               rcv_nxt |-> 0]
    /\ up = <<>> /\ down = <<>>
    /\ opened = {} /\ closed = {} /\ lost = {}

-----------------------------------------------------------------------------
(* What lwIP sends.  A segment can always be allocated. *)

\* tcp_rst in answer to seg
tcp_rst(seg) == Seg({"RST", "ACK"}, seg.ackno, Plus(seg.seqno, tcplen(seg)))

tcp_send_empty_ack(p) == Seg({"ACK"}, p.snd_nxt, p.rcv_nxt)

\* Mutant of Fin: the number after it
FinAfter(p) == Seg({"FIN", "ACK"}, p.snd_nxt, p.rcv_nxt)

SynAck(p) == Seg({"SYN", "ACK"}, p.lastack, p.rcv_nxt)
Fin(p) == Seg({"FIN", "ACK"}, Minus(p.snd_nxt, 1), p.rcv_nxt)

\* The outcome of a handler: the pcb, and the segments it sent.
Outcome(p, out) == pcb' = p /\ down' = down \o out

\* tcp_output at the end of tcp_input: an acknowledgement, if it is due now
AckIf(now, p) ==
    IF now THEN Outcome([p EXCEPT !.ack_delay = FALSE], <<tcp_send_empty_ack(p)>>)
           ELSE Outcome(p, <<>>)

\* tcp_pcb_remove sends a delayed acknowledgement first.
tcp_pcb_remove(p, out) ==
    Outcome(NoPcb,
            IF p.ack_delay THEN Append(out, tcp_send_empty_ack(p)) ELSE out)

-----------------------------------------------------------------------------
(* The listener *)

NewPcb(seg) ==
    [state |-> "SYN_RCVD", inc |-> seg.inc, rcv_nxt |-> Plus(seg.seqno, 1),
     rcv_wnd |-> TCP_WND, snd_nxt |-> Plus(ISS, 1), lastack |-> ISS,
     dupacks |-> 0, ack_delay |-> FALSE, infr |-> FALSE]

tcp_listen_input(seg) ==
    /\ UNCHANGED <<session, got, closed>>
    /\ \/ "RST" \in seg.flags /\ Outcome(NoPcb, <<>>)
       \/ /\ "RST" \notin seg.flags /\ "ACK" \in seg.flags
          /\ Outcome(NoPcb, <<tcp_rst(seg)>>)
       \/ /\ seg.flags = {"SYN"}
          /\ Outcome(NewPcb(seg), <<SynAck(NewPcb(seg))>>)

-----------------------------------------------------------------------------
(* tcp_receive, for segments of at most one byte or a FIN *)

IsDupAck(p, seg) ==
    /\ seg.ackno = p.lastack /\ tcplen(seg) = 0
    /\ p.lastack # p.snd_nxt  \* something is unacknowledged

\* The acknowledgement half; TCP_SEQ_BETWEEN tells new ones.
Acked(p, seg) ==
    IF TCP_SEQ_LEQ(seg.ackno, p.lastack)
    THEN [p EXCEPT !.dupacks = IF ~IsDupAck(p, seg) THEN 0
                               ELSE IF @ < 3 THEN @ + 1 ELSE @]
    ELSE IF TCP_SEQ_BETWEEN(seg.ackno, Plus(p.lastack, 1), p.snd_nxt)
         THEN [p EXCEPT !.lastack = seg.ackno, !.dupacks = 0, !.infr = FALSE]
         ELSE p

\* An acknowledgement of what was never sent is answered at once.
BeyondSent(p, seg) == TCP_SEQ_LT(p.snd_nxt, seg.ackno)

InWindow(p, seqno) ==
    TCP_SEQ_BETWEEN(seqno, p.rcv_nxt, Plus(p.rcv_nxt, p.rcv_wnd - 1))

\* Mutant of IsNext: bytes before the window are taken again.
IsNextOrOld(p, seg) ==
    /\ tcplen(seg) > 0 /\ p.state # "LAST_ACK" /\ TCP_SEQ_LEQ(seg.seqno, p.rcv_nxt)

\* The segment has the next byte, or the FIN, and lwIP takes it: a full window
\* has room for neither.
IsNext(p, seg) ==
    /\ tcplen(seg) > 0 /\ p.state # "LAST_ACK"
    /\ seg.seqno = p.rcv_nxt /\ InWindow(p, seg.seqno)

\* tcp_ack acknowledges every second segment at once.
Taken(p) == [p EXCEPT !.rcv_nxt = Plus(@, 1), !.rcv_wnd = @ - 1,
                      !.ack_delay = ~@]

-----------------------------------------------------------------------------
(* tcp_recv_func *)

\* tcp_close, from a callback of tcp_input: with bytes the session has not
\* forwarded the connection is reset, else a FIN is sent (tcp_close_shutdown,
\* tcp_close_shutdown_fin, tcp_send_fin).
tcp_close(p) ==
    /\ \/ /\ p.rcv_wnd # TCP_WND
          /\ tcp_pcb_remove(p, <<Seg({"RST", "ACK"}, p.snd_nxt, p.rcv_nxt)>>)
       \/ /\ p.rcv_wnd = TCP_WND
          /\ LET q == [p EXCEPT !.state = "LAST_ACK", !.snd_nxt = Plus(@, 1),
                                !.ack_delay = FALSE]
             IN Outcome(q, <<Fin(q)>>)
    /\ closed' = closed \cup {p.inc}

\* TcpHandler::Clear
Clear == session' = "none" /\ got' = <<>>

\* The recv callback with the byte of seg, which p has taken.  ses is the session
\* of p; the accept callback may just have made it.
RecvByte(p, seg, ses) ==
    \/ /\ ses = "open"
       /\ session' = ses
       /\ got' = Append(got, <<seg.inc, seg.seqno>>)
       /\ AckIf(~p.ack_delay, p) /\ UNCHANGED closed
    \/ ses = "closed" /\ Clear /\ tcp_close(p)

\* Mutant of RecvFin: the FIN stays in the window.
RecvFinUncorrected(p) == Clear /\ tcp_close(p)

\* The recv callback with no pbuf.  The FIN is no part of the window.
RecvFin(p) == Clear /\ tcp_close([p EXCEPT !.rcv_wnd = @ + 1])

-----------------------------------------------------------------------------
(* tcp_input *)

\* tcp_receive in ESTABLISHED, the callbacks after it, and tcp_output
Receive(p, seg, ses) ==
    LET q == Acked(p, seg)
    IN \/ IsNext(q, seg) /\ seg.len = 1 /\ RecvByte(Taken(q), seg, ses)
       \/ IsNext(q, seg) /\ seg.len = 0 /\ RecvFin(Taken(q))
       \/ /\ ~IsNext(q, seg)
          /\ session' = ses /\ UNCHANGED <<got, closed>>
          /\ AckIf(BeyondSent(p, seg) \/ ~InWindow(q, seg.seqno), q)

\* Mutant of ResetAcceptable: the sequence number is not looked at.
AnyReset(p, seg) == TRUE

ResetAcceptable(p, seg) == seg.seqno = p.rcv_nxt

\* The RST branch of tcp_process.  In the window but not exact, it is answered
\* by a challenge.  tcp_err_func clears the session.
ProcessReset(p, seg) ==
    /\ UNCHANGED closed
    /\ \/ ResetAcceptable(p, seg) /\ Clear /\ Outcome(NoPcb, <<>>)
       \/ /\ ~ResetAcceptable(p, seg) /\ UNCHANGED <<session, got>>
          /\ AckIf(TCP_SEQ_BETWEEN(seg.seqno, p.rcv_nxt,
                                   Plus(p.rcv_nxt, p.rcv_wnd)), p)

HandshakeAck(p, seg) ==
    TCP_SEQ_BETWEEN(seg.ackno, Plus(p.lastack, 1), p.snd_nxt)

\* Mutant of ProcessSynRcvd: a repeated SYN completes the handshake.
AcceptSegment(p, seg) == Receive([p EXCEPT !.state = "ESTABLISHED"], seg, "open")

\* listener_accept_func starts the session, which is closed at once if
\* openRemoteSocket fails.
ProcessSynRcvd(p, seg) ==
    \/ /\ "ACK" \in seg.flags /\ HandshakeAck(p, seg)
       /\ \E ses \in {"open", "closed"} :
              Receive([p EXCEPT !.state = "ESTABLISHED"], seg, ses)
    \/ /\ ~("ACK" \in seg.flags /\ HandshakeAck(p, seg))
       /\ UNCHANGED <<session, got, closed>>
       /\ Outcome(p, IF "ACK" \in seg.flags THEN <<tcp_rst(seg)>>
                     ELSE IF seg.seqno = Minus(p.rcv_nxt, 1)
                          THEN <<SynAck(p)>>  \* tcp_rexmit
                          ELSE <<>>)

\* The user has closed: segments are acknowledged and their bytes ignored.
ProcessLastAck(p, seg) ==
    LET q == Acked(p, seg)
    IN /\ UNCHANGED <<session, got, closed>>
       /\ \/ seg.ackno = q.snd_nxt /\ Outcome(NoPcb, <<>>)
          \/ /\ seg.ackno # q.snd_nxt
             /\ IF q.dupacks = 3 /\ ~q.infr
                THEN Outcome([q EXCEPT !.infr = TRUE], <<Fin(q)>>)  \* tcp_rexmit_fast
                ELSE AckIf(BeyondSent(p, seg) \/ ~InWindow(q, seg.seqno), q)

\* Mutant of ProcessSyn: a SYN for a live connection is dropped.
IgnoreSyn(p, seg) == UNCHANGED <<session, got, closed>> /\ Outcome(p, <<>>)

\* A SYN for a synchronised connection: the local machine has lost it.  The
\* acknowledgement makes it send the reset that frees the pcb.
ProcessSyn(p, seg) == UNCHANGED <<session, got, closed>> /\ AckIf(TRUE, p)

tcp_process(p, seg) ==
    \/ "RST" \in seg.flags /\ ProcessReset(p, seg)
    \/ "RST" \notin seg.flags /\ p.state = "SYN_RCVD" /\ ProcessSynRcvd(p, seg)
    \/ /\ "RST" \notin seg.flags /\ p.state # "SYN_RCVD"
       /\ \/ "SYN" \in seg.flags /\ ProcessSyn(p, seg)
          \/ /\ "SYN" \notin seg.flags
             /\ \/ p.state = "ESTABLISHED" /\ Receive(p, seg, session)
                \/ p.state = "LAST_ACK" /\ ProcessLastAck(p, seg)

tcp_input ==
    /\ up # <<>>
    /\ up' = Tail(up) /\ UNCHANGED <<peer, opened, lost>>
    /\ \/ pcb.state = "NONE" /\ tcp_listen_input(Head(up))
       \/ pcb.state # "NONE" /\ tcp_process(pcb, Head(up))

-----------------------------------------------------------------------------
(* The session *)

\* tcp_recved, when a byte has been written to the SOCKS5 server.  The bytes given
\* back since the last window update may have come to the threshold of the next.
tcp_recved ==
    /\ session = "open" /\ pcb.rcv_wnd < TCP_WND
    /\ \E update \in BOOLEAN : AckIf(update, [pcb EXCEPT !.rcv_wnd = @ + 1])
    /\ UNCHANGED <<session, got, peer, up, opened, closed, lost>>

\* The SOCKS5 side fails or ends: status = SESSION_CLOSE.
SessionEnds ==
    /\ session = "open" /\ session' = "closed"
    /\ UNCHANGED <<pcb, got, peer, up, down, opened, closed, lost>>

-----------------------------------------------------------------------------
(* The local machine's end *)

\* The number after what this incarnation has sent
PeerNxt(p) ==
    Plus(PeerISS[p.inc],
         1 + p.sent + (IF p.state \in {"FIN_WAIT", "TIME_WAIT"} THEN 1 ELSE 0))

PeerAck(p) == [Seg({"ACK"}, PeerNxt(p), p.rcv_nxt) EXCEPT !.inc = p.inc]

\* What is not acknowledged: the SYN, the last byte or the FIN
Unacked(p) ==
    CASE p.state = "SYN_SENT" -> [Seg({"SYN"}, PeerISS[p.inc], 0)
                                     EXCEPT !.inc = p.inc]
      [] p.state = "ESTABLISHED" -> [PeerAck(p) EXCEPT !.seqno = Minus(@, 1),
                                                       !.len = 1]
      [] p.state = "FIN_WAIT" -> [PeerAck(p) EXCEPT !.seqno = Minus(@, 1),
                                                    !.flags = {"FIN", "ACK"}]

Say(seg) == up' = Append(up, seg)
PeerAlone ==
    /\ Len(up) + Len(down) < MaxQueue
    /\ UNCHANGED <<pcb, session, got, down, opened, closed, lost>>

PeerOpen ==
    /\ PeerAlone
    /\ peer.state \in {"CLOSED", "TIME_WAIT"} /\ peer.inc < MaxInc
    /\ peer' = [state |-> "SYN_SENT", inc |-> peer.inc + 1, sent |-> 0,
                acked |-> FALSE, rcv_nxt |-> 0]
    /\ Say(Unacked(peer'))

PeerSend ==
    /\ PeerAlone
    /\ peer.state = "ESTABLISHED" /\ peer.acked /\ peer.sent < MaxBytes
    /\ peer' = [peer EXCEPT !.sent = @ + 1, !.acked = FALSE]
    /\ Say(Unacked(peer'))

PeerFinish ==
    /\ PeerAlone
    /\ peer.state = "ESTABLISHED" /\ peer.acked
    /\ peer' = [peer EXCEPT !.state = "FIN_WAIT", !.acked = FALSE]
    /\ Say(Unacked(peer'))

PeerRetransmit ==
    /\ PeerAlone
    /\ peer.state \in {"SYN_SENT", "ESTABLISHED", "FIN_WAIT"} /\ ~peer.acked
    /\ Say(Unacked(peer)) /\ UNCHANGED peer

\* The application gives up: an established connection is reset, an opening one
\* forgotten.
PeerAbort ==
    /\ PeerAlone
    /\ peer.state \in {"SYN_SENT", "ESTABLISHED", "FIN_WAIT"}
    /\ peer' = [peer EXCEPT !.state = "CLOSED"]
    /\ IF peer.state = "SYN_SENT" THEN UNCHANGED up
       ELSE Say([PeerAck(peer) EXCEPT !.flags = {"RST", "ACK"}])

\* A segment for a connection the machine does not have
PeerRefuse(seg) ==
    /\ UNCHANGED <<peer, opened>>
    /\ IF "RST" \in seg.flags THEN UNCHANGED up
       ELSE Say(Seg({"RST"}, seg.ackno, 0))

PeerSynSent(seg) ==
    \/ seg.ackno # PeerNxt(peer) /\ PeerRefuse(seg)
    \/ /\ seg.ackno = PeerNxt(peer) /\ "SYN" \in seg.flags
       /\ peer' = [peer EXCEPT !.state = "ESTABLISHED", !.acked = TRUE,
                               !.rcv_nxt = Plus(seg.seqno, 1)]
       /\ opened' = opened \cup {peer.inc} /\ Say(PeerAck(peer'))

PeerOpenInput(seg) ==
    /\ UNCHANGED opened
    /\ \/ /\ "RST" \in seg.flags
          /\ peer' = IF seg.seqno = peer.rcv_nxt
                     THEN [peer EXCEPT !.state = "CLOSED"] ELSE peer
          /\ UNCHANGED up
       \/ "SYN" \in seg.flags /\ UNCHANGED peer /\ Say(PeerAck(peer))
       \/ /\ "FIN" \in seg.flags
          /\ peer' = IF seg.seqno = peer.rcv_nxt
                     THEN [peer EXCEPT !.state = "TIME_WAIT", !.acked = TRUE,
                                       !.rcv_nxt = Plus(@, 1)]
                     ELSE peer
          /\ Say(PeerAck(peer'))
       \/ /\ seg.flags = {"ACK"}
          /\ peer' = [peer EXCEPT !.acked = @ \/ seg.ackno = PeerNxt(peer)]
          /\ UNCHANGED up

PeerInput ==
    /\ down # <<>>
    /\ down' = Tail(down) /\ UNCHANGED <<pcb, session, got, closed, lost>>
    /\ \/ peer.state = "CLOSED" /\ PeerRefuse(Head(down))
       \/ peer.state = "SYN_SENT" /\ PeerSynSent(Head(down))
       \/ peer.state \notin {"CLOSED", "SYN_SENT"} /\ PeerOpenInput(Head(down))

\* The tun device drops a segment.
Lose ==
    /\ Cardinality(lost) < MaxLoss
    /\ \/ /\ up # <<>> /\ <<"up", Head(up)>> \notin lost
          /\ up' = Tail(up) /\ lost' = lost \cup {<<"up", Head(up)>>}
          /\ UNCHANGED down
       \/ /\ down # <<>> /\ <<"down", Head(down)>> \notin lost
          /\ down' = Tail(down) /\ lost' = lost \cup {<<"down", Head(down)>>}
          /\ UNCHANGED up
    /\ UNCHANGED <<pcb, session, got, peer, opened, closed>>

Next ==
    \/ tcp_input \/ tcp_recved \/ SessionEnds
    \/ PeerOpen \/ PeerSend \/ PeerFinish \/ PeerRetransmit \/ PeerAbort
    \/ PeerInput \/ Lose

Spec == Init /\ [][Next]_vars

\* The read coroutine goes on, the SOCKS5 server takes what it is sent, the local
\* machine's TCP answers and retransmits.
FairSpec == /\ Spec
            /\ WF_vars(tcp_input) /\ WF_vars(tcp_recved)
            /\ WF_vars(PeerInput) /\ WF_vars(PeerRetransmit)

-----------------------------------------------------------------------------
(* Properties *)

\* A connection is accepted, and a SOCKS5 session opened for it, only when the
\* local machine has seen the same incarnation established.  The session stands
\* for an established pcb, and a pcb is left to close in order only when every
\* byte of it has been forwarded.
AcceptedIsOpen ==
    /\ pcb.state \in {"ESTABLISHED", "LAST_ACK"} => pcb.inc \in opened
    /\ session # "none" <=> pcb.state = "ESTABLISHED"
    /\ pcb.state = "LAST_ACK" => pcb.rcv_wnd = TCP_WND

\* A session is given the bytes of the incarnation it was accepted for, each once
\* and from the first on, whatever an earlier incarnation left on the way.
OwnBytes ==
    \A k \in DOMAIN got : got[k] = <<pcb.inc, Plus(PeerISS[pcb.inc], k)>>

\* The local machine's established connection has a pcb, until the session's end
\* makes tcp_recv_func close it: no reset, SYN or acknowledgement of another
\* incarnation takes the pcb away.
EstablishedHasPcb ==
    peer.state = "ESTABLISHED" /\ peer.inc \notin closed =>
        pcb.state \in {"SYN_RCVD", "ESTABLISHED"} /\ pcb.inc = peer.inc

\* A connection the local machine has not given up, whose session is open and has
\* forwarded every byte, is not reset: its pcb stays, and the FIN that ends it is
\* answered by the FIN of tcp_close.
OrderlyClose ==
    [][pcb.state = "ESTABLISHED" /\ session = "open" /\ pcb.rcv_wnd = TCP_WND
       /\ peer.inc = pcb.inc /\ peer.state \in {"ESTABLISHED", "FIN_WAIT"} =>
           pcb'.state \in {"ESTABLISHED", "LAST_ACK"}]_vars

\* A pcb is in SYN_RCVD for an incarnation the local machine has given up.
HalfOpen == pcb.state = "SYN_RCVD" /\ pcb.inc # peer.inc

\* Opening a connection ends, with the pair's old pcb established, closing or
\* gone: the challenge of tcp_process and the reset it provokes clear the way.
\* Only an old pcb in SYN_RCVD, which answers no other SYN, is in the way for
\* good, as no timer frees it.
OpenCompletes == peer.state = "SYN_SENT" ~> (peer.state # "SYN_SENT" \/ HalfOpen)

Lost(way, flag) == \E l \in lost : l[1] = way /\ flag \in l[2].flags

\* The session has ended and the window is full: its bytes are given back no more,
\* so neither a byte nor the FIN can reach tcp_recv_func, which would close the pcb.
Stuck == session = "closed" /\ pcb.rcv_wnd = 0

\* Closing ends for both.  The local machine leaves FIN_WAIT by the FIN or the
\* reset of tcp_close, each sent once, so unless that is lost, or the session ends
\* with a full window; the pcb is freed by the last acknowledgement, unless the
\* FIN or that is lost.
CloseCompletes ==
    /\ peer.state = "FIN_WAIT" ~>
           \/ peer.state # "FIN_WAIT" \/ Stuck
           \/ Lost("down", "FIN") \/ Lost("down", "RST")
    /\ pcb.state = "LAST_ACK" ~>
           pcb.state # "LAST_ACK" \/ Lost("down", "FIN") \/ Lost("up", "ACK")
============================================================================
