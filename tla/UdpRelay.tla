------------------------------ MODULE UdpRelay ------------------------------
(***************************************************************************)
(* The UDP side of libtunOsocks.  Two threads share the sessions: the tun  *)
(* thread runs UdpHandler::Handle for every UDP packet of the tun device,  *)
(* the thread of the handler's io_context runs the completion handlers and *)
(* the reading coroutine of every session.  A step is what one thread does *)
(* up to the next point where the other can see or change what it uses.    *)
(*                                                                         *)
(* A datagram is its number, source port and destination.  Payloads and    *)
(* checksums are left out.  A reply has a length, as a write to the tun    *)
(* device is given one; a reply too long for remote_recv_buff_ is a failed *)
(* receive (Windows) or is not told apart from a whole one (macOS).        *)
(***************************************************************************)
EXTENDS Naturals, Sequences

CONSTANTS
    Ports,          \* source ports of the applications
    Dests,          \* the addresses and ports they send to
    INADDR_NONE,    \* the destination whose address is 255.255.255.255
    Endpoints,      \* the endpoints the SOCKS5 server sends from
    Server,         \* the one that Socks5ServerInfo holds
    Lengths,        \* the lengths a reply may have
    MaxAsk,         \* bound: datagrams the applications send
    MaxAnswer       \* bound: replies of the server

ASSUME UdpAssumption ==
    MaxAsk \in Nat /\ MaxAnswer \in Nat /\ Server \in Endpoints /\ Lengths \subseteq Nat

Sessions == 1 .. MaxAsk
NoSession == 0
Datagrams == [id : 1 .. MaxAsk, port : Ports, dest : Dests]
Replies == [id : 1 .. MaxAnswer, req : Datagrams, ep : Endpoints, len : Lengths]
NoHeader == [src |-> "none"]
NoReply == [id |-> 0]
Freed == [id |-> 0]

\* Datagrams and replies are numbered in the order they come: n is next after S.
Numbered(n, S) ==
    /\ \A x \in S : x.id < n
    /\ \A k \in 1 .. n - 1 : \E x \in S : x.id = k

VARIABLES
    \* the tun thread: where it is in Handle, the session in hand
    tun_pc, cur, tun_recv_buff_, udp_session_map_,
    \* the sessions
    recv_ep_, ip_udp_header_, session_status_, remote_recv_buff_,
    bound,          \* the socket has a local port, or its first send was refused
    reader,         \* the coroutine of Run
    \* operations that are not finished, and the pbufs
    pbufs, sends, tun_writes,
    \* the network: datagrams the server got, replies waiting in a socket,
    \* all replies, packets the applications got, the replies for which they got
    \* a mixture, and the datagrams they sent
    forwarded, inbox, answered, returned, mixed, asked

tunVars == <<tun_pc, cur, tun_recv_buff_, udp_session_map_, asked>>
netVars == <<forwarded, answered>>
outVars == <<tun_writes, returned, mixed>>
vars == <<tunVars, recv_ep_, ip_udp_header_, session_status_, remote_recv_buff_,
          bound, reader, pbufs, sends, netVars, inbox, outVars>>

Statuses == {"UNSET", "RELAYING", "CLOSED"}
Sends == [id : 1 .. MaxAsk, sess : Sessions, ep : Endpoints,
          state : {"pending", "sent", "failed"}]

\* session_status_ has no value before Run.
Init ==
    /\ tun_pc = "read" /\ cur = NoSession /\ tun_recv_buff_ = Freed
    /\ udp_session_map_ = [p \in Ports |-> NoSession]
    /\ recv_ep_ = [s \in Sessions |-> Server]
    /\ ip_udp_header_ = [s \in Sessions |-> NoHeader]
    /\ session_status_ = [s \in Sessions |-> "UNSET"]
    /\ remote_recv_buff_ = [s \in Sessions |-> [stage |-> "socks", reply |-> NoReply]]
    /\ bound = [s \in Sessions |-> "no"]
    /\ reader = [s \in Sessions |-> "none"]
    /\ pbufs = [i \in 1 .. MaxAsk |-> Freed]
    /\ sends = {} /\ tun_writes = <<>> /\ mixed = {}
    /\ forwarded = <<>> /\ inbox = [s \in Sessions |-> {}]
    /\ answered = {} /\ returned = <<>> /\ asked = {}

------------------------------------------------------------------------------
(* The tun thread *)

\* The saved header of the first packet, with its direction reversed
SetNatInfo(m) == [src |-> m.dest, dst |-> m.port]

\* Handle up to the send.  A new session, named by the number of its first
\* packet, is not known to the other thread yet.
FindOrCreate(m, map, next) ==
    LET s == udp_session_map_[m.port]
        new == m.id
    IN  /\ tun_recv_buff_' = m
        /\ asked' = asked \cup {m}
        /\ \/ /\ s # NoSession
              /\ cur' = s /\ tun_pc' = "send"
              /\ UNCHANGED <<udp_session_map_, ip_udp_header_>>
           \/ /\ s = NoSession
              /\ cur' = new /\ tun_pc' = next
              /\ udp_session_map_' = map[new]
              /\ ip_udp_header_' = [ip_udp_header_ EXCEPT ![new] = SetNatInfo(m)]

Received(m) ==
    /\ tun_pc = "read"
    /\ Numbered(m.id, asked)
    /\ UNCHANGED <<recv_ep_, session_status_, remote_recv_buff_, bound, reader,
                   pbufs, sends, netVars, inbox, outVars>>

\* The map after a new session was inserted
Inserted(m) == [s \in Sessions |-> [udp_session_map_ EXCEPT ![m.port] = s]]

\* Mutant of Handle: the new session is not inserted.
HandleNoInsert(m) ==
    /\ Received(m)
    /\ FindOrCreate(m, [s \in Sessions |-> udp_session_map_], "send1")

\* Mutant of Handle: Run is called before the first send.
HandleRunsFirst(m) == Received(m) /\ FindOrCreate(m, Inserted(m), "run")

\* A packet of the tun device.  Sessions are found by source port alone.
Handle(m) == Received(m) /\ FindOrCreate(m, Inserted(m), "send1")

\* The pbuf gets a copy of the packet, unless pbuf_take fails: then nothing is
\* sent.  The first send gives the socket a port, unless the system refuses it.
Send(copy) ==
    LET i == tun_recv_buff_.id
        Started(st) == [id |-> i, sess |-> cur, ep |-> recv_ep_[cur], state |-> st]
        Refused == [bound EXCEPT ![cur] = IF @ = "no" THEN "refused" ELSE @]
    IN  /\ tun_pc \in {"send", "send1"}
        /\ \/ /\ pbufs' = [pbufs EXCEPT ![i] = copy]
              /\ sends' = sends \cup {Started("pending")}
              /\ bound' = [bound EXCEPT ![cur] = "port"]
           \/ /\ pbufs' = [pbufs EXCEPT ![i] = copy]
              /\ sends' = sends \cup {Started("failed")}
              /\ bound' = Refused
           \/ bound' = Refused /\ UNCHANGED <<pbufs, sends>>
        /\ tun_pc' = IF tun_pc = "send1" THEN "run" ELSE "read"
        /\ UNCHANGED <<cur, tun_recv_buff_, udp_session_map_, asked, recv_ep_,
                       ip_udp_header_, session_status_, remote_recv_buff_, reader,
                       netVars, inbox, outVars>>

\* Mutant of SendPacketToRemote: the pbuf is freed when the call returns.
SendPacketToRemoteFrees == Send(Freed)

SendPacketToRemote == Send(tun_recv_buff_)

\* The coroutine is handed to the other thread.
Run ==
    /\ tun_pc = "run"
    /\ session_status_' = [session_status_ EXCEPT ![cur] = "RELAYING"]
    /\ reader' = [reader EXCEPT ![cur] = "spawned"]
    /\ tun_pc' = "read"
    /\ UNCHANGED <<cur, tun_recv_buff_, udp_session_map_, asked, recv_ep_,
                   ip_udp_header_, remote_recv_buff_, bound, pbufs, sends,
                   netVars, inbox, outVars>>

------------------------------------------------------------------------------
(* Sockets and the UDP thread *)

\* The socket sends what the pbuf holds.
Transmit(o) ==
    /\ o \in sends /\ o.state = "pending"
    /\ forwarded' = Append(forwarded, [data |-> pbufs[o.id], sess |-> o.sess, ep |-> o.ep])
    /\ sends' = (sends \ {o}) \cup {[o EXCEPT !.state = "sent"]}
    /\ UNCHANGED <<tunVars, recv_ep_, ip_udp_header_, session_status_,
                   remote_recv_buff_, bound, reader, pbufs, answered, inbox,
                   outVars>>

FailSend(o) ==
    /\ o \in sends /\ o.state = "pending"
    /\ sends' = (sends \ {o}) \cup {[o EXCEPT !.state = "failed"]}
    /\ UNCHANGED <<tunVars, recv_ep_, ip_udp_header_, session_status_,
                   remote_recv_buff_, bound, reader, pbufs, netVars, inbox,
                   outVars>>

\* After an error the pbuf is not freed.
handlerOnRemoteSent(o) ==
    /\ o \in sends /\ o.state # "pending"
    /\ sends' = sends \ {o}
    /\ \/ /\ o.state = "failed"
          /\ session_status_' = [session_status_ EXCEPT ![o.sess] = "CLOSED"]
          /\ UNCHANGED pbufs
       \/ /\ o.state = "sent"
          /\ pbufs' = [pbufs EXCEPT ![o.id] = Freed]
          /\ UNCHANGED session_status_
    /\ UNCHANGED <<tunVars, recv_ep_, ip_udp_header_, remote_recv_buff_, bound,
                   reader, netVars, inbox, outVars>>

\* The coroutine starts: async_receive_from for the first time.
StartReader(s) ==
    /\ reader[s] = "spawned"
    /\ reader' = [reader EXCEPT ![s] = "receiving"]
    /\ UNCHANGED <<tunVars, recv_ep_, ip_udp_header_, session_status_,
                   remote_recv_buff_, bound, pbufs, sends, netVars, inbox,
                   outVars>>

\* async_receive_from stores the reply in the buffer, its SOCKS5 header where
\* the end of the last packet's header was, and the sender in recv_ep_.  The
\* send of the tun thread reads recv_ep_ without a lock: as the endpoints of the
\* server differ in the port only, it finds the old or the new one.
Receive(s, r) ==
    /\ reader[s] = "receiving" /\ r \in inbox[s]
    /\ inbox' = [inbox EXCEPT ![s] = @ \ {r}]
    /\ remote_recv_buff_' = [remote_recv_buff_ EXCEPT ![s] = [stage |-> "socks", reply |-> r]]
    /\ recv_ep_' = [recv_ep_ EXCEPT ![s] = r.ep]
    /\ reader' = [reader EXCEPT ![s] = "received"]
    /\ UNCHANGED <<tunVars, ip_udp_header_, session_status_, bound, pbufs, sends,
                   netVars, outVars>>

\* async_receive_from fails (port unreachable, reply too long): the coroutine
\* returns, nothing else is told.
FailReceive(s) ==
    /\ reader[s] = "receiving"
    /\ reader' = [reader EXCEPT ![s] = "failed"]
    /\ session_status_' = [session_status_ EXCEPT ![s] = "CLOSED"]
    /\ UNCHANGED <<tunVars, recv_ep_, ip_udp_header_, remote_recv_buff_, bound,
                   pbufs, sends, netVars, inbox, outVars>>

\* Mutant of Source: the source of the saved header is kept.
SavedSource(s, r) == ip_udp_header_[s].src

\* The source written into the packet: that of the reply's SOCKS5 header
Source(s, r) == r.req.dest

\* What a write that was started for the reply id takes from the buffer b: the
\* packet b holds, if that is no longer than the size the write was given (the
\* rest is not looked at: an IP packet has its own length).  That may be the
\* packet of a later reply.  Otherwise it takes a mixture: a packet cut off, or
\* a header with the reply received since in it.
Written(s, b, id, size) ==
    IF b.stage = "ip" /\ b.reply.len <= size
    THEN /\ returned' = Append(returned, [id |-> b.reply.id, port |-> ip_udp_header_[s].dst,
                                          from |-> Source(s, b.reply), instead |-> id])
         /\ UNCHANGED mixed
    ELSE mixed' = mixed \cup {id} /\ UNCHANGED returned

\* async_write of the packet of the reply r: the buffer is read when the tun
\* device takes it; an error is only printed.  (The Linux build does not inject.)
Inject(s, r) ==
    \/ /\ tun_writes = <<>>
       /\ Written(s, remote_recv_buff_'[s], r.id, r.len)
       /\ UNCHANGED tun_writes
    \/ /\ tun_writes' = Append(tun_writes, [sess |-> s, id |-> r.id, size |-> r.len])
       /\ UNCHANGED <<returned, mixed>>
    \/ UNCHANGED outVars

\* Mutant of NextRead: the coroutine also ends after an address error.
NextReadEnds(r) == IF r.req.dest = INADDR_NONE THEN "none" ELSE "receiving"

\* Every reply, dropped or injected, is followed by the next receive.
NextRead(r) == "receiving"

\* readFromRemote after the receive: the packet is built in place, injected and
\* the next receive started on the same buffer.
readFromRemote(s) ==
    LET r == remote_recv_buff_[s].reply
    IN  /\ reader[s] = "received"
        /\ reader' = [reader EXCEPT ![s] = NextRead(r)]
        /\ \/ /\ r.req.dest = INADDR_NONE
              /\ UNCHANGED <<remote_recv_buff_, outVars>>
           \/ /\ r.req.dest # INADDR_NONE
              /\ remote_recv_buff_' = [remote_recv_buff_ EXCEPT ![s].stage = "ip"]
              /\ Inject(s, r)
        /\ UNCHANGED <<tunVars, recv_ep_, ip_udp_header_, session_status_, bound,
                       pbufs, sends, netVars, inbox>>

\* The tun device takes, or refuses, the oldest pending write.
TunWrite ==
    LET w == Head(tun_writes)
    IN  /\ tun_writes # <<>>
        /\ tun_writes' = Tail(tun_writes)
        /\ \/ Written(w.sess, remote_recv_buff_[w.sess], w.id, w.size)
           \/ UNCHANGED <<returned, mixed>>
        /\ UNCHANGED <<tunVars, recv_ep_, ip_udp_header_, session_status_,
                       remote_recv_buff_, bound, reader, pbufs, sends, netVars, inbox>>

\* The server answers a datagram, perhaps from another endpoint.
Answer(n, i, ep, len) ==
    LET f == forwarded[i]
        r == [id |-> n, req |-> f.data, ep |-> ep, len |-> len]
    IN  /\ Numbered(n, answered)
        /\ answered' = answered \cup {r}
        /\ inbox' = [inbox EXCEPT ![f.sess] = @ \cup {r}]
        /\ UNCHANGED <<tunVars, recv_ep_, ip_udp_header_, session_status_,
                       remote_recv_buff_, bound, reader, pbufs, sends, forwarded,
                       outVars>>

TunThread == SendPacketToRemote \/ Run

UdpThread ==
    \/ \E o \in sends : handlerOnRemoteSent(o)
    \/ \E s \in Sessions : StartReader(s) \/ readFromRemote(s)

Next ==
    \/ \E m \in Datagrams : Handle(m)
    \/ TunThread \/ UdpThread \/ TunWrite
    \/ \E o \in sends : Transmit(o) \/ FailSend(o)
    \/ \E s \in Sessions : FailReceive(s) \/ \E r \in inbox[s] : Receive(s, r)
    \/ \E n \in 1 .. MaxAnswer, i \in DOMAIN forwarded, ep \in Endpoints, len \in Lengths :
           Answer(n, i, ep, len)

Spec == Init /\ [][Next]_vars

\* Both threads run and serve their handlers in turn, and a receive that has a
\* datagram completes.
Fairness ==
    /\ WF_vars(TunThread)
    /\ \A s \in Sessions :
           /\ WF_vars(StartReader(s)) /\ WF_vars(readFromRemote(s))
           /\ WF_vars(\E r \in inbox[s] : Receive(s, r))

FairSpec == Spec /\ Fairness

------------------------------------------------------------------------------
(* Properties *)

\* Types of the state of UdpHandler and UdpSession: in particular the saved
\* header leads to a port of an application.
TypeOK ==
    /\ tun_pc \in {"read", "send", "send1", "run"}
    /\ cur \in Sessions \cup {NoSession}
    /\ tun_recv_buff_ \in Datagrams \cup {Freed}
    /\ udp_session_map_ \in [Ports -> Sessions \cup {NoSession}]
    /\ recv_ep_ \in [Sessions -> Endpoints]
    /\ ip_udp_header_ \in [Sessions -> [src : Dests, dst : Ports] \cup {NoHeader}]
    /\ session_status_ \in [Sessions -> Statuses]
    /\ remote_recv_buff_ \in
           [Sessions -> [stage : {"socks", "ip"}, reply : Replies \cup {NoReply}]]
    /\ bound \in [Sessions -> {"no", "port", "refused"}]
    /\ reader \in [Sessions -> {"none", "spawned", "receiving", "received", "failed"}]
    /\ pbufs \in [1 .. MaxAsk -> Datagrams \cup {Freed}]
    /\ sends \subseteq Sends
    /\ inbox \in [Sessions -> SUBSET Replies]
    /\ answered \subseteq Replies /\ asked \subseteq Datagrams

\* "cone nat type" (UDP_HEADER_HASHER): all datagrams of a source port leave
\* through one socket whatever their destination, and no two ports share one.
ConeNat ==
    \A i, j \in DOMAIN forwarded :
        forwarded[i].data.port = forwarded[j].data.port <=>
            forwarded[i].sess = forwarded[j].sess

\* When the coroutine of Run first runs on the other thread, whichever is
\* faster, SetNatInfo has given it the header whose size is the offset of its
\* buffer, and the first send has given the socket a port to receive on, unless
\* that send was refused.
ReaderReady ==
    \A s \in Sessions :
        reader[s] # "none" => bound[s] # "no" /\ ip_udp_header_[s] # NoHeader

\* Until handlerOnRemoteSent has run on the other thread, the pbuf of an
\* async_send_to holds the packet it was called for, although tun_recv_buff_ is
\* used for later packets meanwhile.
SendBufferHeld ==
    \A o \in sends : pbufs[o.id] \in asked /\ pbufs[o.id].id = o.id

\* Handle, the two socket operations and readFromRemote together are a relay
\* that loses datagrams but neither changes nor misdirects them, forwards none
\* twice, and repeats an answer, or mixes two, only in place of another to the
\* same port: a write to the tun device that is still pending when the next
\* reply is received takes what the buffer holds then.
Relay == INSTANCE DatagramRelay WITH
             forwarded <- [i \in DOMAIN forwarded |-> forwarded[i].data]

IsDatagramRelay == Relay!Spec

\* The loop of Run: while no receive fails, every reply that reaches a session's
\* socket is read, the ones with an address error not excepted.
RepliesAreRead ==
    \A s \in Sessions : inbox[s] # {} ~> inbox[s] = {} \/ reader[s] = "failed"
=============================================================================
