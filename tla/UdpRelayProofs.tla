--------------------------- MODULE UdpRelayProofs ---------------------------
(***************************************************************************)
(* Proofs about UdpRelay for any number of ports, datagrams and replies:   *)
(* the inductive invariant, the safety properties, and the refinement of   *)
(* DatagramRelay.                                                          *)
(***************************************************************************)
EXTENDS UdpRelay, TLAPS

-----------------------------------------------------------------------------
(* The inductive invariant *)

\* The sessions UdpHandler has made
Made == {t \in Sessions : ip_udp_header_[t] # NoHeader}

Carried == [data : Datagrams, sess : Sessions, ep : Endpoints]
Injected == [sess : Sessions, id : 1 .. MaxAnswer, size : Lengths]
Packets == [id : 1 .. MaxAnswer, port : Ports, from : Dests, instead : 1 .. MaxAnswer]

NetTypeOK ==
    /\ forwarded \in Seq(Carried)
    /\ tun_writes \in Seq(Injected)
    /\ returned \in Seq(Packets)

\* A number stands for one datagram.
AskedInv == \A a, b \in asked : a.id = b.id => a = b

\* A session was made for a datagram, and the map finds the session whose saved
\* header leads back to the port.
SessionInv ==
    /\ \A s \in Made : \E a \in asked : a.id = s
    /\ \A p \in Ports : udp_session_map_[p] # NoSession =>
           /\ udp_session_map_[p] \in Made
           /\ ip_udp_header_[udp_session_map_[p]].dst = p

\* Between two packets the tun thread holds the session of the packet in
\* tun_recv_buff_, which it sends once.
HandleInv ==
    /\ tun_pc # "read" =>
           /\ tun_recv_buff_ \in asked
           /\ cur = udp_session_map_[tun_recv_buff_.port] /\ cur # NoSession
    /\ tun_pc \in {"send", "send1"} =>
           /\ \A o \in sends : o.id # tun_recv_buff_.id
           /\ \A i \in DOMAIN forwarded : forwarded[i].data.id # tun_recv_buff_.id
    /\ tun_pc = "run" => bound[cur] # "no"

\* An unfinished send has its own pbuf and its port's session, and its datagram
\* has not left yet while the operation is pending.
SendsInv ==
    /\ \A o \in sends :
           /\ pbufs[o.id] \in asked /\ pbufs[o.id].id = o.id
           /\ o.sess = udp_session_map_[pbufs[o.id].port]
           /\ o.state = "pending" =>
                  \A i \in DOMAIN forwarded : forwarded[i].data.id # o.id
    /\ \A o, q \in sends : o.id = q.id => o = q

\* What the server got was asked, went through the session of its port, once.
ForwardInv ==
    /\ \A i \in DOMAIN forwarded :
           /\ forwarded[i].data \in asked
           /\ forwarded[i].sess = udp_session_map_[forwarded[i].data.port]
    /\ \A i, j \in DOMAIN forwarded :
           forwarded[i].data.id = forwarded[j].data.id => i = j

ReaderInv ==
    \A s \in Sessions : reader[s] # "none" => bound[s] # "no" /\ s \in Made

\* A number stands for one reply, and replies are found only in the socket and the
\* buffer of the session of the port that asked.
ReplyInv ==
    /\ \A q, r \in answered : q.id = r.id => q = r
    /\ \A s \in Sessions : \A r \in inbox[s] :
           r \in answered /\ udp_session_map_[r.req.port] = s
    /\ \A s \in Sessions : remote_recv_buff_[s].reply # NoReply =>
           /\ remote_recv_buff_[s].reply \in answered
           /\ udp_session_map_[remote_recv_buff_[s].reply.req.port] = s
    /\ \A s \in Sessions :
           reader[s] = "received" \/ remote_recv_buff_[s].stage = "ip" =>
               remote_recv_buff_[s].reply # NoReply

\* The application has got its packet for the reply number n
Served(n) == n \in mixed \/ \E i \in DOMAIN returned : returned[i].instead = n

\* The reply number n has been handed to the tun device
Out(n) == Served(n) \/ \E i \in DOMAIN tun_writes : tun_writes[i].id = n

\* n is the number of a reply.
Known(n) == \E r \in answered : r.id = n

\* A pending write was started for a reply to the port of its session.
WriteInv ==
    \A i \in DOMAIN tun_writes :
        \E q \in answered : /\ q.id = tun_writes[i].id
                            /\ udp_session_map_[q.req.port] = tun_writes[i].sess

\* The tun device was given one write for a reply, and takes it once.
OutInv ==
    /\ \A i, j \in DOMAIN tun_writes : tun_writes[i].id = tun_writes[j].id => i = j
    /\ \A i \in DOMAIN tun_writes : ~Served(tun_writes[i].id)
    /\ \A i \in DOMAIN returned : Known(returned[i].instead)
    /\ \A n \in mixed : Known(n)

\* The packet for a reply is in one place only: in a socket, in a buffer before
\* its injection, in a pending write, or with the application.
OnceInv ==
    /\ OutInv
    /\ \A s \in Sessions : \A r \in inbox[s] :
           /\ ~Out(r.id)
           /\ \A t \in Sessions : remote_recv_buff_[t].reply.id # r.id
    /\ \A s \in Sessions :
           reader[s] = "received" => ~Out(remote_recv_buff_[s].reply.id)

IndInv ==
    /\ TypeOK /\ NetTypeOK /\ AskedInv /\ SessionInv /\ HandleInv /\ SendsInv
    /\ ForwardInv /\ ReaderInv /\ ReplyInv /\ WriteInv /\ OnceInv

-----------------------------------------------------------------------------
(* Sequences *)

\* The elements of a sequence that has grown by one
LEMMA AppendElements ==
    ASSUME NEW S, NEW q \in Seq(S), NEW e \in S
    PROVE  /\ Append(q, e) \in Seq(S)
           /\ DOMAIN Append(q, e) = DOMAIN q \cup {Len(q) + 1}
           /\ Len(q) + 1 \notin DOMAIN q
           /\ Append(q, e)[Len(q) + 1] = e
           /\ \A i \in DOMAIN q : Append(q, e)[i] = q[i]
<1>1. Len(q) \in Nat /\ DOMAIN q = 1 .. Len(q)
  OBVIOUS
<1>2. /\ Append(q, e) \in Seq(S) /\ Len(Append(q, e)) = Len(q) + 1
      /\ DOMAIN Append(q, e) = 1 .. Len(q) + 1
      /\ Append(q, e)[Len(q) + 1] = e
      /\ \A i \in 1 .. Len(q) : Append(q, e)[i] = q[i]
  OBVIOUS
<1> QED BY <1>1, <1>2

\* The elements of a sequence that has lost its first
LEMMA TailElements ==
    ASSUME NEW S, NEW q \in Seq(S), q # <<>>
    PROVE  /\ Tail(q) \in Seq(S) /\ 1 \in DOMAIN q /\ Head(q) = q[1]
           /\ \A i \in DOMAIN Tail(q) :
                  i + 1 \in DOMAIN q /\ i + 1 # 1 /\ Tail(q)[i] = q[i + 1]
           /\ \A i, j \in DOMAIN Tail(q) : i + 1 = j + 1 => i = j
<1>1. Len(q) \in Nat \ {0} /\ DOMAIN q = 1 .. Len(q)
  OBVIOUS
<1>2. /\ Tail(q) \in Seq(S) /\ Head(q) = q[1]
      /\ DOMAIN Tail(q) = 1 .. Len(q) - 1
      /\ \A i \in 1 .. Len(q) - 1 : Tail(q)[i] = q[i + 1]
  BY <1>1
<1> QED BY <1>1, <1>2

\* Two sequences with the same elements
LEMMA SeqSame ==
    ASSUME NEW S, NEW q \in Seq(S), NEW t \in Seq(S), Len(q) = Len(t),
           \A i \in 1 .. Len(q) : q[i] = t[i]
    PROVE  q = t
OBVIOUS

-----------------------------------------------------------------------------
(* Types *)

\* The values that stand for "nothing" are no datagram, reply or header.
LEMMA NothingIsNothing ==
    /\ Freed \notin Datagrams /\ NoReply \notin Replies
    /\ NoHeader \notin [src : Dests, dst : Ports]
    /\ NoSession \notin Sessions
<1>1. Freed \notin Datagrams /\ NoReply \notin Replies
  BY DEF Freed, Datagrams, NoReply, Replies
<1>2. NoHeader \notin [src : Dests, dst : Ports]
  <2> SUFFICES ASSUME NoHeader \in [src : Dests, dst : Ports] PROVE FALSE
    OBVIOUS
  <2>1. "dst" \in DOMAIN NoHeader
    OBVIOUS
  <2> QED BY <2>1 DEF NoHeader
<1>3. NoSession \notin Sessions
  BY UdpAssumption DEF NoSession, Sessions
<1> QED BY <1>1, <1>2, <1>3

\* An empty buffer has the number of no reply.
LEMMA NoReplyId ==
    ASSUME NEW r \in Replies
    PROVE  NoReply.id # r.id
BY UdpAssumption, SMT DEF NoReply, Replies

\* A packet is as long as the write that is started for it.
LEMMA ReplyLength ==
    ASSUME NEW r \in Replies
    PROVE  r.len <= r.len
<1>1. r.len \in Lengths
  BY SMT DEF Replies
<1>2. r.len \in Nat
  BY ZenonT(60), <1>1, UdpAssumption
<1> QED BY <1>2

\* Before the first packet
LEMMA TypeInit == Init => TypeOK /\ NetTypeOK
<1> SUFFICES ASSUME Init PROVE TypeOK /\ NetTypeOK
  OBVIOUS
<1>1. TypeOK
  BY UdpAssumption DEF Init, TypeOK, Freed, NoReply, Statuses
<1>2. NetTypeOK
  BY DEF Init, NetTypeOK
<1> QED BY <1>1, <1>2

\* The elements of the sequences that the type invariant is about
LEMMA NetTypes ==
    ASSUME NetTypeOK
    PROVE  /\ \A i \in DOMAIN forwarded : forwarded[i] \in Carried
           /\ \A i \in DOMAIN tun_writes : tun_writes[i] \in Injected
           /\ \A i \in DOMAIN returned : returned[i] \in Packets
<1>1. \A i \in DOMAIN forwarded : forwarded[i] \in Carried
  BY DEF NetTypeOK
<1>2. \A i \in DOMAIN tun_writes : tun_writes[i] \in Injected
  BY DEF NetTypeOK
<1>3. \A i \in DOMAIN returned : returned[i] \in Packets
  BY DEF NetTypeOK
<1> QED BY <1>1, <1>2, <1>3

\* Steps that leave the replies and the tun device alone
LEMMA OnceUnchanged ==
    ASSUME OnceInv,
           UNCHANGED <<tun_writes, returned, mixed, answered, inbox, remote_recv_buff_>>,
           \A s \in Sessions : reader'[s] = "received" => reader[s] = "received"
    PROVE  OnceInv'
<1>1. \A n : Out(n)' = Out(n) /\ Served(n)' = Served(n) /\ Known(n)' = Known(n)
  BY Zenon DEF Out, Served, Known
<1>2. OutInv'
  BY Zenon DEF OnceInv, OutInv, Served, Known
<1>4. \A s \in Sessions : \A r \in inbox[s] :
           /\ ~Out(r.id)'
           /\ \A t \in Sessions : remote_recv_buff_[t].reply.id # r.id
  BY <1>1, Zenon DEF OnceInv
<1>5. \A s \in Sessions :
           reader'[s] = "received" => ~Out(remote_recv_buff_[s].reply.id)'
  BY Zenon DEF OnceInv, Out, Served
<1> QED BY <1>2, <1>4, <1>5, Zenon DEF OnceInv

\* Steps that leave the pending writes, the replies and the session map alone
LEMMA WriteUnchanged ==
    ASSUME WriteInv, UNCHANGED <<tun_writes, answered, udp_session_map_>>
    PROVE  WriteInv'
BY Zenon DEF WriteInv

\* A packet of the tun device is new, and a session made for it would be, too.
LEMMA NewNumber ==
    ASSUME IndInv, NEW m \in Datagrams, Numbered(m.id, asked)
    PROVE  /\ m.id \in Sessions /\ m.id \notin Made
           /\ m \notin asked /\ \A a \in asked : a.id # m.id
<1>1. m.id \in 1 .. MaxAsk /\ m.id \in Nat
  BY UdpAssumption DEF Datagrams
<1>2. \A a \in asked : a.id \in Nat /\ a.id < m.id
  BY UdpAssumption DEF Numbered, IndInv, TypeOK, Datagrams
<1>3. \A a \in asked : a.id # m.id
  BY <1>1, <1>2
<1>4. m.id \notin Made
  BY <1>3 DEF IndInv, SessionInv
<1> QED BY <1>1, <1>3, <1>4 DEF Sessions

\* A packet of the tun device leaves the session of a port as it is, or gives
\* the port a new one.
LEMMA HandleMap ==
    ASSUME IndInv, NEW m \in Datagrams, Handle(m)
    PROVE  /\ m \notin asked /\ \A a \in asked : a.id # m.id
           /\ asked' = asked \cup {m} /\ tun_recv_buff_' = m
           /\ cur' \in Sessions /\ cur' = udp_session_map_'[m.port]
           /\ tun_pc' \in {"send", "send1"}
           /\ udp_session_map_' \in [Ports -> Sessions \cup {NoSession}]
           /\ ip_udp_header_' \in [Sessions -> [src : Dests, dst : Ports] \cup {NoHeader}]
           /\ \A p \in Ports : udp_session_map_[p] # NoSession =>
                  udp_session_map_'[p] = udp_session_map_[p]
           /\ \/ UNCHANGED <<udp_session_map_, ip_udp_header_>>
              \/ /\ cur' = m.id /\ m.id \notin Made
                 /\ udp_session_map_' = [udp_session_map_ EXCEPT ![m.port] = cur']
                 /\ ip_udp_header_' = [ip_udp_header_ EXCEPT ![cur'] = SetNatInfo(m)]
<1> DEFINE new == m.id
<1>0. TypeOK
  BY DEF IndInv
<1>1. Numbered(m.id, asked)
  BY DEF Handle, Received
<1>2. /\ m.id \in Sessions /\ m.id \notin Made
      /\ m \notin asked /\ \A a \in asked : a.id # m.id
  BY <1>1, NewNumber
<1>3. m.port \in Ports /\ m.dest \in Dests
  BY DEF Datagrams
<1>4. Inserted(m)[new] = [udp_session_map_ EXCEPT ![m.port] = new]
  BY <1>2 DEF Inserted
<1>5. FindOrCreate(m, Inserted(m), "send1")
  BY DEF Handle
<1>6. asked' = asked \cup {m} /\ tun_recv_buff_' = m
  BY <1>5, Zenon DEF FindOrCreate
<1>7. \/ /\ udp_session_map_[m.port] # NoSession
         /\ cur' = udp_session_map_[m.port] /\ tun_pc' = "send"
         /\ UNCHANGED <<udp_session_map_, ip_udp_header_>>
      \/ /\ udp_session_map_[m.port] = NoSession
         /\ cur' = new /\ tun_pc' = "send1"
         /\ udp_session_map_' = Inserted(m)[new]
         /\ ip_udp_header_' = [ip_udp_header_ EXCEPT ![new] = SetNatInfo(m)]
  BY <1>5, Zenon DEF FindOrCreate, Made
<1>8. CASE UNCHANGED <<udp_session_map_, ip_udp_header_>> /\ tun_pc' = "send"
           /\ cur' = udp_session_map_[m.port] /\ cur' # NoSession
  BY <1>0, <1>1, <1>2, <1>3, <1>6, <1>8 DEF TypeOK
<1>9. CASE /\ udp_session_map_[m.port] = NoSession
           /\ cur' = new /\ tun_pc' = "send1"
           /\ udp_session_map_' = Inserted(m)[new]
           /\ ip_udp_header_' = [ip_udp_header_ EXCEPT ![new] = SetNatInfo(m)]
  <2>1. SetNatInfo(m) \in [src : Dests, dst : Ports]
    BY <1>3 DEF SetNatInfo
  <2>2. ip_udp_header_' \in [Sessions -> [src : Dests, dst : Ports] \cup {NoHeader}]
    BY Zenon, <1>0, <1>9, <2>1 DEF TypeOK
  <2> HIDE DEF new
  <2>3. udp_session_map_' = [udp_session_map_ EXCEPT ![m.port] = new]
    BY <1>4, <1>9
  <2>4. /\ udp_session_map_' \in [Ports -> Sessions \cup {NoSession}]
        /\ udp_session_map_'[m.port] = new
        /\ \A p \in Ports : udp_session_map_[p] # NoSession =>
                  udp_session_map_'[p] = udp_session_map_[p]
    BY SMTT(30), <1>0, <1>2, <1>3, <1>9, <2>3 DEF TypeOK, new
  <2>5. cur' = m.id
    BY <1>9 DEF new
  <2>6. ip_udp_header_' = [ip_udp_header_ EXCEPT ![cur'] = SetNatInfo(m)]
    BY <1>9, Zenon
  <2>7. udp_session_map_' = [udp_session_map_ EXCEPT ![m.port] = cur']
    BY <1>9, <2>3, Zenon
  <2> QED BY <1>1, <1>2, <1>6, <1>9, <2>2, <2>4, <2>5, <2>6, <2>7, Zenon
<1> QED BY <1>7, <1>8, <1>9

\* Only Handle changes what is known of the datagrams and of the sessions.
LEMMA HandleSession ==
    ASSUME IndInv, NEW m \in Datagrams, Handle(m)
    PROVE  AskedInv' /\ SessionInv' /\ Made \subseteq Made'
<1>0. TypeOK /\ AskedInv /\ SessionInv
  BY DEF IndInv
<1>1. /\ m \notin asked /\ \A a \in asked : a.id # m.id
      /\ asked' = asked \cup {m}
      /\ cur' \in Sessions /\ cur' = udp_session_map_'[m.port]
      /\ udp_session_map_' \in [Ports -> Sessions \cup {NoSession}]
      /\ \A p \in Ports : udp_session_map_[p] # NoSession =>
             udp_session_map_'[p] = udp_session_map_[p]
      /\ \/ UNCHANGED <<udp_session_map_, ip_udp_header_>>
         \/ /\ cur' = m.id /\ m.id \notin Made
            /\ udp_session_map_' = [udp_session_map_ EXCEPT ![m.port] = cur']
            /\ ip_udp_header_' = [ip_udp_header_ EXCEPT ![cur'] = SetNatInfo(m)]
  BY HandleMap, Zenon
<1>5. AskedInv'
  BY <1>0, <1>1 DEF AskedInv
<1>6. CASE UNCHANGED <<udp_session_map_, ip_udp_header_>>
  <2>1. Made' = Made
    BY <1>6 DEF Made
  <2>2. SessionInv'
    BY <1>0, <1>1, <1>6, <2>1 DEF SessionInv
  <2> QED BY <1>5, <2>1, <2>2
<1>7. CASE /\ cur' = m.id /\ m.id \notin Made
           /\ udp_session_map_' = [udp_session_map_ EXCEPT ![m.port] = cur']
           /\ ip_udp_header_' = [ip_udp_header_ EXCEPT ![cur'] = SetNatInfo(m)]
  <2>1. SetNatInfo(m) # NoHeader /\ SetNatInfo(m).dst = m.port
    <3>1. m.port \in Ports /\ m.dest \in Dests
      BY DEF Datagrams
    <3>2. SetNatInfo(m) \in [src : Dests, dst : Ports]
      BY <3>1 DEF SetNatInfo
    <3>3. SetNatInfo(m) # NoHeader
      BY <3>2, NothingIsNothing
    <3> QED BY <3>3 DEF SetNatInfo
  <2>2. /\ \A t \in Sessions : t # cur' => ip_udp_header_'[t] = ip_udp_header_[t]
        /\ ip_udp_header_'[cur'] = SetNatInfo(m)
    BY <1>0, <1>1, <1>7 DEF TypeOK
  <2>3. Made' = Made \cup {cur'}
    BY <1>1, <2>1, <2>2 DEF Made
  <2>4. \A s \in Made' : \E a \in asked' : a.id = s
    BY <1>0, <1>1, <1>7, <2>3 DEF SessionInv
  <2>8. ASSUME NEW p \in Ports, udp_session_map_'[p] # NoSession
        PROVE  /\ udp_session_map_'[p] \in Made'
               /\ ip_udp_header_'[udp_session_map_'[p]].dst = p
    <3>1. CASE p = m.port
      BY <1>1, <2>1, <2>2, <2>3, <3>1
    <3>2. CASE p # m.port
      <4>1. udp_session_map_'[p] = udp_session_map_[p]
        BY <1>0, <1>7, <3>2 DEF TypeOK
      <4>2. udp_session_map_[p] \in Made /\ ip_udp_header_[udp_session_map_[p]].dst = p
        BY <1>0, <2>8, <4>1 DEF SessionInv
      <4>3. udp_session_map_[p] \in Sessions /\ udp_session_map_[p] # cur'
        BY <1>7, <4>2 DEF Made
      <4> QED BY <2>2, <2>3, <4>1, <4>2, <4>3
    <3> QED BY <3>1, <3>2
  <2>9. SessionInv'
    BY <2>4, <2>8 DEF SessionInv
  <2> QED BY <1>5, <2>3, <2>9
<1> QED BY <1>1, <1>6, <1>7

\* A packet of the tun device
LEMMA HandleStep ==
    ASSUME IndInv, NEW m \in Datagrams, Handle(m)
    PROVE  IndInv'
<1>0. /\ TypeOK /\ NetTypeOK /\ AskedInv /\ HandleInv /\ SendsInv
      /\ ForwardInv /\ ReaderInv /\ ReplyInv /\ WriteInv /\ OnceInv
  BY DEF IndInv
<1>1. /\ m \notin asked /\ \A a \in asked : a.id # m.id
      /\ asked' = asked \cup {m} /\ tun_recv_buff_' = m
      /\ cur' \in Sessions /\ cur' = udp_session_map_'[m.port]
      /\ tun_pc' \in {"send", "send1"}
      /\ udp_session_map_' \in [Ports -> Sessions \cup {NoSession}]
      /\ ip_udp_header_' \in [Sessions -> [src : Dests, dst : Ports] \cup {NoHeader}]
      /\ \A p \in Ports : udp_session_map_[p] # NoSession =>
             udp_session_map_'[p] = udp_session_map_[p]
  BY HandleMap, Zenon
<1>2. UNCHANGED <<recv_ep_, session_status_, remote_recv_buff_, bound, reader,
                  pbufs, sends, forwarded, answered, inbox, tun_writes, returned,
                  mixed>>
  BY Zenon DEF Handle, Received, netVars, outVars
<1>3. AskedInv' /\ SessionInv' /\ Made \subseteq Made'
  BY HandleSession
<1>5. \A a \in asked : a.id # m.id /\ a.port \in Ports
  BY <1>0, <1>1 DEF TypeOK, Datagrams
<1>6. TypeOK'
  <2>1. tun_pc' \in {"read", "send", "send1", "run"} /\ asked' \subseteq Datagrams
        /\ cur' \in Sessions \cup {NoSession} /\ tun_recv_buff_' \in Datagrams \cup {Freed}
    BY <1>0, <1>1 DEF TypeOK
  <2> QED BY <1>0, <1>1, <1>2, <2>1, Zenon DEF TypeOK
<1>7. NetTypeOK'
  BY <1>0, <1>2, Zenon DEF NetTypeOK
<1>8. \A s \in Sessions : s # NoSession
  BY NothingIsNothing
<1>9. HandleInv'
  <2>1. \A o \in sends : o.id # m.id
    BY <1>0, <1>5 DEF SendsInv
  <2>2. \A i \in DOMAIN forwarded : forwarded[i].data.id # m.id
    BY <1>0, <1>5, Zenon DEF ForwardInv
  <2> QED BY <1>1, <1>2, <1>8, <2>1, <2>2 DEF HandleInv
<1>10. SendsInv'
  <2>1. ASSUME NEW o \in sends
        PROVE  o.sess = udp_session_map_'[pbufs[o.id].port]
    <3>1. pbufs[o.id].port \in Ports /\ o.sess = udp_session_map_[pbufs[o.id].port]
      BY <1>0, <1>5, Zenon DEF SendsInv
    <3>2. o.sess \in Sessions
      BY <1>0 DEF TypeOK, Sends
    <3> QED BY <1>1, <1>8, <3>1, <3>2
  <2> QED BY <1>0, <1>1, <1>2, <2>1 DEF SendsInv
<1>11. ForwardInv'
  <2>1. ASSUME NEW i \in DOMAIN forwarded
        PROVE  forwarded[i].sess = udp_session_map_'[forwarded[i].data.port]
    <3>1. /\ forwarded[i].data.port \in Ports
          /\ forwarded[i].sess = udp_session_map_[forwarded[i].data.port]
      BY <1>0, <1>5, Zenon DEF ForwardInv
    <3>2. forwarded[i].sess \in Sessions
      BY <1>0, NetTypes DEF Carried
    <3> QED BY <1>1, <1>8, <3>1, <3>2
  <2> QED BY <1>0, <1>1, <1>2, <2>1 DEF ForwardInv
<1>12. ReaderInv'
  BY <1>0, <1>2, <1>3 DEF ReaderInv
<1>13. ReplyInv'
  <2>1. \A r \in answered : r.req.port \in Ports
    BY <1>0 DEF TypeOK, Replies, Datagrams
  <2>2. \A s \in Sessions : \A r \in inbox[s] :
            r \in answered /\ udp_session_map_'[r.req.port] = s
    BY <1>0, <1>1, <1>8, <2>1 DEF ReplyInv
  <2>3. \A s \in Sessions : remote_recv_buff_[s].reply # NoReply =>
           /\ remote_recv_buff_[s].reply \in answered
           /\ udp_session_map_'[remote_recv_buff_[s].reply.req.port] = s
    BY <1>0, <1>1, <1>8, <2>1 DEF ReplyInv
  <2> QED BY <1>0, <1>2, <2>2, <2>3, Zenon DEF ReplyInv
<1>14. OnceInv'
  BY <1>0, <1>2, OnceUnchanged, Zenon
<1>15. WriteInv'
  <2> SUFFICES ASSUME NEW i \in DOMAIN tun_writes
               PROVE  \E q \in answered : /\ q.id = tun_writes[i].id
                                          /\ udp_session_map_'[q.req.port] = tun_writes[i].sess
    BY <1>2, Zenon DEF WriteInv
  <2>1. PICK q \in answered :
            q.id = tun_writes[i].id /\ udp_session_map_[q.req.port] = tun_writes[i].sess
    BY <1>0, Zenon DEF WriteInv
  <2>2. q.req.port \in Ports
    BY <1>0 DEF TypeOK, Replies, Datagrams
  <2>3. tun_writes[i].sess \in Sessions
    BY <1>0, NetTypes DEF Injected
  <2>4. udp_session_map_'[q.req.port] = tun_writes[i].sess
    BY <1>1, <1>8, <2>1, <2>2, <2>3, Zenon
  <2> QED BY <2>1, <2>4, Zenon
<1> QED BY <1>3, <1>6, <1>7, <1>9, <1>10, <1>11, <1>12, <1>13, <1>14, <1>15, Zenon
        DEF IndInv

\* SendPacketToRemote: nothing is sent, or the socket has a send operation, which
\* the system has taken or refused.
LEMMA SendEffect ==
    ASSUME IndInv, SendPacketToRemote
    PROVE  /\ bound' \in [Sessions -> {"no", "port", "refused"}] /\ bound'[cur] # "no"
           /\ \A s \in Sessions : bound[s] # "no" => bound'[s] # "no"
           /\ \/ UNCHANGED <<pbufs, sends>>
              \/ \E st \in {"pending", "failed"} :
                     /\ pbufs' = [pbufs EXCEPT ![tun_recv_buff_.id] = tun_recv_buff_]
                     /\ sends' = sends \cup {[id |-> tun_recv_buff_.id, sess |-> cur,
                                              ep |-> recv_ep_[cur], state |-> st]}
<1>0. TypeOK /\ HandleInv
  BY DEF IndInv
<1>1. cur \in Sessions /\ bound \in [Sessions -> {"no", "port", "refused"}]
  BY SMTT(30), <1>0 DEF SendPacketToRemote, Send, HandleInv, TypeOK
<1>2. \/ bound' = [bound EXCEPT ![cur] = "port"]
      \/ bound' = [bound EXCEPT ![cur] = IF @ = "no" THEN "refused" ELSE @]
  BY Zenon DEF SendPacketToRemote, Send
<1>3. /\ bound' \in [Sessions -> {"no", "port", "refused"}] /\ bound'[cur] # "no"
      /\ \A s \in Sessions : bound[s] # "no" => bound'[s] # "no"
  BY <1>1, <1>2
<1>4. \/ UNCHANGED <<pbufs, sends>>
      \/ \E st \in {"pending", "failed"} :
             /\ pbufs' = [pbufs EXCEPT ![tun_recv_buff_.id] = tun_recv_buff_]
             /\ sends' = sends \cup {[id |-> tun_recv_buff_.id, sess |-> cur,
                                      ep |-> recv_ep_[cur], state |-> st]}
  BY Zenon DEF SendPacketToRemote, Send
<1> QED BY <1>3, <1>4

\* The pbufs and the operations after a send was started, and the tun thread has
\* left the packet
LEMMA SendStarted ==
    ASSUME IndInv, NEW st \in {"pending", "failed"},
           tun_pc \in {"send", "send1"},
           pbufs' = [pbufs EXCEPT ![tun_recv_buff_.id] = tun_recv_buff_],
           sends' = sends \cup {[id |-> tun_recv_buff_.id, sess |-> cur,
                                 ep |-> recv_ep_[cur], state |-> st]},
           UNCHANGED <<asked, forwarded, udp_session_map_>>
    PROVE  /\ pbufs' \in [1 .. MaxAsk -> Datagrams \cup {Freed}]
           /\ sends' \subseteq Sends /\ SendsInv'
<1> DEFINE i == tun_recv_buff_.id
           new == [id |-> i, sess |-> cur, ep |-> recv_ep_[cur], state |-> st]
<1>0. TypeOK /\ HandleInv /\ SendsInv
  BY DEF IndInv
<1>3. /\ tun_recv_buff_ \in asked /\ tun_recv_buff_ \in Datagrams
      /\ cur = udp_session_map_[tun_recv_buff_.port] /\ cur \in Sessions
      /\ \A o \in sends : o.id # i
      /\ \A j \in DOMAIN forwarded : forwarded[j].data.id # i
  BY SMTT(30), <1>0 DEF HandleInv, TypeOK
<1>4. i \in 1 .. MaxAsk /\ new \in Sends
  BY <1>0, <1>3 DEF TypeOK, Datagrams, Sends
<1>5. /\ pbufs' \in [1 .. MaxAsk -> Datagrams \cup {Freed}] /\ pbufs'[i] = tun_recv_buff_
      /\ \A k \in 1 .. MaxAsk : k # i => pbufs'[k] = pbufs[k]
  BY <1>0, <1>3, <1>4 DEF TypeOK
<1>6. new.id = i /\ new.sess = cur
  OBVIOUS
<1>7. sends' = sends \cup {new}
  BY Zenon
<1> HIDE DEF new
<1>8. sends' \subseteq Sends
  BY <1>0, <1>4, <1>7 DEF TypeOK
<1>9. SendsInv'
  <2>1. ASSUME NEW o \in sends
        PROVE  o.id # i /\ pbufs'[o.id] = pbufs[o.id]
    <3>1. o.id \in 1 .. MaxAsk
      BY SMTT(30), <1>0 DEF TypeOK, Sends
    <3> QED BY <1>3, <1>5, <3>1
  <2>2. ASSUME NEW o \in sends'
        PROVE  /\ pbufs'[o.id] \in asked /\ pbufs'[o.id].id = o.id
               /\ o.sess = udp_session_map_[pbufs'[o.id].port]
               /\ o.state = "pending" =>
                      \A j \in DOMAIN forwarded : forwarded[j].data.id # o.id
    <3>1. CASE o \in sends
      BY SMTT(30), <1>0, <2>1, <3>1 DEF SendsInv
    <3>2. CASE o = new
      BY SMTT(30), <1>3, <1>5, <1>6, <3>2
    <3> QED BY SMTT(30), <1>7, <3>1, <3>2
  <2>3. \A o, q \in sends' : o.id = q.id => o = q
    BY <1>0, <1>6, <1>7, <2>1 DEF SendsInv
  <2> QED BY SMTT(30), <2>2, <2>3 DEF SendsInv
<1> QED BY <1>5, <1>8, <1>9

\* The tun thread hands the copy of the packet to the socket.
LEMMA SendStep ==
    ASSUME IndInv, SendPacketToRemote
    PROVE  IndInv'
<1>0. /\ TypeOK /\ NetTypeOK /\ AskedInv /\ SessionInv /\ HandleInv /\ SendsInv
      /\ ForwardInv /\ ReaderInv /\ ReplyInv /\ WriteInv /\ OnceInv
  BY DEF IndInv
<1>1. tun_pc \in {"send", "send1"} /\ tun_pc' \in {"run", "read"}
  BY DEF SendPacketToRemote, Send
<1>2. UNCHANGED <<cur, tun_recv_buff_, udp_session_map_, asked, recv_ep_,
                  ip_udp_header_, session_status_, remote_recv_buff_, reader,
                  forwarded, answered, inbox, tun_writes, returned, mixed>>
  BY Zenon DEF SendPacketToRemote, Send, netVars, outVars
<1>3. /\ bound' \in [Sessions -> {"no", "port", "refused"}] /\ bound'[cur] # "no"
      /\ \A s \in Sessions : bound[s] # "no" => bound'[s] # "no"
      /\ \/ UNCHANGED <<pbufs, sends>>
         \/ \E st \in {"pending", "failed"} :
                /\ pbufs' = [pbufs EXCEPT ![tun_recv_buff_.id] = tun_recv_buff_]
                /\ sends' = sends \cup {[id |-> tun_recv_buff_.id, sess |-> cur,
                                         ep |-> recv_ep_[cur], state |-> st]}
  BY SendEffect, Zenon
<1>4. /\ pbufs' \in [1 .. MaxAsk -> Datagrams \cup {Freed}]
      /\ sends' \subseteq Sends /\ SendsInv'
  <2>1. CASE UNCHANGED <<pbufs, sends>>
    BY <1>0, <1>2, <2>1, ZenonT(60) DEF TypeOK, SendsInv
  <2>2. UNCHANGED <<asked, forwarded, udp_session_map_>>
    BY <1>2
  <2> QED BY <1>1, <1>3, <2>1, <2>2, SendStarted, Zenon
<1>5. tun_pc' \in {"read", "send", "send1", "run"}
  BY <1>1
<1>6. TypeOK'
  BY <1>0, <1>2, <1>3, <1>4, <1>5, Zenon DEF TypeOK
<1>7. NetTypeOK' /\ AskedInv' /\ ForwardInv' /\ ReplyInv'
  BY <1>0, <1>2, Zenon DEF NetTypeOK, AskedInv, ForwardInv, ReplyInv
<1>8. WriteInv' /\ OnceInv'
  BY <1>0, <1>2, OnceUnchanged, WriteUnchanged, Zenon
<1>9. Made' = Made
  BY <1>2 DEF Made
<1>10. SessionInv' /\ ReaderInv'
  BY SMTT(30), <1>0, <1>2, <1>3, <1>9 DEF SessionInv, ReaderInv
<1>11. HandleInv'
  BY SMTT(30), <1>0, <1>1, <1>2, <1>3 DEF HandleInv
<1> QED BY <1>4, <1>6, <1>7, <1>8, <1>10, <1>11, Zenon DEF IndInv

\* The tun thread starts the coroutine of a new session.
LEMMA RunStep ==
    ASSUME IndInv, Run
    PROVE  IndInv'
<1>0. /\ TypeOK /\ NetTypeOK /\ AskedInv /\ SessionInv /\ HandleInv /\ SendsInv
      /\ ForwardInv /\ ReaderInv /\ ReplyInv /\ WriteInv /\ OnceInv
  BY DEF IndInv
<1>1. /\ tun_pc = "run" /\ tun_pc' = "read"
      /\ session_status_' = [session_status_ EXCEPT ![cur] = "RELAYING"]
      /\ reader' = [reader EXCEPT ![cur] = "spawned"]
  BY DEF Run
<1>2. UNCHANGED <<cur, tun_recv_buff_, udp_session_map_, asked, recv_ep_,
                  ip_udp_header_, remote_recv_buff_, bound, pbufs, sends,
                  forwarded, answered, inbox, tun_writes, returned, mixed>>
  BY Zenon DEF Run, netVars, outVars
<1>3. /\ tun_recv_buff_ \in asked
      /\ cur = udp_session_map_[tun_recv_buff_.port]
      /\ cur # NoSession /\ cur \in Sessions /\ bound[cur] # "no"
  BY SMTT(30), <1>0, <1>1 DEF HandleInv, TypeOK
<1>4. cur \in Made
  BY <1>0, <1>3 DEF SessionInv, TypeOK, Datagrams
<1>5. /\ reader' \in [Sessions -> {"none", "spawned", "receiving", "received", "failed"}]
      /\ session_status_' \in [Sessions -> Statuses]
      /\ \A s \in Sessions : s # cur => reader'[s] = reader[s]
      /\ reader'[cur] = "spawned"
  BY <1>0, <1>1, <1>3 DEF TypeOK, Statuses
<1>6. TypeOK'
  <2>1. tun_pc' \in {"read", "send", "send1", "run"}
    BY <1>1
  <2> QED BY <1>0, <1>2, <1>5, <2>1, Zenon DEF TypeOK
<1>7. NetTypeOK' /\ AskedInv' /\ ForwardInv' /\ SendsInv'
  BY <1>0, <1>2, ZenonT(60) DEF NetTypeOK, AskedInv, ForwardInv, SendsInv
<1>8. HandleInv'
  BY <1>1 DEF HandleInv
<1>9. Made' = Made
  BY <1>2 DEF Made
<1>10. SessionInv'
  BY <1>0, <1>2, <1>9, Zenon DEF SessionInv
<1>11. ReaderInv'
  BY <1>0, <1>2, <1>3, <1>4, <1>5, <1>9 DEF ReaderInv
<1>12. \A s \in Sessions : reader'[s] = "received" => reader[s] = "received"
  BY <1>5
<1>13. ReplyInv'
  BY SMTT(30), <1>0, <1>2, <1>12 DEF ReplyInv
<1>14. WriteInv' /\ OnceInv'
  BY <1>0, <1>2, <1>12, OnceUnchanged, WriteUnchanged, Zenon
<1> QED BY <1>6, <1>7, <1>8, <1>10, <1>11, <1>13, <1>14, Zenon DEF IndInv

\* A change of the state of a send operation o, and of the datagrams that have
\* left if o was pending: what the tun thread and the other sends rely on.
LEMMA SendsChanged ==
    ASSUME IndInv, NEW o \in sends, o.state = "pending",
           NEW st \in {"sent", "failed"}, NEW q,
           q = [o EXCEPT !.state = st],
           sends' = (sends \ {o}) \cup {q},
           UNCHANGED <<pbufs, asked, udp_session_map_, tun_pc, tun_recv_buff_, cur, bound>>,
           \A i \in DOMAIN forwarded' :
               \/ i \in DOMAIN forwarded /\ forwarded'[i] = forwarded[i]
               \/ forwarded'[i].data.id = o.id
    PROVE  HandleInv' /\ SendsInv' /\ sends' \subseteq Sends
<1>0. TypeOK /\ HandleInv /\ SendsInv
  BY DEF IndInv
<1>1. o \in Sends
  BY <1>0 DEF TypeOK
<1>2. q \in Sends /\ q.id = o.id /\ q.sess = o.sess /\ q.state = st
  BY <1>1 DEF Sends
<1>3. sends' \subseteq Sends
  BY Zenon, <1>0, <1>2 DEF TypeOK
<1>4. HandleInv'
  <2>1. ASSUME tun_pc \in {"send", "send1"}
        PROVE  /\ \A p \in sends' : p.id # tun_recv_buff_.id
               /\ \A i \in DOMAIN forwarded' : forwarded'[i].data.id # tun_recv_buff_.id
    BY ZenonT(60), <1>0, <1>2, <2>1 DEF HandleInv
  <2> QED BY <1>0, <2>1 DEF HandleInv
<1>5. SendsInv'
  <2>1. ASSUME NEW p \in sends'
        PROVE  /\ pbufs[p.id] \in asked /\ pbufs[p.id].id = p.id
               /\ p.sess = udp_session_map_[pbufs[p.id].port]
               /\ p.state = "pending" =>
                      \A i \in DOMAIN forwarded' : forwarded'[i].data.id # p.id
    <3>1. CASE p = q
      BY <1>0, <1>2, <3>1 DEF SendsInv
    <3>2. CASE p \in sends /\ p # o
      BY <1>0, <3>2 DEF SendsInv
    <3> QED BY <3>1, <3>2
  <2>2. \A p \in sends : p # o => p.id # q.id
    BY <1>0, <1>2 DEF SendsInv
  <2>3. \A p, r \in sends : p.id = r.id => p = r
    BY <1>0, Zenon DEF SendsInv
  <2>4. \A p \in sends' : p = q \/ (p \in sends /\ p # o)
    BY Zenon
  <2>5. \A p, r \in sends' : p.id = r.id => p = r
    BY <2>2, <2>3, <2>4, ZenonT(30)
  <2> QED BY <2>1, <2>5 DEF SendsInv
<1> QED BY <1>3, <1>4, <1>5

\* The socket sends a datagram.
LEMMA TransmitStep ==
    ASSUME IndInv, NEW o \in sends, Transmit(o)
    PROVE  IndInv'
<1> DEFINE f == [data |-> pbufs[o.id], sess |-> o.sess, ep |-> o.ep]
           q == [o EXCEPT !.state = "sent"]
<1>0. /\ TypeOK /\ NetTypeOK /\ AskedInv /\ SessionInv /\ HandleInv /\ SendsInv
      /\ ForwardInv /\ ReaderInv /\ ReplyInv /\ WriteInv /\ OnceInv
  BY DEF IndInv
<1>1. /\ o.state = "pending" /\ forwarded' = Append(forwarded, f)
      /\ sends' = (sends \ {o}) \cup {q}
  BY Zenon DEF Transmit
<1>2. UNCHANGED <<tun_pc, cur, tun_recv_buff_, udp_session_map_, asked, recv_ep_,
                  ip_udp_header_, session_status_, remote_recv_buff_, bound, reader,
                  pbufs, answered, inbox, tun_writes, returned, mixed>>
  BY Zenon DEF Transmit, tunVars, outVars
<1>3. /\ pbufs[o.id] \in asked /\ pbufs[o.id].id = o.id
      /\ o.sess = udp_session_map_[pbufs[o.id].port]
      /\ \A i \in DOMAIN forwarded : forwarded[i].data.id # o.id
  BY <1>0, <1>1 DEF SendsInv
<1>4. f \in Carried /\ f.data = pbufs[o.id] /\ f.sess = o.sess
  <2>1. o \in Sends /\ pbufs[o.id] \in Datagrams
    BY SMTT(30), <1>0, <1>3 DEF TypeOK
  <2>2. o.sess \in Sessions /\ o.ep \in Endpoints
    BY <2>1 DEF Sends
  <2> QED BY <2>1, <2>2 DEF Carried
<1> HIDE DEF f
<1>5. forwarded \in Seq(Carried)
  BY <1>0 DEF NetTypeOK
<1>6. /\ forwarded' \in Seq(Carried)
      /\ DOMAIN forwarded' = DOMAIN forwarded \cup {Len(forwarded) + 1}
      /\ Len(forwarded) + 1 \notin DOMAIN forwarded
      /\ forwarded'[Len(forwarded) + 1] = f
      /\ \A i \in DOMAIN forwarded : forwarded'[i] = forwarded[i]
  BY <1>1, <1>4, <1>5, AppendElements
<1>7. HandleInv' /\ SendsInv' /\ sends' \subseteq Sends
  <2>1. \A i \in DOMAIN forwarded' :
               \/ i \in DOMAIN forwarded /\ forwarded'[i] = forwarded[i]
               \/ forwarded'[i].data.id = o.id
    BY <1>3, <1>4, <1>6
  <2>2. "sent" \in {"sent", "failed"}
    OBVIOUS
  <2>3. UNCHANGED <<pbufs, asked, udp_session_map_, tun_pc, tun_recv_buff_, cur, bound>>
    BY <1>2
  <2> HIDE DEF q
  <2>4. q = [o EXCEPT !.state = "sent"]
    BY DEF q
  <2> QED BY <1>1, <2>1, <2>2, <2>3, <2>4, SendsChanged, Zenon
<1>8. ForwardInv'
  <2>1. \A i \in DOMAIN forwarded' :
            /\ forwarded'[i].data \in asked
            /\ forwarded'[i].sess = udp_session_map_[forwarded'[i].data.port]
    BY SMTT(30), <1>0, <1>3, <1>4, <1>6 DEF ForwardInv
  <2>2. \A i, j \in DOMAIN forwarded :
            forwarded[i].data.id = forwarded[j].data.id => i = j
    BY <1>0, Zenon DEF ForwardInv
  <2>3. \A i \in DOMAIN forwarded : forwarded'[i].data.id # f.data.id
    BY <1>3, <1>4, <1>6
  <2>4. \A i, j \in DOMAIN forwarded' :
            forwarded'[i].data.id = forwarded'[j].data.id => i = j
    BY <1>6, <2>2, <2>3
  <2> QED BY SMTT(30), <1>2, <2>1, <2>4 DEF ForwardInv
<1>9. TypeOK'
  BY <1>0, <1>2, <1>7, Zenon DEF TypeOK
<1>10. NetTypeOK'
  BY <1>0, <1>2, <1>6 DEF NetTypeOK
<1>11. Made' = Made
  BY <1>2 DEF Made
<1>12. AskedInv' /\ SessionInv' /\ ReaderInv' /\ ReplyInv'
  BY <1>0, <1>2, <1>11, Zenon DEF AskedInv, SessionInv, ReaderInv, ReplyInv
<1>13. WriteInv' /\ OnceInv'
  BY <1>0, <1>2, OnceUnchanged, WriteUnchanged, Zenon
<1> QED BY <1>7, <1>8, <1>9, <1>10, <1>12, <1>13, Zenon DEF IndInv

\* A send fails.
LEMMA FailSendStep ==
    ASSUME IndInv, NEW o \in sends, FailSend(o)
    PROVE  IndInv'
<1> DEFINE q == [o EXCEPT !.state = "failed"]
<1>0. /\ TypeOK /\ NetTypeOK /\ AskedInv /\ SessionInv /\ HandleInv /\ SendsInv
      /\ ForwardInv /\ ReaderInv /\ ReplyInv /\ WriteInv /\ OnceInv
  BY DEF IndInv
<1>1. o.state = "pending" /\ sends' = (sends \ {o}) \cup {q}
  BY Zenon DEF FailSend
<1>2. UNCHANGED <<tun_pc, cur, tun_recv_buff_, udp_session_map_, asked, recv_ep_,
                  ip_udp_header_, session_status_, remote_recv_buff_, bound, reader,
                  pbufs, forwarded, answered, inbox, tun_writes, returned, mixed>>
  BY Zenon DEF FailSend, tunVars, netVars, outVars
<1>3. HandleInv' /\ SendsInv' /\ sends' \subseteq Sends
  <2>1. \A i \in DOMAIN forwarded' :
               \/ i \in DOMAIN forwarded /\ forwarded'[i] = forwarded[i]
               \/ forwarded'[i].data.id = o.id
    BY <1>2
  <2>2. "failed" \in {"sent", "failed"}
    OBVIOUS
  <2>3. UNCHANGED <<pbufs, asked, udp_session_map_, tun_pc, tun_recv_buff_, cur, bound>>
    BY <1>2
  <2> HIDE DEF q
  <2>4. q = [o EXCEPT !.state = "failed"]
    BY DEF q
  <2> QED BY <1>1, <2>1, <2>2, <2>3, <2>4, SendsChanged, Zenon
<1>4. TypeOK' /\ NetTypeOK' /\ ForwardInv'
  BY <1>0, <1>2, <1>3, Zenon DEF TypeOK, NetTypeOK, ForwardInv
<1>5. Made' = Made
  BY <1>2 DEF Made
<1>6. AskedInv' /\ SessionInv' /\ ReaderInv' /\ ReplyInv'
  BY <1>0, <1>2, <1>5, Zenon DEF AskedInv, SessionInv, ReaderInv, ReplyInv
<1>7. WriteInv' /\ OnceInv'
  BY <1>0, <1>2, OnceUnchanged, WriteUnchanged, Zenon
<1> QED BY <1>3, <1>4, <1>6, <1>7, Zenon DEF IndInv

\* The completion handler of a send
LEMMA OnRemoteSentStep ==
    ASSUME IndInv, NEW o \in sends, handlerOnRemoteSent(o)
    PROVE  IndInv'
<1>0. /\ TypeOK /\ NetTypeOK /\ AskedInv /\ SessionInv /\ HandleInv /\ SendsInv
      /\ ForwardInv /\ ReaderInv /\ ReplyInv /\ WriteInv /\ OnceInv
  BY DEF IndInv
<1>1. UNCHANGED <<tun_pc, cur, tun_recv_buff_, udp_session_map_, asked, recv_ep_,
                  ip_udp_header_, remote_recv_buff_, bound, reader, forwarded,
                  answered, inbox, tun_writes, returned, mixed>>
  BY Zenon DEF handlerOnRemoteSent, tunVars, netVars, outVars
<1>2. o \in Sends /\ o.id \in 1 .. MaxAsk /\ o.sess \in Sessions
  BY <1>0 DEF TypeOK, Sends
<1>3. /\ session_status_' \in [Sessions -> Statuses]
      /\ pbufs' \in [1 .. MaxAsk -> Datagrams \cup {Freed}]
      /\ \A i \in 1 .. MaxAsk : i # o.id => pbufs'[i] = pbufs[i]
  <2>1. \/ UNCHANGED pbufs /\ session_status_' = [session_status_ EXCEPT ![o.sess] = "CLOSED"]
        \/ pbufs' = [pbufs EXCEPT ![o.id] = Freed] /\ UNCHANGED session_status_
    BY Zenon DEF handlerOnRemoteSent
  <2> QED BY Zenon, <1>0, <1>2, <2>1 DEF TypeOK, Statuses
<1>4. sends' = sends \ {o}
  BY Zenon DEF handlerOnRemoteSent
<1>5. TypeOK' /\ NetTypeOK' /\ ForwardInv'
  <2>1. sends' \subseteq Sends
    BY <1>0, <1>4 DEF TypeOK
  <2> QED BY <1>0, <1>1, <1>3, <2>1, Zenon DEF TypeOK, NetTypeOK, ForwardInv
<1>6. HandleInv'
  BY <1>0, <1>1, <1>4, Zenon DEF HandleInv
<1>7. SendsInv'
  <2>1. ASSUME NEW p \in sends'
        PROVE  p \in sends /\ pbufs'[p.id] = pbufs[p.id]
    <3>1. p \in sends /\ p # o
      BY <1>4
    <3>2. p.id # o.id
      BY <1>0, <3>1 DEF SendsInv
    <3>3. p.id \in 1 .. MaxAsk
      BY <1>0, <3>1 DEF TypeOK, Sends
    <3> QED BY <1>3, <3>1, <3>2, <3>3
  <2> QED BY <1>0, <1>1, <2>1 DEF SendsInv
<1>8. Made' = Made
  BY <1>1 DEF Made
<1>9. AskedInv' /\ SessionInv' /\ ReaderInv' /\ ReplyInv'
  BY <1>0, <1>1, <1>8, Zenon DEF AskedInv, SessionInv, ReaderInv, ReplyInv
<1>10. WriteInv' /\ OnceInv'
  BY <1>0, <1>1, OnceUnchanged, WriteUnchanged, Zenon
<1> QED BY <1>5, <1>6, <1>7, <1>9, <1>10, Zenon DEF IndInv

\* A step of a session's coroutine, of its socket or of the tun device: the
\* tun thread, the sends and what has been forwarded are not concerned.
LEMMA ReaderFrame ==
    ASSUME IndInv, NEW s \in Sessions,
           reader[s] # "none", NEW st \in {"receiving", "received", "failed"},
           reader' = [reader EXCEPT ![s] = st],
           UNCHANGED <<tun_pc, cur, tun_recv_buff_, udp_session_map_, asked,
                       ip_udp_header_, bound, pbufs, sends, forwarded>>
    PROVE  /\ AskedInv' /\ SessionInv' /\ HandleInv' /\ SendsInv' /\ ForwardInv'
           /\ ReaderInv'
           /\ reader' \in [Sessions -> {"none", "spawned", "receiving", "received", "failed"}]
           /\ reader'[s] = st /\ \A t \in Sessions : t # s => reader'[t] = reader[t]
<1>0. /\ TypeOK /\ AskedInv /\ SessionInv /\ HandleInv /\ SendsInv /\ ForwardInv /\ ReaderInv
  BY DEF IndInv
<1>1. /\ reader' \in [Sessions -> {"none", "spawned", "receiving", "received", "failed"}]
      /\ reader'[s] = st /\ \A t \in Sessions : t # s => reader'[t] = reader[t]
  BY <1>0 DEF TypeOK
<1>2. Made' = Made
  BY DEF Made
<1>3. AskedInv' /\ SessionInv' /\ HandleInv'
  BY <1>0, <1>2, Zenon DEF AskedInv, SessionInv, HandleInv
<1>4. SendsInv' /\ ForwardInv'
  BY <1>0, ZenonT(60) DEF SendsInv, ForwardInv
<1>5. ReaderInv'
  BY <1>0, <1>1, <1>2 DEF ReaderInv
<1> QED BY <1>1, <1>3, <1>4, <1>5

\* The coroutine starts to receive.
LEMMA StartReaderStep ==
    ASSUME IndInv, NEW s \in Sessions, StartReader(s)
    PROVE  IndInv'
<1>0. TypeOK /\ NetTypeOK /\ ReplyInv /\ WriteInv /\ OnceInv
  BY DEF IndInv
<1>1. reader[s] # "none" /\ reader' = [reader EXCEPT ![s] = "receiving"]
  BY DEF StartReader
<1>2. UNCHANGED <<tun_pc, cur, tun_recv_buff_, udp_session_map_, asked, recv_ep_,
                  ip_udp_header_, session_status_, remote_recv_buff_, bound, pbufs,
                  sends, forwarded, answered, inbox, tun_writes, returned, mixed>>
  BY Zenon DEF StartReader, tunVars, netVars, outVars
<1>3. /\ AskedInv' /\ SessionInv' /\ HandleInv' /\ SendsInv' /\ ForwardInv'
      /\ ReaderInv'
      /\ reader' \in [Sessions -> {"none", "spawned", "receiving", "received", "failed"}]
      /\ reader'[s] = "receiving" /\ \A t \in Sessions : t # s => reader'[t] = reader[t]
  <2>1. "receiving" \in {"receiving", "received", "failed"}
    OBVIOUS
  <2> QED BY <1>1, <1>2, <2>1, ReaderFrame, Zenon
<1>4. TypeOK' /\ NetTypeOK'
  BY <1>0, <1>2, <1>3, Zenon DEF TypeOK, NetTypeOK
<1>5. \A t \in Sessions : reader'[t] = "received" => reader[t] = "received"
  BY <1>3
<1>6. ReplyInv'
  BY SMTT(60), <1>0, <1>2, <1>5 DEF ReplyInv
<1>7. WriteInv' /\ OnceInv'
  BY <1>0, <1>2, <1>5, OnceUnchanged, WriteUnchanged, Zenon
<1> QED BY <1>3, <1>4, <1>6, <1>7, Zenon DEF IndInv

\* A receive fails.
LEMMA FailReceiveStep ==
    ASSUME IndInv, NEW s \in Sessions, FailReceive(s)
    PROVE  IndInv'
<1>0. TypeOK /\ NetTypeOK /\ ReplyInv /\ WriteInv /\ OnceInv
  BY DEF IndInv
<1>1. /\ reader[s] # "none" /\ reader' = [reader EXCEPT ![s] = "failed"]
      /\ session_status_' = [session_status_ EXCEPT ![s] = "CLOSED"]
  BY DEF FailReceive
<1>2. UNCHANGED <<tun_pc, cur, tun_recv_buff_, udp_session_map_, asked, recv_ep_,
                  ip_udp_header_, remote_recv_buff_, bound, pbufs,
                  sends, forwarded, answered, inbox, tun_writes, returned, mixed>>
  BY Zenon DEF FailReceive, tunVars, netVars, outVars
<1>3. /\ AskedInv' /\ SessionInv' /\ HandleInv' /\ SendsInv' /\ ForwardInv'
      /\ ReaderInv'
      /\ reader' \in [Sessions -> {"none", "spawned", "receiving", "received", "failed"}]
      /\ reader'[s] = "failed" /\ \A t \in Sessions : t # s => reader'[t] = reader[t]
  <2>1. "failed" \in {"receiving", "received", "failed"}
    OBVIOUS
  <2> QED BY <1>1, <1>2, <2>1, ReaderFrame, Zenon
<1>4. TypeOK' /\ NetTypeOK'
  <2>1. session_status_' \in [Sessions -> Statuses]
    BY <1>0, <1>1 DEF TypeOK, Statuses
  <2> QED BY <1>0, <1>2, <1>3, <2>1, Zenon DEF TypeOK, NetTypeOK
<1>5. \A t \in Sessions : reader'[t] = "received" => reader[t] = "received"
  BY <1>3
<1>6. ReplyInv'
  BY SMTT(30), <1>0, <1>2, <1>5 DEF ReplyInv
<1>7. WriteInv' /\ OnceInv'
  BY <1>0, <1>2, <1>5, OnceUnchanged, WriteUnchanged, Zenon
<1> QED BY <1>3, <1>4, <1>6, <1>7, Zenon DEF IndInv

\* A reply is received: it leaves the socket for the buffer of the same session.
LEMMA ReceiveStep ==
    ASSUME IndInv, NEW s \in Sessions, NEW r \in inbox[s], Receive(s, r)
    PROVE  IndInv'
<1> DEFINE b == [stage |-> "socks", reply |-> r]
<1>0. TypeOK /\ NetTypeOK /\ ReplyInv /\ WriteInv /\ OnceInv
  BY DEF IndInv
<1>1. /\ reader[s] # "none" /\ reader' = [reader EXCEPT ![s] = "received"]
      /\ inbox' = [inbox EXCEPT ![s] = @ \ {r}]
      /\ remote_recv_buff_' = [remote_recv_buff_ EXCEPT ![s] = b]
      /\ recv_ep_' = [recv_ep_ EXCEPT ![s] = r.ep]
  BY DEF Receive
<1>2. UNCHANGED <<tun_pc, cur, tun_recv_buff_, udp_session_map_, asked,
                  ip_udp_header_, session_status_, bound, pbufs,
                  sends, forwarded, answered, tun_writes, returned, mixed>>
  BY Zenon DEF Receive, tunVars, netVars, outVars
<1>3. /\ AskedInv' /\ SessionInv' /\ HandleInv' /\ SendsInv' /\ ForwardInv'
      /\ ReaderInv'
      /\ reader' \in [Sessions -> {"none", "spawned", "receiving", "received", "failed"}]
      /\ reader'[s] = "received" /\ \A t \in Sessions : t # s => reader'[t] = reader[t]
  <2>1. "received" \in {"receiving", "received", "failed"}
    OBVIOUS
  <2> QED BY <1>1, <1>2, <2>1, ReaderFrame, Zenon
<1>4. /\ r \in Replies /\ r.ep \in Endpoints /\ r # NoReply
      /\ r \in answered /\ udp_session_map_[r.req.port] = s /\ ~Out(r.id)
  <2>1. r \in Replies
    BY Zenon, <1>0 DEF TypeOK
  <2>2. r.ep \in Endpoints
    BY <2>1, SMT DEF Replies
  <2>3. r # NoReply
    BY Zenon, <2>1, NothingIsNothing
  <2>4. r \in answered /\ udp_session_map_[r.req.port] = s /\ ~Out(r.id)
    BY Zenon, <1>0 DEF ReplyInv, OnceInv
  <2> QED BY Zenon, <2>1, <2>2, <2>3, <2>4
<1>5. /\ inbox' \in [Sessions -> SUBSET Replies]
      /\ \A t \in Sessions : inbox'[t] \subseteq inbox[t]
      /\ r \notin inbox'[s]
      /\ recv_ep_' \in [Sessions -> Endpoints]
  BY SMTT(30), <1>0, <1>1, <1>4 DEF TypeOK
<1>6. b \in [stage : {"socks", "ip"}, reply : Replies \cup {NoReply}] /\ b.reply = r
      /\ b.stage = "socks"
  BY Zenon, <1>4
<1> HIDE DEF b
<1>7. /\ remote_recv_buff_' \in
             [Sessions -> [stage : {"socks", "ip"}, reply : Replies \cup {NoReply}]]
      /\ remote_recv_buff_'[s] = b
      /\ \A t \in Sessions : t # s => remote_recv_buff_'[t] = remote_recv_buff_[t]
  BY SMTT(30), <1>0, <1>1, <1>6 DEF TypeOK
<1>8. TypeOK' /\ NetTypeOK'
  BY <1>0, <1>2, <1>3, <1>5, <1>7, Zenon DEF TypeOK, NetTypeOK
<1>9. ReplyInv'
  <2>1. \A t \in Sessions : \A x \in inbox'[t] :
            x \in answered /\ udp_session_map_[x.req.port] = t
    BY SMTT(30), <1>0, <1>5 DEF ReplyInv
  <2>2. \A t \in Sessions : remote_recv_buff_'[t].reply # NoReply =>
           /\ remote_recv_buff_'[t].reply \in answered
           /\ udp_session_map_[remote_recv_buff_'[t].reply.req.port] = t
    BY SMTT(30), <1>0, <1>4, <1>6, <1>7 DEF ReplyInv
  <2>3. \A t \in Sessions :
           reader'[t] = "received" \/ remote_recv_buff_'[t].stage = "ip" =>
               remote_recv_buff_'[t].reply # NoReply
    BY SMTT(30), <1>0, <1>3, <1>4, <1>6, <1>7 DEF ReplyInv
  <2> QED BY <1>0, <1>2, <2>1, <2>2, <2>3, Zenon DEF ReplyInv
<1>10. OnceInv'
  <2>1. (\A n : Out(n)' = Out(n)) /\ OutInv'
    BY <1>0, <1>2, ZenonT(30) DEF Out, Served, Known, OnceInv, OutInv
  <2>2. ASSUME NEW t \in Sessions, NEW x \in inbox'[t]
        PROVE  ~Out(x.id) /\ \A u \in Sessions : remote_recv_buff_'[u].reply.id # x.id
    <3>1. x \in inbox[t] /\ x \in answered /\ udp_session_map_[x.req.port] = t
      BY SMTT(30), <1>0, <1>5 DEF ReplyInv
    <3>2. ~Out(x.id) /\ \A u \in Sessions : remote_recv_buff_[u].reply.id # x.id
      BY <1>0, <3>1, Zenon DEF OnceInv
    <3>3. x # r
      BY SMTT(30), <1>4, <1>5, <3>1
    <3>4. x.id # r.id
      BY SMTT(30), <1>0, <1>4, <3>1, <3>3 DEF ReplyInv
    <3> QED BY Zenon, <1>6, <1>7, <3>2, <3>4
  <2>3. \A t \in Sessions : reader'[t] = "received" => ~Out(remote_recv_buff_'[t].reply.id)
    BY SMTT(30), <1>0, <1>3, <1>4, <1>6, <1>7 DEF OnceInv
  <2> QED BY <1>0, <1>2, <2>1, <2>2, <2>3, ZenonT(30) DEF OnceInv
<1>11. WriteInv'
  BY <1>0, <1>2, WriteUnchanged, Zenon
<1> QED BY <1>3, <1>8, <1>9, <1>10, <1>11, Zenon DEF IndInv

\* The packet of the session s with the reply that its buffer holds goes to the
\* application that asked, from the address that was asked.
LEMMA PacketOfReply ==
    ASSUME IndInv, NEW s \in Sessions, remote_recv_buff_[s].reply # NoReply
    PROVE  /\ remote_recv_buff_[s].reply \in answered
           /\ remote_recv_buff_[s].reply \in Replies
           /\ ip_udp_header_[s].dst = remote_recv_buff_[s].reply.req.port
           /\ remote_recv_buff_[s].reply.req.port \in Ports
           /\ remote_recv_buff_[s].reply.req.dest \in Dests
           /\ remote_recv_buff_[s].reply.id \in 1 .. MaxAnswer
<1> DEFINE r == remote_recv_buff_[s].reply
<1>0. TypeOK /\ SessionInv /\ ReplyInv
  BY DEF IndInv
<1>1. r \in answered /\ udp_session_map_[r.req.port] = s
  BY SMTT(30), <1>0 DEF ReplyInv
<1>2. r \in Replies
  BY <1>0, <1>1 DEF TypeOK
<1>3. r.id \in 1 .. MaxAnswer /\ r.req.port \in Ports /\ r.req.dest \in Dests
  BY SMTT(30), <1>2 DEF Replies, Datagrams
<1>4. s # NoSession
  BY NothingIsNothing
<1>5. ip_udp_header_[s].dst = r.req.port
  BY SMTT(30), <1>0, <1>1, <1>3, <1>4 DEF SessionInv
<1> QED BY SMTT(30), <1>1, <1>2, <1>3, <1>5

\* readFromRemote: the reply is dropped, written at once, or written later.
LEMMA ReadEffect ==
    ASSUME IndInv, NEW s \in Sessions, readFromRemote(s)
    PROVE  LET r == remote_recv_buff_[s].reply
           IN  /\ reader[s] = "received" /\ reader' = [reader EXCEPT ![s] = "receiving"]
               /\ r # NoReply
               /\ remote_recv_buff_' \in
                     [Sessions -> [stage : {"socks", "ip"}, reply : Replies \cup {NoReply}]]
               /\ \A t \in Sessions :
                     /\ remote_recv_buff_'[t].reply = remote_recv_buff_[t].reply
                     /\ t # s => remote_recv_buff_'[t] = remote_recv_buff_[t]
               /\ UNCHANGED mixed
               /\ \/ UNCHANGED <<tun_writes, returned>>
                  \/ /\ returned' = Append(returned, [id |-> r.id, port |-> r.req.port,
                                                      from |-> r.req.dest, instead |-> r.id])
                     /\ UNCHANGED tun_writes
                  \/ /\ tun_writes' = Append(tun_writes, [sess |-> s, id |-> r.id,
                                                          size |-> r.len])
                     /\ UNCHANGED returned
<1> DEFINE r == remote_recv_buff_[s].reply
<1>0. TypeOK /\ ReplyInv
  BY DEF IndInv
<1>1. reader[s] = "received" /\ reader' = [reader EXCEPT ![s] = "receiving"]
  BY Zenon DEF readFromRemote, NextRead
<1>2. r # NoReply
  BY SMTT(30), <1>0, <1>1 DEF ReplyInv
<1>3. CASE UNCHANGED <<remote_recv_buff_, outVars>>
  BY SMTT(30), <1>0, <1>1, <1>2, <1>3 DEF TypeOK, outVars
<1>4. CASE /\ remote_recv_buff_' = [remote_recv_buff_ EXCEPT ![s].stage = "ip"]
           /\ Inject(s, r)
  <2>1. /\ remote_recv_buff_' \in
              [Sessions -> [stage : {"socks", "ip"}, reply : Replies \cup {NoReply}]]
        /\ \A t \in Sessions :
              /\ remote_recv_buff_'[t].reply = remote_recv_buff_[t].reply
              /\ t # s => remote_recv_buff_'[t] = remote_recv_buff_[t]
        /\ remote_recv_buff_'[s].stage = "ip"
    BY SMTT(30), <1>0, <1>4 DEF TypeOK
  <2>2. \/ Written(s, remote_recv_buff_'[s], r.id, r.len) /\ UNCHANGED tun_writes
        \/ /\ tun_writes' = Append(tun_writes, [sess |-> s, id |-> r.id, size |-> r.len])
           /\ UNCHANGED <<returned, mixed>>
        \/ UNCHANGED <<tun_writes, returned, mixed>>
    BY <1>4, Zenon DEF Inject, outVars
  <2>3. CASE Written(s, remote_recv_buff_'[s], r.id, r.len) /\ UNCHANGED tun_writes
    <3>0. r.len <= r.len
      <4>1. r \in Replies
        BY Zenon, <1>2, PacketOfReply
      <4> QED BY Zenon, <4>1, ReplyLength
    <3>1. /\ returned' = Append(returned, [id |-> r.id, port |-> ip_udp_header_[s].dst,
                                           from |-> r.req.dest, instead |-> r.id])
          /\ UNCHANGED mixed
      <4>1. remote_recv_buff_'[s].reply = r
        BY <2>1
      <4> HIDE DEF r
      <4> QED BY <2>1, <2>3, <3>0, <4>1, Zenon DEF Written, Source
    <3>2. ip_udp_header_[s].dst = r.req.port
      BY SMTT(30), <1>2, PacketOfReply
    <3>3. returned' = Append(returned, [id |-> r.id, port |-> r.req.port,
                                        from |-> r.req.dest, instead |-> r.id])
      BY <3>1, <3>2, Zenon
    <3> QED BY <1>1, <1>2, <2>1, <2>3, <3>1, <3>3, Zenon
  <2> QED BY <1>1, <1>2, <2>1, <2>2, <2>3, Zenon
<1> QED BY <1>3, <1>4, Zenon DEF readFromRemote

\* A reply whose number was not handed to the tun device yet is handed to it
\* once: in a pending write or to the application.
LEMMA HandedOnce ==
    ASSUME IndInv, NEW s \in Sessions, NEW r \in Replies, ~Out(r.id),
           r \in answered, udp_session_map_[r.req.port] = s,
           UNCHANGED <<mixed, answered, udp_session_map_>>,
           \/ UNCHANGED <<tun_writes, returned>>
           \/ /\ returned' = Append(returned, [id |-> r.id, port |-> r.req.port,
                                               from |-> r.req.dest, instead |-> r.id])
              /\ UNCHANGED tun_writes
           \/ /\ tun_writes' = Append(tun_writes, [sess |-> s, id |-> r.id, size |-> r.len])
              /\ UNCHANGED returned
    PROVE  /\ tun_writes' \in Seq(Injected) /\ returned' \in Seq(Packets)
           /\ OutInv' /\ WriteInv'
           /\ \A n : Out(n)' => Out(n) \/ n = r.id
<1> DEFINE w == [sess |-> s, id |-> r.id, size |-> r.len]
           p == [id |-> r.id, port |-> r.req.port, from |-> r.req.dest, instead |-> r.id]
<1>0. /\ tun_writes \in Seq(Injected) /\ returned \in Seq(Packets)
      /\ OutInv /\ WriteInv
  BY Zenon DEF IndInv, NetTypeOK, OnceInv
<1>1. \A i \in DOMAIN tun_writes : tun_writes[i].id # r.id
  BY Zenon DEF Out
<1>2. /\ w \in Injected /\ w.id = r.id /\ w.sess = s
      /\ p \in Packets /\ p.instead = r.id
  BY SMTT(30) DEF Replies, Datagrams, Injected, Packets
<1>3. Known(r.id)
  BY Zenon DEF Known
<1> HIDE DEF w, p
<1>4. CASE UNCHANGED <<tun_writes, returned>>
  <2>1. OutInv' /\ WriteInv'
    BY <1>0, <1>4, Zenon DEF OutInv, WriteInv, Served, Known
  <2>2. \A n : Out(n)' => Out(n)
    BY <1>4, Zenon DEF Out, Served
  <2> QED BY <1>0, <1>4, <2>1, <2>2, Zenon
<1>5. CASE returned' = Append(returned, p) /\ UNCHANGED tun_writes
  <2>1. /\ returned' \in Seq(Packets)
        /\ DOMAIN returned' = DOMAIN returned \cup {Len(returned) + 1}
        /\ Len(returned) + 1 \notin DOMAIN returned
        /\ returned'[Len(returned) + 1] = p
        /\ \A i \in DOMAIN returned : returned'[i] = returned[i]
    BY SMTT(30), <1>0, <1>2, <1>5, AppendElements
  <2>2. \A n : Served(n)' => Served(n) \/ n = r.id
    BY <1>2, <1>5, <2>1, Zenon DEF Served
  <2>3. OutInv'
    <3>1. \A i \in DOMAIN tun_writes : ~Served(tun_writes[i].id)'
      <4> SUFFICES ASSUME NEW i \in DOMAIN tun_writes PROVE ~Served(tun_writes[i].id)'
        BY Zenon
      <4>1. PICK n : n = tun_writes[i].id
        BY SMTT(30)
      <4>2. ~Served(n)'
        BY <1>0, <1>1, <2>2, <4>1, Zenon DEF OutInv
      <4>3. n = tun_writes'[i].id
        BY <1>5, <4>1, Zenon
      <4> QED BY <4>2, <4>3, Zenon DEF Served
    <3>2. \A i \in DOMAIN returned' : Known(returned'[i].instead)
      BY Zenon, <1>0, <1>2, <1>3, <2>1 DEF OutInv
    <3>3. \A i \in DOMAIN returned' : Known(returned[i].instead)'
      BY <3>2, Zenon DEF Known
    <3> QED BY <1>0, <1>5, <3>1, <3>3, Zenon DEF OutInv, Known
  <2>4. WriteInv'
    BY <1>0, <1>5, WriteUnchanged, Zenon
  <2>5. \A n : Out(n)' => Out(n) \/ n = r.id
    BY <1>5, <2>2, Zenon DEF Out
  <2> QED BY <1>0, <1>5, <2>1, <2>3, <2>4, <2>5, Zenon
<1>6. CASE tun_writes' = Append(tun_writes, w) /\ UNCHANGED returned
  <2>1. /\ tun_writes' \in Seq(Injected)
        /\ DOMAIN tun_writes' = DOMAIN tun_writes \cup {Len(tun_writes) + 1}
        /\ Len(tun_writes) + 1 \notin DOMAIN tun_writes
        /\ tun_writes'[Len(tun_writes) + 1] = w
        /\ \A i \in DOMAIN tun_writes : tun_writes'[i] = tun_writes[i]
    BY SMTT(30), <1>0, <1>2, <1>6, AppendElements
  <2>2. \A i, j \in DOMAIN tun_writes' :
            tun_writes'[i].id = tun_writes'[j].id => i = j
    BY ZenonT(60), <1>0, <1>1, <1>2, <2>1 DEF OutInv
  <2>3. \A i \in DOMAIN tun_writes' : ~Served(tun_writes'[i].id)
    BY Zenon, <1>0, <1>2, <2>1 DEF OutInv, Out
  <2>4. OutInv'
    <3>1. \A i \in DOMAIN tun_writes' : ~Served(tun_writes[i].id)'
      BY <1>6, <2>3, Zenon DEF Served
    <3> QED BY <1>0, <1>6, <2>2, <3>1, Zenon DEF OutInv, Known
  <2>5. WriteInv'
    <3>1. \A i \in DOMAIN tun_writes' :
              \E q \in answered : /\ q.id = tun_writes'[i].id
                                  /\ udp_session_map_[q.req.port] = tun_writes'[i].sess
      BY ZenonT(60), <1>0, <1>2, <2>1 DEF WriteInv
    <3> QED BY <3>1, Zenon DEF WriteInv
  <2>6. \A n : Out(n)' => Out(n) \/ n = r.id
    BY <1>2, <1>6, <2>1, Zenon DEF Out, Served
  <2> QED BY <1>0, <1>6, <2>1, <2>4, <2>5, <2>6, Zenon
<1> QED BY <1>4, <1>5, <1>6, Zenon DEF w, p

\* The coroutine builds the packet, injects it and receives again.
LEMMA ReadStep ==
    ASSUME IndInv, NEW s \in Sessions, readFromRemote(s)
    PROVE  IndInv'
<1> DEFINE r == remote_recv_buff_[s].reply
<1>0. TypeOK /\ NetTypeOK /\ ReplyInv /\ WriteInv /\ OnceInv
  BY DEF IndInv
<1>1. /\ reader[s] = "received" /\ reader' = [reader EXCEPT ![s] = "receiving"]
      /\ r # NoReply
      /\ remote_recv_buff_' \in
            [Sessions -> [stage : {"socks", "ip"}, reply : Replies \cup {NoReply}]]
      /\ \A t \in Sessions :
            /\ remote_recv_buff_'[t].reply = remote_recv_buff_[t].reply
            /\ t # s => remote_recv_buff_'[t] = remote_recv_buff_[t]
      /\ UNCHANGED mixed
      /\ \/ UNCHANGED <<tun_writes, returned>>
         \/ /\ returned' = Append(returned, [id |-> r.id, port |-> r.req.port,
                                             from |-> r.req.dest, instead |-> r.id])
            /\ UNCHANGED tun_writes
         \/ /\ tun_writes' = Append(tun_writes, [sess |-> s, id |-> r.id, size |-> r.len])
            /\ UNCHANGED returned
  BY ReadEffect, Zenon
<1>2. UNCHANGED <<tun_pc, cur, tun_recv_buff_, udp_session_map_, asked, recv_ep_,
                  ip_udp_header_, session_status_, bound, pbufs,
                  sends, forwarded, answered, inbox>>
  BY Zenon DEF readFromRemote, tunVars, netVars
<1>3. /\ AskedInv' /\ SessionInv' /\ HandleInv' /\ SendsInv' /\ ForwardInv'
      /\ ReaderInv'
      /\ reader' \in [Sessions -> {"none", "spawned", "receiving", "received", "failed"}]
      /\ reader'[s] = "receiving" /\ \A t \in Sessions : t # s => reader'[t] = reader[t]
  <2>1. "receiving" \in {"receiving", "received", "failed"} /\ reader[s] # "none"
    BY SMTT(30), <1>1
  <2> QED BY <1>1, <1>2, <2>1, ReaderFrame, Zenon
<1>4. /\ r \in answered /\ r \in Replies /\ udp_session_map_[r.req.port] = s
      /\ ~Out(r.id)
  <2>1. r \in answered /\ r \in Replies
    BY Zenon, <1>1, PacketOfReply
  <2>2. udp_session_map_[r.req.port] = s /\ ~Out(r.id)
    BY Zenon, <1>0, <1>1 DEF ReplyInv, OnceInv
  <2> QED BY <2>1, <2>2, Zenon
<1> HIDE DEF r
<1>6. /\ tun_writes' \in Seq(Injected) /\ returned' \in Seq(Packets)
      /\ OutInv' /\ WriteInv'
      /\ \A n : Out(n)' => Out(n) \/ n = r.id
  <2>1. UNCHANGED <<mixed, answered, udp_session_map_>>
    BY SMTT(60), <1>1, <1>2
  <2> QED BY <1>1, <1>4, <2>1, HandedOnce, Zenon
<1>7. TypeOK' /\ NetTypeOK'
  BY <1>0, <1>1, <1>2, <1>3, <1>6, Zenon DEF TypeOK, NetTypeOK
<1>8. \A t \in Sessions : reader'[t] = "received" => t # s /\ reader[t] = "received"
  BY <1>3
<1>9. ReplyInv'
  <2>1. \A t \in Sessions : remote_recv_buff_'[t].reply # NoReply =>
           /\ remote_recv_buff_'[t].reply \in answered
           /\ udp_session_map_[remote_recv_buff_'[t].reply.req.port] = t
    BY Zenon, <1>0, <1>1 DEF ReplyInv
  <2>2. \A t \in Sessions :
           reader'[t] = "received" \/ remote_recv_buff_'[t].stage = "ip" =>
               remote_recv_buff_'[t].reply # NoReply
    BY ZenonT(30), <1>0, <1>1, <1>8 DEF ReplyInv, r
  <2> QED BY <1>0, <1>2, <2>1, <2>2, Zenon DEF ReplyInv
<1>10. OnceInv'
  <2>1. ASSUME NEW t \in Sessions, NEW x \in inbox[t]
        PROVE  /\ ~Out(x.id)' /\ \A u \in Sessions : remote_recv_buff_'[u].reply.id # x.id
    <3>1. ~Out(x.id) /\ \A u \in Sessions : remote_recv_buff_[u].reply.id # x.id
      BY <1>0, Zenon DEF OnceInv
    <3>2. x.id # r.id
      BY <3>1, Zenon DEF r
    <3> QED BY <1>1, <1>6, <3>1, <3>2, Zenon
  <2>2. ASSUME NEW t \in Sessions, reader'[t] = "received"
        PROVE  ~Out(remote_recv_buff_[t].reply.id)'
    <3> DEFINE x == remote_recv_buff_[t].reply
    <3>1. t # s /\ reader[t] = "received"
      BY <1>8, <2>2
    <3>2. x # NoReply /\ ~Out(x.id)
      BY Zenon, <1>0, <3>1 DEF ReplyInv, OnceInv
    <3>3. x \in answered /\ udp_session_map_[x.req.port] = t
      BY Zenon, <1>0, <3>2 DEF ReplyInv
    <3>5. x.id # r.id
      BY Zenon, <1>0, <1>4, <3>1, <3>3 DEF ReplyInv
    <3>6. remote_recv_buff_'[t].reply = x
      BY SMTT(30), <1>1
    <3>7. PICK n : n = x.id
      OBVIOUS
    <3>8. ~Out(n)'
      BY <1>6, <3>2, <3>5, <3>7, Zenon
    <3>9. n = remote_recv_buff_'[t].reply.id
      BY <3>6, <3>7, Zenon
    <3> QED BY <3>8, <3>9, Zenon DEF Out, Served
  <2> QED BY <1>2, <1>6, <2>1, <2>2, Zenon DEF OnceInv
<1> QED BY <1>3, <1>6, <1>7, <1>9, <1>10, Zenon DEF IndInv

\* The tun device takes a pending write: a packet that the buffer of the write's
\* session holds, a mixture, or nothing.
LEMMA TunWriteEffect ==
    ASSUME IndInv, TunWrite
    PROVE  LET w == Head(tun_writes)
               r == remote_recv_buff_[w.sess].reply
           IN  /\ tun_writes # <<>> /\ tun_writes' = Tail(tun_writes)
               /\ w \in Injected
               /\ \/ UNCHANGED <<returned, mixed>>
                  \/ mixed' = mixed \cup {w.id} /\ UNCHANGED returned
                  \/ /\ r # NoReply /\ UNCHANGED mixed
                     /\ returned' = Append(returned, [id |-> r.id, port |-> r.req.port,
                                                      from |-> r.req.dest, instead |-> w.id])
<1> DEFINE w == Head(tun_writes)
           r == remote_recv_buff_[w.sess].reply
<1>0. TypeOK /\ NetTypeOK /\ ReplyInv
  BY DEF IndInv
<1>1. /\ tun_writes # <<>> /\ tun_writes' = Tail(tun_writes)
      /\ \/ Written(w.sess, remote_recv_buff_[w.sess], w.id, w.size)
         \/ UNCHANGED <<returned, mixed>>
  BY Zenon DEF TunWrite
<1>2. w \in Injected
  BY <1>0, <1>1 DEF NetTypeOK
<1>3. w.sess \in Sessions
  BY <1>2 DEF Injected
<1>4. \/ UNCHANGED <<returned, mixed>>
      \/ mixed' = mixed \cup {w.id} /\ UNCHANGED returned
      \/ /\ remote_recv_buff_[w.sess].stage = "ip" /\ UNCHANGED mixed
         /\ returned' = Append(returned, [id |-> r.id, port |-> ip_udp_header_[w.sess].dst,
                                          from |-> r.req.dest, instead |-> w.id])
  BY <1>1, Zenon DEF Written, Source
<1>5. CASE /\ remote_recv_buff_[w.sess].stage = "ip" /\ UNCHANGED mixed
           /\ returned' = Append(returned, [id |-> r.id, port |-> ip_udp_header_[w.sess].dst,
                                            from |-> r.req.dest, instead |-> w.id])
  <2>1. r # NoReply
    BY Zenon, <1>0, <1>3, <1>5 DEF ReplyInv
  <2>2. ip_udp_header_[w.sess].dst = r.req.port
    BY SMTT(30), <1>3, <2>1, PacketOfReply
  <2> QED BY <1>1, <1>2, <1>5, <2>1, <2>2, Zenon
<1> QED BY <1>1, <1>2, <1>4, <1>5, Zenon

\* The tun device takes, or refuses, a write.
LEMMA TunWriteStep ==
    ASSUME IndInv, TunWrite
    PROVE  IndInv'
<1> DEFINE w == Head(tun_writes)
           r == remote_recv_buff_[w.sess].reply
           p == [id |-> r.id, port |-> r.req.port, from |-> r.req.dest, instead |-> w.id]
<1>0. /\ TypeOK /\ NetTypeOK /\ AskedInv /\ SessionInv /\ HandleInv /\ SendsInv
      /\ ForwardInv /\ ReaderInv /\ ReplyInv /\ WriteInv /\ OnceInv
  BY DEF IndInv
<1>1. /\ tun_writes # <<>> /\ tun_writes' = Tail(tun_writes) /\ w \in Injected
      /\ \/ UNCHANGED <<returned, mixed>>
         \/ mixed' = mixed \cup {w.id} /\ UNCHANGED returned
         \/ r # NoReply /\ UNCHANGED mixed /\ returned' = Append(returned, p)
  BY TunWriteEffect, Zenon
<1>2. UNCHANGED <<tun_pc, cur, tun_recv_buff_, udp_session_map_, asked, recv_ep_,
                  ip_udp_header_, session_status_, remote_recv_buff_, bound, reader,
                  pbufs, sends, forwarded, answered, inbox>>
  BY Zenon DEF TunWrite, tunVars, netVars
<1>3. /\ tun_writes' \in Seq(Injected) /\ 1 \in DOMAIN tun_writes /\ w = tun_writes[1]
      /\ \A i \in DOMAIN tun_writes' :
             /\ i + 1 \in DOMAIN tun_writes /\ i + 1 # 1
             /\ tun_writes'[i] = tun_writes[i + 1]
      /\ \A i, j \in DOMAIN tun_writes' : i + 1 = j + 1 => i = j
  BY Zenon, <1>0, <1>1, TailElements DEF NetTypeOK
<1> HIDE DEF w
<1>4. /\ \A i \in DOMAIN tun_writes' : tun_writes'[i].id # w.id
      /\ \A i, j \in DOMAIN tun_writes' :
             tun_writes'[i].id = tun_writes'[j].id => i = j
      /\ \A i \in DOMAIN tun_writes' : ~Served(tun_writes'[i].id)
      /\ Known(w.id)
  <2>1. /\ \A i, j \in DOMAIN tun_writes : tun_writes[i].id = tun_writes[j].id => i = j
        /\ \A i \in DOMAIN tun_writes : ~Served(tun_writes[i].id)
        /\ \A i \in DOMAIN tun_writes : Known(tun_writes[i].id)
    BY <1>0, Zenon DEF OnceInv, OutInv, WriteInv, Known
  <2> QED BY SMTT(30), <1>3, <2>1
<1>5. /\ returned' \in Seq(Packets)
      /\ \A n : Served(n)' => Served(n) \/ n = w.id
      /\ \A i \in DOMAIN returned' : Known(returned'[i].instead)
      /\ \A n \in mixed' : Known(n)
  <2>0. /\ \A i \in DOMAIN returned : Known(returned[i].instead)
        /\ \A n \in mixed : Known(n)
    BY <1>0, Zenon DEF OnceInv, OutInv
  <2>1. CASE UNCHANGED returned /\ (UNCHANGED mixed \/ mixed' = mixed \cup {w.id})
    <3>1. \A n : Served(n)' => Served(n) \/ n = w.id
      BY <2>1, Zenon DEF Served
    <3> QED BY <1>0, <1>4, <2>0, <2>1, <3>1, Zenon DEF NetTypeOK
  <2>2. CASE r # NoReply /\ UNCHANGED mixed /\ returned' = Append(returned, p)
    <3>1. w.sess \in Sessions /\ w.id \in 1 .. MaxAnswer
      BY SMTT(30), <1>1 DEF Injected
    <3>2. r.req.port \in Ports /\ r.req.dest \in Dests /\ r.id \in 1 .. MaxAnswer
      BY Zenon, <2>2, <3>1, PacketOfReply
    <3>3. p \in Packets /\ p.instead = w.id
      BY Zenon, <3>1, <3>2 DEF Packets
    <3> HIDE DEF p
    <3>4. returned \in Seq(Packets)
      BY <1>0 DEF NetTypeOK
    <3>5. /\ returned' \in Seq(Packets)
          /\ DOMAIN returned' = DOMAIN returned \cup {Len(returned) + 1}
          /\ returned'[Len(returned) + 1] = p
          /\ \A i \in DOMAIN returned : returned'[i] = returned[i]
      BY SMTT(30), <2>2, <3>3, <3>4, AppendElements
    <3>6. \A n : Served(n)' => Served(n) \/ n = w.id
      BY <2>2, <3>3, <3>5, Zenon DEF Served
    <3>7. \A i \in DOMAIN returned' : Known(returned'[i].instead)
      BY Zenon, <1>4, <2>0, <3>3, <3>5
    <3> QED BY Zenon, <2>0, <2>2, <3>5, <3>6, <3>7
  <2> QED BY <1>1, <2>1, <2>2, Zenon
<1>6. TypeOK' /\ NetTypeOK' /\ HandleInv' /\ SendsInv' /\ ForwardInv'
  <2>1. TypeOK' /\ NetTypeOK'
    BY <1>0, <1>2, <1>3, <1>5, Zenon DEF TypeOK, NetTypeOK
  <2>2. HandleInv' /\ SendsInv' /\ ForwardInv'
    BY <1>0, <1>2, ZenonT(60) DEF HandleInv, SendsInv, ForwardInv
  <2> QED BY <2>1, <2>2
<1>7. Made' = Made
  BY <1>2 DEF Made
<1>8. AskedInv' /\ SessionInv' /\ ReaderInv' /\ ReplyInv'
  BY <1>0, <1>2, <1>7, Zenon DEF AskedInv, SessionInv, ReaderInv, ReplyInv
<1>9. OutInv'
  <2>1. ASSUME NEW i \in DOMAIN tun_writes' PROVE ~Served(tun_writes[i].id)'
    <3>1. PICK n : n = tun_writes'[i].id
      OBVIOUS
    <3>2. ~Served(n)'
      BY <1>4, <1>5, <3>1, Zenon
    <3> QED BY <3>1, <3>2, Zenon DEF Served
  <2>2. /\ \A i \in DOMAIN returned' : Known(returned[i].instead)'
        /\ \A n \in mixed' : Known(n)'
    BY <1>2, <1>5, Zenon DEF Known
  <2> QED BY <1>4, <2>1, <2>2, Zenon DEF OutInv
<1>10. WriteInv'
  <2>1. ASSUME NEW i \in DOMAIN tun_writes'
        PROVE  \E q \in answered : /\ q.id = tun_writes'[i].id
                                   /\ udp_session_map_[q.req.port] = tun_writes'[i].sess
    <3>1. PICK j \in DOMAIN tun_writes : tun_writes'[i] = tun_writes[j]
      BY <1>3, Zenon
    <3>2. PICK q \in answered : /\ q.id = tun_writes[j].id
                               /\ udp_session_map_[q.req.port] = tun_writes[j].sess
      BY <1>0, Zenon DEF WriteInv
    <3> QED BY <3>1, <3>2, Zenon
  <2> QED BY <1>2, <2>1, Zenon DEF WriteInv
<1>11. \A n : Out(n)' => Out(n)
  BY <1>3, <1>5, Zenon DEF Out
<1>12. OnceInv'
  <2>1. \A s \in Sessions : \A x \in inbox[s] :
           /\ ~Out(x.id)' /\ \A t \in Sessions : remote_recv_buff_[t].reply.id # x.id
    BY SMTT(30), <1>0, <1>11 DEF OnceInv
  <2>2. ASSUME NEW s \in Sessions, reader[s] = "received"
        PROVE  ~Out(remote_recv_buff_[s].reply.id)'
    <3>1. PICK n : n = remote_recv_buff_[s].reply.id
      OBVIOUS
    <3>2. ~Out(n)'
      BY <1>0, <1>11, <2>2, <3>1, Zenon DEF OnceInv
    <3>3. n = remote_recv_buff_'[s].reply.id
      BY <1>2, <3>1, Zenon
    <3> QED BY <3>2, <3>3, Zenon DEF Out, Served
  <2> QED BY <1>2, <1>9, <2>1, <2>2, Zenon DEF OnceInv
<1> QED BY <1>6, <1>8, <1>10, <1>12, Zenon DEF IndInv

\* The server answers a datagram: a reply with a new number waits in the socket
\* of the session the datagram came through.
LEMMA AnswerStep ==
    ASSUME IndInv, NEW n \in 1 .. MaxAnswer, NEW i \in DOMAIN forwarded,
           NEW ep \in Endpoints, NEW len \in Lengths, Answer(n, i, ep, len)
    PROVE  IndInv'
<1> DEFINE f == forwarded[i]
           r == [id |-> n, req |-> f.data, ep |-> ep, len |-> len]
<1>0. /\ TypeOK /\ NetTypeOK /\ AskedInv /\ SessionInv /\ HandleInv /\ SendsInv
      /\ ForwardInv /\ ReaderInv /\ ReplyInv /\ WriteInv /\ OnceInv
  BY DEF IndInv
<1>1. /\ \A x \in answered : x.id < n
      /\ answered' = answered \cup {r}
      /\ inbox' = [inbox EXCEPT ![f.sess] = @ \cup {r}]
  BY Zenon DEF Answer, Numbered
<1>2. UNCHANGED <<tun_pc, cur, tun_recv_buff_, udp_session_map_, asked, recv_ep_,
                  ip_udp_header_, session_status_, remote_recv_buff_, bound, reader,
                  pbufs, sends, forwarded, tun_writes, returned, mixed>>
  BY Zenon DEF Answer, tunVars, outVars
<1>3. n \in Nat /\ \A x \in answered : x.id \in Nat
  BY SMTT(30), <1>0, UdpAssumption DEF TypeOK, Replies
<1>4. /\ f \in Carried /\ f.data \in Datagrams /\ f.sess \in Sessions
      /\ udp_session_map_[f.data.port] = f.sess
  BY SMTT(30), <1>0, NetTypes DEF Carried, ForwardInv
<1>5. r \in Replies /\ r.id = n /\ r.req = f.data
  BY Zenon, <1>4 DEF Replies
<1> HIDE DEF r
<1>6. \A x \in answered : x.id # r.id
  BY SMTT(30), <1>1, <1>3, <1>5
<1>8. /\ inbox' \in [Sessions -> SUBSET Replies]
      /\ inbox'[f.sess] = inbox[f.sess] \cup {r}
      /\ \A s \in Sessions : s # f.sess => inbox'[s] = inbox[s]
  BY Zenon, <1>0, <1>1, <1>4, <1>5 DEF TypeOK
<1>9. TypeOK' /\ NetTypeOK'
  <2>1. answered' \subseteq Replies
    BY Zenon, <1>0, <1>1, <1>5 DEF TypeOK
  <2> QED BY <1>0, <1>2, <1>8, <2>1, Zenon DEF TypeOK, NetTypeOK
<1>10. HandleInv' /\ SendsInv' /\ ForwardInv'
  BY <1>0, <1>2, ZenonT(60) DEF HandleInv, SendsInv, ForwardInv
<1>11. Made' = Made
  BY <1>2 DEF Made
<1>12. AskedInv' /\ SessionInv' /\ ReaderInv'
  BY <1>0, <1>2, <1>11, Zenon DEF AskedInv, SessionInv, ReaderInv
<1>13. ReplyInv'
  <2>2. \A q, x \in answered' : q.id = x.id => q = x
    BY Zenon, <1>0, <1>1, <1>6 DEF ReplyInv
  <2>3. \A s \in Sessions : \A x \in inbox'[s] :
            x \in answered' /\ udp_session_map_[x.req.port] = s
    BY ZenonT(30), <1>0, <1>1, <1>4, <1>5, <1>8 DEF ReplyInv
  <2>4. \A s \in Sessions : remote_recv_buff_[s].reply # NoReply =>
           /\ remote_recv_buff_[s].reply \in answered'
           /\ udp_session_map_[remote_recv_buff_[s].reply.req.port] = s
    BY Zenon, <1>0, <1>1 DEF ReplyInv
  <2> QED BY <1>0, <1>2, <2>2, <2>3, <2>4, Zenon DEF ReplyInv
<1>14. OnceInv'
  <2>1. \A k : Out(k)' = Out(k) /\ Served(k)' = Served(k) /\ (Known(k) => Known(k)')
    BY <1>1, <1>2, Zenon DEF Out, Served, Known
  <2>2. /\ \A k \in DOMAIN tun_writes : Known(tun_writes[k].id)
        /\ \A k \in DOMAIN returned : Known(returned[k].instead)
        /\ \A k \in mixed : Known(k)
    BY <1>0, Zenon DEF OnceInv, OutInv, WriteInv, Known
  <2>3. OutInv'
    <3>1. /\ \A k \in DOMAIN returned : Known(returned[k].instead)'
          /\ \A k \in mixed : Known(k)'
      BY <1>1, <1>2, <2>2, Zenon DEF Known
    <3>2. \A k \in DOMAIN tun_writes : ~Served(tun_writes[k].id)'
      BY <1>0, <1>2, Zenon DEF OnceInv, OutInv, Served
    <3> QED BY <1>0, <1>2, <3>1, <3>2, Zenon DEF OnceInv, OutInv
  <2>5. ~Out(r.id)
    BY <1>6, <2>2, Zenon DEF Out, Served, Known
  <2>6. \A t \in Sessions : remote_recv_buff_[t].reply.id # r.id
    <3> SUFFICES ASSUME NEW t \in Sessions PROVE remote_recv_buff_[t].reply.id # r.id
      BY Zenon
    <3>1. CASE remote_recv_buff_[t].reply = NoReply
      <4>1. NoReply.id # r.id
        BY Zenon, <1>5, NoReplyId
      <4> QED BY Zenon, <3>1, <4>1
    <3>2. CASE remote_recv_buff_[t].reply # NoReply
      <4>1. remote_recv_buff_[t].reply \in answered
        BY <1>0, <3>2, Zenon DEF ReplyInv
      <4> QED BY <1>6, <4>1, Zenon
    <3> QED BY Zenon, <3>1, <3>2
  <2>7. ASSUME NEW s \in Sessions, NEW x \in inbox'[s]
        PROVE  ~Out(x.id) /\ \A t \in Sessions : remote_recv_buff_[t].reply.id # x.id
    <3>1. x = r \/ x \in inbox[s]
      BY SMTT(30), <1>8
    <3>2. CASE x \in inbox[s]
      BY <1>0, <3>2, Zenon DEF OnceInv
    <3> QED BY SMTT(30), <2>5, <2>6, <3>1, <3>2
  <2>8. ASSUME NEW s \in Sessions, reader[s] = "received"
        PROVE  ~Out(remote_recv_buff_[s].reply.id)'
    BY <1>0, <1>2, <2>8, Zenon DEF OnceInv, Out, Served
  <2> QED BY <1>2, <2>1, <2>3, <2>7, <2>8, Zenon DEF OnceInv
<1>15. WriteInv'
  BY <1>0, <1>1, <1>2, Zenon DEF WriteInv
<1> QED BY <1>9, <1>10, <1>12, <1>13, <1>14, <1>15, Zenon DEF IndInv

\* Before the first packet
LEMMA InitInv == Init => IndInv
<1> SUFFICES ASSUME Init PROVE IndInv
  OBVIOUS
<1>1. TypeOK /\ NetTypeOK
  BY TypeInit
<1>3. AskedInv
  BY DEF Init, AskedInv
<1>4. SessionInv
  <2>1. Made = {}
    BY SMTT(30) DEF Made, Init
  <2> QED BY SMTT(30), <2>1 DEF Init, SessionInv
<1>5. HandleInv /\ SendsInv /\ ForwardInv /\ ReaderInv
  <2>1. HandleInv
    BY SMTT(30) DEF Init, HandleInv
  <2>2. SendsInv
    BY SMTT(30) DEF Init, SendsInv
  <2>3. ForwardInv
    BY SMTT(30) DEF Init, ForwardInv
  <2>4. ReaderInv
    BY SMTT(30) DEF Init, ReaderInv
  <2> QED BY Zenon, <2>1, <2>2, <2>3, <2>4
<1>6. ReplyInv
  BY SMTT(30) DEF Init, ReplyInv
<1>7. WriteInv /\ OnceInv
  BY SMTT(60) DEF Init, WriteInv, OnceInv, OutInv, Out, Served, Known
<1> QED BY <1>1, <1>3, <1>4, <1>5, <1>6, <1>7 DEF IndInv

\* Every step of the two threads, the socket, the tun device and the server
\* preserves the invariant.
LEMMA NextInv == IndInv /\ [Next]_vars => IndInv'
<1> SUFFICES ASSUME IndInv, [Next]_vars PROVE IndInv'
  OBVIOUS
<1>1. CASE UNCHANGED vars
  <2>1. UNCHANGED <<tun_pc, cur, tun_recv_buff_, udp_session_map_, asked, recv_ep_,
                    ip_udp_header_, session_status_, remote_recv_buff_, bound, reader,
                    pbufs, sends, forwarded, answered, inbox, tun_writes, returned, mixed>>
    BY <1>1, Zenon DEF vars, tunVars, netVars, outVars
  <2>2. TypeOK' /\ NetTypeOK' /\ HandleInv' /\ SendsInv'
    BY <2>1, ZenonT(60) DEF IndInv, TypeOK, NetTypeOK, HandleInv, SendsInv
  <2>3. Made' = Made
    BY <2>1 DEF Made
  <2>4. AskedInv' /\ SessionInv' /\ ForwardInv' /\ ReaderInv' /\ ReplyInv'
    BY <2>1, <2>3, Zenon DEF IndInv, AskedInv, SessionInv, ForwardInv, ReaderInv, ReplyInv
  <2>5. WriteInv' /\ OnceInv'
    BY <2>1, OnceUnchanged, WriteUnchanged, Zenon DEF IndInv
  <2> QED BY <2>2, <2>4, <2>5, Zenon DEF IndInv
<1>2. CASE \E m \in Datagrams : Handle(m)
  BY <1>2, HandleStep, Zenon
<1>3. CASE TunThread
  BY <1>3, SendStep, RunStep, Zenon DEF TunThread
<1>4. CASE UdpThread
  BY <1>4, OnRemoteSentStep, StartReaderStep, ReadStep, Zenon DEF UdpThread
<1>5. CASE TunWrite
  BY <1>5, TunWriteStep, Zenon
<1>6. CASE \E o \in sends : Transmit(o) \/ FailSend(o)
  BY <1>6, TransmitStep, FailSendStep, Zenon
<1>7. CASE \E s \in Sessions : FailReceive(s) \/ \E r \in inbox[s] : Receive(s, r)
  BY <1>7, FailReceiveStep, ReceiveStep, Zenon
<1>8. CASE \E n \in 1 .. MaxAnswer, i \in DOMAIN forwarded, ep \in Endpoints :
               \E len \in Lengths : Answer(n, i, ep, len)
  BY <1>8, AnswerStep, Zenon
<1> QED BY <1>1, <1>2, <1>3, <1>4, <1>5, <1>6, <1>7, <1>8, Zenon DEF Next

\* The invariant holds in every reachable state.
THEOREM Invariance == Spec => []IndInv
<1>1. Init => IndInv
  BY InitInv
<1>2. IndInv /\ [Next]_vars => IndInv'
  BY NextInv
<1> QED BY <1>1, <1>2, PTL DEF Spec

-----------------------------------------------------------------------------
(* The safety properties *)

\* UdpHandler is a cone NAT: the datagrams of a port use one socket, and those
\* of two ports two.
THEOREM UdpIsConeNat == Spec => []ConeNat
<1>1. IndInv => ConeNat
  <2> SUFFICES ASSUME IndInv, NEW i \in DOMAIN forwarded, NEW j \in DOMAIN forwarded
               PROVE  forwarded[i].data.port = forwarded[j].data.port <=>
                          forwarded[i].sess = forwarded[j].sess
    BY DEF ConeNat
  <2>1. ASSUME NEW k \in DOMAIN forwarded
        PROVE  /\ forwarded[k].sess = udp_session_map_[forwarded[k].data.port]
               /\ ip_udp_header_[forwarded[k].sess].dst = forwarded[k].data.port
    <3>1. forwarded[k].sess = udp_session_map_[forwarded[k].data.port]
      BY SMTT(30) DEF IndInv, ForwardInv
    <3>2. forwarded[k] \in Carried
      BY NetTypes DEF IndInv
    <3>3. forwarded[k].sess \in Sessions /\ forwarded[k].data.port \in Ports
      BY <3>2 DEF Carried, Datagrams
    <3>4. forwarded[k].sess # NoSession
      BY <3>3, NothingIsNothing
    <3> QED BY SMTT(30), <3>1, <3>3, <3>4 DEF IndInv, SessionInv
  <2> QED BY <2>1
<1> QED BY <1>1, Invariance, PTL

\* The coroutine of Run finds a bound socket and the header of its session.
THEOREM UdpReaderReady == Spec => []ReaderReady
<1>1. IndInv => ReaderReady
  BY DEF IndInv, ReaderInv, ReaderReady, Made
<1> QED BY <1>1, Invariance, PTL

\* The pbuf of an unfinished async_send_to holds the packet it was called for.
THEOREM UdpSendBufferHeld == Spec => []SendBufferHeld
<1>1. IndInv => SendBufferHeld
  BY DEF IndInv, SendsInv, SendBufferHeld
<1> QED BY <1>1, Invariance, PTL

-----------------------------------------------------------------------------
(* The refinement of DatagramRelay *)

\* The datagrams of the abstract relay's "forwarded"
Data == [i \in DOMAIN forwarded |-> forwarded[i].data]

\* What the mapping takes from the state, as a sequence
LEMMA DataSeq ==
    ASSUME NetTypeOK
    PROVE  /\ Data \in Seq(Datagrams) /\ Len(Data) = Len(forwarded)
           /\ Relay!Range(Data) = {forwarded[i].data : i \in DOMAIN forwarded}
<1>1. /\ forwarded \in Seq(Carried) /\ DOMAIN forwarded = 1 .. Len(forwarded)
      /\ Len(forwarded) \in Nat
  BY DEF NetTypeOK
<1>2. \A i \in DOMAIN forwarded : forwarded[i].data \in Datagrams
  BY NetTypes DEF Carried
<1>3. Data \in [1 .. Len(forwarded) -> Datagrams]
  BY <1>1, <1>2 DEF Data
<1>4. Data \in Seq(Datagrams) /\ Len(Data) = Len(forwarded)
  BY <1>1, <1>3
<1>5. Relay!Range(Data) = {forwarded[i].data : i \in DOMAIN forwarded}
  BY DEF Relay!Range, Data
<1> QED BY <1>4, <1>5

\* A step that leaves the network and the applications alone is a stutter.
LEMMA RelayStutter ==
    ASSUME UNCHANGED <<asked, forwarded, answered, returned, mixed>>
    PROVE  UNCHANGED Relay!vars
BY DEF Relay!vars

\* A packet of the tun device is a datagram the application sends.
LEMMA RelayAsk ==
    ASSUME IndInv, NEW m \in Datagrams, Handle(m)
    PROVE  Relay!Next
<1>1. asked' = asked \cup {m} /\ \A a \in asked : a.id # m.id
  BY HandleMap, Zenon
<1>2. UNCHANGED <<forwarded, answered, returned, mixed>>
  BY Zenon DEF Handle, Received, netVars, outVars
<1>4. m \in Relay!Datagrams
  BY UdpAssumption DEF Datagrams, Relay!Datagrams
<1>5. Relay!Ask(m)
  BY <1>1, <1>2, <1>4 DEF Relay!Ask
<1> QED BY <1>1, <1>5 DEF Relay!Next

\* What a socket sends is a datagram that was asked and did not leave before.
LEMMA RelayForward ==
    ASSUME IndInv, NEW o \in sends, Transmit(o)
    PROVE  Relay!Next
<1>0. PICK m : m = pbufs[o.id]
  OBVIOUS
<1> DEFINE f == [data |-> m, sess |-> o.sess, ep |-> o.ep]
<1>1. /\ o.state = "pending" /\ forwarded' = Append(forwarded, f)
      /\ UNCHANGED <<asked, answered, returned, mixed, pbufs>>
  BY <1>0, Zenon DEF Transmit, tunVars, outVars
<1>2. /\ m \in asked /\ m \in Datagrams
      /\ \A i \in DOMAIN forwarded : forwarded[i].data # m
  <2>1. m \in asked /\ m.id = o.id
    BY <1>0, Zenon DEF IndInv, SendsInv
  <2>2. \A i \in DOMAIN forwarded : forwarded[i].data.id # o.id
    BY <1>1, Zenon DEF IndInv, SendsInv
  <2>3. asked \subseteq Datagrams
    BY Zenon DEF IndInv, TypeOK
  <2> QED BY SMTT(30), <2>1, <2>2, <2>3
<1>3. f \in Carried /\ f.data = m
  <2>1. o \in Sends
    BY SMTT(30) DEF IndInv, TypeOK
  <2>2. o.sess \in Sessions /\ o.ep \in Endpoints
    BY <2>1 DEF Sends
  <2> QED BY SMTT(30), <1>2, <2>2 DEF Carried
<1> HIDE DEF f
<1>4. /\ forwarded \in Seq(Carried) /\ Data \in Seq(Datagrams)
      /\ Len(Data) = Len(forwarded)
      /\ Relay!Range(Data) = {forwarded[i].data : i \in DOMAIN forwarded}
  BY DataSeq DEF IndInv, NetTypeOK
<1>5. Data' = Append(Data, m)
  <2>1. /\ DOMAIN Data' = 1 .. Len(forwarded) + 1
        /\ \A i \in 1 .. Len(forwarded) : Data'[i] = forwarded[i].data
        /\ Data'[Len(forwarded) + 1] = m
    BY SMTT(30), <1>1, <1>3, <1>4 DEF Data
  <2>2. \A i \in 1 .. Len(forwarded) : Data[i] = forwarded[i].data
    BY <1>4 DEF Data
  <2>3. Data' \in [1 .. Len(forwarded) + 1 -> Datagrams]
    <3>1. Data' = [i \in DOMAIN Data' |-> Data'[i]]
      BY DEF Data
    <3>2. \A i \in 1 .. Len(forwarded) : Data[i] \in Datagrams
      BY <1>4
    <3> QED BY SMTT(30), <1>2, <1>4, <2>1, <2>2, <3>1, <3>2
  <2>4. Data' \in Seq(Datagrams) /\ Len(Data') = Len(forwarded) + 1
    BY SMTT(30), <1>4, <2>3
  <2>5. /\ Append(Data, m) \in Seq(Datagrams) /\ Len(Append(Data, m)) = Len(forwarded) + 1
        /\ \A i \in 1 .. Len(forwarded) : Append(Data, m)[i] = Data[i]
        /\ Append(Data, m)[Len(forwarded) + 1] = m
    BY SMTT(60), <1>2, <1>4
  <2>6. \A i \in 1 .. Len(forwarded) + 1 : Data'[i] = Append(Data, m)[i]
    BY SMTT(30), <1>4, <2>1, <2>2, <2>5
  <2> QED BY <2>4, <2>5, <2>6, SeqSame
<1>6. m \notin Relay!Range(Data)
  BY SMTT(30), <1>2, <1>4
<1>7. Relay!Forward(m)
  BY <1>1, <1>5, <1>6, Zenon DEF Relay!Forward, Data
<1> QED BY <1>2, <1>7, Zenon DEF Relay!Next

\* The server answers what it got.
LEMMA RelayAnswer ==
    ASSUME IndInv, NEW n \in 1 .. MaxAnswer, NEW i \in DOMAIN forwarded,
           NEW ep \in Endpoints, NEW len \in Lengths, Answer(n, i, ep, len)
    PROVE  Relay!Next
<1> DEFINE r == [id |-> n, req |-> forwarded[i].data, ep |-> ep, len |-> len]
<1>1. answered' = answered \cup {r} /\ UNCHANGED <<asked, forwarded, returned, mixed>>
  BY Zenon DEF Answer, tunVars, outVars
<1>2. \A a \in answered : a.id < n
  BY Zenon DEF Answer, Numbered
<1>3. n \in Nat /\ \A a \in answered : a.id \in Nat
  BY SMTT(30), UdpAssumption DEF IndInv, TypeOK, Replies
<1>4. r.id = n /\ r.req = forwarded[i].data
  OBVIOUS
<1> HIDE DEF r
<1>5. \A a \in answered : a.id # r.id
  BY <1>2, <1>3, <1>4
<1>6. r.req \in Relay!Range(Data)
  BY SMTT(30), <1>4, DataSeq DEF IndInv
<1>7. Data' = Data
  BY <1>1 DEF Data
<1>8. Relay!Answer(r)
  BY <1>1, <1>5, <1>6, <1>7, Zenon DEF Relay!Answer, Data
<1> QED BY <1>1, <1>8 DEF Relay!Next

\* Served is that of the abstract relay.
LEMMA RelayServed ==
    ASSUME NEW q
    PROVE  Relay!Served(q) <=> Served(q.id)
BY Zenon DEF Relay!Served, Relay!Range, Served

\* A packet the tun device takes, at once or later, is an answer to the port of
\* the reply q that the write was started for, whose packet was not taken before.
LEMMA RelayReturn ==
    ASSUME IndInv, NEW r \in answered, NEW q \in answered,
           UNCHANGED <<asked, forwarded, answered, mixed>>,
           r.req.port = q.req.port, ~Served(q.id),
           returned' = Append(returned, [id |-> r.id, port |-> r.req.port,
                                         from |-> r.req.dest, instead |-> q.id])
    PROVE  Relay!Next
<1>1. Relay!Returned(r, q) =
          [id |-> r.id, port |-> r.req.port, from |-> r.req.dest, instead |-> q.id]
  BY Zenon DEF Relay!Returned
<1>2. ~Relay!Served(q)
  BY RelayServed, Zenon
<1>3. Data' = Data
  BY SMTT(30) DEF Data
<1>4. Relay!Return(r, q)
  BY <1>1, <1>2, <1>3, Zenon DEF Relay!Return, Data
<1> QED BY Zenon, <1>4 DEF Relay!Next

\* A mixture the tun device takes stands for the reply of its write.
LEMMA RelayGarble ==
    ASSUME IndInv, NEW q \in answered,
           UNCHANGED <<asked, forwarded, answered, returned>>,
           ~Served(q.id), mixed' = mixed \cup {q.id}
    PROVE  Relay!Next
<1>1. ~Relay!Served(q)
  BY RelayServed, Zenon
<1>2. Data' = Data
  BY SMTT(30) DEF Data
<1>3. Relay!Garble(q)
  BY <1>1, <1>2, Zenon DEF Relay!Garble, Data
<1> QED BY Zenon, <1>3 DEF Relay!Next

\* What the tun device takes for a pending write
LEMMA RelayTunWrite ==
    ASSUME IndInv, TunWrite
    PROVE  Relay!Next \/ UNCHANGED Relay!vars
<1> DEFINE w == Head(tun_writes)
           r == remote_recv_buff_[w.sess].reply
<1>1. UNCHANGED <<asked, forwarded, answered>>
  BY Zenon DEF TunWrite, tunVars, netVars
<1>2. /\ tun_writes # <<>> /\ w \in Injected
      /\ \/ UNCHANGED <<returned, mixed>>
         \/ mixed' = mixed \cup {w.id} /\ UNCHANGED returned
         \/ /\ r # NoReply /\ UNCHANGED mixed
            /\ returned' = Append(returned, [id |-> r.id, port |-> r.req.port,
                                             from |-> r.req.dest, instead |-> w.id])
  BY TunWriteEffect, Zenon
<1>3. PICK q \in answered : q.id = w.id /\ udp_session_map_[q.req.port] = w.sess
  <2>1. 1 \in DOMAIN tun_writes /\ w = tun_writes[1]
    BY Zenon, <1>2, TailElements DEF IndInv, NetTypeOK
  <2> QED BY Zenon, <2>1 DEF IndInv, WriteInv
<1>4. ~Served(q.id)
  <2>1. 1 \in DOMAIN tun_writes /\ w = tun_writes[1]
    BY Zenon, <1>2, TailElements DEF IndInv, NetTypeOK
  <2>2. ~Served(w.id)
    BY Zenon, <2>1 DEF IndInv, OnceInv, OutInv
  <2> QED BY <1>3, <2>2, Zenon
<1>5. ASSUME r # NoReply PROVE r \in answered /\ r.req.port = q.req.port
  <2>1. w.sess \in Sessions /\ w.sess # NoSession
    BY SMTT(30), <1>2, NothingIsNothing DEF Injected
  <2>2. r \in answered /\ r.req.port = ip_udp_header_[w.sess].dst
    BY Zenon, <1>5, <2>1, PacketOfReply
  <2>3. q.req.port \in Ports
    BY SMTT(30) DEF IndInv, TypeOK, Replies, Datagrams
  <2>4. ip_udp_header_[w.sess].dst = q.req.port
    BY Zenon, <1>3, <2>1, <2>3 DEF IndInv, SessionInv
  <2> QED BY <2>2, <2>4, Zenon
<1> HIDE DEF w, r
<1>6. CASE UNCHANGED <<returned, mixed>>
  BY <1>1, <1>6, RelayStutter, Zenon
<1>7. CASE mixed' = mixed \cup {w.id} /\ UNCHANGED returned
  <2>1. mixed' = mixed \cup {q.id} /\ UNCHANGED <<asked, forwarded, answered, returned>>
    BY <1>1, <1>3, <1>7, Zenon
  <2> QED BY <1>4, <2>1, RelayGarble, Zenon
<1>8. CASE /\ r # NoReply /\ UNCHANGED mixed
           /\ returned' = Append(returned, [id |-> r.id, port |-> r.req.port,
                                            from |-> r.req.dest, instead |-> w.id])
  <2>1. /\ UNCHANGED <<asked, forwarded, answered, mixed>>
        /\ returned' = Append(returned, [id |-> r.id, port |-> r.req.port,
                                         from |-> r.req.dest, instead |-> q.id])
    BY <1>1, <1>3, <1>8, Zenon
  <2> QED BY <1>4, <1>5, <1>8, <2>1, RelayReturn, Zenon
<1> QED BY SMTT(30), <1>2, <1>6, <1>7, <1>8

\* Every step is a step of the abstract relay or a stutter.
LEMMA RelayStep == IndInv /\ [Next]_vars => [Relay!Next]_(Relay!vars)
<1> SUFFICES ASSUME IndInv, [Next]_vars PROVE Relay!Next \/ UNCHANGED Relay!vars
  BY Zenon
<1>1. CASE UNCHANGED vars
  BY <1>1, RelayStutter, Zenon DEF vars, tunVars, netVars, outVars
<1>2. CASE \E m \in Datagrams : Handle(m)
  BY <1>2, RelayAsk, Zenon
<1>3. CASE TunThread
  <2>1. UNCHANGED <<asked, forwarded, answered, returned, mixed>>
    BY <1>3, Zenon DEF TunThread, SendPacketToRemote, Send, Run, netVars, outVars
  <2> QED BY <2>1, RelayStutter, Zenon
<1>4. ASSUME NEW o \in sends, handlerOnRemoteSent(o)
      PROVE  UNCHANGED Relay!vars
  <2>1. UNCHANGED <<asked, forwarded, answered, returned, mixed>>
    BY <1>4, Zenon DEF handlerOnRemoteSent, tunVars, netVars, outVars
  <2> QED BY <2>1, RelayStutter, Zenon
<1>5. ASSUME NEW s \in Sessions, StartReader(s)
      PROVE  UNCHANGED Relay!vars
  <2>1. UNCHANGED <<asked, forwarded, answered, returned, mixed>>
    BY <1>5, Zenon DEF StartReader, tunVars, netVars, outVars
  <2> QED BY <2>1, RelayStutter, Zenon
<1>6. ASSUME NEW s \in Sessions, readFromRemote(s)
      PROVE  Relay!Next \/ UNCHANGED Relay!vars
  <2> DEFINE r == remote_recv_buff_[s].reply
  <2>1. UNCHANGED <<asked, forwarded, answered>>
    BY <1>6, Zenon DEF readFromRemote, tunVars, netVars
  <2>2. /\ reader[s] = "received" /\ r # NoReply /\ UNCHANGED mixed
        /\ \/ UNCHANGED returned
           \/ returned' = Append(returned, [id |-> r.id, port |-> r.req.port,
                                            from |-> r.req.dest, instead |-> r.id])
    BY <1>6, ReadEffect, ZenonT(40)
  <2>3. r \in answered /\ ~Out(r.id)
    BY Zenon, <2>2, PacketOfReply DEF IndInv, OnceInv
  <2>4. ~Served(r.id)
    BY <2>3, Zenon DEF Out
  <2> HIDE DEF r
  <2>5. CASE UNCHANGED returned
    BY <2>1, <2>2, <2>5, RelayStutter, Zenon
  <2>6. CASE returned' = Append(returned, [id |-> r.id, port |-> r.req.port,
                                           from |-> r.req.dest, instead |-> r.id])
    BY <2>1, <2>2, <2>3, <2>4, <2>6, RelayReturn, Zenon
  <2> QED BY <2>2, <2>5, <2>6
<1>7. CASE TunWrite
  BY <1>7, RelayTunWrite, Zenon
<1>8. ASSUME NEW o \in sends, Transmit(o) \/ FailSend(o)
      PROVE  Relay!Next \/ UNCHANGED Relay!vars
  <2>1. CASE Transmit(o)
    BY <2>1, RelayForward
  <2>2. CASE FailSend(o)
    <3>1. UNCHANGED <<asked, forwarded, answered, returned, mixed>>
      BY <2>2, Zenon DEF FailSend, tunVars, netVars, outVars
    <3> QED BY <3>1, RelayStutter, Zenon
  <2> QED BY <1>8, <2>1, <2>2
<1>9. ASSUME NEW s \in Sessions, FailReceive(s) \/ \E r \in inbox[s] : Receive(s, r)
      PROVE  UNCHANGED Relay!vars
  <2>1. UNCHANGED <<asked, forwarded, answered, returned, mixed>>
    BY <1>9, Zenon DEF FailReceive, Receive, tunVars, netVars, outVars
  <2> QED BY <2>1, RelayStutter, Zenon
<1>10. CASE \E n \in 1 .. MaxAnswer, i \in DOMAIN forwarded, ep \in Endpoints :
               \E len \in Lengths : Answer(n, i, ep, len)
  BY <1>10, RelayAnswer, Zenon
<1> QED BY <1>1, <1>2, <1>3, <1>4, <1>5, <1>6, <1>7, <1>8, <1>9, <1>10, Zenon
        DEF Next, UdpThread

\* The UDP side implements the abstract relay.
THEOREM UdpIsDatagramRelay == Spec => IsDatagramRelay
<1>1. Init => Relay!Init
  BY SMTT(30) DEF Init, Relay!Init
<1>2. IndInv /\ [Next]_vars => [Relay!Next]_(Relay!vars)
  BY RelayStep
<1> QED BY <1>1, <1>2, Invariance, PTL DEF Spec, IsDatagramRelay, Relay!Spec
=============================================================================
