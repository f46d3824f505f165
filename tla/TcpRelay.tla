------------------------------ MODULE TcpRelay ------------------------------
(***************************************************************************)
(* The TCP half of libtunosocks: lwIP protocol control blocks, the lwIP    *)
(* callbacks, TcpHandler's session map and the coroutines of TcpSession.   *)
(*                                                                         *)
(* All of it runs on the one thread of Socksifier's io_context, so a step  *)
(* is one handler: an input segment with every callback it triggers, or a  *)
(* coroutine from one suspension point to the next.  Between two handlers  *)
(* the kernel completes asynchronous operations.  A completed operation    *)
(* whose handler has not run yet can no longer be cancelled.               *)
(*                                                                         *)
(* Bytes are numbered by their offset in the stream.  A pbuf or a segment  *)
(* is the interval <<lo, hi>> of the offsets lo+1 .. hi that it carries.   *)
(***************************************************************************)
EXTENDS Integers, Sequences

CONSTANTS
    Conns,      \* connections; each is one pcb and the session made for it
    Tuples,     \* local/remote address and port 4-tuples
    TupleOf,    \* the 4-tuple of every connection
    NoConn,     \* "not found" in the session map
    TCP_WND,    \* receive window of a pcb
    TCP_SND_BUF,\* send buffer of a pcb
    TCP_SND_QUEUELEN, \* pbufs that unsent and unacked may hold
    ReadMax,    \* TCP_LOCAL_RECV_BUFF_SIZE, the most one read returns
    LowWater,   \* 2 * TCP_LOCAL_RECV_BUFF_SIZE, as the macro expands
    SegMax,     \* TCP_MSS, the most one segment from the application carries
    Windows,    \* the values min(snd_wnd, cwnd) may take
    MaxUp,      \* bound: bytes the local application sends
    MaxDown     \* bound: bytes the SOCKS5 server sends

ASSUME ConnAssumption ==
    /\ NoConn \notin Conns
    /\ TupleOf \in [Conns -> Tuples]

ASSUME QueueLenAssumption == TCP_SND_QUEUELEN \in Nat

ASSUME SizeAssumption ==
    /\ TCP_WND \in Nat \ {0} /\ TCP_SND_BUF \in Nat \ {0}
    /\ ReadMax \in Nat \ {0} /\ SegMax \in Nat \ {0} /\ LowWater \in Nat
    /\ ReadMax <= LowWater /\ LowWater <= TCP_SND_BUF
    /\ Windows \subseteq Nat /\ Windows # {}
    /\ MaxUp \in Nat /\ MaxDown \in Nat

VARIABLES
    \* struct tcp_pcb
    state, callback_arg, rcv_wnd, snd_buf, snd_nxt, wnd, unsent, unacked,
    fin,
    \* TcpHandler
    session_map,
    \* TcpSession
    status, pbuf_queue, remote_sending, should_read_from_remote,
    remote_recv_buff,
    \* its coroutines and their asynchronous operations
    pc, op, wr, nread, write_ops,
    \* the two ends of the relay
    rcvd, credited, upstream, bytes_read, downstream, acked, remote,
    \* the first access to freed memory, or the assertion that failed
    fault

pcbVars == <<state, callback_arg, rcv_wnd, snd_buf, snd_nxt, wnd, unsent, unacked,
             fin>>
sessVars == <<status, pbuf_queue, remote_sending, should_read_from_remote,
              remote_recv_buff>>
coVars == <<pc, op, wr, nread, write_ops>>
endVars == <<rcvd, credited, upstream, bytes_read, downstream, acked,
             remote>>
vars == <<pcbVars, session_map, sessVars, coVars, endVars, fault>>

(***************************************************************************)
(* The coroutines of a session: the one Start spawns, the writer that      *)
(* ProxyTcpPacket spawns and the reader that ReadFromRemote spawns.        *)
(***************************************************************************)
Coroutines == {"start", "up", "down"}
Writers == {"start", "up"}
Readers == {"start", "down"}
Handshake == {"connect", "mwrite", "mread", "rwrite", "rread"}
PCs == Handshake \cup {"idle", "write", "read", "done"}
Ops == {"none", "pending", "ok", "bad", "err"}

PcbStates == {"NONE", "SYN_RCVD", "ESTABLISHED", "LAST_ACK", "FREED"}
Statuses == {"INIT", "HANDSHAKING", "RELAYING", "CLOSE"}
Faults == {"none", "freed_pcb", "freed_session", "handle_assert",
           "accept_assert"}

Intervals == Nat \X Nat
NoWrite == [lo |-> 0, pos |-> 0, hi |-> 0]

PcbTypeOK ==
    /\ state \in [Conns -> PcbStates]
    /\ callback_arg \in [Conns -> BOOLEAN]
    /\ rcv_wnd \in [Conns -> 0 .. TCP_WND]
    /\ snd_buf \in [Conns -> 0 .. TCP_SND_BUF]
    /\ snd_nxt \in [Conns -> Nat]
    /\ wnd \in [Conns -> Windows]
    /\ unsent \in [Conns -> Seq(Intervals)]
    /\ unacked \in [Conns -> Seq(Intervals)]
    /\ fin \in [Conns -> {"no", "unsent", "unacked"}]

SessionTypeOK ==
    /\ status \in [Conns -> Statuses]
    /\ pbuf_queue \in [Conns -> Seq(Intervals)]
    /\ remote_sending \in [Conns -> BOOLEAN]
    /\ should_read_from_remote \in [Conns -> BOOLEAN]
    /\ remote_recv_buff \in [Conns -> [1 .. ReadMax -> Nat]]

CoroutineTypeOK ==
    /\ pc \in [Conns -> [Coroutines -> PCs]]
    /\ op \in [Conns -> [Coroutines -> Ops]]
    /\ wr \in [Conns -> [Writers -> [lo : Nat, pos : Nat, hi : Nat]]]
    /\ nread \in [Conns -> [Readers -> 0 .. ReadMax]]
    /\ write_ops \in [Conns -> Seq(Writers)]

EndTypeOK ==
    /\ rcvd \in [Conns -> Nat] /\ credited \in [Conns -> Nat]
    /\ upstream \in [Conns -> Seq(Nat)]
    /\ bytes_read \in [Conns -> Nat]
    /\ downstream \in [Conns -> Seq([lo : Nat, data : Seq(Nat)])]
    /\ acked \in [Conns -> Nat]
    /\ remote \in [Conns -> {"open", "closed", "reset"}]

TypeOK ==
    /\ PcbTypeOK /\ SessionTypeOK /\ CoroutineTypeOK /\ EndTypeOK
    /\ session_map \in [Tuples -> Conns \cup {NoConn}]
    /\ fault \in Faults

Init ==
    /\ state = [c \in Conns |-> "NONE"]
    /\ callback_arg = [c \in Conns |-> FALSE]
    /\ rcv_wnd = [c \in Conns |-> TCP_WND]
    /\ snd_buf = [c \in Conns |-> TCP_SND_BUF]
    /\ snd_nxt = [c \in Conns |-> 0]
    /\ wnd \in [Conns -> Windows]
    /\ unsent = [c \in Conns |-> <<>>]
    /\ unacked = [c \in Conns |-> <<>>]
    /\ fin = [c \in Conns |-> "no"]
    /\ session_map = [t \in Tuples |-> NoConn]
    /\ status = [c \in Conns |-> "INIT"]
    /\ pbuf_queue = [c \in Conns |-> <<>>]
    /\ remote_sending = [c \in Conns |-> FALSE]
    /\ should_read_from_remote = [c \in Conns |-> TRUE]
    /\ remote_recv_buff = [c \in Conns |-> [i \in 1 .. ReadMax |-> 0]]
    /\ pc = [c \in Conns |-> [r \in Coroutines |-> "idle"]]
    /\ op = [c \in Conns |-> [r \in Coroutines |-> "none"]]
    /\ wr = [c \in Conns |-> [w \in Writers |-> NoWrite]]
    /\ nread = [c \in Conns |-> [r \in Readers |-> 0]]
    /\ write_ops = [c \in Conns |-> <<>>]
    /\ rcvd = [c \in Conns |-> 0] /\ credited = [c \in Conns |-> 0]
    /\ upstream = [c \in Conns |-> <<>>]
    /\ bytes_read = [c \in Conns |-> 0]
    /\ downstream = [c \in Conns |-> <<>>]
    /\ acked = [c \in Conns |-> 0]
    /\ remote = [c \in Conns |-> "open"]
    /\ fault = "none"

-----------------------------------------------------------------------------
(* Life of a session and of a pcb *)

\* A session lives while the map or one of its coroutines holds a shared_ptr.
AliveIn(map, pcs, s) ==
    \/ map[TupleOf[s]] = s
    \/ \E r \in Coroutines : pcs[s][r] \notin {"idle", "done"}

Alive(s) == AliveIn(session_map, pc, s)

\* Writing through a dangling pointer, or a failed assert, ends the behaviour.
Crash(f) ==
    /\ fault' = f
    /\ UNCHANGED <<pcbVars, session_map, sessVars, coVars, endVars>>

\* tcp_pcb_purge, tcp_pcb_remove and tcp_free
FreePcb(c) ==
    /\ state' = [state EXCEPT ![c] = "FREED"]
    /\ unsent' = [unsent EXCEPT ![c] = <<>>]
    /\ unacked' = [unacked EXCEPT ![c] = <<>>]
    /\ fin' = [fin EXCEPT ![c] = "no"]
    /\ UNCHANGED <<snd_nxt, downstream>>

\* remote_socket.cancel() reaches only operations that are still pending.
Cancel(s) ==
    /\ op' = [op EXCEPT ![s] = [r \in Coroutines |->
                  IF op[s][r] = "pending" THEN "err" ELSE op[s][r]]]
    /\ write_ops' = [write_ops EXCEPT ![s] = <<>>]

Stop(s) ==
    IF status[s] = "CLOSE"
    THEN UNCHANGED <<status, callback_arg, op, write_ops>>
    ELSE /\ Cancel(s)
         /\ status' = [status EXCEPT ![s] = "CLOSE"]
         /\ callback_arg' = [callback_arg EXCEPT ![s] = FALSE]

\* Mutant of Clear: the session is stopped but stays in the map.
ClearKeepsEntry(c) ==
    LET s == session_map[TupleOf[c]] IN
    IF s = NoConn
    THEN UNCHANGED <<session_map, status, callback_arg, op, write_ops>>
    ELSE Stop(s) /\ UNCHANGED session_map

Clear(c) ==
    LET s == session_map[TupleOf[c]] IN
    IF s = NoConn
    THEN UNCHANGED <<session_map, status, callback_arg, op, write_ops>>
    ELSE /\ Stop(s)
         /\ session_map' = [session_map EXCEPT ![TupleOf[c]] = NoConn]

(***************************************************************************)
(* tcp_output.  q is the queue of unsent segments, una that of segments in *)
(* flight and f the FIN.  A segment goes out when its end is within wnd of *)
(* the last acknowledgement.  Its payload is read now, from b: tcp_write   *)
(* was given a pointer to remote_recv_buff and no TCP_WRITE_FLAG_COPY.     *)
(***************************************************************************)
Payload(seg, b) == [lo |-> seg[1], data |-> [i \in 1 .. seg[2] - seg[1] |-> b[i]]]

\* Mutant of TcpOutput: snd_nxt is not moved past what was sent.
TcpOutputKeepsNxt(c, q, una, f, b) ==
    \E k \in 0 .. Len(q) :
        /\ \A j \in 1 .. k : q[j][2] - acked'[c] <= wnd'[c]
        /\ k < Len(q) => q[k + 1][2] - acked'[c] > wnd'[c]
        /\ unsent' = [unsent EXCEPT ![c] = SubSeq(q, k + 1, Len(q))]
        /\ unacked' = [unacked EXCEPT ![c] = una \o SubSeq(q, 1, k)]
        /\ fin' = [fin EXCEPT ![c] = f]
        /\ UNCHANGED <<snd_nxt, downstream>>

TcpOutput(c, q, una, f, b) ==
    \E k \in 0 .. Len(q) :
        /\ \A j \in 1 .. k : q[j][2] - acked'[c] <= wnd'[c]
        /\ k < Len(q) => q[k + 1][2] - acked'[c] > wnd'[c]
        /\ unsent' = [unsent EXCEPT ![c] = SubSeq(q, k + 1, Len(q))]
        /\ unacked' = [unacked EXCEPT ![c] = una \o SubSeq(q, 1, k)]
        /\ snd_nxt' = [snd_nxt EXCEPT ![c] = IF k = 0 THEN @ ELSE q[k][2]]
        /\ fin' = [fin EXCEPT ![c] =
               IF /\ f = "unsent" /\ k = Len(q)
                  /\ TCP_SND_BUF - snd_buf'[c] <= wnd'[c]
               THEN "unacked" ELSE f]
        /\ downstream' = [downstream EXCEPT ![c] =
               @ \o [j \in 1 .. k |-> Payload(q[j], b)]]

\* What lwIP reads through a pointer into remote_recv_buff: once the session
\* is destroyed the memory holds the old bytes or anything else.
Buffers(c) ==
    {remote_recv_buff[c]} \cup
    (IF AliveIn(session_map', pc', c) THEN {} ELSE {[i \in 1 .. ReadMax |-> 0]})

-----------------------------------------------------------------------------
(* Segments from the local application.  A segment that acknowledges,      *)
(* carries data and a FIN is handled by tcp_input as these parts in this   *)
(* order, so each part is an action of its own.                            *)

Active(c) == state[c] \notin {"NONE", "FREED"}

\* Mutant of RecvSyn: a new pcb even though the 4-tuple has one.
RecvSynAgain(c) ==
    /\ state[c] = "NONE"
    /\ state' = [state EXCEPT ![c] = "SYN_RCVD"]
    /\ UNCHANGED <<callback_arg, rcv_wnd, snd_buf, snd_nxt, wnd, unsent, unacked,
                   fin, session_map, sessVars, coVars, endVars, fault>>

\* tcp_listen_input: a SYN for a 4-tuple that has no active pcb
RecvSyn(c) ==
    /\ state[c] = "NONE"
    /\ \A d \in Conns : TupleOf[d] = TupleOf[c] => ~Active(d)
    /\ state' = [state EXCEPT ![c] = "SYN_RCVD"]
    /\ UNCHANGED <<callback_arg, rcv_wnd, snd_buf, snd_nxt, wnd, unsent, unacked,
                   fin, session_map, sessVars, coVars, endVars, fault>>

\* TcpHandler::Handle(pcb, nullptr): make a session and Start() it; opened is
\* what openRemoteSocket returns
NewSession(c, opened) ==
    /\ callback_arg' = [callback_arg EXCEPT ![c] = TRUE]
    /\ session_map' = [session_map EXCEPT ![TupleOf[c]] = c]
    /\ IF opened
       THEN /\ pc' = [pc EXCEPT ![c]["start"] = "connect"]
            /\ op' = [op EXCEPT ![c]["start"] = "pending"]
            /\ UNCHANGED status
       ELSE /\ status' = [status EXCEPT ![c] = "CLOSE"]
            /\ UNCHANGED <<pc, op>>

\* The handshake's last ACK: listener_accept_func
RecvHandshakeAck(c) ==
    /\ state[c] = "SYN_RCVD"
    /\ IF session_map[TupleOf[c]] = NoConn
       THEN /\ \E opened \in BOOLEAN : NewSession(c, opened)
            /\ state' = [state EXCEPT ![c] = "ESTABLISHED"]
            /\ UNCHANGED <<rcv_wnd, snd_buf, snd_nxt, wnd, unsent, unacked,
                           fin, pbuf_queue, remote_sending, should_read_from_remote,
                           remote_recv_buff, wr, nread, write_ops, endVars,
                           fault>>
       ELSE Crash("accept_assert")

\* Mutant of StartWrite: the packet is not popped.
StartWriteNoPop(c, w, q) ==
    /\ pbuf_queue' = [pbuf_queue EXCEPT ![c] = q]
    /\ pc' = [pc EXCEPT ![c][w] = "write"]
    /\ op' = [op EXCEPT ![c][w] = "pending"]
    /\ wr' = [wr EXCEPT ![c][w] =
                  [lo |-> Head(q)[1], pos |-> Head(q)[1], hi |-> Head(q)[2]]]
    /\ write_ops' = [write_ops EXCEPT ![c] = Append(@, w)]

\* Suspend writer w of session c in async_write of the front of queue q.
StartWrite(c, w, q) ==
    /\ pbuf_queue' = [pbuf_queue EXCEPT ![c] = Tail(q)]
    /\ pc' = [pc EXCEPT ![c][w] = "write"]
    /\ op' = [op EXCEPT ![c][w] = "pending"]
    /\ wr' = [wr EXCEPT ![c][w] =
                  [lo |-> Head(q)[1], pos |-> Head(q)[1], hi |-> Head(q)[2]]]
    /\ write_ops' = [write_ops EXCEPT ![c] = Append(@, w)]

\* ProxyTcpPacket
ProxyTcpPacket(s, p) ==
    LET q == Append(pbuf_queue[s], p) IN
    IF status[s] # "RELAYING" \/ remote_sending[s]
    THEN /\ pbuf_queue' = [pbuf_queue EXCEPT ![s] = q]
         /\ UNCHANGED <<remote_sending, pc, op, wr, write_ops>>
    ELSE /\ remote_sending' = [remote_sending EXCEPT ![s] = TRUE]
         /\ StartWrite(s, "up", q)

\* In-order data: tcp_receive, then tcp_recv_func with the pbuf
RecvData(c, n) ==
    LET s == session_map[TupleOf[c]]
        w == rcv_wnd[c] - n
    IN
    /\ state[c] = "ESTABLISHED"
    /\ n <= rcv_wnd[c] /\ rcvd[c] + n <= MaxUp
    /\ \/ /\ s = NoConn
          /\ Crash("handle_assert")
       \/ /\ s # NoConn /\ status[s] = "CLOSE"
          /\ Clear(c)
          /\ FreePcb(c)     \* tcp_close; rcv_wnd is below TCP_WND here
          /\ rcv_wnd' = [rcv_wnd EXCEPT ![c] = w]
          /\ rcvd' = [rcvd EXCEPT ![c] = @ + n]
          /\ UNCHANGED <<snd_buf, wnd, pbuf_queue, remote_sending,
                         should_read_from_remote, remote_recv_buff, pc, wr,
                         nread, credited, upstream, bytes_read, acked,
                         remote, fault>>
       \/ /\ s # NoConn /\ status[s] # "CLOSE"
          /\ ProxyTcpPacket(s, <<rcvd[c], rcvd[c] + n>>)
          /\ rcv_wnd' = [rcv_wnd EXCEPT ![c] = w]
          /\ rcvd' = [rcvd EXCEPT ![c] = @ + n]
          /\ UNCHANGED <<state, callback_arg, snd_buf, snd_nxt, wnd, unsent, unacked,
                         fin, session_map, status, should_read_from_remote,
                         remote_recv_buff, nread, credited, upstream,
                         bytes_read, downstream, acked, remote, fault>>

\* Mutant of IsRemoteReadable: any room will do.
IsRemoteReadableAny(room) == room > 0

\* tcp_sndbuf(original_pcb) > 2 * TCP_LOCAL_RECV_BUFF_SIZE
IsRemoteReadable(room) == room > LowWater

\* Mutant of ReadFromRemote: it does not return if it is already called.
ReadFromRemoteAgain(c) ==
    /\ should_read_from_remote' = [should_read_from_remote EXCEPT ![c] = TRUE]
    /\ pc' = [pc EXCEPT ![c]["down"] = "read"]
    /\ op' = [op EXCEPT ![c]["down"] = "pending"]

\* Returns if it is already called, else spawns the Downstream Coroutine.
ReadFromRemote(c) ==
    IF should_read_from_remote[c]
    THEN UNCHANGED <<should_read_from_remote, pc, op>>
    ELSE /\ should_read_from_remote' = [should_read_from_remote EXCEPT ![c] = TRUE]
         /\ pc' = [pc EXCEPT ![c]["down"] = "read"]
         /\ op' = [op EXCEPT ![c]["down"] = "pending"]

\* An ACK of the oldest segment in flight, which tcp_receive frees, then
\* tcp_sent_func and tcp_output.  v is the new min(snd_wnd, cwnd).
RecvAck(c, v) ==
    LET seg == Head(unacked[c])
        room == snd_buf[c] + seg[2] - seg[1]
    IN
    /\ state[c] \in {"ESTABLISHED", "LAST_ACK"} /\ unacked[c] # <<>>
    /\ \/ /\ ~callback_arg[c]       \* arg == nullptr: tcp_abort
          /\ FreePcb(c)
          /\ acked' = [acked EXCEPT ![c] = seg[2]]
          /\ snd_buf' = [snd_buf EXCEPT ![c] = room]
          /\ UNCHANGED <<callback_arg, rcv_wnd, wnd, session_map, sessVars,
                         coVars, rcvd, credited, upstream, bytes_read,
                         remote, fault>>
       \/ /\ callback_arg[c] /\ ~Alive(c)
          /\ Crash("freed_session")
       \/ /\ callback_arg[c] /\ Alive(c)
          /\ acked' = [acked EXCEPT ![c] = seg[2]]
          /\ snd_buf' = [snd_buf EXCEPT ![c] = room]
          /\ wnd' = [wnd EXCEPT ![c] = v]
          /\ IF IsRemoteReadable(room) THEN ReadFromRemote(c)
             ELSE UNCHANGED <<should_read_from_remote, pc, op>>
          /\ TcpOutput(c, unsent[c], Tail(unacked[c]), fin[c], remote_recv_buff[c])
          /\ UNCHANGED <<state, callback_arg, rcv_wnd, session_map, status,
                         pbuf_queue, remote_sending, remote_recv_buff, wr,
                         nread, write_ops, rcvd, credited, upstream,
                         bytes_read, remote, fault>>

\* A window update: nothing acknowledged, no callback, but tcp_output
RecvWnd(c, v) ==
    /\ state[c] \in {"ESTABLISHED", "LAST_ACK"} /\ v # wnd[c]
    /\ wnd' = [wnd EXCEPT ![c] = v]
    /\ UNCHANGED <<snd_buf, session_map, pc, acked>>
    /\ \E b \in Buffers(c) : TcpOutput(c, unsent[c], unacked[c], fin[c], b)
    /\ UNCHANGED <<state, callback_arg, rcv_wnd, sessVars, op, wr, nread,
                   write_ops, rcvd, credited, upstream, bytes_read,
                   remote, fault>>

\* A FIN: tcp_recv_func with no pbuf.  tcp_close resets the connection while
\* the window is not whole, else it answers with a FIN; then Clear.
RecvFin(c) ==
    /\ state[c] = "ESTABLISHED" /\ rcv_wnd[c] > 0
    /\ UNCHANGED <<rcv_wnd, snd_buf, wnd, pbuf_queue, remote_sending,
                   should_read_from_remote, remote_recv_buff, pc, wr, nread,
                   rcvd, credited, upstream, bytes_read, acked, remote,
                   fault>>
    /\ Clear(c)
    /\ \/ /\ rcv_wnd[c] # TCP_WND
          /\ FreePcb(c)
       \/ /\ rcv_wnd[c] = TCP_WND
          /\ state' = [state EXCEPT ![c] = "LAST_ACK"]
          /\ \E b \in Buffers(c) :
                 TcpOutput(c, unsent[c], unacked[c], "unsent", b)

\* The ACK of our FIN ends LAST_ACK; the user is not told.
RecvFinAck(c) ==
    /\ state[c] = "LAST_ACK" /\ fin[c] = "unacked" /\ unacked[c] = <<>>
    /\ FreePcb(c)
    /\ UNCHANGED <<callback_arg, rcv_wnd, snd_buf, wnd, session_map, sessVars,
                   coVars, rcvd, credited, upstream, bytes_read, acked,
                   remote, fault>>

\* A reset: tcp_err_func, then the pcb is freed
RecvRst(c) ==
    /\ Active(c)
    /\ IF callback_arg[c] /\ ~Alive(c)
       THEN Crash("freed_session")
       ELSE /\ IF callback_arg[c] THEN Clear(c)
               ELSE UNCHANGED <<session_map, status, callback_arg, op, write_ops>>
            /\ FreePcb(c)
            /\ UNCHANGED <<rcv_wnd, snd_buf, wnd, pbuf_queue, remote_sending,
                           should_read_from_remote, remote_recv_buff, pc, wr,
                           nread, rcvd, credited, upstream, bytes_read, acked,
                           remote, fault>>

-----------------------------------------------------------------------------
(* The kernel and the SOCKS5 server: completion of asynchronous operations *)

\* One handshake operation completes; "bad" is a refusing SOCKS5 reply.
CompleteHandshake(c, res) ==
    /\ pc[c]["start"] \in Handshake /\ op[c]["start"] = "pending"
    /\ res = "bad" => pc[c]["start"] = "rread"
    /\ op' = [op EXCEPT ![c]["start"] = res]
    /\ UNCHANGED <<pcbVars, session_map, sessVars, pc, wr, nread, write_ops,
                   endVars, fault>>

\* async_read_some fills the buffer when the operation completes.
CompleteRead(c, r, n) ==
    /\ pc[c][r] = "read" /\ op[c][r] = "pending"
    /\ bytes_read[c] + n <= MaxDown /\ remote[c] # "reset"
    /\ op' = [op EXCEPT ![c][r] = "ok"]
    /\ nread' = [nread EXCEPT ![c][r] = n]
    /\ remote_recv_buff' = [remote_recv_buff EXCEPT ![c] =
           [i \in 1 .. ReadMax |-> IF i <= n THEN bytes_read[c] + i ELSE @[i]]]
    /\ bytes_read' = [bytes_read EXCEPT ![c] = @ + n]
    /\ UNCHANGED <<pcbVars, session_map, status, pbuf_queue, remote_sending,
                   should_read_from_remote, pc, wr, write_ops, rcvd, credited,
                   upstream, downstream, acked, remote, fault>>

\* The server closes the connection.  Reads end; the first write after it may
\* still succeed, but once one has failed the socket is reset.
RemoteClose(c) ==
    /\ remote[c] = "open" /\ \E r \in Coroutines : pc[c][r] \in {"read", "write"}
    /\ remote' = [remote EXCEPT ![c] = "closed"]
    /\ UNCHANGED <<pcbVars, session_map, sessVars, coVars, rcvd, credited,
                   upstream, bytes_read, downstream, acked, fault>>

FailRead(c, r) ==
    /\ pc[c][r] = "read" /\ op[c][r] = "pending" /\ remote[c] # "open"
    /\ op' = [op EXCEPT ![c][r] = "err"]
    /\ UNCHANGED <<pcbVars, session_map, sessVars, pc, wr, nread, write_ops,
                   endVars, fault>>

\* The oldest pending write_some of the socket takes k bytes.
CompleteWrite(c, k) ==
    LET w == Head(write_ops[c]) IN
    /\ write_ops[c] # <<>> /\ remote[c] # "reset"
    /\ wr[c][w].pos + k <= wr[c][w].hi
    /\ op' = [op EXCEPT ![c][w] = "ok"]
    /\ wr' = [wr EXCEPT ![c][w].pos = @ + k]
    /\ write_ops' = [write_ops EXCEPT ![c] = Tail(@)]
    /\ upstream' = [upstream EXCEPT ![c] = @ \o [i \in 1 .. k |-> wr[c][w].pos + i]]
    /\ UNCHANGED <<pcbVars, session_map, sessVars, pc, nread, rcvd, credited,
                   bytes_read, downstream, acked, remote, fault>>

FailWrite(c) ==
    /\ write_ops[c] # <<>> /\ remote[c] # "open"
    /\ remote' = [remote EXCEPT ![c] = "reset"]
    /\ op' = [op EXCEPT ![c][Head(write_ops[c])] = "err"]
    /\ write_ops' = [write_ops EXCEPT ![c] = Tail(@)]
    /\ UNCHANGED <<pcbVars, session_map, sessVars, pc, wr, nread, rcvd, credited,
                   upstream, bytes_read, downstream, acked, fault>>

-----------------------------------------------------------------------------
(* The coroutine that Start spawns *)

NextHandshake ==
    [connect |-> "mwrite", mwrite |-> "mread", mread |-> "rwrite", rwrite |-> "rread"]

\* connectToRemote, handleMethodSelection and handleSocks5Request up to the
\* next suspension.  The request is built from original_pcb.
HandshakeStep(c) ==
    LET p == pc[c]["start"] IN
    /\ p \in DOMAIN NextHandshake /\ op[c]["start"] = "ok"
    /\ IF p = "mread" /\ state[c] = "FREED"
       THEN Crash("freed_pcb")
       ELSE /\ pc' = [pc EXCEPT ![c]["start"] = NextHandshake[p]]
            /\ op' = [op EXCEPT ![c]["start"] = "pending"]
            /\ status' = IF p = "connect"
                         THEN [status EXCEPT ![c] = "HANDSHAKING"] ELSE status
            /\ UNCHANGED <<pcbVars, session_map, pbuf_queue, remote_sending,
                           should_read_from_remote, remote_recv_buff, wr, nread,
                           write_ops, endVars, fault>>

\* Start's coroutine returns after any step that failed.
StartFails(c) ==
    /\ pc[c]["start"] \notin {"idle", "done"} /\ op[c]["start"] \in {"err", "bad"}
    /\ status' = [status EXCEPT ![c] = "CLOSE"]
    /\ pc' = [pc EXCEPT ![c]["start"] = "done"]
    /\ op' = [op EXCEPT ![c]["start"] = "none"]
    /\ wr' = [wr EXCEPT ![c]["start"] = NoWrite]
    /\ UNCHANGED <<pcbVars, session_map, pbuf_queue, remote_sending,
                   should_read_from_remote, remote_recv_buff, nread, write_ops,
                   endVars, fault>>

\* Mutant of DrainOrRead: packets that came during the handshake are not drained.
NeverDrain(c) ==
    /\ pc' = [pc EXCEPT ![c]["start"] = "read"]
    /\ op' = [op EXCEPT ![c]["start"] = "pending"]
    /\ wr' = [wr EXCEPT ![c]["start"] = NoWrite]
    /\ UNCHANGED <<pbuf_queue, write_ops>>

\* handleRemoteRead: write the queue to the server, then read from it.
DrainOrRead(c) ==
    \/ /\ pbuf_queue[c] # <<>>
       /\ StartWrite(c, "start", pbuf_queue[c])
    \/ /\ pbuf_queue[c] = <<>>
       /\ pc' = [pc EXCEPT ![c]["start"] = "read"]
       /\ op' = [op EXCEPT ![c]["start"] = "pending"]
       /\ wr' = [wr EXCEPT ![c]["start"] = NoWrite]
       /\ UNCHANGED <<pbuf_queue, write_ops>>

\* The reply is accepted and logged with original_pcb's port.
EnterRelaying(c) ==
    /\ pc[c]["start"] = "rread" /\ op[c]["start"] = "ok"
    /\ IF state[c] = "FREED"
       THEN Crash("freed_pcb")
       ELSE /\ status' = [status EXCEPT ![c] = "RELAYING"]
            /\ DrainOrRead(c)
            /\ UNCHANGED <<pcbVars, session_map, remote_sending,
                           should_read_from_remote, remote_recv_buff, nread,
                           endVars, fault>>

\* Mutant of TcpRecved: the window is not clamped and every byte counts twice.
TcpRecvedTwice(c, n) ==
    /\ rcv_wnd' = [rcv_wnd EXCEPT ![c] = @ + 2 * n]
    /\ credited' = [credited EXCEPT ![c] = @ + 2 * n]

\* tcp_recved
TcpRecved(c, n) ==
    /\ rcv_wnd' = [rcv_wnd EXCEPT ![c] =
                       IF @ + n > TCP_WND THEN TCP_WND ELSE @ + n]
    /\ credited' = [credited EXCEPT ![c] = @ + n]

\* Mutant of Written: write_some instead of async_write.
WrittenSome(c, w) == pc[c][w] = "write" /\ op[c][w] = "ok"

Written(c, w) ==
    pc[c][w] = "write" /\ op[c][w] = "ok" /\ wr[c][w].pos = wr[c][w].hi

\* Mutant of WriteLen: all that was ever written is credited again.
WriteTotal(c, w) == wr[c][w].hi

WriteLen(c, w) == wr[c][w].hi - wr[c][w].lo

\* async_write goes on after a partial write_some, at the end of the queue.
WriteMore(c, w) ==
    /\ pc[c][w] = "write" /\ op[c][w] = "ok" /\ wr[c][w].pos < wr[c][w].hi
    /\ op' = [op EXCEPT ![c][w] = "pending"]
    /\ write_ops' = [write_ops EXCEPT ![c] = Append(@, w)]
    /\ UNCHANGED <<pcbVars, session_map, sessVars, pc, wr, nread, endVars, fault>>

\* The loop over the packets that arrived during the handshake
DrainStep(c) ==
    /\ Written(c, "start")
    /\ \/ /\ status[c] = "CLOSE"
          /\ pc' = [pc EXCEPT ![c]["start"] = "done"]
          /\ op' = [op EXCEPT ![c]["start"] = "none"]
          /\ wr' = [wr EXCEPT ![c]["start"] = NoWrite]
          /\ UNCHANGED <<pcbVars, session_map, sessVars, nread, write_ops,
                         endVars, fault>>
       \/ /\ status[c] # "CLOSE" /\ state[c] = "FREED"
          /\ Crash("freed_pcb")
       \/ /\ status[c] # "CLOSE" /\ state[c] # "FREED"
          /\ TcpRecved(c, WriteLen(c, "start"))
          /\ DrainOrRead(c)
          /\ UNCHANGED <<state, callback_arg, snd_buf, snd_nxt, wnd, unsent, unacked,
                         fin, session_map, status, remote_sending,
                         should_read_from_remote, remote_recv_buff, nread, rcvd,
                         upstream, bytes_read, downstream, acked,
                         remote, fault>>

-----------------------------------------------------------------------------
(* The coroutine that ProxyTcpPacket spawns *)

UpReturns(c) ==
    /\ pc' = [pc EXCEPT ![c]["up"] = "idle"]
    /\ op' = [op EXCEPT ![c]["up"] = "none"]
    /\ wr' = [wr EXCEPT ![c]["up"] = NoWrite]

UpStep(c) ==
    /\ Written(c, "up")
    /\ \/ /\ status[c] = "CLOSE"    \* remote_sending stays set
          /\ UpReturns(c)
          /\ UNCHANGED <<pcbVars, session_map, sessVars, nread, write_ops,
                         endVars, fault>>
       \/ /\ status[c] # "CLOSE" /\ state[c] = "FREED"
          /\ Crash("freed_pcb")
       \/ /\ status[c] # "CLOSE" /\ state[c] # "FREED"
          /\ TcpRecved(c, WriteLen(c, "up"))
          /\ IF pbuf_queue[c] # <<>>
             THEN /\ StartWrite(c, "up", pbuf_queue[c])
                  /\ UNCHANGED remote_sending
             ELSE /\ UpReturns(c)
                  /\ remote_sending' = [remote_sending EXCEPT ![c] = FALSE]
                  /\ UNCHANGED <<pbuf_queue, write_ops>>
          /\ UNCHANGED <<state, callback_arg, snd_buf, snd_nxt, wnd, unsent, unacked,
                         fin, session_map, status, should_read_from_remote,
                         remote_recv_buff, nread, rcvd, upstream, bytes_read,
                         downstream, acked, remote, fault>>

UpFails(c) ==
    /\ op[c]["up"] = "err"
    /\ status' = [status EXCEPT ![c] = "CLOSE"]
    /\ UpReturns(c)
    /\ UNCHANGED <<pcbVars, session_map, pbuf_queue, remote_sending,
                   should_read_from_remote, remote_recv_buff, nread, write_ops,
                   endVars, fault>>

-----------------------------------------------------------------------------
(* Downstream: the read loop of handleRemoteRead and that of ReadFromRemote *)

\* Leaving the loop ends Start's coroutine with status CLOSE, for handleRemoteRead
\* returns false in every case; ReadFromRemote just returns.
ReaderReturns(c, r) ==
    /\ pc' = [pc EXCEPT ![c][r] = IF r = "start" THEN "done" ELSE "idle"]
    /\ op' = [op EXCEPT ![c][r] = "none"]
    /\ status' = IF r = "start" THEN [status EXCEPT ![c] = "CLOSE"] ELSE status

ReadFails(c) ==
    /\ op[c]["down"] = "err"
    /\ ReaderReturns(c, "down")
    /\ UNCHANGED <<pcbVars, session_map, pbuf_queue, remote_sending,
                   should_read_from_remote, remote_recv_buff, wr, nread,
                   write_ops, endVars, fault>>

\* The bytes the write stream holds: those acknowledged and those in snd_buf
WriteEnd(c) == acked[c] + TCP_SND_BUF - snd_buf[c]

\* tcp_write_checks, and the check of phase 3: a segment is a pbuf for its header
\* and one for its bytes.
TcpWriteOk(c, n) ==
    /\ state[c] = "ESTABLISHED" /\ n <= snd_buf[c]
    /\ 2 * (Len(unsent[c]) + Len(unacked[c]) + 1) <= TCP_SND_QUEUELEN

ReadStep(c, r) ==
    LET n == nread[c][r]
        accepted == TcpWriteOk(c, n)
    IN
    /\ pc[c][r] = "read" /\ op[c][r] = "ok"
    /\ \/ /\ status[c] = "CLOSE"
          /\ ReaderReturns(c, r)
          /\ UNCHANGED <<pcbVars, session_map, pbuf_queue, remote_sending,
                         should_read_from_remote, remote_recv_buff, wr, nread,
                         write_ops, endVars, fault>>
       \/ /\ status[c] # "CLOSE" /\ state[c] = "FREED"
          /\ Crash("freed_pcb")
       \/ /\ status[c] # "CLOSE" /\ state[c] # "FREED"
          /\ UNCHANGED <<acked, wnd>>
          /\ snd_buf' = [snd_buf EXCEPT ![c] = IF accepted THEN @ - n ELSE @]
          /\ TcpOutput(c,
                 IF accepted THEN Append(unsent[c], <<WriteEnd(c), WriteEnd(c) + n>>)
                             ELSE unsent[c],
                 unacked[c], fin[c], remote_recv_buff[c])
          /\ IF snd_buf'[c] < LowWater
             THEN /\ should_read_from_remote' =
                        [should_read_from_remote EXCEPT ![c] = FALSE]
                  /\ ReaderReturns(c, r)
             ELSE /\ op' = [op EXCEPT ![c][r] = "pending"]
                  /\ UNCHANGED <<should_read_from_remote, pc, status>>
          /\ UNCHANGED <<state, callback_arg, rcv_wnd, session_map, pbuf_queue,
                         remote_sending, remote_recv_buff, wr, nread, write_ops,
                         rcvd, credited, upstream, bytes_read, remote,
                         fault>>

-----------------------------------------------------------------------------
Local(c) ==
    \/ RecvSyn(c) \/ RecvHandshakeAck(c) \/ RecvFin(c) \/ RecvFinAck(c) \/ RecvRst(c)
    \/ \E n \in 1 .. SegMax : RecvData(c, n)
    \/ \E v \in Windows : RecvAck(c, v) \/ RecvWnd(c, v)

ServerReads(c) == \E k \in 1 .. SegMax : CompleteWrite(c, k)
ServerSends(c) == \E r \in Readers, n \in 1 .. ReadMax : CompleteRead(c, r, n)
ServerAnswers(c) == \E res \in {"ok", "bad", "err"} : CompleteHandshake(c, res)

Kernel(c) ==
    \/ ServerAnswers(c) \/ ServerReads(c) \/ ServerSends(c)
    \/ FailWrite(c) \/ RemoteClose(c) \/ \E r \in Readers : FailRead(c, r)

StartCoroutine(c) ==
    \/ HandshakeStep(c) \/ StartFails(c) \/ EnterRelaying(c) \/ DrainStep(c)
    \/ WriteMore(c, "start") \/ ReadStep(c, "start")

UpCoroutine(c) == UpStep(c) \/ UpFails(c) \/ WriteMore(c, "up")

DownCoroutine(c) == ReadStep(c, "down") \/ ReadFails(c)

Step(c) == Local(c) \/ Kernel(c) \/ StartCoroutine(c) \/ UpCoroutine(c) \/ DownCoroutine(c)

Next == fault = "none" /\ \E c \in Conns : Step(c)

Spec == Init /\ [][Next]_vars

(***************************************************************************)
(* The io_context runs every handler that is ready.  The rest is what the  *)
(* liveness properties assume of the peers: the SOCKS5 server answers the  *)
(* handshake, takes bytes and sends bytes, the kernel reports its close,   *)
(* and the local stack acknowledges what it receives.                      *)
(***************************************************************************)
Live(A) == fault = "none" /\ A

Fairness ==
    \A c \in Conns :
        /\ WF_vars(Live(StartCoroutine(c))) /\ WF_vars(Live(UpCoroutine(c)))
        /\ WF_vars(Live(DownCoroutine(c)))
        /\ WF_vars(Live(ServerAnswers(c))) /\ WF_vars(Live(ServerReads(c)))
        /\ WF_vars(Live(ServerSends(c)))
        /\ WF_vars(Live(FailWrite(c))) /\ WF_vars(Live(\E r \in Readers : FailRead(c, r)))
        /\ WF_vars(Live(\E v \in Windows : RecvAck(c, v)))

FairSpec == Spec /\ Fairness

-----------------------------------------------------------------------------
(* Properties *)

\* Receive window: what lwIP has taken from the application and not yet been
\* told of with tcp_recved is exactly what is missing from the window, so
\* tcp_recved never has to clamp and no byte is credited twice, whichever of
\* the two writers finishes first.
WindowConserved ==
    \A c \in Conns : rcv_wnd[c] + rcvd[c] - credited[c] = TCP_WND

\* ProxyTcpPacket: "it won't enqueue infinite packet cause it's limited by the
\* recv_wnd".  Every queued packet and every packet being written lies among
\* the bytes that are missing from the window.
QueueWithinWindow ==
    \A c \in Conns :
        /\ Len(pbuf_queue[c]) <= TCP_WND - rcv_wnd[c]
        /\ \A i \in 1 .. Len(pbuf_queue[c]) :
               /\ pbuf_queue[c][i][2] <= rcvd[c]
               /\ rcvd[c] - pbuf_queue[c][i][1] <= TCP_WND - rcv_wnd[c]

\* tcp_recved is called for a packet only after all of it went to the SOCKS5
\* server: the application is never given window for bytes still held here.
CreditAfterDelivery ==
    \A c \in Conns : credited[c] <= Len(upstream[c])

\* No byte of the application reaches the server twice, even while the drain
\* loop of handleRemoteRead and the coroutine of ProxyTcpPacket both pop the queue.
ForwardedOnce ==
    \A c \in Conns : \A i, j \in 1 .. Len(upstream[c]) :
        i # j => upstream[c][i] # upstream[c][j]

\* A 4-tuple is in the session map exactly while its pcb is ESTABLISHED, and
\* the entry is the session of that very pcb.  The asserts of Handle and
\* listener_accept_func rest on it, and so does Stop's write to original_pcb.
MapMatchesPcbs ==
    /\ \A c \in Conns :
           state[c] = "ESTABLISHED" <=> session_map[TupleOf[c]] = c
    /\ \A t \in Tuples :
           session_map[t] # NoConn => TupleOf[session_map[t]] = t
    /\ \A c \in Conns : state[c] = "ESTABLISHED" => callback_arg[c]
    /\ fault \notin {"handle_assert", "accept_assert"}

\* The pcb, the session, the coroutines and the streams of a connection
Untouched(d) ==
    /\ state'[d] = state[d] /\ callback_arg'[d] = callback_arg[d]
    /\ rcv_wnd'[d] = rcv_wnd[d] /\ snd_buf'[d] = snd_buf[d] /\ snd_nxt'[d] = snd_nxt[d]
    /\ wnd'[d] = wnd[d] /\ unsent'[d] = unsent[d] /\ unacked'[d] = unacked[d]
    /\ fin'[d] = fin[d]
    /\ status'[d] = status[d] /\ pbuf_queue'[d] = pbuf_queue[d]
    /\ remote_sending'[d] = remote_sending[d]
    /\ should_read_from_remote'[d] = should_read_from_remote[d]
    /\ remote_recv_buff'[d] = remote_recv_buff[d]
    /\ pc'[d] = pc[d] /\ op'[d] = op[d] /\ wr'[d] = wr[d] /\ nread'[d] = nread[d]
    /\ write_ops'[d] = write_ops[d]
    /\ rcvd'[d] = rcvd[d] /\ credited'[d] = credited[d] /\ upstream'[d] = upstream[d]
    /\ bytes_read'[d] = bytes_read[d] /\ downstream'[d] = downstream[d]
    /\ acked'[d] = acked[d] /\ remote'[d] = remote[d]

\* A handler of one connection never changes another, though TcpHandler finds
\* sessions by 4-tuple and a tuple can come back while an old session still runs:
\* a late Clear must not stop the session of the new connection.
Isolation == [][\E c \in Conns : \A d \in Conns \ {c} : Untouched(d)]_vars

\* should_read_from_remote keeps the read loops of handleRemoteRead and of
\* ReadFromRemote apart: both read into remote_recv_buff_.
SingleReader ==
    \A c \in Conns :
        /\ ~(pc[c]["start"] = "read" /\ pc[c]["down"] = "read")
        /\ pc[c]["start"] = "read" \/ pc[c]["down"] = "read"
               => should_read_from_remote[c]

\* The result of tcp_write is ignored, so what it refuses is lost.  It does not
\* refuse for want of room: whenever a read is outstanding the send buffer has room
\* for all it can return.  (TCP_SND_QUEUELEN pbufs are another limit, which the read
\* loops do not look at.)
ReadFitsSendBuffer ==
    \A c \in Conns, r \in Readers : pc[c][r] = "read" => snd_buf[c] >= ReadMax

\* From the application to the server: TCP_WND bounds what lwIP accepted and
\* was not told of, and tcp_recved credits only what the server was given.
UpPipe == INSTANCE WindowedPipe WITH
    Pipes <- Conns, Window <- TCP_WND, accepted <- rcvd,
    delivered <- [c \in Conns |-> Len(upstream[c])], credit <- credited

UpstreamIsPipe == UpPipe!Spec

\* From the server to the application: TCP_SND_BUF bounds what tcp_write took
\* and the application has not acknowledged.
DownPipe == INSTANCE WindowedPipe WITH
    Pipes <- Conns, Window <- TCP_SND_BUF,
    accepted <- [c \in Conns |-> WriteEnd(c)], delivered <- snd_nxt,
    credit <- acked

DownstreamIsPipe == DownPipe!Spec

\* Whatever the application sends is written to the server and credited back,
\* unless the session or the connection ends: no packet is left in the queue
\* without a coroutine that will write it.
UpstreamDrains ==
    \A c \in Conns :
        rcvd[c] > credited[c] ~>
            (rcvd[c] = credited[c] \/ status[c] = "CLOSE" \/ state[c] # "ESTABLISHED")

-----------------------------------------------------------------------------
(* What comments and documents of the code say and the code does not do *)

\* README: "the tcp data will be forwards to socks5 server", in stream order.
UpstreamInOrder ==
    \A c \in Conns : \A i \in 1 .. Len(upstream[c]) : upstream[c][i] = i

\* tcp_write's manual: without TCP_WRITE_FLAG_COPY "the memory behind dataptr
\* must not change until the data is ACKed".  Every segment sent to the
\* application carries the bytes that were read for it.
DownstreamIntact ==
    \A c \in Conns : \A j \in 1 .. Len(downstream[c]) :
        LET seg == downstream[c][j] IN
        \A i \in DOMAIN seg.data : seg.data[i] = seg.lo + i

\* TcpSession: "always check session status before call lwip tcp func, pcb
\* could be closed by local"; tcp_sent_func: the argument is null "if Stop() is
\* called and session is already deleted".  No coroutine touches a pcb lwIP has
\* freed and no callback a session that is destroyed.
NoFreedUse == fault \notin {"freed_pcb", "freed_session"}

\* handleRemoteRead: "stop reading from remote until ack receive".  After a
\* pause the rest of the server's data still reaches the application.
DownstreamResumes ==
    \A c \in Conns :
        ~should_read_from_remote[c] ~>
            (snd_nxt[c] = MaxDown \/ remote[c] # "open" \/ state[c] # "ESTABLISHED")
=============================================================================
