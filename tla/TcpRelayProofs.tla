--------------------------- MODULE TcpRelayProofs ---------------------------
(***************************************************************************)
(* IndInv is an invariant of TcpRelay, and the safety properties follow.   *)
(***************************************************************************)
EXTENDS TcpRelayUp

\* The receiving half of the invariant is kept by every step.
LEMMA UpstreamStep ==
    ASSUME IndInv, Next
    PROVE  UpInv'
<1>1. PICK c \in Conns :
           \/ Local(c) \/ Kernel(c)
           \/ HandshakeStep(c) \/ StartFails(c) \/ EnterRelaying(c) \/ DrainStep(c)
           \/ UpStep(c) \/ UpFails(c) \/ \E w \in Writers : WriteMore(c, w)
           \/ ReadFails(c) \/ \E r \in Readers : ReadStep(c, r)
  BY Zenon, StepCases
<1>2. TypeOK /\ MapInv /\ UpInv /\ TypeOK'
  BY Zenon, TypeStep DEF IndInv
<1>3. UpInvOf(c)'
  <2>1. UpInvOf(c)
    BY Zenon, <1>2 DEF UpInv
  <2> QED BY Zenon, <1>1, <1>2, <2>1, LocalUp, KernelUp, WriterUp, ReaderUp
<1>4. ASSUME NEW d \in Conns, d # c
      PROVE  UpInvOf(d)'
  <2>1. Untouched(d)
    BY Zenon, <1>1, <1>2, <1>4, LocalOwn, KernelOwn, CoroutineOwn
  <2>2. UpInvOf(d)
    BY Zenon, <1>2 DEF UpInv
  <2> QED BY Zenon, <2>1, <2>2, UpKeep DEF Untouched
<1> QED BY ZenonT(30), <1>3, <1>4 DEF UpInv

\* Every step keeps the bytes of all connections forwarded once.
LEMMA OnceStep ==
    ASSUME IndInv, Next
    PROVE  OnceInv'
<1>1. PICK c \in Conns :
           \/ Local(c) \/ Kernel(c)
           \/ HandshakeStep(c) \/ StartFails(c) \/ EnterRelaying(c) \/ DrainStep(c)
           \/ UpStep(c) \/ UpFails(c) \/ \E w \in Writers : WriteMore(c, w)
           \/ ReadFails(c) \/ \E r \in Readers : ReadStep(c, r)
  BY Zenon, StepCases
<1>2. TypeOK /\ MapInv /\ UpInv /\ OnceInv /\ TypeOK' /\ UpInv'
  BY Zenon, TypeStep, UpstreamStep DEF IndInv
<1>3. OnceInvOf(c)'
  <2>1. UpInvOf(c) /\ UpInvOf(c)' /\ OnceInvOf(c)
    BY Zenon, <1>2 DEF UpInv, OnceInv
  <2> QED BY Zenon, <1>1, <1>2, <2>1, OnceOwn
<1>4. ASSUME NEW d \in Conns, d # c
      PROVE  OnceInvOf(d)'
  <2>1. Untouched(d)
    BY Zenon, <1>1, <1>2, <1>4, LocalOwn, KernelOwn, CoroutineOwn
  <2>2. OnceInvOf(d)
    BY Zenon, <1>2 DEF OnceInv
  <2> QED BY Zenon, <2>1, <2>2 DEF Untouched, OnceInvOf, Taken
<1> QED BY Zenon, <1>3, <1>4 DEF OnceInv

\* Before the first segment every connection is as it was declared.
LEMMA InitInv ==
    ASSUME Init
    PROVE  IndInv
<1>0. /\ TCP_WND \in Nat /\ TCP_SND_BUF \in Nat /\ ReadMax \in Nat /\ SegMax \in Nat
      /\ ReadMax <= TCP_SND_BUF /\ <<>> \in Seq(Intervals) /\ <<>> \in Seq(Writers)
      /\ <<>> \in Seq(Nat) /\ <<>> \in Seq([lo : Nat, data : Seq(Nat)])
  BY SizeAssumption
<1>1. PcbTypeOK
  BY <1>0 DEF Init, PcbTypeOK, PcbStates
<1>2. SessionTypeOK
  BY <1>0 DEF Init, SessionTypeOK, Statuses
<1>3. CoroutineTypeOK
  <2>1. NoWrite \in [lo : Nat, pos : Nat, hi : Nat]
    BY DEF NoWrite
  <2>2. wr \in [Conns -> [Writers -> [lo : Nat, pos : Nat, hi : Nat]]]
    BY Zenon, <2>1 DEF Init
  <2>3. /\ pc \in [Conns -> [Coroutines -> PCs]] /\ op \in [Conns -> [Coroutines -> Ops]]
        /\ nread \in [Conns -> [Readers -> 0 .. ReadMax]] /\ write_ops \in [Conns -> Seq(Writers)]
    BY <1>0 DEF Init, PCs, Ops
  <2> QED BY Zenon, <2>2, <2>3 DEF CoroutineTypeOK
<1>4. EndTypeOK
  BY <1>0 DEF Init, EndTypeOK
<1>5. TypeOK
  <2>1. session_map \in [Tuples -> Conns \cup {NoConn}] /\ fault \in Faults
    BY SMTT(30) DEF Init, Faults
  <2> QED BY Zenon, <1>1, <1>2, <1>3, <1>4, <2>1 DEF TypeOK
<1>6. MapInv
  <2>1. /\ \A c \in Conns : state[c] = "NONE" /\ pc[c]["start"] = "idle" /\ pc[c]["down"] = "idle"
        /\ \A t \in Tuples : session_map[t] = NoConn
        /\ fault = "none"
    BY DEF Init, Coroutines
  <2>2. \A c \in Conns : session_map[TupleOf[c]] = NoConn /\ c # NoConn /\ ~Active(c)
    BY <2>1, ConnAssumption DEF Active
  <2>3. MapMatchesPcbs
    BY SMTT(30), <2>1, <2>2 DEF MapMatchesPcbs
  <2> QED BY Zenon, <2>1, <2>2, <2>3 DEF MapInv
<1>7. ReadInv
  <2>1. ASSUME NEW c \in Conns
        PROVE  ReadInvOf(c)
    <3>1. /\ \A r \in Coroutines : pc[c][r] = "idle"
          /\ should_read_from_remote[c] /\ snd_buf[c] = TCP_SND_BUF
      BY SMTT(30) DEF Init
    <3>2. /\ pc[c]["start"] = "idle" /\ pc[c]["down"] = "idle"
          /\ \A r \in Readers : pc[c][r] = "idle"
      BY SMTT(30), <3>1 DEF Coroutines, Readers
    <3>3. snd_buf[c] >= ReadMax
      BY <1>0, <3>1
    <3> QED BY SMTT(30), <3>1, <3>2, <3>3 DEF ReadInvOf
  <2> QED BY Zenon, <2>1 DEF ReadInv
<1>8. SendInv
  <2>1. ASSUME NEW c \in Conns
        PROVE  Chain(unacked[c], acked[c], snd_nxt[c], ReadMax) /\
               Chain(unsent[c], snd_nxt[c], WriteEnd(c), ReadMax)
    <3>1. PICK z \in Nat : z = 0
      OBVIOUS
    <3>2. /\ unacked[c] = <<>> /\ unsent[c] = <<>> /\ acked[c] = z /\ snd_nxt[c] = z
          /\ snd_buf[c] = TCP_SND_BUF
      BY Zenon, <3>1 DEF Init
    <3>3. WriteEnd(c) = z
      BY <1>0, <3>1, <3>2 DEF WriteEnd
    <3>4. Chain(<<>>, z, z, ReadMax)
      BY Zenon, <1>0, ChainEmpty
    <3> QED BY Zenon, <3>2, <3>3, <3>4
  <2> QED BY Zenon, <2>1 DEF SendInv
<1>9. UpInv
  <2>1. ASSUME NEW c \in Conns
        PROVE  UpInvOf(c)
    <3>1. PICK z \in Nat : z = 0
      OBVIOUS
    <3>2. /\ pbuf_queue[c] = <<>> /\ rcvd[c] = z /\ credited[c] = z /\ rcv_wnd[c] = TCP_WND
          /\ \A w \in Writers : wr[c][w] = NoWrite
          /\ upstream[c] = <<>> /\ pc[c]["up"] = "idle"
      BY SMTT(30), <3>1 DEF Init, Coroutines
    <3>3. Taken(c) = z /\ QueueEnd(c) = z /\ QueueOK(pbuf_queue[c], rcvd[c])
      <4>1. Chain(<<>>, z, z, SegMax) /\ z <= z /\ 1 .. Len(<<>>) = {}
        BY <1>0, ChainEmpty
      <4> QED BY Zenon, <3>2, <4>1 DEF Taken, QueueEnd, QueueOK, Front, Back
    <3>4. \A w \in Writers :
             /\ wr[c][w].lo <= wr[c][w].pos /\ wr[c][w].pos <= wr[c][w].hi
             /\ Sent(c, w) = z /\ Unsent(c, w) = z
      BY SMTT(30), <3>1, <3>2 DEF NoWrite, Sent, Unsent
    <3>5. TCP_WND + z - z = TCP_WND /\ z + z + z <= Len(<<>>) /\ Len(<<>>) + z + z <= z
      BY <1>0, <3>1
    <3>6. "start" \in Writers /\ "up" \in Writers
      BY DEF Writers
    <3>7. /\ rcv_wnd[c] + rcvd[c] - credited[c] = TCP_WND
          /\ credited[c] + Sent(c, "start") + Sent(c, "up") <= Len(upstream[c])
          /\ Len(upstream[c]) + Unsent(c, "start") + Unsent(c, "up") <= Taken(c)
      BY Zenon, <3>2, <3>3, <3>4, <3>5, <3>6
    <3> QED BY Zenon, <3>2, <3>3, <3>4, <3>7 DEF UpInvOf
  <2> QED BY Zenon, <2>1 DEF UpInv
<1>10. OnceInv
  <2>1. ASSUME NEW c \in Conns
        PROVE  OnceInvOf(c)
    <3>1. pbuf_queue[c] = <<>> /\ rcvd[c] = 0 /\ upstream[c] = <<>>
      BY Zenon DEF Init
    <3>2. \A w \in Writers : wr[c][w] = NoWrite
      BY Zenon DEF Init
    <3>3. Taken(c) = 0
      BY Zenon, <3>1 DEF Taken, Front
    <3>4. \A w \in Writers : wr[c][w].hi = 0 /\ wr[c][w].lo = 0
      BY <3>2 DEF NoWrite
    <3>5. 0 <= 0 /\ 1 .. Len(<<>>) = {}
      OBVIOUS
    <3> QED BY Zenon, <3>1, <3>3, <3>4, <3>5 DEF OnceInvOf, Once
  <2> QED BY Zenon, <2>1 DEF OnceInv
<1> QED BY Zenon, <1>5, <1>6, <1>7, <1>8, <1>9, <1>10 DEF IndInv

\* A step that changes nothing keeps it.
LEMMA StutterInv ==
    ASSUME IndInv, UNCHANGED vars
    PROVE  IndInv'
<1>1. UNCHANGED <<state, callback_arg, rcv_wnd, snd_buf, snd_nxt, wnd, unsent, unacked, fin,
                  session_map, status, pbuf_queue, remote_sending, should_read_from_remote,
                  remote_recv_buff, pc, op, wr, nread, write_ops, rcvd, credited, upstream,
                  bytes_read, downstream, acked, remote, fault>>
  BY Zenon DEF vars, pcbVars, sessVars, coVars, endVars
<1>2. TypeOK'
  BY ZenonT(30), <1>1 DEF IndInv, TypeOK, PcbTypeOK, SessionTypeOK, CoroutineTypeOK, EndTypeOK
<1>3. MapInv' /\ SendInv'
  BY ZenonT(30), <1>1 DEF IndInv, MapInv, MapMatchesPcbs, Active, SendInv, WriteEnd
<1>4. ReadInv'
  BY Zenon, <1>1 DEF IndInv, ReadInv, ReadInvOf
<1>5. UpInv'
  BY Zenon, <1>1, UpKeep DEF IndInv, UpInv
<1>6. OnceInv'
  BY Zenon, <1>1 DEF IndInv, OnceInv, OnceInvOf, Taken
<1> QED BY Zenon, <1>2, <1>3, <1>4, <1>5, <1>6 DEF IndInv

\* The inductive invariant holds in every reachable state.
THEOREM Invariance == Spec => []IndInv
<1>1. Init => IndInv
  BY InitInv
<1>2. IndInv /\ [Next]_vars => IndInv'
  <2>1. ASSUME IndInv, Next PROVE IndInv'
    BY Zenon, <2>1, TypeStep, MapStep, ReadersStep, SendStep, UpstreamStep, OnceStep
       DEF IndInv
  <2> QED BY Zenon, <2>1, StutterInv
<1> QED BY <1>1, <1>2, PTL DEF Spec

\* Type correctness of the relay
THEOREM TypeCorrect == Spec => []TypeOK
<1>1. IndInv => TypeOK
  BY Zenon DEF IndInv
<1> QED BY <1>1, Invariance, PTL

\* The receive window is conserved: tcp_recved is called once for every byte, so the
\* clamp in it is never reached, for any sizes of window, segment and packet.
THEOREM WindowIsConserved == Spec => []WindowConserved
<1>1. IndInv => WindowConserved
  BY Zenon DEF IndInv, UpInv, UpInvOf, WindowConserved
<1> QED BY <1>1, Invariance, PTL

\* The bytes of a connection are credited at most as far as the server has them, and
\* the server has at most what was received, within a window of what was credited.
LEMMA UpBounds ==
    ASSUME TypeOK, NEW c \in Conns, UpInvOf(c)
    PROVE  /\ rcvd[c] \in Nat /\ credited[c] \in Nat /\ Len(upstream[c]) \in Nat
           /\ credited[c] <= Len(upstream[c]) /\ Len(upstream[c]) <= rcvd[c]
           /\ rcvd[c] <= credited[c] + TCP_WND
<1>1. "start" \in Writers /\ "up" \in Writers
  BY DEF Writers
<1>2. PICK x \in Nat, n \in Nat, r \in Nat, m \in Nat, z \in Nat :
         x = credited[c] /\ n = Len(upstream[c]) /\ r = rcvd[c] /\ m = rcv_wnd[c] /\ z = TCP_WND
  BY Zenon, UpTypes
<1>3. PICK s \in Nat, t \in Nat, a \in Nat, b \in Nat, k \in Nat :
         /\ s = Sent(c, "start") /\ t = Sent(c, "up")
         /\ a = Unsent(c, "start") /\ b = Unsent(c, "up") /\ k = Taken(c)
  BY Zenon, <1>1, UpWriter
<1>4. x + s + t <= n /\ n + a + b <= k /\ m + r - x = z /\ k <= r
  BY Zenon, <1>1, <1>2, <1>3, UpWriter DEF UpInvOf
<1>5. x <= n /\ n <= r /\ r <= x + z
  BY <1>4
<1> QED BY Zenon, <1>2, <1>5

\* The application gets window only for bytes the server has.
THEOREM CreditFollowsDelivery == Spec => []CreditAfterDelivery
<1>1. IndInv => CreditAfterDelivery
  <2>1. ASSUME IndInv, NEW c \in Conns
        PROVE  credited[c] <= Len(upstream[c])
    <3>1. TypeOK /\ UpInvOf(c)
      BY Zenon, <2>1 DEF IndInv, UpInv
    <3> QED BY Zenon, <3>1, UpBounds
  <2> QED BY Zenon, <2>1 DEF CreditAfterDelivery
<1> QED BY <1>1, Invariance, PTL

\* No byte of the application reaches the server twice, whichever of the two writers
\* pops the queue.
THEOREM NoByteTwice == Spec => []ForwardedOnce
<1>1. IndInv => ForwardedOnce
  BY Zenon DEF IndInv, OnceInv, OnceInvOf, Once, ForwardedOnce
<1> QED BY <1>1, Invariance, PTL

\* A packet of the queue lies among the bytes that are missing from the window.
LEMMA WithinQueue ==
    ASSUME NEW r \in Nat, NEW a \in Nat, NEW z \in Nat, NEW m \in Nat, NEW x \in Nat,
           m + r - x = z, x <= a
    PROVE  r - a <= z - m
BY SMTT(30)

\* The queue of a session is bounded by the receive window: every packet in it has at
\* least one byte, and all of them lie among the bytes missing from the window.
THEOREM QueueIsBounded == Spec => []QueueWithinWindow
<1>1. ASSUME IndInv, NEW c \in Conns
      PROVE  /\ Len(pbuf_queue[c]) <= TCP_WND - rcv_wnd[c]
             /\ \A i \in 1 .. Len(pbuf_queue[c]) :
                    /\ pbuf_queue[c][i][2] <= rcvd[c]
                    /\ rcvd[c] - pbuf_queue[c][i][1] <= TCP_WND - rcv_wnd[c]
  <2>1. TypeOK /\ UpInvOf(c) /\ "up" \in Writers
    BY Zenon, <1>1 DEF IndInv, UpInv, Writers
  <2>2. PICK q \in Seq(Intervals), r \in Nat, x \in Nat, m \in Nat, z \in Nat :
           q = pbuf_queue[c] /\ r = rcvd[c] /\ x = credited[c] /\ m = rcv_wnd[c] /\ z = TCP_WND
    BY Zenon, <2>1, UpTypes
  <2>3. PICK lo \in Nat, hi \in Nat, n \in Nat :
           lo = Front(q, r) /\ hi = Back(q, r) /\ n = Len(q)
    <3>1. QueueOK(q, r)
      BY Zenon, <2>1, <2>2 DEF UpInvOf
    <3> QED BY Zenon, <3>1, QueueType, SeqLen
  <2>4. /\ Chain(q, lo, hi, SegMax) /\ hi <= r /\ \A i \in 1 .. n : n - i <= hi - q[i][2]
        /\ m + r - x = z
    BY Zenon, <2>1, <2>2, <2>3 DEF UpInvOf, QueueOK
  <2>4a. lo <= hi /\ hi <= r /\ m + r - x = z
    BY Zenon, <2>4 DEF Chain
  <2>5. x <= lo
    <3>1. PICK u \in Nat, s \in Nat, t \in Nat :
             u = Len(upstream[c]) /\ s = Unsent(c, "start") /\ t = Unsent(c, "up")
      <4>1. "start" \in Writers
        BY DEF Writers
      <4> QED BY Zenon, <2>1, <4>1, UpTypes, UpWriter
    <3>2. x <= u
      BY Zenon, <2>1, <2>2, <3>1, UpBounds
    <3>3. u + s + t <= lo
      BY Zenon, <2>1, <2>2, <2>3, <3>1 DEF UpInvOf, Taken
    <3> QED BY <3>2, <3>3
  <2>6. ASSUME NEW i \in 1 .. n
        PROVE  q[i][1] \in Nat /\ q[i][2] \in Nat /\ lo <= q[i][1] /\ q[i][2] <= hi
    <3>1. lo <= q[i][1] /\ q[i][2] <= hi
      BY Zenon, <2>3, <2>4 DEF Chain
    <3>2. q[i] \in Intervals
      BY Zenon, <2>3, SeqElement
    <3> QED BY SMTT(30), <3>1, <3>2 DEF Intervals
  <2>7. n <= z - m
    <3>1. CASE n = 0
      BY <2>4a, <2>5, <3>1
    <3>2. CASE n # 0
      <4>1. 1 \in 1 .. n
        BY <3>2
      <4>2. q[1][1] < q[1][2]
        BY Zenon, <2>3, <2>4, <4>1 DEF Chain
      <4>3. PICK a \in Nat, b \in Nat : a = q[1][1] /\ b = q[1][2]
        BY Zenon, <2>6, <4>1
      <4>4. lo <= a /\ a < b /\ n - 1 <= hi - b
        BY Zenon, <2>4, <2>6, <4>1, <4>2, <4>3
      <4> QED BY <2>4a, <2>5, <4>4
    <3> QED BY Zenon, <3>1, <3>2
  <2>8. ASSUME NEW i \in 1 .. n
        PROVE  q[i][2] <= r /\ r - q[i][1] <= z - m
    <3>1. PICK a \in Nat, b \in Nat : a = q[i][1] /\ b = q[i][2] /\ lo <= a /\ b <= hi
      BY Zenon, <2>6
    <3>2. b <= r /\ r - a <= z - m
      <4>1. b <= r /\ x <= a
        BY Zenon, <2>4a, <2>5, <3>1, Transitive
      <4>2. r - a <= z - m
        BY Zenon, <2>4a, <4>1, WithinQueue
      <4> QED BY Zenon, <4>1, <4>2
    <3> QED BY Zenon, <3>1, <3>2
  <2> QED BY Zenon, <2>2, <2>3, <2>7, <2>8
<1>2. IndInv => QueueWithinWindow
  BY Zenon, <1>1 DEF QueueWithinWindow
<1> QED BY <1>2, Invariance, PTL

\* The session map holds exactly the sessions of established pcbs, and so the two
\* assertions of the handlers do not fail.
THEOREM MapIsExact == Spec => []MapMatchesPcbs
<1>1. IndInv => MapMatchesPcbs
  BY Zenon DEF IndInv, MapInv
<1> QED BY <1>1, Invariance, PTL

\* A handler changes one connection at most.
THEOREM ConnectionsIsolated == Spec => Isolation
<1>1. IndInv /\ [Next]_vars =>
          [\E c \in Conns : \A d \in Conns \ {c} : Untouched(d)]_vars
  BY Zenon, IsolationStep DEF IndInv
<1> QED BY <1>1, Invariance, PTL DEF Spec, Isolation

\* At most one coroutine reads into remote_recv_buff_.
THEOREM OneReader == Spec => []SingleReader
<1>1. IndInv => SingleReader
  <2>1. ASSUME IndInv, NEW c \in Conns
        PROVE  /\ ~(pc[c]["start"] = "read" /\ pc[c]["down"] = "read")
               /\ pc[c]["start"] = "read" \/ pc[c]["down"] = "read"
                      => should_read_from_remote[c]
    <3>1. ReadInvOf(c)
      BY Zenon, <2>1 DEF IndInv, ReadInv
    <3> QED BY SMTT(30), <3>1 DEF ReadInvOf
  <2> QED BY Zenon, <2>1 DEF SingleReader
<1> QED BY <1>1, Invariance, PTL

\* Whenever a read is outstanding the send buffer has room for all it can return: no
\* tcp_write of the session, whose result is ignored, is refused for want of room.  (One
\* may still be refused for the number of its pbufs, which is no part of this.)
THEOREM ReadsFit == Spec => []ReadFitsSendBuffer
<1>1. IndInv => ReadFitsSendBuffer
  <2>1. ASSUME IndInv, NEW c \in Conns, NEW r \in Readers, pc[c][r] = "read"
        PROVE  snd_buf[c] >= ReadMax
    <3>1. ReadInvOf(c)
      BY Zenon, <2>1 DEF IndInv, ReadInv
    <3>2. r = "start" \/ r = "down"
      BY DEF Readers
    <3>3. CASE r = "start"
      BY SMTT(30), <2>1, <3>1, <3>3 DEF ReadInvOf
    <3>4. CASE r = "down"
      BY SMTT(30), <2>1, <3>1, <3>4 DEF ReadInvOf
    <3> QED BY Zenon, <3>2, <3>3, <3>4
  <2> QED BY Zenon, <2>1 DEF ReadFitsSendBuffer
<1> QED BY <1>1, Invariance, PTL

-----------------------------------------------------------------------------
(* Both directions of a connection are windowed pipes *)

\* A function that changes at one argument only
LEMMA ChangedAt ==
    ASSUME NEW S, NEW T, NEW f \in [S -> T], NEW g \in [S -> T], NEW c \in S,
           \A d \in S : d # c => g[d] = f[d]
    PROVE  g = [f EXCEPT ![c] = g[c]]
OBVIOUS

\* Counts of one connection that move within the window are a move of its pipe.
LEMMA UpMove ==
    ASSUME TypeOK, TypeOK', NEW c \in Conns,
           \A d \in Conns : d # c =>
               rcvd'[d] = rcvd[d] /\ credited'[d] = credited[d] /\ upstream'[d] = upstream[d],
           rcvd[c] <= rcvd'[c], rcvd'[c] <= credited[c] + TCP_WND,
           credited[c] <= credited'[c], credited'[c] <= Len(upstream[c]),
           Len(upstream[c]) <= Len(upstream'[c]), Len(upstream'[c]) <= rcvd'[c]
    PROVE  UpPipe!Move(c)
<1> DEFINE f == [d \in Conns |-> Len(upstream[d])]
           g == [d \in Conns |-> Len(upstream'[d])]
<1>1. /\ rcvd \in [Conns -> Nat] /\ rcvd' \in [Conns -> Nat]
      /\ credited \in [Conns -> Nat] /\ credited' \in [Conns -> Nat]
      /\ upstream \in [Conns -> Seq(Nat)] /\ upstream' \in [Conns -> Seq(Nat)]
  BY Zenon DEF TypeOK, EndTypeOK
<1>2. \A d \in Conns : Len(upstream[d]) \in Nat /\ Len(upstream'[d]) \in Nat
  BY SMTT(30), <1>1
<1>3. f \in [Conns -> Nat] /\ g \in [Conns -> Nat] /\ \A d \in Conns : d # c => g[d] = f[d]
  BY Zenon, <1>2
<1>4. f[c] = Len(upstream[c]) /\ g[c] = Len(upstream'[c])
  BY Zenon
<1>5. g = [f EXCEPT ![c] = g[c]]
  BY ZenonT(60), <1>3, ChangedAt
<1>6. /\ rcvd' = [rcvd EXCEPT ![c] = rcvd'[c]]
      /\ credited' = [credited EXCEPT ![c] = credited'[c]]
  BY Zenon, <1>1
<1>7. /\ rcvd'[c] \in rcvd[c] .. credited[c] + TCP_WND
      /\ credited'[c] \in credited[c] .. Len(upstream[c])
      /\ Len(upstream'[c]) \in Len(upstream[c]) .. rcvd'[c]
  BY <1>1, <1>2, SizeAssumption
<1>8. /\ rcvd'[c] \in rcvd[c] .. credited[c] + TCP_WND
      /\ credited'[c] \in credited[c] .. f[c]
      /\ g[c] \in f[c] .. rcvd'[c]
  BY Zenon, <1>4, <1>7
<1>9. PICK a, k, e : a = rcvd'[c] /\ k = credited'[c] /\ e = g[c]
  BY Zenon
<1>10. /\ a \in rcvd[c] .. credited[c] + TCP_WND
       /\ k \in credited[c] .. f[c] /\ e \in f[c] .. a
       /\ rcvd' = [rcvd EXCEPT ![c] = a] /\ credited' = [credited EXCEPT ![c] = k]
       /\ g = [f EXCEPT ![c] = e]
  BY Zenon, <1>5, <1>6, <1>8, <1>9
<1> QED BY Zenon, <1>10 DEF UpPipe!Move

\* What a step of one connection does to its upstream counts: it receives within the
\* window, hands bytes to the server, or credits.
LEMMA UpEffect ==
    ASSUME TypeOK, MapInv, NEW c \in Conns, UpInvOf(c),
           \/ Local(c) \/ Kernel(c)
           \/ HandshakeStep(c) \/ StartFails(c) \/ EnterRelaying(c) \/ DrainStep(c)
           \/ UpStep(c) \/ UpFails(c) \/ \E w \in Writers : WriteMore(c, w)
           \/ ReadFails(c) \/ \E r \in Readers : ReadStep(c, r)
    PROVE  \/ /\ UNCHANGED <<credited, upstream>>
              /\ rcvd[c] <= rcvd'[c] /\ rcvd'[c] <= credited[c] + TCP_WND
           \/ /\ UNCHANGED <<rcvd, credited>>
              /\ Len(upstream[c]) <= Len(upstream'[c])
           \/ /\ UNCHANGED <<rcvd, upstream>>
              /\ credited[c] <= credited'[c]
<1>0. /\ rcvd[c] \in Nat /\ credited[c] \in Nat /\ Len(upstream[c]) \in Nat
      /\ rcvd[c] <= credited[c] + TCP_WND /\ rcvd[c] <= rcvd[c]
      /\ rcvd \in [Conns -> Nat] /\ credited \in [Conns -> Nat]
  <2>1. rcvd \in [Conns -> Nat] /\ credited \in [Conns -> Nat]
    BY Zenon DEF TypeOK, EndTypeOK
  <2>2. rcvd[c] <= rcvd[c]
    BY SMTT(30), <2>1
  <2> QED BY Zenon, <2>1, <2>2, UpBounds
<1>1. CASE UNCHANGED <<rcvd, credited, upstream>>
  BY Zenon, <1>0, <1>1
<1>2. ASSUME NEW n \in 1 .. SegMax, RecvData(c, n)
      PROVE  \/ UNCHANGED <<rcvd, credited, upstream>>
             \/ /\ UNCHANGED <<credited, upstream>>
                /\ rcvd[c] <= rcvd'[c] /\ rcvd'[c] <= credited[c] + TCP_WND
  <2>1. \/ UNCHANGED <<rcvd, credited, upstream>>
        \/ /\ UNCHANGED <<credited, upstream>> /\ n <= rcv_wnd[c]
           /\ rcvd' = [rcvd EXCEPT ![c] = @ + n]
    BY Zenon, <1>2 DEF RecvData, Crash, endVars
  <2>2. rcv_wnd[c] \in Nat /\ rcv_wnd[c] + rcvd[c] - credited[c] = TCP_WND
    BY Zenon, UpTypes DEF UpInvOf
  <2>3. ASSUME n <= rcv_wnd[c], rcvd' = [rcvd EXCEPT ![c] = @ + n]
        PROVE  rcvd[c] <= rcvd'[c] /\ rcvd'[c] <= credited[c] + TCP_WND
    BY SMTT(30), <1>0, <2>2, <2>3, SizeAssumption
  <2> QED BY Zenon, <2>1, <2>3
<1>3. CASE Local(c)
  <2>1. CASE \E n \in 1 .. SegMax : RecvData(c, n)
    BY Zenon, <1>1, <1>2, <2>1
  <2>2. CASE RecvSyn(c) \/ RecvHandshakeAck(c)
    BY Zenon, <1>1, <2>2 DEF RecvSyn, RecvHandshakeAck, Crash, endVars
  <2>3. CASE RecvFin(c) \/ RecvFinAck(c) \/ RecvRst(c)
    BY Zenon, <1>1, <2>3 DEF RecvFin, RecvFinAck, RecvRst, Crash, endVars
  <2>4. CASE \E v \in Windows : RecvAck(c, v) \/ RecvWnd(c, v)
    BY Zenon, <1>1, <2>4 DEF RecvAck, RecvWnd, Crash, endVars
  <2> QED BY Zenon, <1>3, <2>1, <2>2, <2>3, <2>4 DEF Local
<1>4. CASE Kernel(c)
  <2>1. ASSUME NEW k \in 1 .. SegMax, CompleteWrite(c, k)
        PROVE  UNCHANGED <<rcvd, credited>> /\ Len(upstream[c]) <= Len(upstream'[c])
    <3>1. PICK t : /\ upstream' = [upstream EXCEPT ![c] = @ \o t]
                   /\ t = [i \in 1 .. k |-> wr[c][Head(write_ops[c])].pos + i]
                   /\ UNCHANGED <<rcvd, credited>>
      BY Zenon, <2>1 DEF CompleteWrite
    <3>2. Head(write_ops[c]) \in Writers
      <4>1. write_ops[c] \in Seq(Writers) /\ write_ops[c] # <<>>
        BY ZenonT(30), <2>1 DEF CompleteWrite, TypeOK, CoroutineTypeOK
      <4> QED BY SMTT(30), <4>1
    <3>3. wr[c][Head(write_ops[c])].pos \in Nat /\ k \in Nat
      BY SMTT(30), <3>2, UpTypes, SizeAssumption
    <3>4. t \in [1 .. k -> Nat]
      <4>1. \A i \in 1 .. k : wr[c][Head(write_ops[c])].pos + i \in Nat
        BY Zenon, <3>3, RunBounds
      <4> QED BY Zenon, <3>1, <4>1
    <3>5. t \in Seq(Nat)
      BY Zenon, <3>3, <3>4, FunctionIsSeq
    <3>6. upstream \in [Conns -> Seq(Nat)]
      BY Zenon DEF TypeOK, EndTypeOK
    <3>7. upstream'[c] = upstream[c] \o t
      BY Zenon, <3>1, <3>6
    <3>8. PICK u \in Seq(Nat) : u = upstream[c]
      BY Zenon, <3>6
    <3>9. Len(u) <= Len(u \o t)
      BY <3>5
    <3> QED BY Zenon, <3>1, <3>7, <3>8, <3>9
  <2>2. CASE ServerReads(c)
    BY Zenon, <2>1, <2>2 DEF ServerReads
  <2>3. CASE \/ ServerAnswers(c) \/ ServerSends(c) \/ FailWrite(c) \/ RemoteClose(c)
             \/ \E r \in Readers : FailRead(c, r)
    BY Zenon, <1>1, <2>3 DEF ServerAnswers, ServerSends, CompleteHandshake, CompleteRead,
       FailWrite, RemoteClose, FailRead, endVars
  <2> QED BY Zenon, <1>4, <2>2, <2>3 DEF Kernel
<1>5. ASSUME NEW w \in Writers, Written(c, w), TcpRecved(c, WriteLen(c, w)),
             UNCHANGED <<rcvd, upstream>>
      PROVE  UNCHANGED <<rcvd, upstream>> /\ credited[c] <= credited'[c]
  <2>1. credited'[c] = credited[c] + Sent(c, w) /\ Sent(c, w) \in Nat
    BY Zenon, <1>5, UpCredit, UpWriter
  <2>2. credited[c] <= credited'[c]
    BY <1>0, <2>1
  <2> QED BY Zenon, <1>5, <2>2
<1>6. CASE DrainStep(c) \/ UpStep(c)
  <2>1. "start" \in Writers /\ "up" \in Writers
    BY DEF Writers
  <2>2. \/ UNCHANGED <<rcvd, credited, upstream>>
        \/ \E w \in Writers : /\ Written(c, w) /\ TcpRecved(c, WriteLen(c, w))
                              /\ UNCHANGED <<rcvd, upstream>>
    BY Zenon, <1>6, <2>1 DEF DrainStep, UpStep, Crash, endVars
  <2> QED BY Zenon, <1>1, <1>5, <2>2
<1>7. CASE \/ HandshakeStep(c) \/ StartFails(c) \/ EnterRelaying(c) \/ UpFails(c)
           \/ ReadFails(c) \/ \E w \in Writers : WriteMore(c, w)
  BY Zenon, <1>1, <1>7 DEF HandshakeStep, StartFails, EnterRelaying, UpFails, ReadFails,
     WriteMore, Crash, endVars
<1>8. CASE \E r \in Readers : ReadStep(c, r)
  BY Zenon, <1>1, <1>8 DEF ReadStep, Crash, endVars
<1> QED BY Zenon, <1>3, <1>4, <1>6, <1>7, <1>8

\* A step of a connection leaves the counts of every other connection alone.
LEMMA OthersUntouched ==
    ASSUME TypeOK, MapInv, NEW c \in Conns, NEW d \in Conns, d # c,
           \/ Local(c) \/ Kernel(c)
           \/ HandshakeStep(c) \/ StartFails(c) \/ EnterRelaying(c) \/ DrainStep(c)
           \/ UpStep(c) \/ UpFails(c) \/ \E w \in Writers : WriteMore(c, w)
           \/ ReadFails(c) \/ \E r \in Readers : ReadStep(c, r)
    PROVE  Untouched(d)
BY Zenon, LocalOwn, KernelOwn, CoroutineOwn

\* Every step is a move of the upstream pipe of the connection it belongs to.
LEMMA UpPipeStep ==
    ASSUME IndInv, IndInv', Next
    PROVE  UpPipe!Next
<1>1. PICK c \in Conns :
           \/ Local(c) \/ Kernel(c)
           \/ HandshakeStep(c) \/ StartFails(c) \/ EnterRelaying(c) \/ DrainStep(c)
           \/ UpStep(c) \/ UpFails(c) \/ \E w \in Writers : WriteMore(c, w)
           \/ ReadFails(c) \/ \E r \in Readers : ReadStep(c, r)
  BY Zenon, StepCases
<1>2. TypeOK /\ TypeOK' /\ MapInv /\ UpInvOf(c) /\ UpInvOf(c)'
  BY Zenon DEF IndInv, UpInv
<1>3. \A d \in Conns : d # c =>
          rcvd'[d] = rcvd[d] /\ credited'[d] = credited[d] /\ upstream'[d] = upstream[d]
  BY ZenonT(30), <1>1, <1>2, OthersUntouched DEF Untouched
<1>4. /\ rcvd[c] \in Nat /\ credited[c] \in Nat /\ Len(upstream[c]) \in Nat
      /\ credited[c] <= Len(upstream[c]) /\ Len(upstream[c]) <= rcvd[c]
      /\ rcvd[c] <= credited[c] + TCP_WND
  BY Zenon, <1>2, UpBounds
<1>5. /\ rcvd'[c] \in Nat /\ credited'[c] \in Nat /\ Len(upstream'[c]) \in Nat
      /\ credited'[c] <= Len(upstream'[c]) /\ Len(upstream'[c]) <= rcvd'[c]
  <2>1. (TypeOK /\ UpInvOf(c) =>
             /\ rcvd[c] \in Nat /\ credited[c] \in Nat /\ Len(upstream[c]) \in Nat
             /\ credited[c] <= Len(upstream[c]) /\ Len(upstream[c]) <= rcvd[c])'
    BY UpBounds, PTL
  <2> QED BY Zenon, <1>2, <2>1
<1>6. \/ /\ UNCHANGED <<credited, upstream>>
         /\ rcvd[c] <= rcvd'[c] /\ rcvd'[c] <= credited[c] + TCP_WND
      \/ /\ UNCHANGED <<rcvd, credited>>
         /\ Len(upstream[c]) <= Len(upstream'[c])
      \/ /\ UNCHANGED <<rcvd, upstream>>
         /\ credited[c] <= credited'[c]
  BY Zenon, <1>1, <1>2, UpEffect
<1>7. /\ rcvd[c] <= rcvd'[c] /\ rcvd'[c] <= credited[c] + TCP_WND
      /\ credited[c] <= credited'[c] /\ credited'[c] <= Len(upstream[c])
      /\ Len(upstream[c]) <= Len(upstream'[c]) /\ Len(upstream'[c]) <= rcvd'[c]
  BY SMTT(30), <1>4, <1>5, <1>6
<1>8. UpPipe!Move(c)
  BY Zenon, <1>2, <1>3, <1>7, UpMove
<1> QED BY Zenon, <1>8 DEF UpPipe!Next

\* Upstream, a connection is a pipe with window TCP_WND: it never accepts more than
\* the window, delivers only what it accepted and credits only what it delivered.
THEOREM UpstreamRefines == Spec => UpstreamIsPipe
<1>1. Init => UpPipe!Init
  <2>1. ASSUME Init
        PROVE  [c \in Conns |-> Len(upstream[c])] = [c \in Conns |-> 0]
    <3>1. \A c \in Conns : Len(upstream[c]) = 0
      BY <2>1 DEF Init
    <3> QED BY Zenon, <3>1
  <2> QED BY Zenon, <2>1 DEF Init, UpPipe!Init
<1>2. IndInv /\ IndInv' /\ [Next]_vars
          => [UpPipe!Next]_<<rcvd, [c \in Conns |-> Len(upstream[c])], credited>>
  <2>1. ASSUME UNCHANGED vars
        PROVE  UNCHANGED <<rcvd, [c \in Conns |-> Len(upstream[c])], credited>>
    <3>1. UNCHANGED <<rcvd, upstream, credited>>
      BY Zenon, <2>1 DEF vars, endVars
    <3> QED BY Zenon, <3>1
  <2> QED BY Zenon, <2>1, UpPipeStep
<1> QED BY <1>1, <1>2, Invariance, PTL DEF Spec, UpstreamIsPipe, UpPipe!Spec

\* Counts of one pcb's send side that move within the buffer are a move of its pipe.
LEMMA DownMove ==
    ASSUME TypeOK, TypeOK', NEW c \in Conns,
           \A d \in Conns : d # c =>
               acked'[d] = acked[d] /\ snd_buf'[d] = snd_buf[d] /\ snd_nxt'[d] = snd_nxt[d],
           WriteEnd(c) <= WriteEnd(c)', WriteEnd(c)' <= acked[c] + TCP_SND_BUF,
           acked[c] <= acked'[c], acked'[c] <= snd_nxt[c],
           snd_nxt[c] <= snd_nxt'[c], snd_nxt'[c] <= WriteEnd(c)'
    PROVE  DownPipe!Move(c)
<1> DEFINE f == [d \in Conns |-> WriteEnd(d)]
           g == [d \in Conns |-> WriteEnd(d)']
<1>1. /\ acked \in [Conns -> Nat] /\ acked' \in [Conns -> Nat]
      /\ snd_nxt \in [Conns -> Nat] /\ snd_nxt' \in [Conns -> Nat]
  BY ZenonT(30) DEF TypeOK, EndTypeOK, PcbTypeOK
<1>2. /\ snd_buf \in [Conns -> 0 .. TCP_SND_BUF] /\ snd_buf' \in [Conns -> 0 .. TCP_SND_BUF]
      /\ TCP_SND_BUF \in Nat
  BY Zenon, SizeAssumption DEF TypeOK, PcbTypeOK
<1>3. \A d \in Conns : WriteEnd(d) \in Int /\ WriteEnd(d)' \in Int
  BY SMTT(30), <1>1, <1>2 DEF WriteEnd
<1>4. \A d \in Conns : d # c => WriteEnd(d)' = WriteEnd(d)
  BY Zenon DEF WriteEnd
<1>5. f \in [Conns -> Int] /\ g \in [Conns -> Int] /\ \A d \in Conns : d # c => g[d] = f[d]
  BY Zenon, <1>3, <1>4
<1>6. f[c] = WriteEnd(c) /\ g[c] = WriteEnd(c)'
  BY Zenon
<1>7. g = [f EXCEPT ![c] = g[c]]
  BY ZenonT(30), <1>5, ChangedAt
<1>8. /\ acked' = [acked EXCEPT ![c] = acked'[c]]
      /\ snd_nxt' = [snd_nxt EXCEPT ![c] = snd_nxt'[c]]
  BY SMTT(30), <1>1
<1>9. PICK a, k, e : a = g[c] /\ k = acked'[c] /\ e = snd_nxt'[c]
  BY Zenon
<1>10. /\ f[c] \in Int /\ a \in Int /\ k \in Int /\ e \in Int
       /\ acked[c] \in Int /\ snd_nxt[c] \in Int
       /\ f[c] <= a /\ a <= acked[c] + TCP_SND_BUF /\ acked[c] <= k /\ k <= snd_nxt[c]
       /\ snd_nxt[c] <= e /\ e <= a
  <2>1. k \in Int /\ e \in Int /\ acked[c] \in Int /\ snd_nxt[c] \in Int
    BY SMTT(30), <1>1, <1>9
  <2> QED BY Zenon, <1>3, <1>6, <1>9, <2>1
<1> HIDE DEF f, g
<1>11. /\ a \in f[c] .. acked[c] + TCP_SND_BUF
       /\ k \in acked[c] .. snd_nxt[c] /\ e \in snd_nxt[c] .. a
  BY SMTT(30), <1>2, <1>10
<1>12. /\ g = [f EXCEPT ![c] = a] /\ acked' = [acked EXCEPT ![c] = k]
       /\ snd_nxt' = [snd_nxt EXCEPT ![c] = e]
  BY Zenon, <1>7, <1>8, <1>9
<1> QED BY Zenon, <1>11, <1>12 DEF DownPipe!Move, f, g

\* The send side of a live pcb: acknowledged, sent and written in this order
LEMMA DownBounds ==
    ASSUME TypeOK, SendInv, NEW c \in Conns, state[c] # "FREED"
    PROVE  /\ acked[c] \in Nat /\ snd_nxt[c] \in Nat /\ WriteEnd(c) \in Nat
           /\ acked[c] <= snd_nxt[c] /\ snd_nxt[c] <= WriteEnd(c)
           /\ WriteEnd(c) <= acked[c] + TCP_SND_BUF
<1>1. acked[c] \in Nat /\ snd_nxt[c] \in Nat /\ snd_buf[c] \in 0 .. TCP_SND_BUF
  BY ZenonT(30) DEF TypeOK, PcbTypeOK, EndTypeOK
<1>2. WriteEnd(c) \in Nat /\ WriteEnd(c) <= acked[c] + TCP_SND_BUF
  BY SMTT(30), <1>1, SizeAssumption DEF WriteEnd
<1>3. /\ Chain(unacked[c], acked[c], snd_nxt[c], ReadMax)
      /\ Chain(unsent[c], snd_nxt[c], WriteEnd(c), ReadMax)
  BY Zenon DEF SendInv
<1>4. acked[c] <= snd_nxt[c] /\ snd_nxt[c] <= WriteEnd(c)
  BY Zenon, <1>3 DEF Chain
<1> QED BY Zenon, <1>1, <1>2, <1>4

\* tcp_output with the queues of the pcb moves snd_nxt on, as far as was written.
LEMMA OutputMoves ==
    ASSUME TypeOK, SendInv, NEW c \in Conns, state[c] # "FREED",
           NEW f \in {"no", "unsent", "unacked"}, NEW b \in [1 .. ReadMax -> Nat],
           UNCHANGED <<acked, snd_buf>>,
           TcpOutput(c, unsent[c], unacked[c], f, b)
    PROVE  snd_nxt[c] <= snd_nxt'[c] /\ snd_nxt'[c] <= WriteEnd(c)
<1>1. PICK una \in Seq(Intervals), q \in Seq(Intervals) : una = unacked[c] /\ q = unsent[c]
  BY Zenon DEF TypeOK, PcbTypeOK
<1>2. PICK hi \in Nat : hi = WriteEnd(c)
  BY Zenon, WriteEndType
<1>3. /\ acked'[c] \in Nat /\ Chain(una, acked'[c], snd_nxt[c], ReadMax)
      /\ Chain(q, snd_nxt[c], hi, ReadMax) /\ TcpOutput(c, q, una, f, b)
  BY Zenon, <1>1, <1>2, WriteEndType DEF SendInv
<1>4. snd_nxt[c] <= snd_nxt'[c] /\ snd_nxt'[c] <= hi
  BY ZenonT(60), <1>3, TcpOutputEffect
<1> QED BY Zenon, <1>2, <1>4

\* The counts of the send side stay as they are, or move on within the buffer.
DownMoves(c) ==
    \/ UNCHANGED <<acked, snd_buf, snd_nxt>>
    \/ /\ WriteEnd(c) <= WriteEnd(c)' /\ WriteEnd(c)' <= acked[c] + TCP_SND_BUF
       /\ acked[c] <= acked'[c] /\ acked'[c] <= snd_nxt[c]
       /\ snd_nxt[c] <= snd_nxt'[c] /\ snd_nxt'[c] <= WriteEnd(c)'

\* A step that only calls tcp_output
LEMMA OutputDown ==
    ASSUME TypeOK, SendInv, NEW c \in Conns, state[c] # "FREED",
           NEW f \in {"no", "unsent", "unacked"}, NEW b \in [1 .. ReadMax -> Nat],
           UNCHANGED <<acked, snd_buf>>,
           TcpOutput(c, unsent[c], unacked[c], f, b)
    PROVE  DownMoves(c)
<1>1. snd_nxt[c] <= snd_nxt'[c] /\ snd_nxt'[c] <= WriteEnd(c)
  BY Zenon, OutputMoves
<1>2. WriteEnd(c)' = WriteEnd(c) /\ acked'[c] = acked[c]
  BY Zenon DEF WriteEnd
<1>3. /\ acked[c] \in Nat /\ WriteEnd(c) \in Nat
      /\ acked[c] <= snd_nxt[c] /\ WriteEnd(c) <= acked[c] + TCP_SND_BUF
  BY Zenon, DownBounds
<1>4. acked[c] <= acked[c] /\ WriteEnd(c) <= WriteEnd(c)
  BY SMTT(30), <1>3
<1> QED BY Zenon, <1>1, <1>2, <1>3, <1>4 DEF DownMoves

\* An acknowledgement frees the oldest segment: the room it gives back is exactly what
\* the acknowledgement moved, so the end of the write stream stays.
LEMMA AckDown ==
    ASSUME TypeOK, SendInv, NEW c \in Conns, NEW v \in Windows, RecvAck(c, v)
    PROVE  DownMoves(c)
<1>1. state[c] # "FREED" /\ unacked[c] # <<>>
  BY ZenonT(30) DEF RecvAck
<1>2. CASE Crash("freed_session")
  <2>1. UNCHANGED <<snd_nxt, acked, snd_buf>>
    BY Zenon, <1>2 DEF Crash, pcbVars, endVars
  <2> QED BY Zenon, <2>1 DEF DownMoves
<1>3. CASE ~Crash("freed_session")
  <2>1. PICK end \in Nat, room \in 0 .. TCP_SND_BUF :
            /\ end = Head(unacked[c])[2] /\ acked[c] < end /\ end <= snd_nxt[c]
            /\ room = snd_buf[c] + end - Head(unacked[c])[1]
            /\ Head(unacked[c])[1] = acked[c]
            /\ Tail(unacked[c]) \in Seq(Intervals)
            /\ Chain(Tail(unacked[c]), end, snd_nxt[c], ReadMax)
    BY Zenon, <1>1, AckedSegment
  <2>2. acked' = [acked EXCEPT ![c] = end] /\ snd_buf' = [snd_buf EXCEPT ![c] = room]
    BY Zenon, <1>3, <2>1 DEF RecvAck
  <2>3. acked \in [Conns -> Nat] /\ snd_buf \in [Conns -> 0 .. TCP_SND_BUF]
    BY ZenonT(30) DEF TypeOK, PcbTypeOK, EndTypeOK
  <2>4. acked'[c] = end /\ snd_buf'[c] = room
    BY <2>2, <2>3
  <2>5. WriteEnd(c)' = WriteEnd(c)
    <3>1. acked[c] \in Nat /\ snd_buf[c] \in Nat /\ TCP_SND_BUF \in Nat
      BY SMTT(30), <2>3, SizeAssumption
    <3>2. end + TCP_SND_BUF - (snd_buf[c] + end - acked[c])
              = acked[c] + TCP_SND_BUF - snd_buf[c]
      BY SMTT(30), <3>1
    <3> QED BY Zenon, <3>2, <2>1, <2>4 DEF WriteEnd
  <2>6. /\ acked[c] \in Nat /\ snd_nxt[c] \in Nat /\ WriteEnd(c) \in Nat
        /\ snd_nxt[c] <= WriteEnd(c) /\ WriteEnd(c) <= acked[c] + TCP_SND_BUF
    BY Zenon, <1>1, DownBounds
  <2>7. snd_nxt[c] <= snd_nxt'[c] /\ snd_nxt'[c] <= WriteEnd(c)
    <3>1. CASE FreePcb(c)
      <4>1. snd_nxt' = snd_nxt
        BY Zenon, <3>1 DEF FreePcb
      <4>2. snd_nxt[c] <= snd_nxt[c]
        BY SMTT(30), <2>6
      <4> QED BY Zenon, <2>6, <4>1, <4>2
    <3>2. CASE ~FreePcb(c)
      <4>1. TcpOutput(c, unsent[c], Tail(unacked[c]), fin[c], remote_recv_buff[c])
        BY Zenon, <1>3, <3>2 DEF RecvAck
      <4>2. PICK una \in Seq(Intervals), q \in Seq(Intervals), hi \in Nat :
               una = Tail(unacked[c]) /\ q = unsent[c] /\ hi = WriteEnd(c)
        BY Zenon, <2>1, <2>6 DEF TypeOK, PcbTypeOK
      <4>3. PICK b \in [1 .. ReadMax -> Nat], f \in {"no", "unsent", "unacked"} :
               b = remote_recv_buff[c] /\ f = fin[c]
        BY ZenonT(30) DEF TypeOK, SessionTypeOK, PcbTypeOK
      <4>4. /\ acked'[c] \in Nat /\ Chain(una, acked'[c], snd_nxt[c], ReadMax)
            /\ Chain(q, snd_nxt[c], hi, ReadMax) /\ TcpOutput(c, q, una, f, b)
        BY Zenon, <1>1, <2>1, <2>4, <4>1, <4>2, <4>3 DEF SendInv
      <4>5. snd_nxt[c] <= snd_nxt'[c] /\ snd_nxt'[c] <= hi
        BY ZenonT(60), <4>4, TcpOutputEffect
      <4> QED BY Zenon, <4>2, <4>5
    <3> QED BY Zenon, <3>1, <3>2
  <2>8. acked[c] <= end /\ WriteEnd(c) <= WriteEnd(c)
    BY SMTT(30), <2>1, <2>6
  <2> QED BY Zenon, <2>1, <2>4, <2>5, <2>6, <2>7, <2>8 DEF DownMoves
<1> QED BY Zenon, <1>2, <1>3

\* tcp_write takes no more than the room there is.
LEMMA ReadDown ==
    ASSUME TypeOK, SendInv, ReadInv, TypeOK', NEW c \in Conns, NEW r \in Readers,
           ReadStep(c, r)
    PROVE  DownMoves(c)
<1>1. CASE status[c] = "CLOSE" \/ state[c] = "FREED"
  <2>1. UNCHANGED <<snd_nxt, acked, snd_buf>>
    BY Zenon, <1>1 DEF ReadStep, Crash, pcbVars, endVars
  <2> QED BY Zenon, <2>1 DEF DownMoves
<1>2. CASE status[c] # "CLOSE" /\ state[c] # "FREED"
  <2>1. /\ snd_nxt[c] <= snd_nxt'[c] /\ snd_nxt'[c] <= WriteEnd(c)'
        /\ WriteEnd(c) <= WriteEnd(c)'
    BY Zenon, <1>2, ReadStepEffect
  <2>2. acked'[c] = acked[c]
    BY Zenon, <1>2 DEF ReadStep
  <2>3. acked[c] \in Nat /\ acked[c] <= snd_nxt[c]
    BY Zenon, <1>2, DownBounds
  <2>4. WriteEnd(c)' <= acked[c] + TCP_SND_BUF
    <3>1. snd_buf'[c] \in 0 .. TCP_SND_BUF
      BY Zenon DEF TypeOK, PcbTypeOK
    <3> QED BY SMTT(30), <2>2, <2>3, <3>1, SizeAssumption DEF WriteEnd
  <2>5. acked[c] <= acked'[c] /\ acked'[c] <= snd_nxt[c]
    BY SMTT(30), <2>2, <2>3
  <2> QED BY Zenon, <2>1, <2>4, <2>5 DEF DownMoves
<1> QED BY Zenon, <1>1, <1>2

\* Every step of a connection moves the counts of its send side as a pipe does.
LEMMA DownEffect ==
    ASSUME TypeOK, TypeOK', SendInv, ReadInv, NEW c \in Conns,
           \/ Local(c) \/ Kernel(c)
           \/ HandshakeStep(c) \/ StartFails(c) \/ EnterRelaying(c) \/ DrainStep(c)
           \/ UpStep(c) \/ UpFails(c) \/ \E w \in Writers : WriteMore(c, w)
           \/ ReadFails(c) \/ \E r \in Readers : ReadStep(c, r)
    PROVE  DownMoves(c)
<1>0. fin[c] \in {"no", "unsent", "unacked"} /\ "unsent" \in {"no", "unsent", "unacked"}
  BY ZenonT(30) DEF TypeOK, PcbTypeOK
<1>1. CASE UNCHANGED <<acked, snd_buf, snd_nxt>>
  BY Zenon, <1>1 DEF DownMoves
<1>2. CASE Local(c)
  <2>1. CASE RecvSyn(c) \/ RecvHandshakeAck(c)
    BY Zenon, <1>1, <2>1 DEF RecvSyn, RecvHandshakeAck, Crash, pcbVars, endVars
  <2>2. CASE RecvFinAck(c) \/ RecvRst(c)
    BY Zenon, <1>1, <2>2 DEF RecvFinAck, RecvRst, FreePcb, Crash, pcbVars, endVars
  <2>3. CASE \E n \in 1 .. SegMax : RecvData(c, n)
    BY Zenon, <1>1, <2>3 DEF RecvData, FreePcb, Crash, pcbVars, endVars
  <2>4. CASE RecvFin(c)
    <3>1. CASE FreePcb(c)
      BY Zenon, <1>1, <2>4, <3>1 DEF RecvFin, FreePcb
    <3>2. CASE ~FreePcb(c)
      <4>1. /\ UNCHANGED <<acked, snd_buf>> /\ state[c] = "ESTABLISHED"
            /\ \E b \in Buffers(c) : TcpOutput(c, unsent[c], unacked[c], "unsent", b)
        BY Zenon, <2>4, <3>2 DEF RecvFin
      <4>2. state[c] # "FREED"
        BY ZenonT(30), <4>1
      <4> QED BY Zenon, <1>0, <4>1, <4>2, BuffersType, OutputDown
    <3> QED BY Zenon, <3>1, <3>2
  <2>5. ASSUME NEW v \in Windows, RecvWnd(c, v)
        PROVE  DownMoves(c)
    <3>1. /\ UNCHANGED <<acked, snd_buf>>
          /\ \E b \in Buffers(c) : TcpOutput(c, unsent[c], unacked[c], fin[c], b)
      BY Zenon, <2>5 DEF RecvWnd
    <3>2. state[c] # "FREED"
      BY ZenonT(30), <2>5 DEF RecvWnd
    <3> QED BY ZenonT(30), <1>0, <3>1, <3>2, BuffersType, OutputDown
  <2> QED BY Zenon, <1>2, <2>1, <2>2, <2>3, <2>4, <2>5, AckDown DEF Local
<1>3. CASE \E r \in Readers : ReadStep(c, r)
  BY Zenon, <1>3, ReadDown
<1>4. CASE \/ Kernel(c)
           \/ HandshakeStep(c) \/ StartFails(c) \/ EnterRelaying(c) \/ DrainStep(c)
           \/ UpStep(c) \/ UpFails(c) \/ \E w \in Writers : WriteMore(c, w)
           \/ ReadFails(c)
  BY Zenon, <1>1, <1>4, PcbFrame
<1> QED BY Zenon, <1>2, <1>3, <1>4

\* Every step is a move of the downstream pipe of the connection it belongs to.
LEMMA DownPipeStep ==
    ASSUME IndInv, IndInv', Next
    PROVE  \/ DownPipe!Next
           \/ UNCHANGED <<[c \in Conns |-> WriteEnd(c)], snd_nxt, acked>>
<1>1. PICK c \in Conns :
           \/ Local(c) \/ Kernel(c)
           \/ HandshakeStep(c) \/ StartFails(c) \/ EnterRelaying(c) \/ DrainStep(c)
           \/ UpStep(c) \/ UpFails(c) \/ \E w \in Writers : WriteMore(c, w)
           \/ ReadFails(c) \/ \E r \in Readers : ReadStep(c, r)
  BY Zenon, StepCases
<1>2. TypeOK /\ TypeOK' /\ MapInv /\ SendInv /\ ReadInv
  BY Zenon DEF IndInv
<1>3. \A d \in Conns : d # c =>
          acked'[d] = acked[d] /\ snd_buf'[d] = snd_buf[d] /\ snd_nxt'[d] = snd_nxt[d]
  BY Zenon, <1>1, <1>2, OthersUntouched DEF Untouched
<1>4. DownMoves(c)
  BY Zenon, <1>1, <1>2, DownEffect
<1>5. CASE UNCHANGED <<acked, snd_buf, snd_nxt>>
  BY Zenon, <1>5 DEF WriteEnd
<1>6. CASE ~UNCHANGED <<acked, snd_buf, snd_nxt>>
  <2>1. DownPipe!Move(c)
    BY Zenon, <1>2, <1>3, <1>4, <1>6, DownMove DEF DownMoves
  <2> QED BY Zenon, <2>1 DEF DownPipe!Next
<1> QED BY Zenon, <1>5, <1>6

\* Downstream, a connection is a pipe with window TCP_SND_BUF: tcp_write never takes
\* more than the application has acknowledged room for, and nothing is acknowledged
\* that was not sent.
THEOREM DownstreamRefines == Spec => DownstreamIsPipe
<1>1. Init => DownPipe!Init
  <2>1. ASSUME Init
        PROVE  [c \in Conns |-> WriteEnd(c)] = [c \in Conns |-> 0]
    <3>1. \A c \in Conns : acked[c] = 0 /\ snd_buf[c] = TCP_SND_BUF
      BY Zenon, <2>1 DEF Init
    <3>2. TCP_SND_BUF \in Nat /\ 0 + TCP_SND_BUF - TCP_SND_BUF = 0
      BY SizeAssumption
    <3>3. \A c \in Conns : WriteEnd(c) = 0
      BY Zenon, <3>1, <3>2 DEF WriteEnd
    <3> QED BY Zenon, <3>3
  <2> QED BY Zenon, <2>1 DEF Init, DownPipe!Init
<1>2. IndInv /\ IndInv' /\ [Next]_vars
          => [DownPipe!Next]_<<[c \in Conns |-> WriteEnd(c)], snd_nxt, acked>>
  <2>1. ASSUME UNCHANGED vars
        PROVE  UNCHANGED <<[c \in Conns |-> WriteEnd(c)], snd_nxt, acked>>
    <3>1. UNCHANGED <<snd_buf, snd_nxt, acked>>
      BY Zenon, <2>1 DEF vars, pcbVars, endVars
    <3> QED BY Zenon, <3>1 DEF WriteEnd
  <2> QED BY Zenon, <2>1, DownPipeStep
<1> QED BY <1>1, <1>2, Invariance, PTL DEF Spec, DownstreamIsPipe, DownPipe!Spec
=============================================================================
