------------------------ MODULE TcpConnectionProofs ------------------------
(***************************************************************************)
(* Proofs about TcpConnection: the invariant of TcpConnectionInv is        *)
(* inductive, and what it gives for the sessions of a reused pair of       *)
(* address and port.                                                       *)
(***************************************************************************)
EXTENDS TcpConnectionInv, TLAPS

-----------------------------------------------------------------------------
(* Numbers that wrap *)

\* A number modulo m is one of 0 .. m - 1.
LEMMA ModRange ==
    ASSUME NEW m \in Nat \ {0}, NEW x \in Int PROVE x % m \in 0 .. m - 1
BY SMT

\* Below m it is the number itself.
LEMMA ModLow ==
    ASSUME NEW m \in Nat \ {0}, NEW x \in 0 .. m - 1 PROVE x % m = x
BY SMT

\* From m on it has wrapped once.
LEMMA ModHigh ==
    ASSUME NEW m \in Nat \ {0}, NEW x \in Int, m <= x, x < m + m PROVE x % m = x - m
BY SMT

\* Below zero it has wrapped once the other way.
LEMMA ModNegative ==
    ASSUME NEW m \in Nat \ {0}, NEW x \in Int, -m <= x, x < 0 PROVE x % m = x + m
BY SMT

\* The constants are the numbers ConnectionAssumption says they are.
LEMMA Constants ==
    /\ Modulus \in Nat \ {0} /\ MaxInc \in Nat \ {0}
    /\ TCP_WND \in Nat \ {0} /\ MaxBytes \in Nat
    /\ MaxBytes + 3 < Modulus /\ 0 \in SeqNo /\ ISS \in SeqNo
    /\ SeqNo \subseteq Int
    /\ \A i \in Incs : PeerISS[i] \in SeqNo
BY ConnectionAssumption, ModulusAssumption DEF SeqNo

\* Sums and differences of sequence numbers are sequence numbers.
LEMMA SeqNoClosed ==
    ASSUME NEW a \in Int, NEW n \in Int
    PROVE Plus(a, n) \in SeqNo /\ Minus(a, n) \in SeqNo
BY ModRange, Constants DEF Plus, Minus, SeqNo

\* So is the number after a sequence number, or before it.
LEMMA SeqNoNext ==
    ASSUME NEW a \in SeqNo
    PROVE /\ Plus(a, 1) \in SeqNo /\ Minus(a, 1) \in SeqNo
          /\ \A n \in 0 .. 2 : Plus(a, n) \in SeqNo
<1>1. a \in Int /\ 1 \in Int /\ \A n \in 0 .. 2 : n \in Int
  BY Constants DEF SeqNo
<1> QED BY <1>1, SeqNoClosed, Zenon

\* Adding less than Modulus wraps at most once.
LEMMA PlusCases ==
    ASSUME NEW a \in SeqNo, NEW n \in 0 .. Modulus - 1
    PROVE \/ a + n < Modulus /\ Plus(a, n) = a + n
          \/ a + n >= Modulus /\ Plus(a, n) = a + n - Modulus
<1>1. a \in Int /\ n \in Int /\ 0 <= a /\ 0 <= n /\ a + n < 2 * Modulus /\ Modulus \in Nat \ {0}
  BY Constants DEF SeqNo
<1>2. CASE a + n < Modulus
  <2>1. a + n \in 0 .. Modulus - 1
    BY <1>1, <1>2
  <2>2. (a + n) % Modulus = a + n
    BY <1>1, <2>1, ModLow, Zenon
  <2> QED BY <1>2, <2>2, Zenon DEF Plus
<1>3. CASE a + n >= Modulus
  <2>1. a + n \in Int /\ Modulus <= a + n /\ a + n < Modulus + Modulus
    BY <1>1, <1>3
  <2>2. (a + n) % Modulus = (a + n) - Modulus
    BY <1>1, <2>1, ModHigh, Zenon
  <2>3. (a + n) - Modulus = a + n - Modulus
    BY <1>1
  <2> QED BY <1>3, <2>2, <2>3, Zenon DEF Plus
<1> QED BY <1>1, <1>2, <1>3

\* So does subtracting.
LEMMA MinusCases ==
    ASSUME NEW a \in SeqNo, NEW b \in SeqNo
    PROVE \/ a >= b /\ Minus(a, b) = a - b
          \/ a < b /\ Minus(a, b) = a - b + Modulus
<1>1. a \in Int /\ b \in Int /\ 0 <= a /\ 0 <= b /\ a < Modulus /\ b < Modulus
      /\ Modulus \in Nat \ {0}
  BY Constants DEF SeqNo
<1>2. CASE a >= b
  <2>1. a - b \in 0 .. Modulus - 1
    BY <1>1, <1>2
  <2>2. (a - b) % Modulus = a - b
    BY <1>1, <2>1, ModLow, Zenon
  <2> QED BY <1>2, <2>2, Zenon DEF Minus
<1>3. CASE a < b
  <2>1. a - b \in Int /\ -Modulus <= a - b /\ a - b < 0
    BY <1>1, <1>3
  <2>2. (a - b) % Modulus = a - b + Modulus
    BY <1>1, <2>1, ModNegative, Zenon
  <2> QED BY <1>3, <2>2, Zenon DEF Minus
<1> QED BY <1>1, <1>2, <1>3

\* The numbers of an incarnation are sequence numbers.
LEMMA NumberType ==
    ASSUME NEW i \in Incs, NEW n \in Int PROVE Number(i, n) \in SeqNo
BY Zenon, Constants, SeqNoClosed DEF Number

\* They follow each other.
LEMMA NumberNext ==
    ASSUME NEW i \in Incs, NEW n \in Nat, n <= MaxBytes + 1
    PROVE /\ Plus(Number(i, n), 1) = Number(i, n + 1)
          /\ Minus(Number(i, n + 1), 1) = Number(i, n)
<1> DEFINE a == PeerISS[i]
<1> HIDE DEF a
<1>1. a \in SeqNo /\ 1 \in SeqNo
  BY Constants DEF a, SeqNo
<1>2. n \in 0 .. Modulus - 1 /\ n + 1 \in 0 .. Modulus - 1 /\ 1 \in 0 .. Modulus - 1
  BY Constants
<1>3. Number(i, n) = Plus(a, n) /\ Number(i, n + 1) = Plus(a, n + 1)
  BY DEF Number, a
<1> DEFINE x == Plus(a, n)
           y == Plus(a, n + 1)
<1>4. x \in SeqNo /\ y \in SeqNo
  BY <1>3, NumberType
<1>5. /\ \/ a + n < Modulus /\ x = a + n
         \/ a + n >= Modulus /\ x = a + n - Modulus
      /\ \/ a + (n + 1) < Modulus /\ y = a + (n + 1)
         \/ a + (n + 1) >= Modulus /\ y = a + (n + 1) - Modulus
  BY <1>1, <1>2, PlusCases
<1> HIDE DEF x, y
<1>6. /\ \/ x + 1 < Modulus /\ Plus(x, 1) = x + 1
         \/ x + 1 >= Modulus /\ Plus(x, 1) = x + 1 - Modulus
      /\ \/ y >= 1 /\ Minus(y, 1) = y - 1
         \/ y < 1 /\ Minus(y, 1) = y - 1 + Modulus
  BY <1>1, <1>2, <1>4, PlusCases, MinusCases
<1>7. Plus(x, 1) = y /\ Minus(y, 1) = x
  BY <1>1, <1>4, <1>5, <1>6, Constants DEF SeqNo
<1> QED BY <1>3, <1>7 DEF x, y

\* The numbers of an incarnation are distinct.
LEMMA NumbersDistinct ==
    ASSUME NEW i \in Incs, NEW n \in 0 .. MaxBytes + 2, NEW m \in 0 .. MaxBytes + 2,
           Number(i, n) = Number(i, m)
    PROVE n = m
<1> DEFINE a == PeerISS[i]
<1>1. a \in SeqNo /\ n \in 0 .. Modulus - 1 /\ m \in 0 .. Modulus - 1
  BY Constants
<1>2. Plus(a, n) = Plus(a, m)
  BY DEF Number
<1> HIDE DEF a
<1>3. /\ \/ a + n < Modulus /\ Plus(a, n) = a + n
         \/ a + n >= Modulus /\ Plus(a, n) = a + n - Modulus
      /\ \/ a + m < Modulus /\ Plus(a, m) = a + m
         \/ a + m >= Modulus /\ Plus(a, m) = a + m - Modulus
  BY <1>1, PlusCases
<1> QED BY <1>1, <1>2, <1>3, Constants DEF SeqNo

\* Those of two incarnations are apart.
LEMMA NumbersApart ==
    ASSUME NEW i \in Incs, NEW j \in Incs, i # j,
           NEW n \in 0 .. MaxBytes + 2, NEW m \in 0 .. MaxBytes + 2
    PROVE Number(i, n) # Number(j, m)
<1> DEFINE a == PeerISS[i]
           b == PeerISS[j]
<1>1. /\ a \in SeqNo /\ n \in 0 .. Modulus - 1
      /\ b \in SeqNo /\ m \in 0 .. Modulus - 1
  BY Constants
<1>2. Minus(a, b) > MaxBytes + 2 /\ Minus(b, a) > MaxBytes + 2
  <2>1. /\ Minus(a, b) > MaxBytes + TCP_WND + 2 /\ Minus(b, a) > MaxBytes + TCP_WND + 2
    BY ConnectionAssumption
  <2>2. Minus(a, b) \in Int /\ Minus(b, a) \in Int
    BY Zenon, <1>1, SeqNoClosed, Constants
  <2> QED BY <2>1, <2>2, Constants
<1> HIDE DEF a, b
<1>3. /\ \/ a >= b /\ Minus(a, b) = a - b
         \/ a < b /\ Minus(a, b) = a - b + Modulus
      /\ \/ b >= a /\ Minus(b, a) = b - a
         \/ b < a /\ Minus(b, a) = b - a + Modulus
  BY <1>1, MinusCases
<1>4. /\ \/ a + n < Modulus /\ Plus(a, n) = a + n
         \/ a + n >= Modulus /\ Plus(a, n) = a + n - Modulus
      /\ \/ b + m < Modulus /\ Plus(b, m) = b + m
         \/ b + m >= Modulus /\ Plus(b, m) = b + m - Modulus
  BY <1>1, PlusCases
<1>5. Plus(a, n) # Plus(b, m)
  BY <1>1, <1>2, <1>3, <1>4, Constants DEF SeqNo
<1> QED BY <1>5 DEF Number, a, b

-----------------------------------------------------------------------------
(* Sequences, segments and pcbs *)

\* A sequence is a function from the numbers up to its length.
LEMMA SeqLen ==
    ASSUME NEW S, NEW s \in Seq(S)
    PROVE /\ Len(s) \in Nat
          /\ s \in [1 .. Len(s) -> S]
          /\ DOMAIN s = 1 .. Len(s)
OBVIOUS

\* Its elements are in the set it is over.
LEMMA SeqElement ==
    ASSUME NEW S, NEW s \in Seq(S), NEW k \in 1 .. Len(s) PROVE s[k] \in S
OBVIOUS

\* A sequence is over any set that has its elements.
LEMMA SeqRange ==
    ASSUME NEW R, NEW S, NEW s \in Seq(R), \A k \in 1 .. Len(s) : s[k] \in S
    PROVE s \in Seq(S)
OBVIOUS

\* A sequence over a set is one over a larger set.
LEMMA SeqWider ==
    ASSUME NEW S, NEW T, S \subseteq T, NEW s \in Seq(S) PROVE s \in Seq(T)
OBVIOUS

\* Taking the head of a sequence moves the others one place.
LEMMA HeadTailSeq ==
    ASSUME NEW S, NEW s \in Seq(S), s # <<>>
    PROVE /\ Head(s) \in S /\ Tail(s) \in Seq(S)
          /\ Len(Tail(s)) = Len(s) - 1
          /\ \A k \in 1 .. Len(Tail(s)) : Tail(s)[k] = s[k + 1]
OBVIOUS

\* Appending leaves the elements before it where they are.
LEMMA AppendSeq ==
    ASSUME NEW S, NEW s \in Seq(S), NEW e \in S
    PROVE /\ Append(s, e) \in Seq(S)
          /\ Append(s, e) # <<>>
          /\ Len(Append(s, e)) = Len(s) + 1
          /\ \A k \in 1 .. Len(s) : Append(s, e)[k] = s[k]
          /\ Append(s, e)[Len(s) + 1] = e
OBVIOUS

\* What can be done to a queue of segments keeps it one.
LEMMA QueueOps ==
    ASSUME NEW S, NEW s \in Seq(S)
    PROVE /\ s # <<>> => Head(s) \in S /\ Tail(s) \in Seq(S)
          /\ \A e \in S : Append(s, e) \in Seq(S)
          /\ \A t \in Seq(S) : s \o t \in Seq(S)
OBVIOUS

\* The fields of a segment that Seg makes
LEMMA SegFields ==
    ASSUME NEW f \in SUBSET Flags, NEW s \in SeqNo, NEW a \in SeqNo
    PROVE /\ Seg(f, s, a) \in Segments
          /\ Seg(f, s, a).flags = f /\ Seg(f, s, a).seqno = s
          /\ Seg(f, s, a).ackno = a /\ Seg(f, s, a).len = 0 /\ Seg(f, s, a).inc = 0
BY Constants DEF Seg, Segments

\* What lwIP may send when it waits for number x: resets, and segments that
\* acknowledge x
Replies(x) ==
    {d \in Segments : \/ "RST" \in d.flags /\ "SYN" \notin d.flags
                      \/ "RST" \notin d.flags /\ d.ackno = x}

Says(x) == \E out \in Seq(Replies(x)) : down' = down \o out

\* q differs from p in what it has sent or acknowledged only.
Alike(p, q) == /\ q \in Pcbs /\ q.state = p.state /\ q.inc = p.inc
               /\ q.rcv_nxt = p.rcv_nxt /\ q.rcv_wnd = p.rcv_wnd

\* The fields of a pcb have their types.
LEMMA PcbFields ==
    ASSUME NEW p \in Pcbs
    PROVE /\ p.state \in {"NONE", "SYN_RCVD", "ESTABLISHED", "LAST_ACK"}
          /\ p.inc \in 0 .. MaxInc /\ p.rcv_nxt \in SeqNo
          /\ p.rcv_wnd \in 0 .. TCP_WND /\ p.snd_nxt \in SeqNo
          /\ p.lastack \in SeqNo /\ p.dupacks \in 0 .. 3 /\ p.ack_delay \in BOOLEAN
          /\ p.infr \in BOOLEAN
BY DEF Pcbs

\* The fields of a segment have theirs.
LEMMA SegmentFields ==
    ASSUME NEW u \in Segments
    PROVE /\ u.flags \subseteq Flags /\ u.seqno \in SeqNo /\ u.ackno \in SeqNo
          /\ u.len \in {0, 1} /\ u.inc \in 0 .. MaxInc /\ tcplen(u) \in 0 .. 2
BY DEF Segments, tcplen

\* NoPcb is a pcb.
LEMMA NoPcbType == NoPcb \in Pcbs /\ NoPcb.state = "NONE" /\ Alike(NoPcb, NoPcb)
BY Constants DEF NoPcb, Pcbs, Alike

\* A segment with the flags and the acknowledgement of a reply is one.
LEMMA SegReplies ==
    ASSUME NEW f \in SUBSET Flags, NEW s \in SeqNo, NEW a \in SeqNo, NEW x,
           ("RST" \in f /\ "SYN" \notin f) \/ ("RST" \notin f /\ a = x)
    PROVE Seg(f, s, a) \in Replies(x)
<1> DEFINE g == Seg(f, s, a)
<1>1. g \in Segments /\ g.flags = f /\ g.ackno = a
  BY SegFields
<1> HIDE DEF g
<1>2. g \in Replies(x)
  BY <1>1, Zenon DEF Replies
<1> QED BY <1>2 DEF g

\* A pcb's own segments acknowledge what it waits for.
LEMMA PcbReplies ==
    ASSUME NEW p \in Pcbs
    PROVE /\ tcp_send_empty_ack(p) \in Replies(p.rcv_nxt)
          /\ SynAck(p) \in Replies(p.rcv_nxt) /\ Fin(p) \in Replies(p.rcv_nxt)
          /\ Seg({"RST", "ACK"}, p.snd_nxt, p.rcv_nxt) \in Replies(p.rcv_nxt)
<1>1. p.rcv_nxt \in SeqNo /\ p.snd_nxt \in SeqNo /\ p.lastack \in SeqNo
      /\ Minus(p.snd_nxt, 1) \in SeqNo
  BY PcbFields, SeqNoNext, Zenon
<1>2. /\ {"ACK"} \in SUBSET Flags /\ {"SYN", "ACK"} \in SUBSET Flags
      /\ {"FIN", "ACK"} \in SUBSET Flags /\ {"RST", "ACK"} \in SUBSET Flags
  BY DEF Flags
<1>3. \A f \in SUBSET Flags, s \in SeqNo :
          ("RST" \in f => "SYN" \notin f) => Seg(f, s, p.rcv_nxt) \in Replies(p.rcv_nxt)
  BY <1>1, SegReplies, Zenon
<1> QED BY <1>1, <1>2, <1>3 DEF tcp_send_empty_ack, SynAck, Fin

\* A reset is in order whatever lwIP waits for.
LEMMA ResetReplies ==
    ASSUME NEW u \in Segments, NEW x PROVE tcp_rst(u) \in Replies(x)
<1>1. u.ackno \in SeqNo /\ Plus(u.seqno, tcplen(u)) \in SeqNo
  BY SegmentFields, SeqNoNext, Zenon
<1>2. {"RST", "ACK"} \in SUBSET Flags /\ "RST" \in {"RST", "ACK"}
      /\ "SYN" \notin {"RST", "ACK"}
  BY DEF Flags
<1>3. Seg({"RST", "ACK"}, u.ackno, Plus(u.seqno, tcplen(u))) \in Replies(x)
  BY <1>1, <1>2, SegReplies, Zenon
<1> QED BY <1>3 DEF tcp_rst

\* Sending one segment or two is in order when each is.
LEMMA Saying ==
    ASSUME NEW x, NEW r \in Replies(x), NEW t \in Replies(x)
    PROVE /\ <<r>> \in Seq(Replies(x)) /\ Append(<<r>>, t) \in Seq(Replies(x))
BY AppendSeq

\* Sending nothing always is.
LEMMA SayingNothing == ASSUME NEW x PROVE <<>> \in Seq(Replies(x))
OBVIOUS

\* tcp_output at the end of tcp_input
LEMMA AckIfEffect ==
    ASSUME NEW now, NEW p \in Pcbs, AckIf(now, p)
    PROVE Alike(p, pcb') /\ Says(p.rcv_nxt)
<1> DEFINE q == [p EXCEPT !.ack_delay = FALSE]
<1>1. Alike(p, p) /\ Alike(p, q)
  BY Zenon DEF Alike, Pcbs
<1>2. CASE now
  BY Zenon, <1>1, <1>2, PcbReplies, Saying DEF AckIf, Outcome, Says
<1>3. CASE ~now
  BY Zenon, <1>1, <1>3, SayingNothing DEF AckIf, Outcome, Says
<1> QED BY <1>2, <1>3

\* The acknowledgement half of tcp_receive leaves what was received alone.
LEMMA AckedEffect ==
    ASSUME NEW p \in Pcbs, NEW u \in Segments PROVE Alike(p, Acked(p, u))
<1>1. Alike(p, p)
  BY DEF Alike
<1>2. Alike(p, [p EXCEPT !.lastack = u.ackno, !.dupacks = 0, !.infr = FALSE])
  <2>1. u.ackno \in SeqNo
    BY SegmentFields
  <2>2. 0 \in 0 .. 3
    OBVIOUS
  <2>3. [p EXCEPT !.lastack = u.ackno, !.dupacks = 0, !.infr = FALSE] \in Pcbs
    BY <2>1, <2>2, Zenon DEF Pcbs
  <2> QED BY <2>3 DEF Alike, Pcbs
<1>3. Alike(p, [p EXCEPT !.dupacks = IF ~IsDupAck(p, u) THEN 0
                                     ELSE IF @ < 3 THEN @ + 1 ELSE @])
  <2>1. p.dupacks \in 0 .. 3
    BY PcbFields
  <2>2. (IF ~IsDupAck(p, u) THEN 0
         ELSE IF p.dupacks < 3 THEN p.dupacks + 1 ELSE p.dupacks) \in 0 .. 3
    BY <2>1
  <2>3. \A d \in 0 .. 3 : Alike(p, [p EXCEPT !.dupacks = d])
    BY DEF Alike, Pcbs
  <2> QED BY <2>2, <2>3
<1> QED BY <1>1, <1>2, <1>3 DEF Acked

\* A full window takes nothing: the number awaited is not before the one before it.
LEMMA WindowRoom ==
    ASSUME NEW p \in Pcbs, NEW u \in Segments, IsNext(p, u) PROVE p.rcv_wnd # 0
<1>1. p.rcv_nxt \in SeqNo /\ Modulus \in Nat /\ 3 < Modulus
  BY PcbFields, Constants
<1> DEFINE b == Plus(p.rcv_nxt, 0 - 1)
<1>2. Minus(p.rcv_nxt, b) = 1 /\ p.rcv_nxt # b
  <2>1. CASE p.rcv_nxt = 0
    <3>1. b = Modulus - 1
      BY <1>1, <2>1, ModNegative, Constants DEF Plus
    <3>2. (p.rcv_nxt - b) % Modulus = 1
      BY <1>1, <2>1, <3>1, ModNegative, Constants
    <3> QED BY <1>1, <2>1, <3>1, <3>2 DEF Minus
  <2>2. CASE p.rcv_nxt # 0
    <3>1. b = p.rcv_nxt - 1
      BY <1>1, <2>2, ModLow, Constants DEF Plus, SeqNo
    <3>2. p.rcv_nxt - b = 1 /\ p.rcv_nxt # b
      BY <1>1, <3>1 DEF SeqNo
    <3>3. 1 % Modulus = 1
      BY <1>1, ModLow, Constants
    <3> QED BY <3>2, <3>3 DEF Minus
  <2> QED BY <2>1, <2>2
<1> HIDE DEF b
<1>3. ~TCP_SEQ_LEQ(p.rcv_nxt, b)
  BY <1>1, <1>2 DEF TCP_SEQ_LEQ, TCP_SEQ_LT
<1>4. TCP_SEQ_LEQ(p.rcv_nxt, Plus(p.rcv_nxt, p.rcv_wnd - 1))
  BY Zenon DEF IsNext, InWindow, TCP_SEQ_BETWEEN
<1> QED BY <1>3, <1>4, Zenon DEF b

\* Taking a byte or a FIN moves the window on.
LEMMA TakenEffect ==
    ASSUME NEW p \in Pcbs, p.rcv_wnd # 0
    PROVE /\ Taken(p) \in Pcbs /\ Taken(p).state = p.state /\ Taken(p).inc = p.inc
          /\ Taken(p).rcv_nxt = Plus(p.rcv_nxt, 1)
          /\ Taken(p).rcv_wnd = p.rcv_wnd - 1
<1>1. p.rcv_nxt \in SeqNo /\ p.rcv_wnd \in 0 .. TCP_WND /\ p.ack_delay \in BOOLEAN
  BY PcbFields
<1>2. Plus(p.rcv_nxt, 1) \in SeqNo
  BY <1>1, SeqNoNext, Zenon
<1>3. p.rcv_wnd - 1 \in 0 .. TCP_WND
  BY <1>1, Constants
<1>4. (~p.ack_delay) \in BOOLEAN
  BY <1>1
<1> QED BY Zenon, <1>2, <1>3, <1>4 DEF Taken, Pcbs

\* The pcb waits for the acknowledgement of its FIN.
Closing(p, q) == /\ q \in Pcbs /\ q.state = "LAST_ACK" /\ q.inc = p.inc
                 /\ q.rcv_nxt = p.rcv_nxt /\ q.rcv_wnd = p.rcv_wnd

\* tcp_close resets the connection if there are bytes left, and else sends a FIN.
LEMMA CloseEffect ==
    ASSUME NEW p \in Pcbs, tcp_close(p)
    PROVE /\ closed' = closed \cup {p.inc} /\ Says(p.rcv_nxt)
          /\ \/ p.rcv_wnd # TCP_WND /\ pcb' = NoPcb
             \/ p.rcv_wnd = TCP_WND /\ Closing(p, pcb')
<1> DEFINE q == [p EXCEPT !.state = "LAST_ACK", !.snd_nxt = Plus(@, 1),
                          !.ack_delay = FALSE]
           r == Seg({"RST", "ACK"}, p.snd_nxt, p.rcv_nxt)
<1>1. closed' = closed \cup {p.inc}
  BY DEF tcp_close
<1>2. CASE p.rcv_wnd # TCP_WND /\ tcp_pcb_remove(p, <<r>>)
  <2>1. /\ pcb' = NoPcb
        /\ \/ down' = down \o <<r>>
           \/ down' = down \o Append(<<r>>, tcp_send_empty_ack(p))
    BY <1>2, Zenon DEF tcp_pcb_remove, Outcome
  <2>2. /\ <<r>> \in Seq(Replies(p.rcv_nxt))
        /\ Append(<<r>>, tcp_send_empty_ack(p)) \in Seq(Replies(p.rcv_nxt))
    BY PcbReplies, Saying, Zenon
  <2>3. Says(p.rcv_nxt)
    BY <2>1, <2>2, Zenon DEF Says
  <2> QED BY <1>1, <1>2, <2>1, <2>3
<1>3. CASE p.rcv_wnd = TCP_WND /\ Outcome(q, <<Fin(q)>>)
  <2>1. Plus(p.snd_nxt, 1) \in SeqNo
    BY PcbFields, SeqNoNext, Zenon
  <2>2. Closing(p, q)
    BY Zenon, <2>1 DEF Closing, Pcbs
  <2>3. pcb' = q /\ down' = down \o <<Fin(q)>>
    BY <1>3 DEF Outcome
  <2> HIDE DEF q
  <2>4. <<Fin(q)>> \in Seq(Replies(p.rcv_nxt))
    BY <2>2, PcbReplies, Saying, Zenon DEF Closing
  <2>5. Says(p.rcv_nxt)
    BY <2>3, <2>4, Zenon DEF Says
  <2> QED BY <1>1, <1>3, <2>2, <2>3, <2>5
<1> QED BY <1>2, <1>3 DEF tcp_close

-----------------------------------------------------------------------------
(* What tcp_input does, for a pcb p with session ses and a segment u *)

\* Nothing comes of u but an answer.
Quiet(p, ses) ==
    /\ Alike(p, pcb') /\ session' = ses /\ UNCHANGED <<got, closed>> /\ Says(p.rcv_nxt)

\* The session is given the byte of u.
Byte(p, u, ses) ==
    /\ ses = "open" /\ u.len = 1 /\ u.seqno = p.rcv_nxt
    /\ pcb' \in Pcbs /\ pcb'.state = p.state /\ pcb'.inc = p.inc
    /\ pcb'.rcv_nxt = Plus(p.rcv_nxt, 1) /\ pcb'.rcv_wnd = p.rcv_wnd - 1
    /\ session' = "open" /\ got' = Append(got, <<u.inc, u.seqno>>)
    /\ UNCHANGED closed /\ Says(Plus(p.rcv_nxt, 1))

\* tcp_recv_func closes the connection, at the FIN or as its session has ended.
Ends(p, u, ses) ==
    /\ u.seqno = p.rcv_nxt /\ tcplen(u) # 0
    /\ Clear /\ closed' = closed \cup {p.inc} /\ Says(Plus(p.rcv_nxt, 1))
    /\ \/ pcb' = NoPcb /\ (ses = "closed" \/ p.rcv_wnd # TCP_WND)
       \/ /\ pcb' \in Pcbs /\ pcb'.state = "LAST_ACK" /\ pcb'.inc = p.inc
          /\ pcb'.rcv_nxt = Plus(p.rcv_nxt, 1) /\ pcb'.rcv_wnd = TCP_WND

\* tcp_receive, the callbacks after it, and tcp_output do one of the three.
LEMMA ReceiveEffect ==
    ASSUME NEW p \in Pcbs, NEW u \in Segments, NEW ses, Receive(p, u, ses)
    PROVE Quiet(p, ses) \/ Byte(p, u, ses) \/ Ends(p, u, ses)
<1> DEFINE q == Acked(p, u)
           t == Taken(q)
           f == [t EXCEPT !.rcv_wnd = @ + 1]
<1>1. /\ q \in Pcbs /\ q.state = p.state /\ q.inc = p.inc
      /\ q.rcv_nxt = p.rcv_nxt /\ q.rcv_wnd = p.rcv_wnd
  BY AckedEffect DEF Alike
<1>2. ASSUME IsNext(q, u)
      PROVE /\ t \in Pcbs /\ t.state = p.state /\ t.inc = p.inc
            /\ t.rcv_nxt = Plus(p.rcv_nxt, 1) /\ t.rcv_wnd = p.rcv_wnd - 1
  BY <1>1, <1>2, WindowRoom, TakenEffect, Zenon
<1>w. p.rcv_wnd \in 0 .. TCP_WND /\ TCP_WND \in Nat
  BY PcbFields, Constants
<1>3. /\ \/ IsNext(q, u) /\ u.len = 1 /\ RecvByte(t, u, ses)
         \/ IsNext(q, u) /\ u.len = 0 /\ RecvFin(t)
         \/ /\ ~IsNext(q, u) /\ session' = ses /\ UNCHANGED <<got, closed>>
            /\ AckIf(BeyondSent(p, u) \/ ~InWindow(q, u.seqno), q)
  BY Zenon DEF Receive
<1>4. IsNext(q, u) => u.seqno = p.rcv_nxt /\ tcplen(u) # 0
  BY <1>1, SegmentFields DEF IsNext
<1>5. ASSUME IsNext(q, u)
      PROVE /\ f \in Pcbs /\ f.inc = p.inc /\ f.rcv_nxt = Plus(p.rcv_nxt, 1)
            /\ f.rcv_wnd = p.rcv_wnd
  <2>t. /\ t \in Pcbs /\ t.inc = p.inc
        /\ t.rcv_nxt = Plus(p.rcv_nxt, 1) /\ t.rcv_wnd = p.rcv_wnd - 1
    BY <1>2, <1>5, Zenon
  <2>1. t.rcv_wnd + 1 = p.rcv_wnd /\ t.rcv_wnd + 1 \in 0 .. TCP_WND
    BY <2>t, <1>w
  <2> HIDE DEF t
  <2>2. f = [t EXCEPT !.rcv_wnd = p.rcv_wnd]
    BY <2>1
  <2>3. f \in Pcbs
    BY <2>t, <1>w, <2>2, Zenon DEF Pcbs
  <2> QED BY <2>t, <2>2, <2>3 DEF Pcbs
<1> HIDE DEF q, t, f
<1>6. CASE IsNext(q, u) /\ u.len = 1 /\ RecvByte(t, u, ses)
  <2>t. /\ t \in Pcbs /\ t.state = p.state /\ t.inc = p.inc
        /\ t.rcv_nxt = Plus(p.rcv_nxt, 1) /\ t.rcv_wnd = p.rcv_wnd - 1
    BY <1>2, <1>6, Zenon
  <2>1. CASE /\ ses = "open" /\ session' = ses
             /\ got' = Append(got, <<u.inc, u.seqno>>)
             /\ AckIf(~t.ack_delay, t) /\ UNCHANGED closed
    <3>1. Alike(t, pcb') /\ Says(t.rcv_nxt)
      BY <2>t, <2>1, AckIfEffect, Zenon
    <3> QED BY <2>t, <1>4, <1>6, <2>1, <3>1, Zenon DEF Byte, Alike
  <2>2. CASE ses = "closed" /\ Clear /\ tcp_close(t)
    <3>1. /\ closed' = closed \cup {t.inc} /\ Says(t.rcv_nxt)
          /\ \/ t.rcv_wnd # TCP_WND /\ pcb' = NoPcb
             \/ t.rcv_wnd = TCP_WND /\ Closing(t, pcb')
      BY <2>t, <2>2, CloseEffect, Zenon
    <3>2. t.rcv_wnd # TCP_WND
      BY <2>t, <1>w
    <3> QED BY <2>t, <1>4, <1>6, <2>2, <3>1, <3>2, Zenon DEF Ends
  <2> QED BY <1>6, <2>1, <2>2, Zenon DEF RecvByte
<1>7. CASE IsNext(q, u) /\ u.len = 0 /\ RecvFin(t)
  <2>f. /\ f \in Pcbs /\ f.inc = p.inc /\ f.rcv_nxt = Plus(p.rcv_nxt, 1)
        /\ f.rcv_wnd = p.rcv_wnd
    BY <1>5, <1>7, Zenon
  <2>1. Clear /\ tcp_close(f)
    BY <1>7, Zenon DEF RecvFin, f
  <2>2. /\ closed' = closed \cup {f.inc} /\ Says(f.rcv_nxt)
        /\ \/ f.rcv_wnd # TCP_WND /\ pcb' = NoPcb
           \/ f.rcv_wnd = TCP_WND /\ Closing(f, pcb')
    BY <2>f, <2>1, CloseEffect, Zenon
  <2> QED BY <1>4, <2>f, <1>7, <2>1, <2>2, Zenon DEF Ends, Closing
<1>8. CASE /\ ~IsNext(q, u) /\ session' = ses /\ UNCHANGED <<got, closed>>
           /\ AckIf(BeyondSent(p, u) \/ ~InWindow(q, u.seqno), q)
  <2>1. Alike(q, pcb') /\ Says(q.rcv_nxt)
    BY <1>1, <1>8, AckIfEffect, Zenon
  <2> QED BY <1>1, <1>8, <2>1, Zenon DEF Quiet, Alike
<1> QED BY <1>3, <1>6, <1>7, <1>8, Zenon


\* The listener drops u, or answers it with a reset.
Refusals == {d \in Segments : "RST" \in d.flags /\ "SYN" \notin d.flags}
Refuses ==
    /\ pcb.state = "NONE" /\ pcb' = NoPcb /\ UNCHANGED <<session, got, closed>>
    /\ \E out \in Seq(Refusals) : down' = down \o out

\* The pcb stays.
Stays == pcb.state # "NONE" /\ Quiet(pcb, session)

\* The listener makes a pcb.
Opens(u) ==
    /\ pcb.state = "NONE" /\ u.flags = {"SYN"} /\ pcb' = NewPcb(u)
    /\ UNCHANGED <<session, got, closed>> /\ Says(Plus(u.seqno, 1))

\* A reset that is acceptable frees the pcb.
Resets(u) ==
    /\ pcb.state # "NONE" /\ "RST" \in u.flags /\ u.seqno = pcb.rcv_nxt
    /\ pcb' = NoPcb /\ Clear /\ UNCHANGED closed /\ Says(pcb.rcv_nxt)

\* The FIN is acknowledged.
Frees ==
    /\ pcb.state = "LAST_ACK" /\ pcb' = NoPcb
    /\ UNCHANGED <<session, got, closed>> /\ Says(pcb.rcv_nxt)

\* p is the pcb in ESTABLISHED, with its session or the one just accepted.
Established(p, ses) ==
    /\ p \in Pcbs /\ p.state = "ESTABLISHED" /\ p.inc = pcb.inc
    /\ p.rcv_nxt = pcb.rcv_nxt /\ p.rcv_wnd = pcb.rcv_wnd
    /\ \/ pcb.state = "SYN_RCVD" /\ ses \in {"open", "closed"}
       \/ pcb.state = "ESTABLISHED" /\ ses = session

\* A segment comes to an established connection, or establishes it.
Receives(u) ==
    /\ "RST" \notin u.flags /\ ("ACK" \in u.flags \/ "SYN" \notin u.flags)
    /\ \E p, ses : /\ Established(p, ses)
                   /\ Quiet(p, ses) \/ Byte(p, u, ses) \/ Ends(p, u, ses)

\* tcp_rst makes such a reset.
LEMMA RstRefuses ==
    ASSUME NEW u \in Segments PROVE tcp_rst(u) \in Refusals
<1>1. u.ackno \in SeqNo /\ Plus(u.seqno, tcplen(u)) \in SeqNo
  BY SegmentFields, SeqNoNext, Zenon
<1>2. {"RST", "ACK"} \in SUBSET Flags
  BY DEF Flags
<1>3. tcp_rst(u) \in Segments /\ tcp_rst(u).flags = {"RST", "ACK"}
  BY <1>1, <1>2, SegFields DEF tcp_rst
<1> QED BY <1>3 DEF Refusals

\* Each branch of tcp_input does one of these.
LEMMA InputEffect ==
    ASSUME TypeOK, PcbInv, tcp_input, NEW u \in Segments, u = Head(up)
    PROVE Refuses \/ Stays \/ Opens(u) \/ Resets(u) \/ Frees \/ Receives(u)
<1>1. pcb \in Pcbs /\ Alike(pcb, pcb)
  BY DEF TypeOK, Alike
<1>2. /\ pcb.state \in {"NONE", "SYN_RCVD", "ESTABLISHED", "LAST_ACK"}
  BY <1>1, PcbFields
<1>3. \/ pcb.state = "NONE" /\ tcp_listen_input(u)
      \/ pcb.state # "NONE" /\ tcp_process(pcb, u)
  BY DEF tcp_input
<1>4. \A x : Outcome(NoPcb, <<>>) => pcb' = NoPcb /\ Says(x)
  BY SayingNothing, Zenon DEF Outcome, Says
<1>5. CASE pcb.state = "NONE" /\ tcp_listen_input(u)
  <2>1. pcb = NoPcb /\ UNCHANGED <<session, got, closed>>
    BY <1>5, Zenon DEF PcbInv, tcp_listen_input
  <2>2. CASE Outcome(NoPcb, <<>>)
    <3>1. <<>> \in Seq(Refusals)
      OBVIOUS
    <3> QED BY <1>5, <2>1, <2>2, <3>1, Zenon DEF Refuses, Outcome
  <2>3. CASE Outcome(NoPcb, <<tcp_rst(u)>>)
    <3>1. tcp_rst(u) \in Refusals
      BY RstRefuses, Zenon
    <3>2. <<tcp_rst(u)>> \in Seq(Refusals)
      BY <3>1
    <3> QED BY <1>5, <2>1, <2>3, <3>2, Zenon DEF Refuses, Outcome
  <2>4. CASE u.flags = {"SYN"} /\ Outcome(NewPcb(u), <<SynAck(NewPcb(u))>>)
    <3>1. Plus(u.seqno, 1) \in SeqNo /\ Plus(ISS, 1) \in SeqNo /\ ISS \in SeqNo
          /\ u.inc \in 0 .. MaxInc
      BY SegmentFields, SeqNoNext, Constants, Zenon
    <3>2. TCP_WND \in 0 .. TCP_WND /\ 0 \in 0 .. 3
      BY Constants
    <3>3. NewPcb(u) \in Pcbs /\ NewPcb(u).rcv_nxt = Plus(u.seqno, 1)
      BY <3>1, <3>2 DEF NewPcb, Pcbs
    <3>4. <<SynAck(NewPcb(u))>> \in Seq(Replies(Plus(u.seqno, 1)))
      BY <3>3, PcbReplies, Saying, Zenon
    <3> QED BY <1>5, <2>1, <2>4, <3>4, Zenon DEF Opens, Outcome, Says
  <2> QED BY <1>5, <2>2, <2>3, <2>4, Zenon DEF tcp_listen_input
<1>6. CASE pcb.state # "NONE" /\ "RST" \in u.flags /\ ProcessReset(pcb, u)
  <2>1. CASE ResetAcceptable(pcb, u) /\ Clear /\ Outcome(NoPcb, <<>>)
    BY <1>4, <1>6, <2>1, Zenon DEF Resets, ProcessReset, ResetAcceptable
  <2>2. CASE ~ResetAcceptable(pcb, u)
    <3>1. Alike(pcb, pcb') /\ Says(pcb.rcv_nxt)
      BY <1>1, <1>6, <2>2, AckIfEffect, Zenon DEF ProcessReset
    <3> QED BY <1>6, <2>2, <3>1, Zenon DEF ProcessReset, Quiet, Stays
  <2> QED BY <1>6, <2>1, <2>2, Zenon DEF ProcessReset
<1>7. CASE "RST" \notin u.flags /\ pcb.state = "SYN_RCVD" /\ ProcessSynRcvd(pcb, u)
  <2> DEFINE p == [pcb EXCEPT !.state = "ESTABLISHED"]
  <2>1. p \in Pcbs
    BY <1>1, Zenon DEF Pcbs
  <2>2. \A ses \in {"open", "closed"} : Established(p, ses)
    BY <1>1, <1>7, <2>1 DEF Established, Pcbs
  <2> HIDE DEF p
  <2>3. CASE /\ "ACK" \in u.flags
             /\ \E ses \in {"open", "closed"} : Receive(p, u, ses)
    <3>1. PICK ses \in {"open", "closed"} : Receive(p, u, ses)
      BY <2>3, Zenon
    <3>2. Quiet(p, ses) \/ Byte(p, u, ses) \/ Ends(p, u, ses)
      BY <2>1, <3>1, ReceiveEffect, Zenon
    <3>3. Established(p, ses)
      BY <2>2, <3>1, Zenon
    <3> QED BY <1>7, <2>3, <3>2, <3>3, Zenon DEF Receives
  <2>4. CASE /\ UNCHANGED <<session, got, closed>>
             /\ \/ Outcome(pcb, <<tcp_rst(u)>>) \/ Outcome(pcb, <<SynAck(pcb)>>)
                \/ Outcome(pcb, <<>>)
    <3>1. /\ <<tcp_rst(u)>> \in Seq(Replies(pcb.rcv_nxt))
          /\ <<SynAck(pcb)>> \in Seq(Replies(pcb.rcv_nxt))
          /\ <<>> \in Seq(Replies(pcb.rcv_nxt))
      BY <1>1, ResetReplies, PcbReplies, Saying, SayingNothing, Zenon
    <3>2. pcb' = pcb /\ Says(pcb.rcv_nxt)
      BY <2>4, <3>1, Zenon DEF Outcome, Says
    <3> QED BY <1>1, <1>7, <2>4, <3>2, Zenon DEF Quiet, Stays
  <2> QED BY <1>7, <2>3, <2>4, Zenon DEF ProcessSynRcvd, p
<1>8. CASE /\ pcb.state # "NONE" /\ pcb.state # "SYN_RCVD" /\ ProcessSyn(pcb, u)
  <2>1. Alike(pcb, pcb') /\ Says(pcb.rcv_nxt)
    BY <1>1, <1>8, AckIfEffect, Zenon DEF ProcessSyn
  <2> QED BY <1>8, <2>1, Zenon DEF ProcessSyn, Quiet, Stays
<1>9. CASE /\ "RST" \notin u.flags /\ "SYN" \notin u.flags
           /\ pcb.state = "ESTABLISHED" /\ Receive(pcb, u, session)
  <2>1. Quiet(pcb, session) \/ Byte(pcb, u, session) \/ Ends(pcb, u, session)
    BY <1>1, <1>9, ReceiveEffect, Zenon
  <2>2. Established(pcb, session)
    BY <1>1, <1>9, Zenon DEF Established
  <2> QED BY <1>9, <2>1, <2>2, Zenon DEF Receives
<1>10. CASE pcb.state = "LAST_ACK" /\ ProcessLastAck(pcb, u)
  <2> DEFINE q == Acked(pcb, u)
  <2>1. Alike(pcb, q) /\ q \in Pcbs /\ q.rcv_nxt = pcb.rcv_nxt
    BY <1>1, AckedEffect, Zenon DEF Alike
  <2>2. UNCHANGED <<session, got, closed>>
    BY <1>10, Zenon DEF ProcessLastAck
  <2>3. \/ Outcome(NoPcb, <<>>) \/ Outcome([q EXCEPT !.infr = TRUE], <<Fin(q)>>)
        \/ AckIf(BeyondSent(pcb, u) \/ ~InWindow(q, u.seqno), q)
    BY <1>10, Zenon DEF ProcessLastAck
  <2> HIDE DEF q
  <2>4. CASE Outcome(NoPcb, <<>>)
    BY <1>4, <1>10, <2>2, <2>4, Zenon DEF Frees
  <2>5. CASE Outcome([q EXCEPT !.infr = TRUE], <<Fin(q)>>)
    <3>1. <<Fin(q)>> \in Seq(Replies(pcb.rcv_nxt))
      BY <2>1, PcbReplies, Saying, Zenon
    <3>2. Alike(q, [q EXCEPT !.infr = TRUE])
      BY <2>1, Zenon DEF Alike, Pcbs
    <3>3. Alike(pcb, pcb') /\ Says(pcb.rcv_nxt)
      BY <2>1, <2>5, <3>1, <3>2, Zenon DEF Alike, Outcome, Says
    <3> QED BY <1>10, <2>2, <3>3, Zenon DEF Quiet, Stays
  <2>6. CASE AckIf(BeyondSent(pcb, u) \/ ~InWindow(q, u.seqno), q)
    <3>1. Alike(q, pcb') /\ Says(q.rcv_nxt)
      BY <2>1, <2>6, AckIfEffect, Zenon
    <3> QED BY <1>10, <2>1, <2>2, <3>1, Zenon DEF Quiet, Stays, Alike
  <2> QED BY <2>3, <2>4, <2>5, <2>6, Zenon
<1> QED BY <1>2, <1>3, <1>5, <1>6, <1>7, <1>8, <1>9, <1>10, Zenon DEF tcp_process

-----------------------------------------------------------------------------
(* What the local machine sends *)

\* The fields of the local machine's end have their types.
LEMMA PeerFields ==
    ASSUME NEW p \in Peers
    PROVE /\ p.state \in {"CLOSED", "SYN_SENT", "ESTABLISHED", "FIN_WAIT", "TIME_WAIT"}
          /\ p.inc \in 0 .. MaxInc /\ p.sent \in 0 .. MaxBytes
          /\ p.acked \in BOOLEAN /\ p.rcv_nxt \in SeqNo
BY DEF Peers

\* The next number of the local machine is a number of its incarnation: the first
\* while it has sent its SYN only, and not the last before its FIN.
LEMMA PeerNxtPlace ==
    ASSUME NEW p \in Peers, p.inc \in Incs
    PROVE /\ PeerNxt(p) \in SeqNo /\ PeerNxt(p) \in Numbers(p.inc)
          /\ p.state \notin {"FIN_WAIT", "TIME_WAIT"} =>
                 PeerNxt(p) = Number(p.inc, p.sent + 1)
<1> DEFINE n == 1 + p.sent + (IF p.state \in {"FIN_WAIT", "TIME_WAIT"} THEN 1 ELSE 0)
<1>1. p.sent \in 0 .. MaxBytes /\ MaxBytes \in Nat
  BY PeerFields, Constants
<1>2. n \in Places /\ n \in Int
  BY <1>1 DEF Places
<1>3. p.state \notin {"FIN_WAIT", "TIME_WAIT"} => n = p.sent + 1
  BY <1>1
<1>4. PeerNxt(p) = Number(p.inc, n)
  BY DEF PeerNxt, Number
<1> HIDE DEF n
<1>5. Number(p.inc, n) \in SeqNo
  BY <1>2, NumberType, Zenon
<1> QED BY <1>2, <1>3, <1>4, <1>5, Zenon DEF Numbers

\* A segment of incarnation i that acknowledges
LEMMA PeerAckFields ==
    ASSUME NEW p \in Peers, p.inc \in Incs
    PROVE /\ PeerAck(p) \in Segments /\ PeerAck(p).flags = {"ACK"}
          /\ PeerAck(p).seqno = PeerNxt(p) /\ PeerAck(p).len = 0
          /\ PeerAck(p).inc = p.inc
<1>1. /\ PeerNxt(p) \in SeqNo /\ p.rcv_nxt \in SeqNo /\ p.inc \in 0 .. MaxInc
  BY PeerFields, PeerNxtPlace, Zenon
<1>2. {"ACK"} \in SUBSET Flags
  BY DEF Flags
<1> DEFINE g == Seg({"ACK"}, PeerNxt(p), p.rcv_nxt)
<1>3. g \in Segments /\ g.flags = {"ACK"} /\ g.seqno = PeerNxt(p) /\ g.len = 0
  BY <1>1, <1>2, SegFields
<1>4. PeerAck(p) = [g EXCEPT !.inc = p.inc]
  BY DEF PeerAck
<1> HIDE DEF g
<1>5. [g EXCEPT !.inc = p.inc] \in Segments
  BY <1>1, <1>3, Zenon DEF Segments
<1> QED BY <1>3, <1>4, <1>5 DEF Segments

\* Its reset
LEMMA PeerResetFields ==
    ASSUME NEW p \in Peers, p.inc \in Incs,
           NEW s, s = [PeerAck(p) EXCEPT !.flags = {"RST", "ACK"}]
    PROVE /\ s \in Segments /\ s.flags = {"RST", "ACK"}
          /\ s.seqno = PeerNxt(p) /\ s.len = 0 /\ s.inc = p.inc
<1> DEFINE g == PeerAck(p)
<1>1. g \in Segments /\ g.seqno = PeerNxt(p) /\ g.len = 0 /\ g.inc = p.inc
  BY PeerAckFields, Zenon
<1>2. {"RST", "ACK"} \in SUBSET Flags
  BY DEF Flags
<1> HIDE DEF g
<1>3. s = [g EXCEPT !.flags = {"RST", "ACK"}]
  BY DEF g
<1>4. s \in Segments
  BY <1>1, <1>2, <1>3, Zenon DEF Segments
<1> QED BY <1>1, <1>3, <1>4 DEF Segments

\* The SYN that opens an incarnation
LEMMA PeerSynFields ==
    ASSUME NEW p \in Peers, p.inc \in Incs, p.state = "SYN_SENT",
           NEW s, s = Unacked(p)
    PROVE /\ s \in Segments /\ s.flags = {"SYN"}
          /\ s.seqno = PeerISS[p.inc] /\ s.len = 0 /\ s.inc = p.inc
<1> DEFINE g == Seg({"SYN"}, PeerISS[p.inc], 0)
<1>1. PeerISS[p.inc] \in SeqNo /\ 0 \in SeqNo /\ p.inc \in 0 .. MaxInc
  BY Constants, PeerFields, Zenon
<1>2. {"SYN"} \in SUBSET Flags
  BY DEF Flags
<1>3. g \in Segments /\ g.flags = {"SYN"} /\ g.seqno = PeerISS[p.inc] /\ g.len = 0
  BY <1>1, <1>2, SegFields
<1>4. s = [g EXCEPT !.inc = p.inc]
  BY DEF Unacked
<1> HIDE DEF g
<1>5. s \in Segments
  BY <1>1, <1>3, <1>4, Zenon DEF Segments
<1> QED BY <1>3, <1>4, <1>5 DEF Segments

\* A byte, which has the number of its place, and the FIN
LEMMA PeerDataFields ==
    ASSUME NEW p \in Peers, p.inc \in Incs, p.state \in {"ESTABLISHED", "FIN_WAIT"},
           p.state = "ESTABLISHED" => p.sent > 0,
           NEW s, s = Unacked(p)
    PROVE /\ s \in Segments /\ s.inc = p.inc
          /\ s.flags = {"ACK"} \/ s.flags = {"FIN", "ACK"}
          /\ s.len = 1 => \E n \in 1 .. MaxBytes : s.seqno = Number(p.inc, n)
<1> DEFINE g == PeerAck(p)
           x == Minus(PeerNxt(p), 1)
<1>1. g \in Segments /\ g.seqno = PeerNxt(p) /\ g.len = 0 /\ g.inc = p.inc
      /\ g.flags = {"ACK"} /\ x \in SeqNo
  BY PeerAckFields, PeerNxtPlace, SeqNoNext, Zenon
<1>2. {"FIN", "ACK"} \in SUBSET Flags /\ 1 \in {0, 1}
  BY DEF Flags
<1>3. CASE p.state = "ESTABLISHED"
  <2>1. s = [g EXCEPT !.seqno = Minus(@, 1), !.len = 1]
    BY <1>3 DEF Unacked
  <2>2. p.sent \in 1 .. MaxBytes /\ p.sent \in Nat /\ p.sent <= MaxBytes + 1
    BY <1>3, PeerFields, Constants
  <2>3. x = Number(p.inc, p.sent)
    BY <1>3, <2>2, PeerNxtPlace, NumberNext
  <2> HIDE DEF g, x
  <2>4. s = [g EXCEPT !.seqno = x, !.len = 1]
    BY <1>1, <2>1 DEF x
  <2>5. s \in Segments
    BY <1>1, <1>2, <2>4, Zenon DEF Segments
  <2>6. s.inc = p.inc /\ s.flags = {"ACK"} /\ s.seqno = x
    BY <1>1, <2>4, <2>5 DEF Segments
  <2> QED BY <2>2, <2>3, <2>5, <2>6, Zenon
<1>4. CASE p.state = "FIN_WAIT"
  <2>1. s = [g EXCEPT !.seqno = Minus(@, 1), !.flags = {"FIN", "ACK"}]
    BY <1>4 DEF Unacked
  <2> HIDE DEF g, x
  <2>2. s = [g EXCEPT !.seqno = x, !.flags = {"FIN", "ACK"}]
    BY <1>1, <2>1 DEF x
  <2>3. s \in Segments
    BY <1>1, <1>2, <2>2, Zenon DEF Segments
  <2>4. s.inc = p.inc /\ s.flags = {"FIN", "ACK"} /\ s.len = 0
    BY <1>1, <2>2, <2>3 DEF Segments
  <2> QED BY <2>3, <2>4
<1> QED BY <1>3, <1>4


\* The local machine passes from one incarnation to the next.
PeerMoves ==
    /\ peer' \in Peers /\ peer.inc <= peer'.inc
    /\ peer.state = "CLOSED" /\ peer'.inc = peer.inc => peer'.state = "CLOSED"
    /\ peer'.state = "SYN_SENT" /\ peer'.inc = peer.inc => peer.state = "SYN_SENT"
    /\ PeerLocal'
    /\ \/ /\ opened' = opened
          /\ peer'.state = "ESTABLISHED" => peer.state = "ESTABLISHED" /\ peer'.inc = peer.inc
       \/ /\ opened' = opened \cup {peer.inc} /\ peer'.inc = peer.inc
          /\ Reached(peer.inc) /\ pcb.state = "SYN_RCVD" /\ pcb.inc = peer.inc

\* It sends a segment of its incarnation, or a reset of none.
Sends(s) ==
    /\ up' = Append(up, s) /\ s \in Segments
    /\ UpSegment(s)' /\ (s.inc = 0 \/ s.inc = peer'.inc)

Speaks == up' = up \/ \E s : Sends(s)

\* An acknowledgement, with or without a byte or a FIN, is of an incarnation the
\* local machine saw established.
LEMMA SendsAck ==
    ASSUME NEW s \in Segments, up' = Append(up, s), peer' \in Peers,
           s.inc = peer'.inc, s.inc \in Incs, s.inc \in opened',
           s.flags = {"ACK"} \/ s.flags = {"FIN", "ACK"},
           s.len = 1 => \E n \in 1 .. MaxBytes : s.seqno = Number(s.inc, n)
    PROVE Sends(s)
<1>1. s.inc # 0 /\ s.inc <= peer'.inc
  BY Constants, PeerFields DEF Incs
<1>2. "RST" \notin s.flags /\ "SYN" \notin s.flags /\ "ACK" \in s.flags
  OBVIOUS
<1>3. s.flags \cap {"ACK", "RST", "SYN"} # {}
  BY <1>2
<1>4. UpSegment(s)'
  BY <1>1, <1>2, <1>3, Zenon DEF UpSegment
<1> QED BY <1>4, Zenon DEF Sends

\* A SYN has the initial number of the incarnation.
LEMMA SendsSyn ==
    ASSUME NEW s \in Segments, up' = Append(up, s), peer' \in Peers,
           s.inc = peer'.inc, s.inc \in Incs, s.flags = {"SYN"},
           s.seqno = PeerISS[s.inc], s.len = 0
    PROVE Sends(s)
<1>1. s.inc # 0 /\ s.inc <= peer'.inc /\ s.len # 1
  BY Constants, PeerFields DEF Incs
<1>2. "RST" \notin s.flags /\ "ACK" \notin s.flags
  OBVIOUS
<1>3. s.flags \cap {"ACK", "RST", "SYN"} # {}
  OBVIOUS
<1>4. UpSegment(s)'
  BY <1>1, <1>2, <1>3, Zenon DEF UpSegment
<1> QED BY <1>4, Zenon DEF Sends

\* A reset has a number of an incarnation that is given up.
LEMMA SendsReset ==
    ASSUME NEW s \in Segments, up' = Append(up, s), peer' \in Peers,
           \/ s.flags = {"RST"} /\ s.inc = 0
           \/ /\ s.flags = {"RST", "ACK"} /\ s.inc = peer'.inc
              /\ s.inc \in Incs /\ s.inc \in opened',
           s.len = 0, NEW i \in Incs, GivenUp(i)', s.seqno \in Numbers(i)
    PROVE Sends(s)
<1>1. s.len # 1 /\ s.inc <= peer'.inc
  BY Constants, PeerFields
<1>2. "SYN" \notin s.flags
  OBVIOUS
<1>3. s.flags \cap {"ACK", "RST", "SYN"} # {}
  BY Zenon
<1>4. /\ s.inc = 0 => s.flags = {"RST"}
      /\ "ACK" \in s.flags => s.inc \in opened'
  BY Constants DEF Incs
<1>5. (\E j \in Incs : GivenUp(j) /\ s.seqno \in Numbers(j))'
  BY Zenon DEF Incs, Numbers, Number
<1>6. UpSegment(s)'
  BY <1>1, <1>2, <1>3, <1>4, <1>5, Zenon DEF UpSegment
<1> QED BY <1>6, Zenon DEF Sends

-----------------------------------------------------------------------------
(* Each step of the local machine moves and speaks like this. *)

\* The local machine opens the next incarnation.
LEMMA PeerOpenEffect ==
    ASSUME IndInv, PeerOpen PROVE PeerMoves /\ Speaks
<1>1. peer \in Peers /\ peer.inc \in 0 .. MaxInc /\ peer.inc < MaxInc
  BY PeerFields DEF IndInv, TypeOK, PeerOpen
<1>2. PICK j : j = peer.inc + 1
  OBVIOUS
<1>3. j \in 0 .. MaxInc /\ j \in Incs /\ peer.inc <= j /\ j # peer.inc /\ j > peer.inc
  BY <1>1, <1>2, Constants DEF Incs
<1>4. 0 \in 0 .. MaxBytes /\ 0 \in SeqNo
  BY Constants
<1>5. peer' = [state |-> "SYN_SENT", inc |-> j, sent |-> 0, acked |-> FALSE, rcv_nxt |-> 0]
  BY <1>2 DEF PeerOpen
<1>6. /\ peer' \in Peers /\ peer'.state = "SYN_SENT" /\ peer'.inc = j
      /\ peer'.sent = 0
  BY <1>3, <1>4, <1>5 DEF Peers
<1>7. j \notin opened
  <2>1. \A i \in opened : i \in Incs /\ i <= peer.inc
    BY Zenon DEF IndInv, PeerInv, Reached
  <2> QED BY <1>1, <1>3, <2>1 DEF Incs
<1>8. opened' = opened
  BY DEF PeerOpen, PeerAlone
<1>9. PeerLocal'
  BY <1>3, <1>6, <1>7, <1>8 DEF PeerLocal
<1>10. PeerMoves
  BY <1>3, <1>6, <1>8, <1>9 DEF PeerMoves
<1>11. PICK s : s = Unacked(peer')
  OBVIOUS
<1>12. up' = Append(up, s)
  BY <1>11 DEF PeerOpen, Say
<1>13. /\ s \in Segments /\ s.flags = {"SYN"}
       /\ s.seqno = PeerISS[j] /\ s.len = 0 /\ s.inc = j
  BY <1>3, <1>6, <1>11, PeerSynFields
<1>14. Sends(s)
  BY <1>3, <1>6, <1>12, <1>13, SendsSyn
<1> QED BY <1>10, <1>14, Zenon DEF Speaks

\* What the local machine knows of its incarnation when it is not closed
LEMMA PeerKnows ==
    ASSUME IndInv
    PROVE /\ peer \in Peers
          /\ peer.state # "CLOSED" => peer.inc \in Incs
          /\ peer.state \notin {"CLOSED", "SYN_SENT"} => peer.inc \in opened
          /\ peer.inc <= peer.inc
BY PeerFields DEF IndInv, TypeOK, PeerInv, PeerLocal

\* It sends a byte.
LEMMA PeerSendEffect ==
    ASSUME IndInv, PeerSend PROVE PeerMoves /\ Speaks
<1>1. /\ peer \in Peers /\ peer.inc \in Incs /\ peer.inc \in opened
      /\ peer.inc <= peer.inc /\ peer.state = "ESTABLISHED" /\ opened' = opened
  BY PeerKnows DEF PeerSend, PeerAlone
<1>2. PICK n : n = peer.sent + 1
  OBVIOUS
<1>3. n \in 0 .. MaxBytes /\ n > 0
  BY <1>1, <1>2, PeerFields, Constants DEF PeerSend
<1>4. peer' = [peer EXCEPT !.sent = n, !.acked = FALSE]
  BY <1>2 DEF PeerSend
<1>5. peer' \in Peers
  BY <1>1, <1>3, <1>4, Zenon DEF Peers
<1>6. peer'.state = "ESTABLISHED" /\ peer'.inc = peer.inc /\ peer'.sent = n
  BY <1>1, <1>4, <1>5 DEF Peers
<1>7. PeerLocal'
  BY <1>1, <1>3, <1>6 DEF PeerLocal
<1>8. PeerMoves
  BY <1>1, <1>5, <1>6, <1>7 DEF PeerMoves
<1>9. PICK s : s = Unacked(peer')
  OBVIOUS
<1>10. up' = Append(up, s)
  BY <1>9 DEF PeerSend, Say
<1>11. /\ s \in Segments /\ s.inc = peer.inc
       /\ s.flags = {"ACK"} \/ s.flags = {"FIN", "ACK"}
       /\ s.len = 1 => \E k \in 1 .. MaxBytes : s.seqno = Number(peer.inc, k)
  BY <1>1, <1>3, <1>5, <1>6, <1>9, PeerDataFields
<1>12. Sends(s)
  BY <1>1, <1>5, <1>6, <1>10, <1>11, SendsAck
<1> QED BY <1>8, <1>12, Zenon DEF Speaks

\* It sends its FIN.
LEMMA PeerFinishEffect ==
    ASSUME IndInv, PeerFinish PROVE PeerMoves /\ Speaks
<1>1. /\ peer \in Peers /\ peer.inc \in Incs /\ peer.inc \in opened
      /\ peer.inc <= peer.inc /\ peer.state = "ESTABLISHED" /\ opened' = opened
  BY PeerKnows DEF PeerFinish, PeerAlone
<1>2. peer' = [peer EXCEPT !.state = "FIN_WAIT", !.acked = FALSE]
  BY DEF PeerFinish
<1>3. peer' \in Peers
  BY <1>1, <1>2, Zenon DEF Peers
<1>4. peer'.state = "FIN_WAIT" /\ peer'.inc = peer.inc
  BY <1>1, <1>2, <1>3 DEF Peers
<1>5. PeerLocal'
  BY <1>1, <1>4 DEF PeerLocal
<1>6. PeerMoves
  BY <1>1, <1>3, <1>4, <1>5 DEF PeerMoves
<1>7. PICK s : s = Unacked(peer')
  OBVIOUS
<1>8. up' = Append(up, s)
  BY <1>7 DEF PeerFinish, Say
<1>9. /\ s \in Segments /\ s.inc = peer.inc
      /\ s.flags = {"ACK"} \/ s.flags = {"FIN", "ACK"}
      /\ s.len = 1 => \E k \in 1 .. MaxBytes : s.seqno = Number(peer.inc, k)
  BY <1>1, <1>3, <1>4, <1>7, PeerDataFields
<1>10. Sends(s)
  BY <1>1, <1>3, <1>4, <1>8, <1>9, SendsAck
<1> QED BY <1>6, <1>10, Zenon DEF Speaks

\* A local machine that stays as it is has moved.
LEMMA PeerStays ==
    ASSUME IndInv, UNCHANGED <<peer, opened>> PROVE PeerMoves
<1>1. peer' = peer /\ opened' = opened
  OBVIOUS
<1>2. PeerLocal'
  BY <1>1, Zenon DEF IndInv, PeerInv, PeerLocal
<1> QED BY <1>1, <1>2, PeerKnows, Zenon DEF PeerMoves

\* It sends again what is not acknowledged.
LEMMA PeerRetransmitEffect ==
    ASSUME IndInv, PeerRetransmit PROVE PeerMoves /\ Speaks
<1>1. /\ peer \in Peers /\ peer.inc \in Incs
      /\ peer.state \in {"SYN_SENT", "ESTABLISHED", "FIN_WAIT"} /\ ~peer.acked
      /\ peer.state # "SYN_SENT" => peer.inc \in opened
  BY PeerKnows DEF PeerRetransmit
<1>2. peer' = peer /\ opened' = opened
  BY DEF PeerRetransmit, PeerAlone
<1>3. PICK s : s = Unacked(peer)
  OBVIOUS
<1>4. up' = Append(up, s)
  BY <1>3 DEF PeerRetransmit, Say
<1>5. ASSUME peer.state = "SYN_SENT" PROVE Sends(s)
  <2>1. /\ s \in Segments /\ s.flags = {"SYN"}
        /\ s.seqno = PeerISS[peer.inc] /\ s.len = 0 /\ s.inc = peer.inc
    BY <1>1, <1>3, <1>5, PeerSynFields
  <2> QED BY <1>1, <1>2, <1>4, <2>1, SendsSyn
<1>6. ASSUME peer.state \in {"ESTABLISHED", "FIN_WAIT"} PROVE Sends(s)
  <2>1. peer.state = "ESTABLISHED" => peer.sent > 0
    BY <1>1 DEF IndInv, PeerInv, PeerLocal
  <2>2. /\ s \in Segments /\ s.inc = peer.inc
        /\ s.flags = {"ACK"} \/ s.flags = {"FIN", "ACK"}
        /\ s.len = 1 => \E k \in 1 .. MaxBytes : s.seqno = Number(peer.inc, k)
    BY <1>1, <1>3, <1>6, <2>1, PeerDataFields
  <2> QED BY <1>1, <1>2, <1>4, <1>6, <2>2, SendsAck
<1>7. Sends(s)
  BY <1>1, <1>5, <1>6
<1>8. PeerMoves
  BY <1>2, PeerStays
<1> QED BY <1>7, <1>8, Zenon DEF Speaks


\* It gives up.
LEMMA PeerAbortEffect ==
    ASSUME IndInv, PeerAbort PROVE PeerMoves /\ Speaks
<1>1. /\ peer \in Peers /\ peer.inc \in Incs /\ peer.inc <= peer.inc
      /\ peer.state # "SYN_SENT" => peer.inc \in opened
  BY PeerKnows DEF PeerAbort
<1>2. peer' = [peer EXCEPT !.state = "CLOSED"] /\ opened' = opened
  BY DEF PeerAbort, PeerAlone
<1>3. peer' \in Peers
  BY <1>1, <1>2, Zenon DEF Peers
<1>4. peer'.state = "CLOSED" /\ peer'.inc = peer.inc
  BY <1>1, <1>2, <1>3 DEF Peers
<1>5. PeerLocal'
  BY <1>4 DEF PeerLocal
<1>6. PeerMoves
  BY <1>1, <1>2, <1>3, <1>4, <1>5 DEF PeerMoves
<1>7. CASE peer.state = "SYN_SENT"
  BY <1>6, <1>7 DEF PeerAbort, Speaks
<1>8. CASE peer.state # "SYN_SENT"
  <2>1. PICK s : s = [PeerAck(peer) EXCEPT !.flags = {"RST", "ACK"}]
    BY Zenon
  <2>2. up' = Append(up, s)
    BY <1>8, <2>1 DEF PeerAbort, Say
  <2>3. /\ s \in Segments /\ s.flags = {"RST", "ACK"}
        /\ s.seqno = PeerNxt(peer) /\ s.len = 0 /\ s.inc = peer.inc
    BY <1>1, <2>1, PeerResetFields, Zenon
  <2>4. s.seqno \in Numbers(peer.inc)
    BY <1>1, <2>3, PeerNxtPlace, Zenon
  <2>5. PICK i \in Incs : i = peer.inc
    BY <1>1
  <2>6. GivenUp(i)'
    BY <1>4, <2>5 DEF GivenUp
  <2>7. Sends(s)
    BY <1>1, <1>2, <1>3, <1>4, <1>8, <2>2, <2>3, <2>4, <2>5, <2>6, SendsReset
  <2> QED BY <1>6, <2>7, Zenon DEF Speaks
<1> QED BY <1>7, <1>8

\* What lwIP has sent is on the way down.
LEMMA DownHead ==
    ASSUME IndInv, down # <<>>
    PROVE Head(down) \in Segments /\ DownSegment(Head(down))
<1>1. down \in Seq({d \in Segments : DownSegment(d)})
  BY Zenon DEF IndInv, DownInv
<1>2. Head(down) \in {d \in Segments : DownSegment(d)}
  BY <1>1, QueueOps, Zenon
<1> QED BY <1>2

\* A segment of no connection is answered by a reset of an incarnation that is
\* given up.
LEMMA PeerRefuseEffect ==
    ASSUME IndInv, NEW d \in Segments, DownSegment(d), PeerRefuse(d),
           \/ peer.state = "CLOSED"
           \/ peer.state = "SYN_SENT" /\ d.ackno # PeerNxt(peer)
    PROVE PeerMoves /\ Speaks
<1>1. peer' = peer /\ opened' = opened /\ peer \in Peers
  BY PeerKnows DEF PeerRefuse
<1>2. PeerMoves
  BY <1>1, PeerStays
<1>3. CASE "RST" \in d.flags
  BY <1>2, <1>3 DEF PeerRefuse, Speaks
<1>4. CASE "RST" \notin d.flags
  <2>1. PICK i \in Incs, n \in Places :
            /\ Reached(i) /\ d.ackno = Number(i, n)
            /\ peer.state = "SYN_SENT" /\ i = peer.inc => n = 1
    BY <1>4, Zenon DEF DownSegment
  <2>2. d.ackno \in Numbers(i) /\ d.ackno \in SeqNo
    BY <2>1, SegmentFields, Zenon DEF Numbers
  <2>3. i < peer.inc \/ i = peer.inc
    BY <1>1, <2>1, PeerFields DEF Reached, Incs
  <2>4. peer.state = "SYN_SENT" => i # peer.inc
    <3>1. SUFFICES ASSUME peer.state = "SYN_SENT", i = peer.inc PROVE FALSE
      OBVIOUS
    <3>2. peer.sent = 0
      BY <3>1 DEF IndInv, PeerInv, PeerLocal
    <3>3. PeerNxt(peer) = Number(i, peer.sent + 1)
      BY <1>1, <3>1, PeerNxtPlace
    <3>4. PeerNxt(peer) = Number(i, 1)
      BY <3>2, <3>3
    <3> QED BY <2>1, <3>1, <3>4
  <2>5. GivenUp(i)'
    BY <1>1, <2>3, <2>4 DEF GivenUp
  <2>6. PICK s : s = Seg({"RST"}, d.ackno, 0)
    OBVIOUS
  <2>7. up' = Append(up, s)
    BY <1>4, <2>6 DEF PeerRefuse, Say
  <2>8. {"RST"} \in SUBSET Flags /\ 0 \in SeqNo
    BY Constants DEF Flags
  <2>9. s \in Segments /\ s.flags = {"RST"} /\ s.seqno = d.ackno /\ s.len = 0 /\ s.inc = 0
    BY <2>2, <2>6, <2>8, SegFields
  <2>10. Sends(s)
    BY <1>1, <2>2, <2>5, <2>7, <2>9, SendsReset
  <2> QED BY <1>2, <2>10, Zenon DEF Speaks
<1> QED BY <1>3, <1>4


\* The answer to its SYN establishes the connection: it is the answer of the pcb
\* that lwIP has for this incarnation.
LEMMA PeerSynSentEffect ==
    ASSUME IndInv, NEW d \in Segments, DownSegment(d), peer.state = "SYN_SENT",
           PeerSynSent(d)
    PROVE PeerMoves /\ Speaks
<1>1. peer \in Peers /\ peer.inc \in Incs /\ peer.inc <= peer.inc
  BY PeerKnows
<1>2. CASE d.ackno # PeerNxt(peer) /\ PeerRefuse(d)
  BY <1>2, PeerRefuseEffect, Zenon
<1>3. CASE /\ d.ackno = PeerNxt(peer) /\ "SYN" \in d.flags
           /\ peer' = [peer EXCEPT !.state = "ESTABLISHED", !.acked = TRUE,
                                   !.rcv_nxt = Plus(d.seqno, 1)]
           /\ opened' = opened \cup {peer.inc} /\ Say(PeerAck(peer'))
  <2>1. PICK i \in Incs, n \in Places :
            /\ Reached(i) /\ d.ackno = Number(i, n)
            /\ peer.state = "SYN_SENT" /\ i = peer.inc =>
                   n = 1 /\ pcb.state = "SYN_RCVD" /\ pcb.inc = i
    BY <1>3, Zenon DEF DownSegment
  <2>2. PeerNxt(peer) = Number(peer.inc, 1)
    <3>1. peer.sent = 0
      BY DEF IndInv, PeerInv, PeerLocal
    <3>2. PeerNxt(peer) = Number(peer.inc, peer.sent + 1)
      BY <1>1, PeerNxtPlace
    <3> QED BY <3>1, <3>2
  <2>3. 1 \in 0 .. MaxBytes + 2 /\ n \in 0 .. MaxBytes + 2
    BY Constants DEF Places
  <2>4. i = peer.inc
    BY <1>1, <1>3, <2>1, <2>2, <2>3, NumbersApart, Zenon
  <2>5. Plus(d.seqno, 1) \in SeqNo
    BY SegmentFields, SeqNoNext, Zenon
  <2>6. peer' \in Peers
    BY <1>1, <1>3, <2>5, Zenon DEF Peers
  <2>7. peer'.state = "ESTABLISHED" /\ peer'.inc = peer.inc /\ peer'.acked
    BY <1>1, <1>3, <2>6 DEF Peers
  <2>8. peer.inc \in opened'
    BY <1>3
  <2>9. PeerLocal'
    BY <1>1, <2>7, <2>8 DEF PeerLocal
  <2>10. PeerMoves
    BY <1>1, <1>3, <2>1, <2>4, <2>6, <2>7, <2>9, Zenon DEF PeerMoves
  <2>11. PICK s : s = PeerAck(peer')
    BY Zenon
  <2>12. up' = Append(up, s)
    BY <1>3, <2>11, Zenon DEF Say
  <2>13. /\ s \in Segments /\ s.inc = peer.inc /\ s.flags = {"ACK"} /\ s.len = 0
    BY <1>1, <2>6, <2>7, <2>11, PeerAckFields, Zenon
  <2>14. s.len # 1
    BY <2>13
  <2>15. Sends(s)
    BY <1>1, <2>6, <2>7, <2>8, <2>12, <2>13, <2>14, SendsAck, Zenon
  <2> QED BY <2>10, <2>15, Zenon DEF Speaks
<1> QED BY <1>2, <1>3, Zenon DEF PeerSynSent

\* An established connection, or one that ends, keeps its incarnation.
LEMMA PeerOpenInputEffect ==
    ASSUME IndInv, NEW d \in Segments, peer.state \notin {"CLOSED", "SYN_SENT"},
           PeerOpenInput(d)
    PROVE PeerMoves /\ Speaks
<1>1. /\ peer \in Peers /\ peer.inc \in Incs /\ peer.inc <= peer.inc
      /\ peer.inc \in opened /\ opened' = opened
  BY PeerKnows, Zenon DEF PeerOpenInput
<1> DEFINE Ok == /\ peer' \in Peers /\ peer'.inc = peer.inc
                 /\ \/ peer' = peer
                    \/ peer'.state = "CLOSED"
                    \/ peer'.state = "TIME_WAIT"
                    \/ /\ peer'.state = peer.state /\ peer'.sent = peer.sent
                       /\ peer.acked => peer'.acked
<1>2. /\ Ok
      /\ up' = up \/ up' = Append(up, PeerAck(peer'))
  <2>1. CASE "RST" \in d.flags /\ UNCHANGED up
             /\ peer' = IF d.seqno = peer.rcv_nxt THEN [peer EXCEPT !.state = "CLOSED"]
                                                  ELSE peer
    <3>1. CASE peer' = peer
      BY <1>1, <2>1, <3>1, Zenon
    <3>2. CASE peer' = [peer EXCEPT !.state = "CLOSED"]
      <4>1. peer' \in Peers
        BY <1>1, <3>2, Zenon DEF Peers
      <4> QED BY <1>1, <2>1, <3>2, <4>1 DEF Peers
    <3> QED BY <2>1, <3>1, <3>2, Zenon
  <2>2. CASE UNCHANGED peer /\ Say(PeerAck(peer))
    BY <1>1, <2>2, Zenon DEF Say
  <2>3. CASE /\ Say(PeerAck(peer'))
             /\ peer' = IF d.seqno = peer.rcv_nxt
                        THEN [peer EXCEPT !.state = "TIME_WAIT", !.acked = TRUE,
                                          !.rcv_nxt = Plus(@, 1)]
                        ELSE peer
    <3>1. CASE peer' = peer
      BY <1>1, <2>3, <3>1, Zenon DEF Say
    <3>2. CASE peer' = [peer EXCEPT !.state = "TIME_WAIT", !.acked = TRUE,
                                    !.rcv_nxt = Plus(peer.rcv_nxt, 1)]
      <4>1. Plus(peer.rcv_nxt, 1) \in SeqNo
        BY <1>1, PeerFields, SeqNoNext, Zenon
      <4>2. peer' \in Peers
        BY <1>1, <3>2, <4>1, Zenon DEF Peers
      <4>3. peer'.inc = peer.inc /\ peer'.state = "TIME_WAIT"
        BY <1>1, <3>2, <4>2 DEF Peers
      <4> QED BY <2>3, <4>2, <4>3, Zenon DEF Say
    <3> QED BY <2>3, <3>1, <3>2, Zenon
  <2>4. CASE /\ peer' = [peer EXCEPT !.acked = @ \/ d.ackno = PeerNxt(peer)]
             /\ UNCHANGED up
    <3>1. PICK b \in BOOLEAN : b = (peer.acked \/ d.ackno = PeerNxt(peer))
      BY Zenon
    <3>2. peer' = [peer EXCEPT !.acked = b]
      BY <2>4, <3>1, Zenon
    <3>3. peer' \in Peers
      BY <1>1, <3>2, Zenon DEF Peers
    <3>4. peer'.inc = peer.inc /\ peer'.state = peer.state /\ peer'.sent = peer.sent
      BY <1>1, <3>2, <3>3 DEF Peers
    <3>5. peer'.acked = b
      BY <1>1, <3>2, Zenon DEF Peers
    <3> QED BY <2>4, <3>1, <3>3, <3>4, <3>5, Zenon
  <2> QED BY <2>1, <2>2, <2>3, <2>4, Zenon DEF PeerOpenInput
<1>3. PeerLocal /\ (peer.state = "ESTABLISHED" /\ ~peer.acked => peer.sent > 0)
  BY Zenon DEF IndInv, PeerInv, PeerLocal
<1>4. PeerLocal'
  BY <1>1, <1>2, <1>3, Zenon DEF PeerLocal
<1>5. PeerMoves
  BY <1>1, <1>2, <1>4, Zenon DEF PeerMoves
<1>6. CASE up' = up
  BY <1>5, <1>6, Zenon DEF Speaks
<1>7. CASE up' = Append(up, PeerAck(peer'))
  <2>1. PICK s : s = PeerAck(peer')
    BY Zenon
  <2>2. up' = Append(up, s)
    BY <1>7, <2>1, Zenon
  <2>3. /\ s \in Segments /\ s.inc = peer.inc /\ s.flags = {"ACK"} /\ s.len = 0
    BY <1>1, <1>2, <2>1, PeerAckFields, Zenon
  <2>4. s.len # 1
    BY <2>3
  <2>5. Sends(s)
    BY <1>1, <1>2, <2>2, <2>3, <2>4, SendsAck, Zenon
  <2> QED BY <1>5, <2>5, Zenon DEF Speaks
<1> QED BY <1>2, <1>6, <1>7, Zenon

-----------------------------------------------------------------------------
(* The segment tcp_input is about to take *)

\* It is a segment the local machine may send.
LEMMA UpHead ==
    ASSUME IndInv, up # <<>>
    PROVE Head(up) \in Segments /\ UpSegment(Head(up))
<1>1. up \in Seq({u \in Segments : UpSegment(u)})
  BY Zenon DEF IndInv, UpInv
<1>2. Head(up) \in {u \in Segments : UpSegment(u)}
  BY <1>1, QueueOps, Zenon
<1> QED BY <1>2

\* Where lwIP has reached incarnation i, a segment that is taken or sent is not of
\* an earlier one.
LEMMA NotBeforeHead ==
    ASSUME NEW i, Reached(i), up # <<>>
    PROVE /\ Head(up) \in NotBefore(i) /\ Tail(up) \in Seq(NotBefore(i))
          /\ Head(up).inc = 0 \/ i <= Head(up).inc
<1>1. up \in Seq(NotBefore(i))
  BY Zenon DEF Reached
<1>2. Head(up) \in NotBefore(i) /\ Tail(up) \in Seq(NotBefore(i))
  BY <1>1, QueueOps, Zenon
<1> QED BY <1>2 DEF NotBefore

\* A pcb waits for a number of its incarnation.
LEMMA PcbWaits ==
    ASSUME IndInv, pcb.state # "NONE"
    PROVE /\ Reached(pcb.inc) /\ pcb.inc \in Incs
          /\ pcb.rcv_nxt \in Numbers(pcb.inc)
<1>1. PcbInv /\ pcb \in Pcbs
  BY DEF IndInv, TypeOK
<1>2. Reached(pcb.inc) /\ pcb.inc \in Incs
  BY <1>1, Zenon DEF PcbInv, Reached
<1>3. pcb.state \in {"SYN_RCVD", "ESTABLISHED", "LAST_ACK"}
  BY <1>1, PcbFields
<1>4. CASE pcb.state = "SYN_RCVD"
  <2>1. pcb.rcv_nxt = Number(pcb.inc, 1)
    BY <1>1, <1>4, Zenon DEF PcbInv
  <2>2. 1 \in Places
    BY Constants DEF Places
  <2> QED BY <1>2, <2>1, <2>2, Zenon DEF Numbers
<1>5. CASE pcb.state = "ESTABLISHED"
  <2>1. Len(got) <= MaxBytes /\ pcb.rcv_nxt = Number(pcb.inc, Len(got) + 1)
    BY <1>1, <1>5, Zenon DEF PcbInv
  <2>2. Len(got) \in Nat
    BY SeqLen DEF IndInv, TypeOK
  <2>3. Len(got) + 1 \in Places
    BY <2>1, <2>2, Constants DEF Places
  <2> QED BY <1>2, <2>1, <2>3, Zenon DEF Numbers
<1>6. CASE pcb.state = "LAST_ACK"
  <2>1. pcb.rcv_nxt \in Numbers(pcb.inc)
    BY <1>1, <1>6, Zenon DEF PcbInv
  <2> QED BY <1>2, <1>6, <2>1
<1> QED BY <1>3, <1>4, <1>5, <1>6

\* An acknowledgement that meets a pcb is of the pcb's incarnation.
LEMMA AckOfPcb ==
    ASSUME IndInv, up # <<>>, "ACK" \in Head(up).flags, pcb.state # "NONE"
    PROVE Head(up).inc = pcb.inc /\ Head(up).inc \in opened
<1>1. Head(up).inc \in opened /\ Head(up).inc \in Incs
  BY UpHead, Zenon DEF UpSegment, IndInv, PeerInv, Reached
<1>2. Reached(pcb.inc) /\ pcb.inc \in Incs /\ Reached(Head(up).inc)
  BY <1>1, PcbWaits, Zenon DEF IndInv, PeerInv
<1>3. Head(up).inc <= pcb.inc
  BY <1>2, Zenon DEF Reached
<1>4. Head(up).inc = 0 \/ pcb.inc <= Head(up).inc
  BY <1>2, NotBeforeHead, Zenon
<1> QED BY <1>1, <1>2, <1>3, <1>4 DEF Incs

\* A reset that is acceptable to a pcb shows that its incarnation is given up.
LEMMA ResetOfPcb ==
    ASSUME IndInv, up # <<>>, "RST" \in Head(up).flags, pcb.state # "NONE",
           Head(up).seqno = pcb.rcv_nxt
    PROVE GivenUp(pcb.inc)
<1>1. PICK i \in Incs : GivenUp(i) /\ Head(up).seqno \in Numbers(i)
  BY UpHead, Zenon DEF UpSegment
<1>2. pcb.inc \in Incs /\ pcb.rcv_nxt \in Numbers(pcb.inc)
  BY PcbWaits, Zenon
<1>3. PICK n \in Places : pcb.rcv_nxt = Number(i, n)
  BY <1>1, Zenon DEF Numbers
<1>4. PICK m \in Places : pcb.rcv_nxt = Number(pcb.inc, m)
  BY <1>2, Zenon DEF Numbers
<1>5. n \in 0 .. MaxBytes + 2 /\ m \in 0 .. MaxBytes + 2
  BY Constants DEF Places
<1>6. i = pcb.inc
  BY <1>2, <1>3, <1>4, <1>5, NumbersApart, Zenon
<1> QED BY <1>1, <1>6

\* What tcp_input does with it
LEMMA InputStep ==
    ASSUME IndInv, tcp_input
    PROVE \E u \in Segments :
              /\ up # <<>> /\ u = Head(up) /\ UpSegment(u)
              /\ up' = Tail(up) /\ UNCHANGED <<peer, opened, lost>>
              /\ \/ Refuses \/ Stays \/ Opens(u) \/ Resets(u) \/ Frees
                 \/ Receives(u)
<1>1. up # <<>> /\ up' = Tail(up) /\ UNCHANGED <<peer, opened, lost>>
  BY Zenon DEF tcp_input
<1>2. PICK u \in Segments : u = Head(up)
  BY <1>1, UpHead, Zenon
<1>3. UpSegment(u)
  BY <1>1, <1>2, UpHead, Zenon
<1>4. TypeOK /\ PcbInv
  BY DEF IndInv
<1>5. Refuses \/ Stays \/ Opens(u) \/ Resets(u) \/ Frees \/ Receives(u)
  BY <1>2, <1>4, InputEffect, Zenon
<1> QED BY <1>1, <1>2, <1>3, <1>5, Zenon

-----------------------------------------------------------------------------
(* What a step of the system does to each part of the state *)

\* The local machine moves, or stays.
LEMMA PeerStep ==
    ASSUME IndInv, Next PROVE PeerMoves
<1>1. CASE tcp_input \/ tcp_recved \/ SessionEnds \/ Lose
  <2>1. UNCHANGED <<peer, opened>>
    BY <1>1, Zenon DEF tcp_input, tcp_recved, SessionEnds, Lose
  <2> QED BY <2>1, PeerStays, Zenon
<1>2. CASE PeerInput
  <2>1. Head(down) \in Segments /\ DownSegment(Head(down))
    BY <1>2, DownHead, Zenon DEF PeerInput
  <2> QED BY <1>2, <2>1, PeerRefuseEffect, PeerSynSentEffect, PeerOpenInputEffect, Zenon
          DEF PeerInput
<1> QED BY <1>1, <1>2, PeerOpenEffect, PeerSendEffect, PeerFinishEffect,
           PeerRetransmitEffect, PeerAbortEffect, Zenon DEF Next

\* A segment is taken from the queue to lwIP, or put into it.
LEMMA UpStep ==
    ASSUME IndInv, Next
    PROVE up' = up \/ (up # <<>> /\ up' = Tail(up)) \/ \E s : Sends(s)
<1>1. CASE tcp_input \/ tcp_recved \/ SessionEnds \/ Lose
  BY <1>1, Zenon DEF tcp_input, tcp_recved, SessionEnds, Lose
<1>2. CASE PeerInput
  <2>1. Head(down) \in Segments /\ DownSegment(Head(down))
    BY <1>2, DownHead, Zenon DEF PeerInput
  <2>2. Speaks
    BY <1>2, <2>1, PeerRefuseEffect, PeerSynSentEffect, PeerOpenInputEffect, Zenon
       DEF PeerInput
  <2> QED BY <2>2, Zenon DEF Speaks
<1> QED BY <1>1, <1>2, PeerOpenEffect, PeerSendEffect, PeerFinishEffect,
           PeerRetransmitEffect, PeerAbortEffect, Zenon DEF Next, Speaks

\* The steps that are not tcp_input's and tcp_recved's leave the pcb and what its
\* session was given alone.
LEMMA PcbKept ==
    ASSUME Next, ~tcp_input, ~tcp_recved
    PROVE UNCHANGED <<pcb, got, closed>>
BY Zenon DEF Next, SessionEnds, PeerOpen, PeerSend, PeerFinish, PeerRetransmit,
   PeerAbort, PeerAlone, PeerInput, Lose

\* tcp_recved gives the window a byte back, and may tell the local machine.
LEMMA RecvedEffect ==
    ASSUME IndInv, tcp_recved
    PROVE /\ pcb' \in Pcbs /\ pcb'.state = pcb.state /\ pcb'.inc = pcb.inc
          /\ pcb'.rcv_nxt = pcb.rcv_nxt /\ pcb'.rcv_wnd = pcb.rcv_wnd + 1
          /\ UNCHANGED <<session, got, closed, peer>> /\ pcb.state = "ESTABLISHED"
          /\ Says(pcb.rcv_nxt)
<1>1. pcb \in Pcbs /\ UNCHANGED <<session, got, closed, peer>>
  BY Zenon DEF IndInv, TypeOK, tcp_recved
<1>2. PICK w : w = pcb.rcv_wnd + 1
  OBVIOUS
<1>3. w \in 0 .. TCP_WND
  BY <1>1, <1>2, PcbFields, Constants DEF tcp_recved
<1> DEFINE p == [pcb EXCEPT !.rcv_wnd = w]
<1>4. /\ p \in Pcbs /\ p.state = pcb.state /\ p.inc = pcb.inc
      /\ p.rcv_nxt = pcb.rcv_nxt /\ p.rcv_wnd = w
  BY <1>1, <1>3, Zenon DEF Pcbs
<1>5. p = [pcb EXCEPT !.rcv_wnd = @ + 1]
  BY <1>2
<1>6. PICK update \in BOOLEAN : AckIf(update, p)
  BY <1>5, Zenon DEF tcp_recved
<1> HIDE DEF p
<1>7. Alike(p, pcb') /\ Says(p.rcv_nxt)
  BY <1>4, <1>6, AckIfEffect, Zenon
<1>8. pcb.state = "ESTABLISHED"
  BY DEF IndInv, AcceptedIsOpen, tcp_recved
<1> QED BY <1>1, <1>2, <1>4, <1>7, <1>8, Zenon DEF Alike

\* The pcb keeps its incarnation while there is one, and a new pcb has that of
\* the SYN.
PcbMoves ==
    \/ pcb'.state = "NONE"
    \/ pcb.state # "NONE" /\ pcb'.inc = pcb.inc
    \/ /\ pcb.state = "NONE" /\ up # <<>> /\ Head(up).flags = {"SYN"}
       /\ pcb'.inc = Head(up).inc /\ pcb'.rcv_nxt = Plus(Head(up).seqno, 1)
       /\ pcb'.state = "SYN_RCVD" /\ pcb'.rcv_wnd = TCP_WND

\* The fields of a new pcb
LEMMA NewPcbFields ==
    ASSUME NEW u \in Segments
    PROVE /\ NewPcb(u) \in Pcbs /\ NewPcb(u).state = "SYN_RCVD"
          /\ NewPcb(u).inc = u.inc /\ NewPcb(u).rcv_nxt = Plus(u.seqno, 1)
          /\ NewPcb(u).rcv_wnd = TCP_WND
<1>1. /\ Plus(u.seqno, 1) \in SeqNo /\ Plus(ISS, 1) \in SeqNo /\ ISS \in SeqNo
      /\ u.inc \in 0 .. MaxInc
  BY SegmentFields, SeqNoNext, Constants, Zenon
<1>2. TCP_WND \in 0 .. TCP_WND /\ 0 \in 0 .. 3
  BY Constants
<1> QED BY SMTT(30), <1>1, <1>2 DEF NewPcb, Pcbs

\* Every step moves the pcb like this.
LEMMA PcbStep ==
    ASSUME IndInv, Next PROVE pcb' \in Pcbs /\ PcbMoves
<1>1. (pcb \in Pcbs /\ pcb.state # "NONE") \/ pcb = NoPcb
  BY Zenon DEF IndInv, TypeOK, PcbInv
<1>2. CASE tcp_input
  <2>1. PICK u \in Segments :
            /\ up # <<>> /\ u = Head(up)
            /\ \/ Refuses \/ Stays \/ Opens(u) \/ Resets(u) \/ Frees
               \/ Receives(u)
    BY <1>2, InputStep, Zenon
  <2>2. CASE Stays
    BY <1>1, <2>2, Zenon DEF Stays, Quiet, Alike, PcbMoves
  <2>3. CASE Opens(u)
    BY <2>1, <2>3, NewPcbFields, Zenon DEF Opens, PcbMoves
  <2>4. CASE Refuses \/ Resets(u) \/ Frees
    BY <2>4, NoPcbType, Zenon DEF Refuses, Resets, Frees, PcbMoves
  <2>5. CASE Receives(u)
    <3>1. PICK p, ses : /\ Established(p, ses)
                        /\ Quiet(p, ses) \/ Byte(p, u, ses) \/ Ends(p, u, ses)
      BY <2>5, Zenon DEF Receives
    <3>2. pcb.state # "NONE" /\ p.inc = pcb.inc
      BY <3>1, Zenon DEF Established
    <3> QED BY <3>1, <3>2, NoPcbType, Zenon DEF Quiet, Byte, Ends, Alike, PcbMoves
  <2> QED BY <2>1, <2>2, <2>3, <2>4, <2>5, Zenon
<1>3. CASE tcp_recved
  BY <1>3, RecvedEffect, Zenon DEF PcbMoves
<1>4. CASE ~tcp_input /\ ~tcp_recved
  <2>1. pcb' = pcb
    BY <1>4, PcbKept, Zenon
  <2> QED BY <1>1, <2>1, NoPcbType, Zenon DEF PcbMoves
<1> QED BY <1>2, <1>3, <1>4


\* An incarnation that lwIP has reached stays reached.
LEMMA ReachedStep ==
    ASSUME IndInv, Next, NEW i, Reached(i) PROVE Reached(i)'
<1>1. peer \in Peers /\ peer' \in Peers /\ peer.inc <= peer'.inc
  BY PeerStep, PeerKnows, Zenon DEF PeerMoves
<1>2. i \in Incs /\ i <= peer.inc /\ (pcb.state # "NONE" => i <= pcb.inc)
      /\ up \in Seq(NotBefore(i))
  BY Zenon DEF Reached
<1>3. i <= peer'.inc
  BY <1>1, <1>2, PeerFields DEF Incs
<1>4. pcb'.state # "NONE" => i <= pcb'.inc
  <2>1. PcbMoves
    BY PcbStep
  <2>2. CASE pcb'.state = "NONE"
    BY <2>2
  <2>3. CASE pcb.state # "NONE" /\ pcb'.inc = pcb.inc
    BY <1>2, <2>3, Zenon
  <2>4. CASE up # <<>> /\ Head(up).flags = {"SYN"} /\ pcb'.inc = Head(up).inc
    <3>1. Head(up).inc # 0
      <4>1. {"SYN"} # {"RST"}
        OBVIOUS
      <4> QED BY <2>4, <4>1, UpHead, Zenon DEF UpSegment
    <3> QED BY <2>4, <3>1, NotBeforeHead, Zenon
  <2> QED BY <2>1, <2>2, <2>3, <2>4, Zenon DEF PcbMoves
<1>5. up' \in Seq(NotBefore(i))
  <2>1. CASE up' = up
    BY <1>2, <2>1
  <2>2. CASE up # <<>> /\ up' = Tail(up)
    BY <2>2, NotBeforeHead, Zenon
  <2>3. ASSUME NEW s, Sends(s) PROVE up' \in Seq(NotBefore(i))
    <3>1. up' = Append(up, s) /\ s \in NotBefore(i)
      BY <1>3, <2>3, Zenon DEF Sends, NotBefore
    <3> QED BY <1>2, <3>1, QueueOps, Zenon
  <2> QED BY <2>1, <2>2, <2>3, UpStep, Zenon
<1> QED BY <1>2, <1>3, <1>4, <1>5, Zenon DEF Reached

\* An incarnation that the local machine has given up stays given up.
LEMMA GivenUpStep ==
    ASSUME IndInv, Next, NEW i, GivenUp(i) PROVE GivenUp(i)'
<1>1. /\ peer \in Peers /\ peer' \in Peers /\ peer.inc <= peer'.inc
      /\ peer.state = "CLOSED" /\ peer'.inc = peer.inc => peer'.state = "CLOSED"
  BY PeerStep, PeerKnows, Zenon DEF PeerMoves
<1>2. peer.inc \in 0 .. MaxInc /\ peer'.inc \in 0 .. MaxInc
  BY <1>1, PeerFields, Zenon
<1>3. i \in Incs /\ (i < peer.inc \/ (i = peer.inc /\ peer.state = "CLOSED"))
  BY Zenon DEF GivenUp
<1>4. i < peer'.inc \/ (i = peer'.inc /\ peer'.state = "CLOSED")
  BY <1>1, <1>2, <1>3 DEF Incs
<1> QED BY <1>3, <1>4, Zenon DEF GivenUp

\* So what was right to send stays right.
LEMMA UpSegmentStep ==
    ASSUME IndInv, Next, NEW u \in Segments, UpSegment(u) PROVE UpSegment(u)'
<1>1. /\ peer \in Peers /\ peer' \in Peers /\ peer.inc <= peer'.inc
      /\ opened \subseteq opened'
  BY PeerStep, PeerKnows, Zenon DEF PeerMoves
<1>2. u.inc <= peer'.inc
  <2>1. u.inc <= peer.inc /\ u.inc \in 0 .. MaxInc
    BY SegmentFields, Zenon DEF UpSegment
  <2> QED BY <1>1, <2>1, PeerFields
<1>3. "RST" \in u.flags => (\E i \in Incs : GivenUp(i) /\ u.seqno \in Numbers(i))'
  <2>1. SUFFICES ASSUME "RST" \in u.flags
                 PROVE (\E i \in Incs : GivenUp(i) /\ u.seqno \in Numbers(i))'
    OBVIOUS
  <2>2. PICK i \in Incs : GivenUp(i) /\ u.seqno \in Numbers(i)
    BY <2>1, Zenon DEF UpSegment
  <2>3. GivenUp(i)'
    BY <2>2, GivenUpStep, Zenon
  <2> QED BY <2>2, <2>3, Zenon DEF Incs, Numbers, Number
<1> QED BY <1>1, <1>2, <1>3, Zenon DEF UpSegment

\* The queue to lwIP stays in order.
LEMMA UpInvStep ==
    ASSUME IndInv, Next PROVE UpInv'
<1> DEFINE S == {u \in Segments : UpSegment(u)}
           T == {u \in Segments : UpSegment(u)'}
<1>1. up \in Seq(S) /\ up \in Seq(Segments) /\ \A u \in S : u.inc <= peer.inc
  BY Zenon DEF IndInv, TypeOK, UpInv, UpSegment
<1>2. S \subseteq T
  BY UpSegmentStep, Zenon
<1> HIDE DEF S
<1>3. up \in Seq(T)
  BY <1>1, <1>2, SeqWider, Zenon
<1>4. up' \in Seq(T)
  <2>1. CASE up' = up
    BY <1>3, <2>1
  <2>2. CASE up # <<>> /\ up' = Tail(up)
    BY <1>3, <2>2, QueueOps, Zenon
  <2>3. ASSUME NEW s, Sends(s) PROVE up' \in Seq(T)
    <3>1. s \in T /\ up' = Append(up, s)
      BY <2>3, Zenon DEF Sends
    <3> HIDE DEF T
    <3> QED BY <1>3, <3>1, QueueOps, Zenon
  <2> QED BY <2>1, <2>2, <2>3, UpStep, Zenon
<1> DEFINE Sorted(q) == \A k, l \in 1 .. Len(q) :
               k < l /\ q[k].inc # 0 /\ q[l].inc # 0 => q[k].inc <= q[l].inc
<1>5. Sorted(up)
  BY Zenon DEF IndInv, UpInv
<1>6. \A k \in 1 .. Len(up) : up[k].inc <= peer.inc /\ up[k].inc \in 0 .. MaxInc
  <2>1. \A k \in 1 .. Len(up) : up[k] \in S /\ up[k] \in Segments
    BY <1>1, SeqElement, Zenon
  <2> QED BY <1>1, <2>1, SegmentFields, Zenon
<1>7. Len(up) \in Nat
  BY <1>1, SeqLen, Zenon
<1>8. Sorted(up')
  <2>1. CASE up' = up
    BY <1>5, <2>1, Zenon
  <2>2. CASE up # <<>> /\ up' = Tail(up)
    <3>1. /\ Len(up') = Len(up) - 1
          /\ \A k \in 1 .. Len(up') : up'[k] = up[k + 1]
      BY <1>1, <2>2, HeadTailSeq
    <3>2. SUFFICES ASSUME NEW k \in 1 .. Len(up'), NEW l \in 1 .. Len(up'),
                          k < l, up'[k].inc # 0, up'[l].inc # 0
                   PROVE up'[k].inc <= up'[l].inc
      BY Zenon
    <3>3. k + 1 \in 1 .. Len(up) /\ l + 1 \in 1 .. Len(up) /\ k + 1 < l + 1
      BY <1>7, <3>1, <3>2
    <3>4. up'[k] = up[k + 1] /\ up'[l] = up[l + 1]
      BY <3>1, <3>2, Zenon
    <3> QED BY <1>5, <3>2, <3>3, <3>4, Zenon
  <2>3. ASSUME NEW s, Sends(s) PROVE Sorted(up')
    <3>1. up' = Append(up, s) /\ (s.inc = 0 \/ s.inc = peer'.inc)
      BY <2>3, Zenon DEF Sends
    <3>2. /\ Len(up') = Len(up) + 1 /\ up'[Len(up) + 1] = s
          /\ \A k \in 1 .. Len(up) : up'[k] = up[k]
      BY <1>1, <2>3, <3>1, AppendSeq DEF Sends
    <3>3. SUFFICES ASSUME NEW k \in 1 .. Len(up'), NEW l \in 1 .. Len(up'),
                          k < l, up'[k].inc # 0, up'[l].inc # 0
                   PROVE up'[k].inc <= up'[l].inc
      BY Zenon
    <3>4. k \in 1 .. Len(up) /\ up'[k] = up[k]
      <4>1. k \in 1 .. Len(up)
        BY <1>7, <3>2, <3>3
      <4> QED BY <3>2, <4>1, Zenon
    <3>5. CASE l \in 1 .. Len(up)
      BY <1>5, <3>2, <3>3, <3>4, <3>5, Zenon
    <3>6. CASE l = Len(up) + 1
      <4>1. up'[l].inc = peer'.inc
        BY <3>1, <3>2, <3>3, <3>6, Zenon
      <4>2. peer \in Peers /\ peer' \in Peers /\ peer.inc <= peer'.inc
        BY PeerStep, PeerKnows, Zenon DEF PeerMoves
      <4>3. up[k].inc <= peer.inc /\ up[k].inc \in 0 .. MaxInc
        BY <1>6, <3>4, Zenon
      <4> QED BY SMTT(30), <3>4, <4>1, <4>2, <4>3, PeerFields
    <3> QED BY <1>7, <3>2, <3>3, <3>5, <3>6
  <2> QED BY <2>1, <2>2, <2>3, UpStep, Zenon
<1> QED BY <1>4, <1>8, Zenon DEF UpInv

-----------------------------------------------------------------------------
(* The pcb and what it was given *)

\* Where a pcb is in the numbers of its incarnation
LEMMA PcbPlace ==
    ASSUME IndInv, pcb.state # "NONE"
    PROVE \E n \in Places :
              /\ pcb.rcv_nxt = Number(pcb.inc, n)
              /\ pcb.state = "SYN_RCVD" => n = 1
              /\ pcb.state \in {"SYN_RCVD", "ESTABLISHED"} =>
                     /\ n = Len(got) + 1 /\ n <= MaxBytes + 1
                     /\ TCP_WND <= pcb.rcv_wnd + Len(got)
<1>1. PcbInv /\ pcb \in Pcbs
  BY DEF IndInv, TypeOK
<1>2. pcb.state \in {"SYN_RCVD", "ESTABLISHED", "LAST_ACK"}
  BY <1>1, PcbFields
<1>3. CASE pcb.state = "SYN_RCVD"
  <2>1. /\ pcb.rcv_nxt = Number(pcb.inc, 1) /\ pcb.rcv_wnd = TCP_WND /\ got = <<>>
    BY <1>1, <1>3 DEF PcbInv
  <2>2. Len(got) = 0
    BY <2>1
  <2>3. /\ 1 \in Places /\ 1 = Len(got) + 1 /\ 1 <= MaxBytes + 1
        /\ TCP_WND <= pcb.rcv_wnd + Len(got)
    BY <2>1, <2>2, Constants DEF Places
  <2> QED BY <2>1, <2>3, Zenon
<1>4. CASE pcb.state = "ESTABLISHED"
  <2>1. /\ Len(got) <= MaxBytes /\ pcb.rcv_nxt = Number(pcb.inc, Len(got) + 1)
        /\ TCP_WND <= pcb.rcv_wnd + Len(got)
    BY <1>1, <1>4, Zenon DEF PcbInv
  <2>2. Len(got) \in Nat
    BY SeqLen DEF IndInv, TypeOK
  <2>3. Len(got) + 1 \in Places /\ Len(got) + 1 <= MaxBytes + 1
    BY <2>1, <2>2, Constants DEF Places
  <2>4. pcb.state # "SYN_RCVD"
    BY <1>4
  <2> QED BY <2>1, <2>3, <2>4, Zenon
<1>5. CASE pcb.state = "LAST_ACK"
  <2>1. pcb.rcv_nxt \in Numbers(pcb.inc)
    BY <1>1, <1>5, Zenon DEF PcbInv
  <2>2. pcb.state # "SYN_RCVD" /\ pcb.state \notin {"SYN_RCVD", "ESTABLISHED"}
    BY <1>5
  <2> QED BY <2>1, <2>2, Zenon DEF Numbers
<1> QED BY <1>2, <1>3, <1>4, <1>5

\* A segment that is received acknowledges, so it is of the pcb's incarnation,
\* which the local machine saw established.
LEMMA ReceivesOwn ==
    ASSUME IndInv, up # <<>>, Receives(Head(up))
    PROVE /\ pcb.state \in {"SYN_RCVD", "ESTABLISHED"} /\ pcb.state # "NONE"
          /\ Head(up).inc = pcb.inc /\ pcb.inc \in opened
<1>1. pcb.state \in {"SYN_RCVD", "ESTABLISHED"} /\ pcb.state # "NONE"
  BY DEF Receives, Established
<1>2. "RST" \notin Head(up).flags /\ ("ACK" \in Head(up).flags \/ "SYN" \notin Head(up).flags)
  BY Zenon DEF Receives
<1>3. Head(up).flags \cap {"ACK", "RST", "SYN"} # {}
  BY UpHead, Zenon DEF UpSegment
<1>4. "ACK" \in Head(up).flags
  BY <1>2, <1>3
<1> QED BY <1>1, <1>4, AckOfPcb, Zenon

\* The incarnation the local machine is opening was not established.
LEMMA OpeningNotOpened ==
    ASSUME IndInv, peer.state = "SYN_SENT"
    PROVE peer.inc \notin opened /\ ~GivenUp(peer.inc)
<1>1. peer.inc \notin opened /\ peer.inc \in 0 .. MaxInc
  BY PeerKnows, PeerFields DEF IndInv, PeerInv, PeerLocal
<1>2. ~(peer.inc < peer.inc)
  BY <1>1
<1> QED BY <1>1, <1>2 DEF GivenUp

\* lwIP reaches the incarnation of a SYN by making a pcb for it.
LEMMA OpensReached ==
    ASSUME IndInv, up # <<>>, up' = Tail(up), UNCHANGED peer,
           NEW u \in Segments, u = Head(up), Opens(u)
    PROVE /\ Reached(u.inc)' /\ u.inc \in Incs
          /\ Plus(u.seqno, 1) = Number(u.inc, 1)
          /\ pcb'.state = "SYN_RCVD" /\ pcb'.inc = u.inc
          /\ pcb'.rcv_nxt = Number(u.inc, 1) /\ pcb'.rcv_wnd = TCP_WND
<1>1. u = Head(up) /\ UpSegment(u)
  BY UpHead, Zenon
<1>2. u.flags = {"SYN"} /\ pcb' = NewPcb(u)
  BY <1>1, Zenon DEF Opens
<1>3. u.inc # 0 /\ u.seqno = PeerISS[u.inc] /\ u.inc <= peer.inc
  BY Zenon, <1>1, <1>2 DEF UpSegment
<1>4. u.inc \in Incs
  BY SMTT(30), <1>3, SegmentFields, Constants DEF Incs
<1>5. /\ pcb'.state = "SYN_RCVD" /\ pcb'.inc = u.inc
      /\ pcb'.rcv_nxt = Plus(u.seqno, 1) /\ pcb'.rcv_wnd = TCP_WND
  BY <1>2, NewPcbFields, Zenon
<1>6. Plus(u.seqno, 1) = Number(u.inc, 1)
  BY <1>3, Zenon DEF Number
<1>7. Tail(up) \in Seq(NotBefore(u.inc))
  <2>1. up \in Seq(Segments) /\ Len(up) \in Nat
    BY Zenon, SeqLen DEF IndInv, TypeOK
  <2>2. /\ Tail(up) \in Seq(Segments) /\ Len(Tail(up)) = Len(up) - 1
        /\ \A k \in 1 .. Len(Tail(up)) : Tail(up)[k] = up[k + 1]
    BY <2>1, HeadTailSeq
  <2>3. up[1] = u
    BY <1>1, <2>1
  <2>4. ASSUME NEW k \in 1 .. Len(Tail(up)) PROVE Tail(up)[k] \in NotBefore(u.inc)
    <3>1. k + 1 \in 1 .. Len(up) /\ 1 \in 1 .. Len(up) /\ 1 < k + 1
      BY <2>1, <2>2
    <3>2. up[k + 1].inc # 0 => u.inc <= up[k + 1].inc
      BY <1>3, <2>3, <3>1, Zenon DEF IndInv, UpInv
    <3>3. Tail(up)[k] = up[k + 1] /\ Tail(up)[k] \in Segments
      BY <2>2, SeqElement, Zenon
    <3> QED BY <3>2, <3>3, Zenon DEF NotBefore
  <2> QED BY <2>2, <2>4, SeqRange, Zenon
<1>8. Reached(u.inc)'
  <2>1. u.inc <= peer'.inc /\ (pcb'.state # "NONE" => u.inc <= pcb'.inc)
    BY <1>3, <1>4, <1>5 DEF Incs
  <2>2. up' \in Seq(NotBefore(u.inc))
    BY <1>7, Zenon
  <2> QED BY <1>4, <2>1, <2>2, Zenon DEF Reached
<1> QED BY <1>1, <1>4, <1>5, <1>6, <1>8, Zenon


\* A byte that is taken is the next one of the incarnation.
LEMMA ByteIsNext ==
    ASSUME IndInv, up # <<>>, Head(up).len = 1, Head(up).inc = pcb.inc,
           pcb.state \in {"SYN_RCVD", "ESTABLISHED"}, Head(up).seqno = pcb.rcv_nxt
    PROVE /\ Head(up).seqno = Number(pcb.inc, Len(got) + 1)
          /\ Len(got) \in Nat /\ Len(got) + 1 <= MaxBytes
<1>1. PICK k \in 1 .. MaxBytes : Head(up).seqno = Number(pcb.inc, k)
  BY UpHead, Zenon DEF UpSegment
<1>2. pcb.state # "NONE" /\ pcb.inc \in Incs
  BY PcbWaits
<1>3. PICK n \in Places : /\ pcb.rcv_nxt = Number(pcb.inc, n)
                          /\ n = Len(got) + 1
  BY <1>2, PcbPlace, Zenon
<1>4. k \in 0 .. MaxBytes + 2 /\ n \in 0 .. MaxBytes + 2
  BY Constants DEF Places
<1>5. k = n
  BY <1>1, <1>2, <1>3, <1>4, NumbersDistinct, Zenon
<1>6. Len(got) \in Nat
  BY Zenon, SeqLen DEF IndInv, TypeOK
<1>7. Len(got) + 1 <= MaxBytes
  BY <1>3, <1>5, Constants
<1> QED BY <1>3, <1>6, <1>7

\* The number after what a pcb takes is one of its incarnation.
LEMMA NextPlace ==
    ASSUME IndInv, pcb.state \in {"SYN_RCVD", "ESTABLISHED"}
    PROVE /\ pcb.inc \in Incs /\ Len(got) + 2 \in Places
          /\ Plus(pcb.rcv_nxt, 1) = Number(pcb.inc, Len(got) + 2)
<1>1. pcb.state # "NONE" /\ pcb.inc \in Incs
  BY PcbWaits
<1>2. PICK n \in Places : /\ pcb.rcv_nxt = Number(pcb.inc, n)
                          /\ n = Len(got) + 1 /\ n <= MaxBytes + 1
  BY <1>1, PcbPlace, Zenon
<1>3. Len(got) \in Nat
  BY SeqLen DEF IndInv, TypeOK
<1>4. n \in Nat /\ n + 1 = Len(got) + 2 /\ n + 1 \in Places
  BY <1>2, <1>3, Constants DEF Places
<1>5. Plus(Number(pcb.inc, n), 1) = Number(pcb.inc, n + 1)
  BY <1>1, <1>2, <1>4, NumberNext, Zenon
<1> QED BY <1>1, <1>2, <1>4, <1>5

\* PcbInv after a step that leaves the pcb's place as it is
LEMMA PcbInvQuiet ==
    ASSUME IndInv, Next, NEW p, Alike(p, pcb'), UNCHANGED got,
           Established(p, session') \/ (p = pcb /\ pcb.state # "NONE")
    PROVE PcbInv'
<1>1. /\ pcb.state # "NONE" /\ p.inc = pcb.inc /\ p.rcv_nxt = pcb.rcv_nxt
      /\ p.rcv_wnd = pcb.rcv_wnd
      /\ \/ p.state = pcb.state
         \/ pcb.state \in {"SYN_RCVD", "ESTABLISHED"} /\ p.state = "ESTABLISHED"
  BY DEF Established
<1>2. /\ pcb'.state = p.state /\ pcb'.inc = pcb.inc /\ pcb'.rcv_nxt = pcb.rcv_nxt
      /\ pcb'.rcv_wnd = pcb.rcv_wnd
  BY <1>1, Zenon DEF Alike
<1>3. PICK i : i = pcb.inc
  OBVIOUS
<1>4. Reached(i)'
  BY <1>1, <1>3, PcbWaits, ReachedStep, Zenon
<1>5. pcb'.state # "NONE"
  BY <1>1, <1>2
<1>6. PcbInv /\ got' = got
  BY DEF IndInv
<1>7. Reached(pcb.inc)'
  BY <1>2, <1>3, <1>4, Zenon DEF Reached
<1>8. pcb'.state = "SYN_RCVD" =>
          pcb'.rcv_nxt = Number(pcb'.inc, 1) /\ pcb'.rcv_wnd = TCP_WND
  <2>1. pcb'.state = "SYN_RCVD" => pcb.state = "SYN_RCVD"
    BY <1>1, <1>2
  <2> QED BY <1>2, <1>6, <2>1, Zenon DEF PcbInv
<1>9. pcb'.state = "ESTABLISHED" =>
           /\ Len(got') <= MaxBytes /\ pcb'.rcv_nxt = Number(pcb'.inc, Len(got') + 1)
           /\ TCP_WND <= pcb'.rcv_wnd + Len(got')
  <2>1. SUFFICES ASSUME pcb'.state = "ESTABLISHED"
        PROVE /\ Len(got) <= MaxBytes /\ pcb.rcv_nxt = Number(pcb.inc, Len(got) + 1)
              /\ TCP_WND <= pcb.rcv_wnd + Len(got)
    BY <1>2, <1>6, Zenon
  <2>2. pcb.state \in {"SYN_RCVD", "ESTABLISHED"}
    BY SMTT(30), <1>1, <1>2, <2>1
  <2>3. PICK n \in Places : /\ pcb.rcv_nxt = Number(pcb.inc, n)
                            /\ n = Len(got) + 1 /\ n <= MaxBytes + 1
                            /\ TCP_WND <= pcb.rcv_wnd + Len(got)
    BY <1>1, <2>2, PcbPlace, Zenon
  <2>4. Len(got) \in Nat
    BY SeqLen DEF IndInv, TypeOK
  <2>5. Len(got) <= MaxBytes
    BY <2>3, <2>4, Constants
  <2> QED BY <2>3, <2>5
<1>10. pcb'.state = "LAST_ACK" => pcb'.rcv_nxt \in Numbers(pcb'.inc)
  <2>1. pcb'.state = "LAST_ACK" => pcb.state = "LAST_ACK"
    BY Zenon, <1>1, <1>2
  <2> QED BY <1>2, <1>6, <2>1, Zenon DEF PcbInv
<1>11. pcb'.state # "ESTABLISHED" => got' = <<>>
  <2>1. pcb'.state # "ESTABLISHED" => pcb.state # "ESTABLISHED"
    BY Zenon, <1>1, <1>2
  <2> QED BY <1>6, <2>1, Zenon DEF PcbInv
<1> QED BY <1>5, <1>7, <1>8, <1>9, <1>10, <1>11, Zenon DEF PcbInv, Numbers, Number


\* PcbInv when there is no pcb
LEMMA PcbInvNone ==
    ASSUME pcb' = NoPcb, got' = <<>> PROVE PcbInv'
<1>1. pcb'.state = "NONE"
  BY NoPcbType
<1>2. /\ pcb'.state # "SYN_RCVD" /\ pcb'.state # "ESTABLISHED"
      /\ pcb'.state # "LAST_ACK"
  BY <1>1
<1>3. (IF pcb.state = "NONE" THEN pcb = NoPcb ELSE Reached(pcb.inc))'
  BY <1>1, Zenon DEF NoPcb
<1> QED BY <1>2, <1>3, Zenon DEF PcbInv

\* PcbInv when a byte is taken
LEMMA PcbInvByte ==
    ASSUME IndInv, Next, up # <<>>, Head(up).inc = pcb.inc, NEW p, NEW ses,
           Established(p, ses), Byte(p, Head(up), ses)
    PROVE PcbInv'
<1>1. /\ pcb.state \in {"SYN_RCVD", "ESTABLISHED"} /\ pcb.state # "NONE"
      /\ p.state = "ESTABLISHED" /\ p.inc = pcb.inc /\ p.rcv_nxt = pcb.rcv_nxt
      /\ p.rcv_wnd = pcb.rcv_wnd
  BY DEF Established
<1>2. /\ pcb'.state = "ESTABLISHED" /\ pcb'.inc = pcb.inc
      /\ pcb'.rcv_nxt = Plus(pcb.rcv_nxt, 1) /\ pcb'.rcv_wnd = pcb.rcv_wnd - 1
      /\ Head(up).len = 1 /\ Head(up).seqno = pcb.rcv_nxt
  BY <1>1, Zenon DEF Byte
<1>3. Len(got') = Len(got) + 1
  BY SMTT(30), AppendSeq DEF Byte, IndInv, TypeOK
<1>4. Len(got) \in Nat /\ Len(got) + 1 <= MaxBytes
  BY <1>1, <1>2, ByteIsNext, Zenon
<1>5. Plus(pcb.rcv_nxt, 1) = Number(pcb.inc, Len(got) + 2)
  BY <1>1, NextPlace, Zenon
<1>6. Len(got') + 1 = Len(got) + 2
  BY <1>3, <1>4
<1>7. pcb'.rcv_nxt = Number(pcb'.inc, Len(got') + 1)
  BY <1>2, <1>5, <1>6, Zenon
<1>8. TCP_WND <= pcb'.rcv_wnd + Len(got')
  <2>1. TCP_WND <= pcb.rcv_wnd + Len(got)
    BY <1>1, PcbPlace, Zenon
  <2>2. pcb.rcv_wnd \in 0 .. TCP_WND
    BY SMTT(30), PcbFields DEF IndInv, TypeOK
  <2> QED BY SMTT(30), <1>2, <1>3, <1>4, <2>1, <2>2, Constants
<1>9. PICK i : i = pcb.inc
  OBVIOUS
<1>10. Reached(i)'
  BY <1>1, <1>9, PcbWaits, ReachedStep, Zenon
<1>11. Reached(pcb.inc)'
  BY <1>2, <1>9, <1>10, Zenon DEF Reached
<1>12. /\ pcb'.state # "SYN_RCVD" /\ pcb'.state # "LAST_ACK" /\ pcb'.state # "NONE"
       /\ Len(got') <= MaxBytes
  BY <1>2, <1>3, <1>4
<1> QED BY <1>2, <1>7, <1>8, <1>11, <1>12, Zenon DEF PcbInv, Number

\* PcbInv when the connection ends
LEMMA PcbInvEnds ==
    ASSUME IndInv, Next, NEW p, NEW ses, NEW u, Established(p, ses), Ends(p, u, ses)
    PROVE PcbInv'
<1>1. /\ pcb.state \in {"SYN_RCVD", "ESTABLISHED"} /\ pcb.state # "NONE"
      /\ p.inc = pcb.inc /\ p.rcv_nxt = pcb.rcv_nxt
  BY DEF Established
<1>2. got' = <<>>
  BY Zenon DEF Ends, Clear
<1>3. CASE pcb' = NoPcb
  BY <1>2, <1>3, PcbInvNone, Zenon
<1>4. CASE /\ pcb'.state = "LAST_ACK" /\ pcb'.inc = p.inc
           /\ pcb'.rcv_nxt = Plus(p.rcv_nxt, 1)
  <2>1. pcb'.inc = pcb.inc /\ pcb'.rcv_nxt \in Numbers(pcb'.inc)
    BY <1>1, <1>4, NextPlace, Zenon DEF Numbers
  <2>2. PICK i : i = pcb.inc
    OBVIOUS
  <2>3. Reached(i)'
    BY <1>1, <2>2, PcbWaits, ReachedStep, Zenon
  <2>4. Reached(pcb.inc)'
    BY <2>1, <2>2, <2>3, Zenon DEF Reached
  <2>5. /\ pcb'.state # "SYN_RCVD" /\ pcb'.state # "ESTABLISHED"
        /\ pcb'.state # "NONE"
    BY <1>4
  <2> QED BY <1>2, <1>4, <2>1, <2>4, <2>5, Zenon DEF PcbInv, Numbers, Number
<1> QED BY <1>3, <1>4, Zenon DEF Ends

\* PcbInv when the listener makes a pcb
LEMMA PcbInvOpens ==
    ASSUME IndInv, up # <<>>, up' = Tail(up), UNCHANGED peer,
           NEW u \in Segments, u = Head(up), Opens(u)
    PROVE PcbInv'
<1>1. /\ Reached(u.inc)' /\ pcb'.state = "SYN_RCVD" /\ pcb'.inc = u.inc
      /\ pcb'.rcv_nxt = Number(u.inc, 1) /\ pcb'.rcv_wnd = TCP_WND
  BY OpensReached, Zenon
<1>2. Reached(pcb.inc)'
  BY <1>1, Zenon DEF Reached
<1>3. /\ pcb'.state # "LAST_ACK" /\ pcb'.state # "ESTABLISHED"
      /\ pcb'.state # "NONE" /\ pcb.state # "ESTABLISHED"
  BY SMTT(30), <1>1 DEF Opens
<1>4. got' = <<>>
  BY <1>3, Zenon DEF Opens, IndInv, PcbInv
<1> QED BY <1>1, <1>2, <1>3, <1>4, Zenon DEF PcbInv, Number

\* PcbInv when the window gets a byte back
LEMMA PcbInvRecved ==
    ASSUME IndInv, Next, tcp_recved PROVE PcbInv'
<1>1. /\ pcb.state = "ESTABLISHED" /\ pcb.state # "NONE"
      /\ pcb'.state = pcb.state /\ pcb'.inc = pcb.inc
      /\ pcb'.rcv_nxt = pcb.rcv_nxt /\ pcb'.rcv_wnd = pcb.rcv_wnd + 1 /\ got' = got
  BY RecvedEffect
<1>2. /\ Len(got) <= MaxBytes /\ pcb.rcv_nxt = Number(pcb.inc, Len(got) + 1)
      /\ TCP_WND <= pcb.rcv_wnd + Len(got)
  BY <1>1, Zenon DEF IndInv, PcbInv
<1>3. pcb.rcv_wnd \in 0 .. TCP_WND /\ Len(got) \in Nat
  BY SMTT(30), PcbFields, SeqLen DEF IndInv, TypeOK
<1>4. TCP_WND <= pcb'.rcv_wnd + Len(got')
  BY SMTT(30), <1>1, <1>2, <1>3, Constants
<1>5. PICK i : i = pcb.inc
  OBVIOUS
<1>6. Reached(i)'
  BY <1>1, <1>5, PcbWaits, ReachedStep, Zenon
<1>7. Reached(pcb.inc)'
  BY <1>1, <1>5, <1>6, Zenon DEF Reached
<1>8. /\ pcb'.state = "ESTABLISHED" /\ pcb'.state # "SYN_RCVD"
      /\ pcb'.state # "LAST_ACK" /\ pcb'.state # "NONE"
  BY <1>1
<1> QED BY <1>1, <1>2, <1>4, <1>7, <1>8, Zenon DEF PcbInv, Number

\* PcbInv is preserved.
LEMMA PcbInvStep ==
    ASSUME IndInv, Next PROVE PcbInv'
<1>1. /\ pcb \in Pcbs /\ (pcb.state = "NONE" => pcb = NoPcb)
      /\ (pcb.state # "ESTABLISHED" => got = <<>>)
  BY Zenon DEF IndInv, TypeOK, PcbInv
<1>2. CASE tcp_input
  <2>1. PICK u \in Segments :
            /\ up # <<>> /\ u = Head(up) /\ UpSegment(u)
            /\ up' = Tail(up) /\ UNCHANGED <<peer, opened, lost>>
            /\ \/ Refuses \/ Stays \/ Opens(u) \/ Resets(u) \/ Frees
               \/ Receives(u)
    BY <1>2, InputStep, Zenon
  <2>2. CASE Refuses \/ Resets(u) \/ Frees
    <3>1. pcb' = NoPcb
      BY <2>2, Zenon DEF Refuses, Resets, Frees
    <3>2. got' = <<>>
      <4>1. Refuses \/ Frees => pcb.state # "ESTABLISHED" /\ got' = got
        BY DEF Refuses, Frees
      <4> QED BY <1>1, <2>2, <4>1, Zenon DEF Resets, Clear
    <3> QED BY <3>1, <3>2, PcbInvNone, Zenon
  <2>3. CASE Stays
    <3>1. pcb.state # "NONE" /\ Alike(pcb, pcb') /\ UNCHANGED got
      BY <2>3, Zenon DEF Stays, Quiet
    <3>2. PICK p : p = pcb
      OBVIOUS
    <3> QED BY <3>1, <3>2, PcbInvQuiet, Zenon
  <2>4. CASE Opens(u)
    BY <2>1, <2>4, PcbInvOpens, Zenon
  <2>5. CASE Receives(u)
    <3>1. PICK p, ses : /\ Established(p, ses)
                        /\ Quiet(p, ses) \/ Byte(p, u, ses) \/ Ends(p, u, ses)
      BY <2>5, Zenon DEF Receives
    <3>2. CASE Quiet(p, ses)
      BY <3>1, <3>2, PcbInvQuiet, Zenon DEF Quiet
    <3>3. CASE Byte(p, u, ses)
      BY <2>1, <2>5, <3>1, <3>3, ReceivesOwn, PcbInvByte, Zenon
    <3>4. CASE Ends(p, u, ses)
      BY <3>1, <3>4, PcbInvEnds, Zenon
    <3> QED BY <3>1, <3>2, <3>3, <3>4, Zenon
  <2> QED BY <2>1, <2>2, <2>3, <2>4, <2>5, Zenon
<1>3. CASE tcp_recved
  BY <1>3, PcbInvRecved, Zenon
<1>4. CASE ~tcp_input /\ ~tcp_recved
  <2>1. pcb' = pcb /\ got' = got
    BY <1>4, PcbKept, Zenon
  <2>2. CASE pcb.state = "NONE"
    <3>1. got = <<>>
      BY <1>1, <2>2
    <3> QED BY <1>1, <2>1, <2>2, <3>1, PcbInvNone, Zenon
  <2>3. CASE pcb.state # "NONE"
    <3>1. Alike(pcb, pcb')
      BY <1>1, <2>1, Zenon DEF Alike
    <3>2. PICK p : p = pcb
      OBVIOUS
    <3> QED BY <2>1, <2>3, <3>1, <3>2, PcbInvQuiet, Zenon
  <2> QED BY <2>2, <2>3
<1> QED BY <1>2, <1>3, <1>4

-----------------------------------------------------------------------------
(* What lwIP sends *)

\* Answers with a number of an incarnation that lwIP has reached, and that the
\* local machine is not opening unless the answer is to its SYN
LEMMA RepliesDown ==
    ASSUME NEW i \in Incs, NEW n \in Places, Reached(i)',
           peer'.state = "SYN_SENT" /\ i = peer'.inc =>
               n = 1 /\ pcb'.state = "SYN_RCVD" /\ pcb'.inc = i,
           NEW x, x = Number(i, n), NEW d \in Replies(x)
    PROVE d \in Segments /\ DownSegment(d)'
<1>1. /\ d \in Segments
      /\ \/ "RST" \in d.flags /\ "SYN" \notin d.flags
         \/ "RST" \notin d.flags /\ d.ackno = x
  BY Zenon DEF Replies
<1>2. (\E j \in Incs, m \in Places :
           /\ Reached(j) /\ x = Number(j, m)
           /\ peer.state = "SYN_SENT" /\ j = peer.inc =>
                  m = 1 /\ pcb.state = "SYN_RCVD" /\ pcb.inc = j)'
  BY Zenon DEF Incs, Places, Number
<1>3. CASE "RST" \in d.flags /\ "SYN" \notin d.flags
  BY <1>1, <1>3, Zenon DEF DownSegment
<1>4. CASE "RST" \notin d.flags /\ d.ackno = x
  BY <1>1, <1>2, <1>4, Zenon DEF DownSegment
<1> QED BY SMTT(30), <1>1, <1>3, <1>4

\* The pcb that waits for the local machine to see its answer is kept: no segment of
\* the incarnation can establish it yet, and no reset has its number.
LEMMA SynRcvdKept ==
    ASSUME IndInv, Next, peer.state = "SYN_SENT", pcb.state = "SYN_RCVD",
           pcb.inc = peer.inc
    PROVE pcb'.state = "SYN_RCVD" /\ pcb'.inc = pcb.inc
<1>1. peer.inc \notin opened /\ ~GivenUp(peer.inc)
  BY OpeningNotOpened
<1>2. /\ pcb.state # "NONE" /\ pcb.state # "LAST_ACK" /\ pcb.state # "ESTABLISHED"
  OBVIOUS
<1>3. CASE tcp_input
  <2>1. PICK u \in Segments :
            /\ up # <<>> /\ u = Head(up)
            /\ \/ Refuses \/ Stays \/ Opens(u) \/ Resets(u) \/ Frees
               \/ Receives(u)
    BY <1>3, InputStep, Zenon
  <2>2. ~Refuses /\ ~Opens(u) /\ ~Frees
    BY <1>2, Zenon DEF Refuses, Opens, Frees
  <2>3. ~Resets(u)
    BY <1>1, <2>1, ResetOfPcb, Zenon DEF Resets
  <2>4. ~Receives(u)
    BY <1>1, <2>1, ReceivesOwn, Zenon
  <2> QED BY <2>1, <2>2, <2>3, <2>4, Zenon DEF Stays, Quiet, Alike
<1>4. CASE tcp_recved
  BY <1>2, <1>4, RecvedEffect, Zenon
<1>5. CASE ~tcp_input /\ ~tcp_recved
  BY <1>5, PcbKept, Zenon
<1> QED BY <1>3, <1>4, <1>5

\* What was right for lwIP to send stays right.
LEMMA DownSegmentStep ==
    ASSUME IndInv, Next, NEW d \in Segments, DownSegment(d) PROVE DownSegment(d)'
<1>1. CASE "RST" \in d.flags
  BY <1>1, Zenon DEF DownSegment
<1>2. CASE "RST" \notin d.flags
  <2>1. PICK i \in Incs, n \in Places :
            /\ Reached(i) /\ d.ackno = Number(i, n)
            /\ peer.state = "SYN_SENT" /\ i = peer.inc =>
                   n = 1 /\ pcb.state = "SYN_RCVD" /\ pcb.inc = i
    BY <1>2, Zenon DEF DownSegment
  <2>2. Reached(i)'
    BY <2>1, ReachedStep, Zenon
  <2>3. peer'.state = "SYN_SENT" /\ i = peer'.inc =>
            n = 1 /\ pcb'.state = "SYN_RCVD" /\ pcb'.inc = i
    <3>1. SUFFICES ASSUME peer'.state = "SYN_SENT", i = peer'.inc
                   PROVE n = 1 /\ pcb'.state = "SYN_RCVD" /\ pcb'.inc = i
      BY Zenon
    <3>2. /\ PeerMoves /\ peer \in Peers /\ peer' \in Peers /\ i <= peer.inc
          /\ peer.inc <= peer'.inc
      BY <2>1, PeerStep, PeerKnows, Zenon DEF PeerMoves, Reached
    <3>3. peer.inc = peer'.inc
      BY <3>1, <3>2, PeerFields
    <3>4. peer.state = "SYN_SENT"
      BY <3>1, <3>2, <3>3, Zenon DEF PeerMoves
    <3>5. n = 1 /\ pcb.state = "SYN_RCVD" /\ pcb.inc = i /\ pcb.inc = peer.inc
      BY <2>1, <3>1, <3>3, <3>4, Zenon
    <3> QED BY <3>4, <3>5, SynRcvdKept, Zenon
  <2>4. (\E j \in Incs, m \in Places :
           /\ Reached(j) /\ d.ackno = Number(j, m)
           /\ peer.state = "SYN_SENT" /\ j = peer.inc =>
                  m = 1 /\ pcb.state = "SYN_RCVD" /\ pcb.inc = j)'
    BY <2>1, <2>2, <2>3, Zenon DEF Incs, Places, Number
  <2> QED BY <1>2, <2>4, Zenon DEF DownSegment
<1> QED BY <1>1, <1>2

\* What tcp_input sends is right.
LEMMA SaysDown ==
    ASSUME IndInv, Next, NEW i \in Incs, NEW n \in Places, Reached(i)',
           peer'.state = "SYN_SENT" /\ i = peer'.inc =>
               n = 1 /\ pcb'.state = "SYN_RCVD" /\ pcb'.inc = i,
           NEW x, x = Number(i, n), Says(x)
    PROVE DownInv'
<1> DEFINE S == {d \in Segments : DownSegment(d)}
           T == {d \in Segments : DownSegment(d)'}
<1>1. down \in Seq(S) /\ S \subseteq T
  BY DownSegmentStep, Zenon DEF IndInv, DownInv
<1>2. Replies(x) \subseteq T
  BY RepliesDown, Zenon
<1>3. PICK out \in Seq(Replies(x)) : down' = down \o out
  BY Zenon DEF Says
<1> HIDE DEF S, T
<1>4. down \in Seq(T) /\ out \in Seq(T)
  BY <1>1, <1>2, <1>3, SeqWider, Zenon
<1>5. down' \in Seq(T)
  BY <1>3, <1>4, QueueOps, Zenon
<1> QED BY <1>5, Zenon DEF DownInv, T


\* DownInv when lwIP answers for its pcb
LEMMA DownInvPcb ==
    ASSUME IndInv, Next, tcp_input \/ tcp_recved, pcb.state # "NONE",
           Says(pcb.rcv_nxt),
           \/ pcb'.state = pcb.state /\ pcb'.inc = pcb.inc
           \/ pcb.inc \in opened \/ GivenUp(pcb.inc)
    PROVE DownInv'
<1>1. peer' = peer
  BY Zenon DEF tcp_input, tcp_recved
<1>2. PICK n \in Places : /\ pcb.rcv_nxt = Number(pcb.inc, n)
                          /\ pcb.state = "SYN_RCVD" => n = 1
  BY PcbPlace, Zenon
<1>3. PICK i \in Incs : i = pcb.inc /\ Reached(i)
  BY PcbWaits, Zenon
<1>4. Reached(i)'
  BY <1>3, ReachedStep, Zenon
<1>5. peer'.state = "SYN_SENT" /\ i = peer'.inc =>
          n = 1 /\ pcb'.state = "SYN_RCVD" /\ pcb'.inc = i
  <2>1. SUFFICES ASSUME peer.state = "SYN_SENT", i = peer.inc
                 PROVE n = 1 /\ pcb'.state = "SYN_RCVD" /\ pcb'.inc = i
    BY <1>1, Zenon
  <2>2. i \notin opened /\ ~GivenUp(i)
    BY <2>1, OpeningNotOpened, Zenon
  <2>3. pcb'.state = pcb.state /\ pcb'.inc = pcb.inc
    BY <1>3, <2>2, Zenon
  <2>4. pcb.state \in {"SYN_RCVD", "ESTABLISHED", "LAST_ACK"}
    BY Zenon, PcbFields DEF IndInv, TypeOK
  <2>5. pcb.state \notin {"ESTABLISHED", "LAST_ACK"}
    BY <1>3, <2>2, Zenon DEF IndInv, AcceptedIsOpen
  <2>6. pcb.state = "SYN_RCVD"
    BY <2>4, <2>5
  <2> QED BY <1>2, <1>3, <2>3, <2>6, Zenon
<1>6. PICK x : x = pcb.rcv_nxt
  OBVIOUS
<1>7. x = Number(i, n) /\ Says(x)
  BY <1>2, <1>3, <1>6, Zenon
<1> QED BY <1>4, <1>5, <1>7, SaysDown, Zenon

\* DownInv is preserved.
LEMMA DownInvStep ==
    ASSUME IndInv, Next PROVE DownInv'
<1> DEFINE S == {d \in Segments : DownSegment(d)}
           T == {d \in Segments : DownSegment(d)'}
<1>1. down \in Seq(S) /\ S \subseteq T
  BY DownSegmentStep, Zenon DEF IndInv, DownInv
<1>2. CASE tcp_input
  <2>1. PICK u \in Segments :
            /\ up # <<>> /\ u = Head(up) /\ UpSegment(u)
            /\ up' = Tail(up) /\ UNCHANGED <<peer, opened, lost>>
            /\ \/ Refuses \/ Stays \/ Opens(u) \/ Resets(u) \/ Frees
               \/ Receives(u)
    BY <1>2, InputStep, Zenon
  <2>2. CASE Refuses
    <3>1. PICK out \in Seq(Refusals) : down' = down \o out
      BY <2>2, Zenon DEF Refuses
    <3>2. Refusals \subseteq T
      BY Zenon DEF Refusals, DownSegment
    <3> HIDE DEF S, T
    <3>3. down \in Seq(T) /\ out \in Seq(T)
      BY <1>1, <3>1, <3>2, SeqWider, Zenon
    <3>4. down' \in Seq(T)
      BY <3>1, <3>3, QueueOps, Zenon
    <3> QED BY <3>4, Zenon DEF DownInv, T
  <2>3. CASE Stays
    BY <1>2, <2>3, DownInvPcb, Zenon DEF Stays, Quiet, Alike
  <2>4. CASE Opens(u)
    <3>1. /\ Reached(u.inc)' /\ u.inc \in Incs
          /\ Plus(u.seqno, 1) = Number(u.inc, 1)
          /\ pcb'.state = "SYN_RCVD" /\ pcb'.inc = u.inc
      BY <2>1, <2>4, OpensReached, Zenon
    <3>2. 1 \in Places
      BY Constants DEF Places
    <3>3. PICK x : x = Plus(u.seqno, 1)
      OBVIOUS
    <3>4. x = Number(u.inc, 1) /\ Says(x)
      BY <2>4, <3>1, <3>3, Zenon DEF Opens
    <3> QED BY <3>1, <3>2, <3>4, SaysDown, Zenon
  <2>5. CASE Resets(u)
    <3>1. GivenUp(pcb.inc) /\ pcb.state # "NONE" /\ Says(pcb.rcv_nxt)
      BY <2>1, <2>5, ResetOfPcb, Zenon DEF Resets
    <3> QED BY <1>2, <3>1, DownInvPcb, Zenon
  <2>6. CASE Frees
    <3>1. pcb.state = "LAST_ACK" /\ Says(pcb.rcv_nxt)
      BY <2>6, Zenon DEF Frees
    <3>2. pcb.state # "NONE" /\ pcb.inc \in opened
      BY <3>1 DEF IndInv, AcceptedIsOpen
    <3> QED BY <1>2, <3>1, <3>2, DownInvPcb, Zenon
  <2>7. CASE Receives(u)
    <3>1. /\ pcb.state \in {"SYN_RCVD", "ESTABLISHED"} /\ pcb.state # "NONE"
          /\ pcb.inc \in opened
      BY <2>1, <2>7, ReceivesOwn, Zenon
    <3>2. PICK p, ses : /\ Established(p, ses)
                        /\ Quiet(p, ses) \/ Byte(p, u, ses) \/ Ends(p, u, ses)
      BY <2>7, Zenon DEF Receives
    <3>3. p.rcv_nxt = pcb.rcv_nxt
      BY <3>2, Zenon DEF Established
    <3>4. CASE Quiet(p, ses)
      BY <1>2, <3>1, <3>3, <3>4, DownInvPcb, Zenon DEF Quiet
    <3>5. CASE Byte(p, u, ses) \/ Ends(p, u, ses)
      <4>1. Says(Plus(pcb.rcv_nxt, 1))
        BY <3>3, <3>5, Zenon DEF Byte, Ends
      <4>2. PICK i \in Incs : i = pcb.inc /\ Reached(i)
        BY <3>1, PcbWaits, Zenon
      <4>3. Reached(i)'
        BY <4>2, ReachedStep, Zenon
      <4>4. PICK n \in Places : Plus(pcb.rcv_nxt, 1) = Number(i, n)
        BY <3>1, <4>2, NextPlace, Zenon
      <4>5. ~(peer'.state = "SYN_SENT" /\ i = peer'.inc)
        BY <2>1, <3>1, <4>2, OpeningNotOpened, Zenon
      <4>6. PICK x : x = Plus(pcb.rcv_nxt, 1)
        OBVIOUS
      <4>7. x = Number(i, n) /\ Says(x)
        BY <4>1, <4>4, <4>6, Zenon
      <4> QED BY <4>3, <4>5, <4>7, SaysDown, Zenon
    <3> QED BY <3>2, <3>4, <3>5, Zenon
  <2> QED BY <2>1, <2>2, <2>3, <2>4, <2>5, <2>6, <2>7, Zenon
<1>3. CASE tcp_recved
  <2>1. /\ pcb.state = "ESTABLISHED" /\ Says(pcb.rcv_nxt)
        /\ pcb'.state = pcb.state /\ pcb'.inc = pcb.inc
    BY <1>3, RecvedEffect, Zenon
  <2>2. pcb.state # "NONE"
    BY <2>1
  <2> QED BY <1>3, <2>1, <2>2, DownInvPcb, Zenon
<1>4. CASE ~tcp_input /\ ~tcp_recved
  <2>1. down' = down \/ (down # <<>> /\ down' = Tail(down))
    BY <1>4, Zenon DEF Next, SessionEnds, PeerOpen, PeerSend, PeerFinish,
       PeerRetransmit, PeerAbort, PeerAlone, PeerInput, Lose
  <2> HIDE DEF S, T
  <2>2. down \in Seq(T)
    BY <1>1, SeqWider, Zenon
  <2>3. down' \in Seq(T)
    BY <2>1, <2>2, QueueOps, Zenon
  <2> QED BY <2>3, Zenon DEF DownInv, T
<1> QED BY <1>2, <1>3, <1>4

\* PeerInv is preserved.
LEMMA PeerInvStep ==
    ASSUME IndInv, Next PROVE PeerInv'
<1>1. PeerMoves /\ PeerLocal'
  BY PeerStep, Zenon DEF PeerMoves
<1>2. ASSUME NEW i \in opened' PROVE Reached(i)'
  <2>1. Reached(i)
    BY <1>1, Zenon DEF PeerMoves, IndInv, PeerInv
  <2> QED BY <2>1, ReachedStep, Zenon
<1> QED BY <1>1, <1>2, Zenon DEF PeerInv

-----------------------------------------------------------------------------
(* The properties *)

\* Only tcp_input and the end of the session change which session there is.
LEMMA SessionKept ==
    ASSUME Next, ~tcp_input, ~SessionEnds PROVE session' = session
BY Zenon DEF Next, tcp_recved, PeerOpen, PeerSend, PeerFinish, PeerRetransmit,
   PeerAbort, PeerAlone, PeerInput, Lose

\* AcceptedIsOpen is preserved.
LEMMA AcceptedIsOpenStep ==
    ASSUME IndInv, Next PROVE AcceptedIsOpen'
<1>1. /\ pcb.state \in {"ESTABLISHED", "LAST_ACK"} => pcb.inc \in opened
      /\ session # "none" <=> pcb.state = "ESTABLISHED"
      /\ pcb.state = "LAST_ACK" => pcb.rcv_wnd = TCP_WND
  BY Zenon DEF IndInv, AcceptedIsOpen
<1>2. CASE tcp_input
  <2>1. PICK u \in Segments :
            /\ up # <<>> /\ u = Head(up) /\ UpSegment(u)
            /\ up' = Tail(up) /\ UNCHANGED <<peer, opened, lost>>
            /\ \/ Refuses \/ Stays \/ Opens(u) \/ Resets(u) \/ Frees
               \/ Receives(u)
    BY <1>2, InputStep, Zenon
  <2>2. CASE Refuses \/ Resets(u) \/ Frees
    <3>1. pcb'.state = "NONE"
      BY <2>2, NoPcbType, Zenon DEF Refuses, Resets, Frees
    <3>2. session' = "none"
      <4>1. Refuses \/ Frees => pcb.state # "ESTABLISHED" /\ session' = session
        BY DEF Refuses, Frees
      <4> QED BY <1>1, <2>2, <4>1, Zenon DEF Resets, Clear
    <3> QED BY <3>1, <3>2 DEF AcceptedIsOpen
  <2>3. CASE Stays
    <3>1. /\ pcb'.state = pcb.state /\ pcb'.inc = pcb.inc
          /\ pcb'.rcv_wnd = pcb.rcv_wnd /\ session' = session /\ opened' = opened
      BY <2>1, <2>3, Zenon DEF Stays, Quiet, Alike
    <3> QED BY <1>1, <3>1, Zenon DEF AcceptedIsOpen
  <2>4. CASE Opens(u)
    <3>1. pcb'.state = "SYN_RCVD"
      BY <2>1, <2>4, OpensReached, Zenon
    <3>2. session' = "none"
      BY <1>1, <2>4 DEF Opens
    <3> QED BY <3>1, <3>2 DEF AcceptedIsOpen
  <2>5. CASE Receives(u)
    <3>1. pcb.inc \in opened'
      BY <2>1, <2>5, ReceivesOwn, Zenon
    <3>2. PICK p, ses : /\ Established(p, ses)
                        /\ Quiet(p, ses) \/ Byte(p, u, ses) \/ Ends(p, u, ses)
      BY <2>5, Zenon DEF Receives
    <3>3. p.state = "ESTABLISHED" /\ p.inc = pcb.inc /\ ses # "none"
      BY Zenon, <1>1, <3>2 DEF Established
    <3>4. CASE Quiet(p, ses) \/ Byte(p, u, ses)
      <4>1. pcb'.state = "ESTABLISHED" /\ pcb'.inc = pcb.inc /\ session' = ses
        BY <3>3, <3>4, Zenon DEF Quiet, Byte, Alike
      <4> QED BY <3>1, <3>3, <4>1 DEF AcceptedIsOpen
    <3>5. CASE Ends(p, u, ses)
      <4>1. session' = "none"
        BY <3>5, Zenon DEF Ends, Clear
      <4>2. CASE pcb' = NoPcb
        <5>1. pcb'.state = "NONE"
          BY <4>2, NoPcbType
        <5> QED BY <4>1, <5>1 DEF AcceptedIsOpen
      <4>3. CASE pcb'.state = "LAST_ACK" /\ pcb'.inc = p.inc /\ pcb'.rcv_wnd = TCP_WND
        BY SMTT(30), <3>1, <3>3, <4>1, <4>3 DEF AcceptedIsOpen
      <4> QED BY <3>5, <4>2, <4>3, Zenon DEF Ends
    <3> QED BY <3>2, <3>4, <3>5, Zenon
  <2> QED BY <2>1, <2>2, <2>3, <2>4, <2>5, Zenon
<1>3. CASE tcp_recved
  <2>1. /\ pcb'.state = "ESTABLISHED" /\ pcb.state = "ESTABLISHED"
        /\ pcb'.inc = pcb.inc /\ session' = session /\ opened' = opened
    BY <1>3, RecvedEffect, Zenon DEF tcp_recved
  <2> QED BY <1>1, <2>1 DEF AcceptedIsOpen
<1>4. CASE ~tcp_input /\ ~tcp_recved
  <2>1. pcb' = pcb /\ opened \subseteq opened'
    BY <1>4, PcbKept, PeerStep, Zenon DEF PeerMoves
  <2>2. session' = session \/ (session = "open" /\ session' = "closed")
    BY <1>4, SessionKept, Zenon DEF SessionEnds
  <2>3. session' # "none" <=> pcb'.state = "ESTABLISHED"
    BY <1>1, <2>1, <2>2
  <2> QED BY <1>1, <2>1, <2>3, Zenon DEF AcceptedIsOpen
<1> QED BY <1>2, <1>3, <1>4

\* OwnBytes is preserved.
LEMMA OwnBytesStep ==
    ASSUME IndInv, Next PROVE OwnBytes'
<1>1. \A k \in DOMAIN got : got[k] = <<pcb.inc, Plus(PeerISS[pcb.inc], k)>>
  BY Zenon DEF IndInv, OwnBytes
<1>2. got \in Seq(Incs \X SeqNo) /\ (pcb.state # "ESTABLISHED" => got = <<>>)
  BY Zenon DEF IndInv, TypeOK, PcbInv
<1>3. ASSUME got' = <<>> PROVE OwnBytes'
  <2>1. DOMAIN got' = {}
    BY <1>3
  <2> QED BY <2>1, Zenon DEF OwnBytes
<1>4. ASSUME got' = got, pcb'.inc = pcb.inc PROVE OwnBytes'
  BY <1>1, <1>4, Zenon DEF OwnBytes
<1>5. CASE tcp_input
  <2>1. PICK u \in Segments :
            /\ up # <<>> /\ u = Head(up) /\ UpSegment(u)
            /\ up' = Tail(up) /\ UNCHANGED <<peer, opened, lost>>
            /\ \/ Refuses \/ Stays \/ Opens(u) \/ Resets(u) \/ Frees
               \/ Receives(u)
    BY <1>5, InputStep, Zenon
  <2>2. CASE Refuses \/ Resets(u) \/ Frees \/ Opens(u)
    <3>1. Refuses \/ Frees \/ Opens(u) => pcb.state # "ESTABLISHED" /\ got' = got
      BY Zenon DEF Refuses, Frees, Opens
    <3> QED BY <1>2, <1>3, <2>2, <3>1, Zenon DEF Resets, Clear
  <2>3. CASE Stays
    BY <1>4, <2>3, Zenon DEF Stays, Quiet, Alike
  <2>4. CASE Receives(u)
    <3>1. Head(up).inc = pcb.inc /\ pcb.state \in {"SYN_RCVD", "ESTABLISHED"}
      BY <2>1, <2>4, ReceivesOwn, Zenon
    <3>2. PICK p, ses : /\ Established(p, ses)
                        /\ Quiet(p, ses) \/ Byte(p, u, ses) \/ Ends(p, u, ses)
      BY <2>4, Zenon DEF Receives
    <3>3. p.inc = pcb.inc /\ p.rcv_nxt = pcb.rcv_nxt
      BY <3>2, Zenon DEF Established
    <3>4. CASE Quiet(p, ses)
      BY <1>4, <3>3, <3>4, Zenon DEF Quiet, Alike
    <3>5. CASE Ends(p, u, ses)
      BY <1>3, <3>5, Zenon DEF Ends, Clear
    <3>6. CASE Byte(p, u, ses)
      <4>1. /\ u.len = 1 /\ u.seqno = pcb.rcv_nxt /\ pcb'.inc = pcb.inc
            /\ got' = Append(got, <<u.inc, u.seqno>>)
        BY <3>3, <3>6, Zenon DEF Byte
      <4>2. /\ u.seqno = Number(pcb.inc, Len(got) + 1) /\ Len(got) \in Nat
            /\ u.inc = pcb.inc
        BY <2>1, <3>1, <4>1, ByteIsNext, Zenon
      <4>3. u.inc \in Incs /\ u.seqno \in SeqNo
        BY <2>1, <3>1, PcbWaits, SegmentFields, Zenon
      <4>4. PICK e \in Incs \X SeqNo : e = <<u.inc, u.seqno>>
        BY <4>3, Zenon
      <4>5. /\ DOMAIN got' = 1 .. Len(got) + 1
            /\ got'[Len(got) + 1] = e /\ \A k \in 1 .. Len(got) : got'[k] = got[k]
            /\ DOMAIN got = 1 .. Len(got)
        <5>1. got' = Append(got, e)
          BY <4>1, <4>4, Zenon
        <5> QED BY SMTT(30), <1>2, <4>2, <5>1, AppendSeq
      <4>6. ASSUME NEW k \in DOMAIN got'
            PROVE got'[k] = <<pcb'.inc, Plus(PeerISS[pcb'.inc], k)>>
        <5>1. k \in 1 .. Len(got) \/ k = Len(got) + 1
          BY <4>2, <4>5, <4>6
        <5>2. CASE k \in 1 .. Len(got)
          BY <1>1, <4>1, <4>5, <5>2, Zenon
        <5>3. CASE k = Len(got) + 1
          <6>1. u.seqno = Plus(PeerISS[pcb.inc], k)
            BY <4>2, <5>3, Zenon DEF Number
          <6> QED BY <4>1, <4>2, <4>4, <4>5, <5>3, <6>1, Zenon
        <5> QED BY Zenon, <5>1, <5>2, <5>3
      <4> QED BY <4>6, Zenon DEF OwnBytes
    <3> QED BY <3>2, <3>4, <3>5, <3>6, Zenon
  <2> QED BY <2>1, <2>2, <2>3, <2>4, Zenon
<1>6. CASE tcp_recved
  BY <1>4, <1>6, RecvedEffect, Zenon
<1>7. CASE ~tcp_input /\ ~tcp_recved
  BY <1>4, <1>7, PcbKept, Zenon
<1> QED BY <1>5, <1>6, <1>7


\* The incarnation of a local machine that is not closed is not given up.
LEMMA OpenNotGivenUp ==
    ASSUME IndInv, peer.state # "CLOSED" PROVE ~GivenUp(peer.inc)
<1>1. peer.inc \in 0 .. MaxInc
  BY PeerKnows, PeerFields, Zenon
<1>2. ~(peer.inc < peer.inc)
  BY <1>1
<1> QED BY <1>2, Zenon DEF GivenUp

\* EstablishedHasPcb is preserved.
LEMMA EstablishedHasPcbStep ==
    ASSUME IndInv, Next PROVE EstablishedHasPcb'
<1>1. SUFFICES ASSUME peer'.state = "ESTABLISHED", peer'.inc \notin closed'
               PROVE pcb'.state \in {"SYN_RCVD", "ESTABLISHED"} /\ pcb'.inc = peer'.inc
  BY Zenon DEF EstablishedHasPcb
<1>2. peer.state = "ESTABLISHED" /\ peer.inc \notin closed =>
          pcb.state \in {"SYN_RCVD", "ESTABLISHED"} /\ pcb.inc = peer.inc
  BY Zenon DEF IndInv, EstablishedHasPcb
<1>3. CASE tcp_input
  <2>1. PICK u \in Segments :
            /\ up # <<>> /\ u = Head(up) /\ UpSegment(u)
            /\ up' = Tail(up) /\ UNCHANGED <<peer, opened, lost>>
            /\ \/ Refuses \/ Stays \/ Opens(u) \/ Resets(u) \/ Frees
               \/ Receives(u)
    BY <1>3, InputStep, Zenon
  <2>2. peer' = peer /\ closed \subseteq closed'
    BY <2>1, Zenon DEF Refuses, Stays, Opens, Resets, Frees, Receives, Quiet, Byte, Ends
  <2>3. /\ pcb.state \in {"SYN_RCVD", "ESTABLISHED"} /\ pcb.inc = peer.inc
        /\ peer.state # "CLOSED"
    BY <1>1, <1>2, <2>2
  <2>4. ~Refuses /\ ~Opens(u) /\ ~Frees
    BY SMTT(30), <2>3 DEF Refuses, Opens, Frees
  <2>5. ~Resets(u)
    BY <2>1, <2>3, OpenNotGivenUp, ResetOfPcb, Zenon DEF Resets
  <2>6. CASE Stays
    BY <2>2, <2>3, <2>6, Zenon DEF Stays, Quiet, Alike
  <2>7. CASE Receives(u)
    <3>1. PICK p, ses : /\ Established(p, ses)
                        /\ Quiet(p, ses) \/ Byte(p, u, ses) \/ Ends(p, u, ses)
      BY <2>7, Zenon DEF Receives
    <3>2. p.state = "ESTABLISHED" /\ p.inc = pcb.inc
      BY <3>1, Zenon DEF Established
    <3>3. ~Ends(p, u, ses)
      BY <1>1, <2>2, <2>3, <3>2, Zenon DEF Ends
    <3>4. pcb'.state = "ESTABLISHED" /\ pcb'.inc = pcb.inc
      BY <3>1, <3>2, <3>3, Zenon DEF Quiet, Byte, Alike
    <3> QED BY <2>2, <2>3, <3>4
  <2> QED BY <2>1, <2>4, <2>5, <2>6, <2>7, Zenon
<1>4. CASE ~tcp_input
  <2>1. pcb'.state = pcb.state /\ pcb'.inc = pcb.inc /\ closed' = closed
    BY <1>4, RecvedEffect, PcbKept, Zenon
  <2>2. PeerMoves
    BY PeerStep
  <2>3. CASE peer.state = "ESTABLISHED" /\ peer'.inc = peer.inc
    BY <1>1, <1>2, <2>1, <2>3, Zenon
  <2>4. CASE pcb.state = "SYN_RCVD" /\ pcb.inc = peer.inc /\ peer'.inc = peer.inc
    BY <2>1, <2>4
  <2> QED BY <1>1, <2>2, <2>3, <2>4, Zenon DEF PeerMoves
<1> QED BY <1>3, <1>4

\* Losing a segment adds one of either way to the lost ones.
LEMMA LostStep ==
    ASSUME IndInv, Next
    PROVE lost' \subseteq {"up", "down"} \X Segments
<1>1. lost \subseteq {"up", "down"} \X Segments
  BY Zenon DEF IndInv, TypeOK
<1>2. CASE Lose
  <2>1. PICK e \in {"up", "down"} \X Segments : lost' = lost \cup {e}
    <3>1. /\ up # <<>> => Head(up) \in Segments
          /\ down # <<>> => Head(down) \in Segments
      BY UpHead, DownHead, Zenon
    <3>2. /\ up # <<>> => <<"up", Head(up)>> \in {"up", "down"} \X Segments
          /\ down # <<>> => <<"down", Head(down)>> \in {"up", "down"} \X Segments
      BY <3>1
    <3> QED BY <1>2, <3>2, Zenon DEF Lose
  <2> QED BY <1>1, <2>1
<1>3. CASE ~Lose
  <2>1. lost' = lost
    BY <1>3, Zenon DEF Next, tcp_input, tcp_recved, SessionEnds, PeerOpen, PeerSend,
       PeerFinish, PeerRetransmit, PeerAbort, PeerAlone, PeerInput
  <2> QED BY <1>1, <2>1
<1> QED BY <1>2, <1>3

\* The types are preserved.
LEMMA TypeStep ==
    ASSUME IndInv, Next PROVE TypeOK'
<1>1. pcb' \in Pcbs /\ peer' \in Peers
  BY PcbStep, PeerStep, Zenon DEF PeerMoves
<1>2. up' \in Seq(Segments) /\ down' \in Seq(Segments)
  <2> DEFINE S == {u \in Segments : UpSegment(u)'}
             T == {d \in Segments : DownSegment(d)'}
  <2>1. up' \in Seq(S) /\ down' \in Seq(T)
    BY UpInvStep, DownInvStep, Zenon DEF UpInv, DownInv
  <2>2. S \subseteq Segments /\ T \subseteq Segments
    BY Zenon
  <2> HIDE DEF S, T
  <2> QED BY <2>1, <2>2, SeqWider, Zenon
<1>3. opened' \subseteq Incs
  BY PeerStep, Zenon DEF PeerMoves, Reached, IndInv, TypeOK
<1>4. TypeOK
  BY DEF IndInv
<1>5. /\ session' \in {"none", "open", "closed"} /\ got' \in Seq(Incs \X SeqNo)
      /\ closed' \subseteq Incs
  <2>1. CASE tcp_input
    <3>1. PICK u \in Segments :
            /\ up # <<>> /\ u = Head(up)
            /\ \/ Refuses \/ Stays \/ Opens(u) \/ Resets(u) \/ Frees
               \/ Receives(u)
      BY <2>1, InputStep, Zenon
    <3>2. <<>> \in Seq(Incs \X SeqNo)
      OBVIOUS
    <3>3. CASE Receives(u)
      <4>1. u.inc = pcb.inc /\ pcb.inc \in Incs
        BY <3>1, <3>3, ReceivesOwn, PcbWaits, Zenon
      <4>2. PICK p, ses : /\ Established(p, ses)
                          /\ Quiet(p, ses) \/ Byte(p, u, ses) \/ Ends(p, u, ses)
        BY <3>3, Zenon DEF Receives
      <4>3. ses \in {"none", "open", "closed"} /\ p.inc = pcb.inc
        BY <1>4, <4>2 DEF Established, TypeOK
      <4>4. CASE Quiet(p, ses)
        BY <1>4, <4>3, <4>4, Zenon DEF Quiet, TypeOK
      <4>5. CASE Byte(p, u, ses)
        <5>1. u.seqno \in SeqNo
          BY SegmentFields, Zenon
        <5>2. <<u.inc, u.seqno>> \in Incs \X SeqNo
          BY <4>1, <5>1
        <5>3. got' \in Seq(Incs \X SeqNo)
          BY <1>4, <4>5, <5>2, QueueOps, Zenon DEF Byte, TypeOK
        <5> QED BY <1>4, <4>5, <5>3 DEF Byte, TypeOK
      <4>6. CASE Ends(p, u, ses)
        <5>1. session' = "none" /\ got' = <<>> /\ closed' = closed \cup {pcb.inc}
          BY <4>3, <4>6, Zenon DEF Ends, Clear
        <5> QED BY <1>4, <3>2, <4>1, <5>1 DEF TypeOK
      <4> QED BY <4>2, <4>4, <4>5, <4>6, Zenon
    <3>4. CASE Refuses \/ Stays \/ Opens(u) \/ Frees
      BY <1>4, <3>4, Zenon DEF Refuses, Stays, Opens, Frees, Quiet, TypeOK
    <3>5. CASE Resets(u)
      <4>1. session' = "none" /\ got' = <<>> /\ closed' = closed
        BY <3>5, Zenon DEF Resets, Clear
      <4> QED BY <1>4, <3>2, <4>1 DEF TypeOK
    <3> QED BY <3>1, <3>3, <3>4, <3>5, Zenon
  <2>2. CASE ~tcp_input
    <3>1. got' = got /\ closed' = closed
      BY <2>2, RecvedEffect, PcbKept, Zenon
    <3>2. session' = session \/ session' = "closed"
      BY <2>2, SessionKept, Zenon DEF SessionEnds
    <3> QED BY <1>4, <3>1, <3>2 DEF TypeOK
  <2> QED BY <2>1, <2>2
<1> QED BY <1>1, <1>2, <1>3, <1>5, LostStep, Zenon DEF TypeOK

-----------------------------------------------------------------------------
(* The theorems *)

\* The invariant holds when nothing has been opened.
LEMMA InitInv == Init => IndInv
<1> SUFFICES ASSUME Init PROVE IndInv
  OBVIOUS
<1>1. /\ pcb = NoPcb /\ session = "none" /\ got = <<>> /\ up = <<>> /\ down = <<>>
      /\ opened = {} /\ closed = {} /\ lost = {} /\ peer.state = "CLOSED"
      /\ peer \in Peers
  BY Constants DEF Init, Peers
<1>2. pcb \in Pcbs /\ pcb.state = "NONE"
  BY <1>1, NoPcbType
<1>4. TypeOK
  BY <1>1, <1>2 DEF TypeOK
<1>5. PcbInv
  BY <1>1, <1>2 DEF PcbInv
<1>6. UpInv
  BY <1>1 DEF UpInv
<1>7. DownInv
  BY <1>1 DEF DownInv
<1>8. PeerInv
  BY <1>1 DEF PeerInv, PeerLocal
<1>9. AcceptedIsOpen /\ OwnBytes /\ EstablishedHasPcb
  BY SMTT(30), <1>1, <1>2 DEF AcceptedIsOpen, OwnBytes, EstablishedHasPcb
<1> QED BY <1>4, <1>5, <1>6, <1>7, <1>8, <1>9, Zenon DEF IndInv

\* Every step preserves it.
LEMMA StepInv == IndInv /\ [Next]_vars => IndInv'
<1>1. ASSUME IndInv, Next PROVE IndInv'
  BY <1>1, TypeStep, PcbInvStep, UpInvStep, DownInvStep, PeerInvStep,
     AcceptedIsOpenStep, OwnBytesStep, EstablishedHasPcbStep, Zenon DEF IndInv
<1>2. ASSUME IndInv, UNCHANGED vars PROVE IndInv'
  <2>1. /\ pcb' = pcb /\ session' = session /\ got' = got /\ peer' = peer /\ up' = up
        /\ down' = down /\ opened' = opened /\ closed' = closed /\ lost' = lost
    BY <1>2, Zenon DEF vars
  <2>2. TypeOK'
    BY <1>2, <2>1, Zenon DEF IndInv, TypeOK
  <2>3. PcbInv' /\ PeerInv'
    BY <1>2, <2>1, ZenonT(30) DEF IndInv, PcbInv, PeerInv, PeerLocal, Reached
  <2>4. UpInv'
    BY <1>2, <2>1, ZenonT(30) DEF IndInv, UpInv, UpSegment, GivenUp
  <2>5. DownInv'
    BY <1>2, <2>1, ZenonT(30) DEF IndInv, DownInv, DownSegment, Reached
  <2>6. AcceptedIsOpen' /\ OwnBytes' /\ EstablishedHasPcb'
    BY <1>2, <2>1, Zenon DEF IndInv, AcceptedIsOpen, OwnBytes, EstablishedHasPcb
  <2> QED BY <2>2, <2>3, <2>4, <2>5, <2>6, Zenon DEF IndInv
<1> QED BY <1>1, <1>2, Zenon

\* The invariant of TcpConnectionInv holds of every behaviour: however the two ends
\* interleave, for any window and any number of incarnations, losses and bytes, as
\* long as the numbers of an incarnation do not come round to those of another.
\* Bytes may fill the window and it may open again.
THEOREM Invariance == Spec => []IndInv
BY InitInv, StepInv, PTL DEF Spec

\* Every field of a pcb, a segment and the local machine's end keeps its range;
\* rcv_wnd, which tcp_receive decrements, does not wrap below zero.
THEOREM TypeCorrect == Spec => []TypeOK
<1>1. IndInv => TypeOK
  BY DEF IndInv
<1> QED BY <1>1, Invariance, PTL

\* lwIP accepts a connection, and makes a session for it, only when the local machine
\* has seen that incarnation established; a pcb that closes in order has given all.
THEOREM AcceptsOpenOnly == Spec => []AcceptedIsOpen
<1>1. IndInv => AcceptedIsOpen
  BY DEF IndInv
<1> QED BY <1>1, Invariance, PTL

\* A session is given the bytes of its own incarnation, each once and in order.
THEOREM GivesOwnBytes == Spec => []OwnBytes
<1>1. IndInv => OwnBytes
  BY DEF IndInv
<1> QED BY <1>1, Invariance, PTL

\* The pcb of a connection the local machine holds established is not taken away.
THEOREM KeepsEstablished == Spec => []EstablishedHasPcb
<1>1. IndInv => EstablishedHasPcb
  BY DEF IndInv
<1> QED BY <1>1, Invariance, PTL

\* A connection that was not given up and has forwarded its bytes is not reset: an
\* acceptable reset is of an incarnation that was given up, and tcp_recv_func gives
\* the FIN back to the window before tcp_close looks at it.
THEOREM ClosesInOrder == Spec => OrderlyClose
<1> DEFINE A == pcb.state = "ESTABLISHED" /\ session = "open" /\ pcb.rcv_wnd = TCP_WND
                /\ peer.inc = pcb.inc /\ peer.state \in {"ESTABLISHED", "FIN_WAIT"} =>
                    pcb'.state \in {"ESTABLISHED", "LAST_ACK"}
<1>1. ASSUME IndInv, Next PROVE A
  <2>1. SUFFICES ASSUME pcb.state = "ESTABLISHED", session = "open",
                        pcb.rcv_wnd = TCP_WND, peer.inc = pcb.inc,
                        peer.state \in {"ESTABLISHED", "FIN_WAIT"}
                 PROVE pcb'.state \in {"ESTABLISHED", "LAST_ACK"}
    OBVIOUS
  <2>2. peer.state # "CLOSED" /\ pcb.state # "NONE" /\ pcb.state # "LAST_ACK"
        /\ pcb.state # "SYN_RCVD"
    BY <2>1
  <2>3. CASE tcp_input
    <3>1. PICK u \in Segments :
              /\ up # <<>> /\ u = Head(up)
              /\ \/ Refuses \/ Stays \/ Opens(u) \/ Resets(u) \/ Frees
                 \/ Receives(u)
      BY <1>1, <2>3, InputStep, Zenon
    <3>2. ~Refuses /\ ~Opens(u) /\ ~Frees
      BY <2>2, Zenon DEF Refuses, Opens, Frees
    <3>3. ~Resets(u)
      BY <1>1, <2>1, <2>2, <3>1, OpenNotGivenUp, ResetOfPcb, Zenon DEF Resets
    <3>4. CASE Stays
      BY <2>1, <3>4, Zenon DEF Stays, Quiet, Alike
    <3>5. CASE Receives(u)
      <4>1. PICK p, ses : /\ Established(p, ses)
                          /\ Quiet(p, ses) \/ Byte(p, u, ses) \/ Ends(p, u, ses)
        BY <3>5, Zenon DEF Receives
      <4>2. p.state = "ESTABLISHED" /\ p.rcv_wnd = TCP_WND /\ ses = "open"
        BY <2>1, <2>2, <4>1, Zenon DEF Established
      <4>3. ses # "closed"
        BY <4>2
      <4> QED BY <4>1, <4>2, <4>3, Zenon DEF Quiet, Byte, Ends, Alike
    <3> QED BY <3>1, <3>2, <3>3, <3>4, <3>5, Zenon
  <2>4. CASE tcp_recved
    BY <1>1, <2>1, <2>4, RecvedEffect, Zenon
  <2>5. CASE ~tcp_input /\ ~tcp_recved
    BY <1>1, <2>1, <2>5, PcbKept, Zenon
  <2> QED BY <2>3, <2>4, <2>5
<1>2. IndInv /\ [Next]_vars => [A]_vars
  BY <1>1, Zenon
<1> QED BY <1>2, Invariance, PTL DEF Spec, OrderlyClose
============================================================================
