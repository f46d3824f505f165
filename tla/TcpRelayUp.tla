---------------------------- MODULE TcpRelayUp ------------------------------
(***************************************************************************)
(* The half of the invariant that follows the application's bytes.  Every  *)
(* byte is credited, in the hands of one of the two writers or queued, in  *)
(* that order, whichever handler runs next, and none is forwarded twice.   *)
(***************************************************************************)
EXTENDS TcpRelayDown

-----------------------------------------------------------------------------
(* Numbers *)

\* A natural number is zero or above zero.
LEMMA ZeroOrAbove ==
    ASSUME NEW x \in Nat
    PROVE  0 <= x /\ (x <= 0 \/ 0 < x)
BY SMTT(30)

\* The indices of two sequences, of lengths n and k, put one after the other
LEMMA SplitRange ==
    ASSUME NEW n \in Nat, NEW k \in Nat
    PROVE  /\ \A i \in 1 .. n : i \in 1 .. n + k /\ i <= n
           /\ \A i \in n + 1 .. n + k : i \in 1 .. n + k /\ ~(i <= n) /\ i - n \in 1 .. k
           /\ \A i \in 1 .. n + k : i \in 1 .. n \/ i \in n + 1 .. n + k
BY SMT

\* After its first n elements s goes on with p + 1 .. p + k, which ends by q.
RunOn(s, n, p, k, q) ==
    p + k <= q /\ \A i \in n + 1 .. n + k : s[i] = p + (i - n)

\* No number comes twice after the first n elements.
DistinctAfter(s, n, k) ==
    \A i, j \in n + 1 .. n + k : i # j => s[i] # s[j]

\* The elements after the first n are among p + 1 .. q.
ApartAfter(s, n, k, p, q) ==
    \A x \in Nat : \A i \in n + 1 .. n + k : (x <= p \/ q < x) => x # s[i]

\* Every number of such a run is at most q.
LEMMA RunBelow ==
    ASSUME NEW s, NEW n \in Nat, NEW p \in Nat, NEW k \in Nat, NEW q \in Nat,
           RunOn(s, n, p, k, q)
    PROVE  \A i \in n + 1 .. n + k : s[i] <= q
BY SMT DEF RunOn

\* No number comes twice in such a run.
LEMMA RunDistinct ==
    ASSUME NEW s, NEW n \in Nat, NEW p \in Nat, NEW k \in Nat, NEW q \in Nat,
           RunOn(s, n, p, k, q)
    PROVE  DistinctAfter(s, n, k)
BY SMT DEF RunOn, DistinctAfter

\* A number that is not among p + 1 .. q is not in such a run.
LEMMA RunApart ==
    ASSUME NEW s, NEW n \in Nat, NEW p \in Nat, NEW k \in Nat, NEW q \in Nat,
           RunOn(s, n, p, k, q)
    PROVE  ApartAfter(s, n, k, p, q)
BY SMT DEF RunOn, ApartAfter

\* What a writer credits when it takes the next packet
LEMMA TakeCredits ==
    ASSUME NEW x \in Nat, NEW y \in Nat, NEW s \in Nat, NEW l \in Nat, NEW f \in Nat,
           x <= y + s
    PROVE  x + (f - f) - l <= y + s - l
BY SMT

\* What a writer has in hand when it takes f .. hi, the front of the queue
LEMMA TakeHolds ==
    ASSUME NEW l \in Nat, NEW hi \in Nat, NEW f \in Nat, NEW g \in Nat, NEW u \in Nat,
           f < hi, hi <= g
    PROVE  l + (hi - f) - g <= l + u - f
BY SMT

\* A packet is not empty, so its ends are in order.
LEMMA TakeOrder ==
    ASSUME NEW f \in Nat, NEW hi \in Nat, f < hi
    PROVE  f <= f /\ f <= hi
BY SMT

\* A queue of one more element that ends further on still has one byte per element.
LEMMA OneMore ==
    ASSUME NEW n \in Nat, NEW i \in 1 .. n, NEW r \in Nat, NEW s \in Nat, NEW e \in Nat,
           r < s, n - i <= r - e
    PROVE  (n + 1) - i <= s - e
BY SMT

-----------------------------------------------------------------------------
(* The queue *)

\* The ends of a chain are those of its first and last element.
LEMMA ChainEnds ==
    ASSUME NEW q \in Seq(Intervals), NEW lo \in Nat, NEW hi \in Nat, Chain(q, lo, hi, SegMax)
    PROVE  /\ lo <= hi /\ (q = <<>> => lo = hi)
           /\ q # <<>> => q[1][1] = lo /\ q[Len(q)][2] = hi
<1>1. lo <= hi /\ IF Len(q) = 0 THEN lo = hi ELSE q[1][1] = lo /\ q[Len(q)][2] = hi
  BY Zenon DEF Chain
<1>2. q = <<>> <=> Len(q) = 0
  BY SeqEmpty
<1> QED BY Zenon, <1>1, <1>2

\* The ends of a queue are stream offsets.
LEMMA QueueType ==
    ASSUME NEW q \in Seq(Intervals), NEW r \in Nat, QueueOK(q, r)
    PROVE  Front(q, r) \in Nat /\ Back(q, r) \in Nat /\ Front(q, r) <= Back(q, r)
<1>1. CASE q = <<>>
  BY <1>1 DEF Front, Back
<1>2. CASE q # <<>>
  <2>1. Len(q) \in Nat /\ 1 \in 1 .. Len(q) /\ Len(q) \in 1 .. Len(q)
    BY <1>2, SeqEmpty
  <2>2. q[1] \in Intervals /\ q[Len(q)] \in Intervals
    BY <2>1, SeqElement
  <2>3. Front(q, r) \in Nat /\ Back(q, r) \in Nat
    BY SMTT(30), <1>2, <2>2 DEF Front, Back, Intervals
  <2> QED BY Zenon, <2>3 DEF QueueOK, Chain
<1> QED BY Zenon, <1>1, <1>2

\* Popping the front
LEMMA QueueTail ==
    ASSUME NEW q \in Seq(Intervals), q # <<>>, NEW r \in Nat, QueueOK(q, r)
    PROVE  /\ Head(q) \in Intervals /\ Head(q)[1] = Front(q, r)
           /\ Head(q)[1] < Head(q)[2] /\ Head(q)[2] <= Front(Tail(q), r)
           /\ Tail(q) \in Seq(Intervals) /\ QueueOK(Tail(q), r)
           /\ Back(q, r) = r => Back(Tail(q), r) = r
<1>1. PICK lo \in Nat, hi \in Nat : lo = Front(q, r) /\ hi = Back(q, r)
  BY Zenon, QueueType
<1>2. Chain(q, lo, hi, SegMax) /\ hi <= r /\ SegMax \in Nat
  BY Zenon, <1>1, SizeAssumption DEF QueueOK
<1>3. /\ Head(q) \in Intervals /\ Head(q)[1] = lo /\ lo < Head(q)[2] /\ Head(q)[2] <= hi
      /\ Tail(q) \in Seq(Intervals) /\ Chain(Tail(q), Head(q)[2], hi, SegMax)
  BY ZenonT(30), <1>2, ChainTail DEF Intervals
<1>4. PICK t \in Seq(Intervals), m \in Nat : t = Tail(q) /\ m = Head(q)[2]
  BY Zenon, <1>3 DEF Intervals
<1>5. /\ Chain(t, m, hi, SegMax)
      /\ \A i \in 1 .. Len(t) : Len(t) - i <= hi - t[i][2]
  <2>1. \A i \in 1 .. Len(q) : Len(q) - i <= hi - q[i][2]
    BY Zenon, <1>1 DEF QueueOK
  <2>2. /\ Len(t) = Len(q) - 1 /\ Len(q) \in Nat
        /\ \A i \in 1 .. Len(t) : t[i] = q[i + 1] /\ i + 1 \in 1 .. Len(q)
    BY <1>4
  <2>3. ASSUME NEW i \in 1 .. Len(t)
        PROVE  Len(t) - i <= hi - t[i][2]
    <3>1. Len(q) - (i + 1) <= hi - t[i][2]
      BY Zenon, <2>1, <2>2
    <3>2. Len(t) - i = Len(q) - (i + 1)
      BY <2>2
    <3> QED BY Zenon, <3>1, <3>2
  <2> QED BY Zenon, <1>3, <1>4, <2>3
<1>6. CASE t = <<>>
  <2>1. m = hi
    BY Zenon, <1>5, <1>6, ChainEnds
  <2>2. Front(t, r) = r /\ Back(t, r) = r
    BY Zenon, <1>6 DEF Front, Back
  <2>3. QueueOK(t, r)
    <3>1. Chain(t, r, r, SegMax) /\ r <= r /\ 1 .. Len(t) = {}
      BY <1>2, <1>6, ChainEmpty
    <3> QED BY Zenon, <2>2, <3>1 DEF QueueOK
  <2> QED BY Zenon, <1>1, <1>2, <1>3, <1>4, <2>1, <2>2, <2>3
<1>7. CASE t # <<>>
  <2>1. Front(t, r) = m /\ Back(t, r) = hi
    BY Zenon, <1>5, <1>7, ChainEnds DEF Front, Back
  <2>2. QueueOK(t, r) /\ m <= m
    BY <1>2, <1>5, <2>1 DEF QueueOK
  <2> QED BY Zenon, <1>1, <1>2, <1>3, <1>4, <2>1, <2>2
<1> QED BY Zenon, <1>6, <1>7

\* Appending the packet that has just come
LEMMA QueueAppend ==
    ASSUME NEW q \in Seq(Intervals), NEW r \in Nat, NEW n \in 1 .. SegMax, QueueOK(q, r),
           Back(q, r) = r
    PROVE  LET a == Append(q, <<r, r + n>>) IN
           /\ a \in Seq(Intervals) /\ a # <<>> /\ QueueOK(a, r + n)
           /\ Front(a, r + n) = Front(q, r) /\ Back(a, r + n) = r + n
<1>1. PICK lo \in Nat : lo = Front(q, r)
  BY Zenon, QueueType
<1>2. PICK s \in Nat : s = r + n
  BY SizeAssumption
<1>3. Chain(q, lo, r, SegMax) /\ SegMax \in Nat
  BY Zenon, <1>1, SizeAssumption DEF QueueOK
<1>4. r < s /\ s - r <= SegMax
  BY <1>2, SizeAssumption
<1>5. PICK a : a = Append(q, <<r, s>>)
  BY Zenon
<1>6. a \in Seq(Intervals) /\ Chain(a, lo, s, SegMax)
  BY Zenon, <1>3, <1>4, <1>5, ChainAppend DEF Intervals
<1>7. a # <<>>
  <2>1. <<r, s>> \in Intervals
    BY SMTT(30) DEF Intervals
  <2> QED BY SMTT(30), <1>5, <2>1, AppendSeq
<1>8. Front(a, s) = lo /\ Back(a, s) = s
  BY Zenon, <1>6, <1>7, ChainEnds DEF Front, Back
<1>9. QueueOK(a, s)
  <2>1. /\ Len(q) \in Nat /\ Len(a) = Len(q) + 1 /\ a[Len(q) + 1] = <<r, s>>
        /\ \A i \in 1 .. Len(q) : a[i] = q[i] /\ q[i] \in Intervals
    <3>1. <<r, s>> \in Intervals
      BY DEF Intervals
    <3> QED BY SMTT(30), <1>5, <3>1, AppendSeq, SeqElement
  <2>2. ASSUME NEW i \in 1 .. Len(a)
        PROVE  Len(a) - i <= s - a[i][2]
    <3>1. CASE i \in 1 .. Len(q)
      <4>1. Len(q) - i <= r - q[i][2]
        BY Zenon, <3>1 DEF QueueOK
      <4>2. a[i][2] = q[i][2] /\ q[i][2] \in Nat
        BY Zenon, <2>1, <3>1 DEF Intervals
      <4>3. (Len(q) + 1) - i <= s - q[i][2]
        BY Zenon, <1>4, <2>1, <3>1, <4>1, <4>2, OneMore
      <4> QED BY Zenon, <2>1, <4>2, <4>3
    <3>2. CASE i = Len(q) + 1
      BY <2>1, <3>2
    <3> QED BY <2>1, <3>1, <3>2
  <2>3. s <= s /\ \A i \in 1 .. Len(a) : Len(a) - i <= s - a[i][2]
    BY <2>2
  <2> QED BY Zenon, <1>6, <1>8, <2>3 DEF QueueOK
<1> QED BY Zenon, <1>1, <1>2, <1>5, <1>6, <1>7, <1>8, <1>9

\* More bytes have come and none of them is queued.
LEMMA QueueGrow ==
    ASSUME NEW q \in Seq(Intervals), NEW r \in Nat, NEW s \in Nat, QueueOK(q, r), r <= s
    PROVE  QueueOK(q, s) /\ Front(q, r) <= Front(q, s)
<1>1. CASE q = <<>>
  <2>1. Front(q, r) = r /\ Front(q, s) = s /\ Back(q, s) = s /\ s <= s
    BY <1>1 DEF Front, Back
  <2>2. Chain(q, s, s, SegMax)
    BY Zenon, <1>1, ChainEmpty, SizeAssumption
  <2>3. 1 .. Len(q) = {}
    BY <1>1
  <2> QED BY Zenon, <2>1, <2>2, <2>3 DEF QueueOK
<1>2. CASE q # <<>>
  <2>1. Front(q, s) = Front(q, r) /\ Back(q, s) = Back(q, r)
    BY Zenon, <1>2 DEF Front, Back
  <2>2. Front(q, r) \in Nat /\ Back(q, r) \in Nat /\ Back(q, r) <= r
    BY Zenon, QueueType DEF QueueOK
  <2>3. Back(q, r) <= s /\ Front(q, r) <= Front(q, r)
    BY <2>2
  <2> QED BY Zenon, <2>1, <2>3 DEF QueueOK
<1> QED BY Zenon, <1>1, <1>2

-----------------------------------------------------------------------------
\* The types of what UpInvOf counts
LEMMA UpTypes ==
    ASSUME TypeOK, NEW c \in Conns
    PROVE  /\ rcv_wnd[c] \in Nat /\ rcvd[c] \in Nat /\ credited[c] \in Nat
           /\ Len(upstream[c]) \in Nat /\ pbuf_queue[c] \in Seq(Intervals)
           /\ TCP_WND \in Nat /\ SegMax \in Nat
           /\ \A w \in Writers : wr[c][w] \in [lo : Nat, pos : Nat, hi : Nat]
           /\ \A w \in Writers :
                  wr[c][w].lo \in Nat /\ wr[c][w].pos \in Nat /\ wr[c][w].hi \in Nat
<1>1. /\ rcv_wnd \in [Conns -> 0 .. TCP_WND] /\ rcvd \in [Conns -> Nat]
      /\ credited \in [Conns -> Nat] /\ upstream \in [Conns -> Seq(Nat)]
      /\ pbuf_queue \in [Conns -> Seq(Intervals)]
      /\ wr \in [Conns -> [Writers -> [lo : Nat, pos : Nat, hi : Nat]]]
  BY Zenon DEF TypeOK, PcbTypeOK, SessionTypeOK, CoroutineTypeOK, EndTypeOK
<1>2. \A w \in Writers : wr[c][w] \in [lo : Nat, pos : Nat, hi : Nat]
  BY Zenon, <1>1
<1>3. /\ rcv_wnd[c] \in Nat /\ rcvd[c] \in Nat /\ credited[c] \in Nat
      /\ Len(upstream[c]) \in Nat /\ pbuf_queue[c] \in Seq(Intervals)
      /\ TCP_WND \in Nat /\ SegMax \in Nat
  BY <1>1, SizeAssumption
<1> QED BY SMTT(30), <1>2, <1>3

\* x + y + z stays within n when the change of x + y is within that of n.
LEMMA Within ==
    ASSUME NEW x \in Int, NEW y \in Int, NEW n \in Int, NEW z \in Int,
           NEW x1 \in Int, NEW y1 \in Int, NEW n1 \in Int,
           x + y + z <= n, x1 + y1 - n1 <= x + y - n
    PROVE  x1 + y1 + z <= n1
OBVIOUS

\* Numbers and their differences are integers.
LEMMA Difference ==
    ASSUME NEW x \in Nat, NEW y \in Nat
    PROVE  x \in Int /\ x - y \in Int
OBVIOUS

\* Two terms of a bounded sum change places.
LEMMA Swapped ==
    ASSUME NEW x \in Int, NEW y \in Int, NEW z \in Int, NEW n \in Int, x + y + z <= n
    PROVE  x + z + y <= n
OBVIOUS

\* What may happen to one of the writers, w, and to what it writes from
LEMMA UpIntro ==
    ASSUME TypeOK, TypeOK', NEW c \in Conns, UpInvOf(c),
           NEW w \in Writers, NEW v \in Writers, w # v,
           NEW lo \in Nat, NEW pos \in Nat, NEW hi \in Nat,
           wr'[c][w] = [lo |-> lo, pos |-> pos, hi |-> hi], lo <= pos, pos <= hi,
           pc'[c][w] # "write" => wr'[c][w] = NoWrite,
           wr'[c][v] = wr[c][v], pc[c][v] = "write" => pc'[c][v] = "write",
           rcv_wnd'[c] + rcvd'[c] - credited'[c] = TCP_WND,
           QueueOK(pbuf_queue'[c], rcvd'[c]),
           state'[c] # "FREED" => Back(pbuf_queue'[c], rcvd'[c]) = rcvd'[c],
           ~remote_sending'[c] => pc'[c]["up"] = "idle",
           credited'[c] + (pos - lo) - Len(upstream'[c])
               <= credited[c] + Sent(c, w) - Len(upstream[c]),
           Len(upstream'[c]) + (hi - pos) - Front(pbuf_queue'[c], rcvd'[c])
               <= Len(upstream[c]) + Unsent(c, w) - Taken(c)
    PROVE  UpInvOf(c)'
<1>0. /\ (w = "start" /\ v = "up") \/ (w = "up" /\ v = "start")
      /\ "start" \in Writers /\ "up" \in Writers
  BY SMTT(30) DEF Writers
<1>1. /\ credited[c] \in Nat /\ credited'[c] \in Nat
      /\ Len(upstream[c]) \in Nat /\ Len(upstream'[c]) \in Nat
      /\ wr[c][w].lo \in Nat /\ wr[c][w].pos \in Nat /\ wr[c][w].hi \in Nat
      /\ wr[c][v].lo \in Nat /\ wr[c][v].pos \in Nat /\ wr[c][v].hi \in Nat
      /\ pbuf_queue[c] \in Seq(Intervals) /\ pbuf_queue'[c] \in Seq(Intervals)
      /\ rcvd[c] \in Nat /\ rcvd'[c] \in Nat
  <2>1. TypeOK => /\ credited[c] \in Nat /\ Len(upstream[c]) \in Nat
                  /\ pbuf_queue[c] \in Seq(Intervals) /\ rcvd[c] \in Nat
    BY Zenon, UpTypes
  <2>2. TypeOK' => /\ credited'[c] \in Nat /\ Len(upstream'[c]) \in Nat
                   /\ pbuf_queue'[c] \in Seq(Intervals) /\ rcvd'[c] \in Nat
    <3>1. /\ rcvd' \in [Conns -> Nat]
          /\ credited' \in [Conns -> Nat] /\ upstream' \in [Conns -> Seq(Nat)]
          /\ pbuf_queue' \in [Conns -> Seq(Intervals)]
      BY Zenon DEF TypeOK, SessionTypeOK, EndTypeOK
    <3> QED BY SMTT(30), <3>1
  <2> QED BY Zenon, <2>1, <2>2, UpTypes
<1>2. PICK f \in Nat, g \in Nat :
         f = Taken(c) /\ g = Front(pbuf_queue'[c], rcvd'[c])
  <2>1. QueueOK(pbuf_queue[c], rcvd[c])
    BY Zenon DEF UpInvOf
  <2> QED BY Zenon, <1>1, <2>1, QueueType DEF Taken
<1>a. PICK sw \in Int, sv \in Int, uw \in Int, uv \in Int :
         sw = Sent(c, w) /\ sv = Sent(c, v) /\ uw = Unsent(c, w) /\ uv = Unsent(c, v)
  <2>1. Sent(c, w) \in Int /\ Sent(c, v) \in Int /\ Unsent(c, w) \in Int /\ Unsent(c, v) \in Int
    BY Zenon, <1>1, Difference DEF Sent, Unsent
  <2> QED BY Zenon, <2>1
<1>b. /\ credited[c] \in Int /\ credited'[c] \in Int /\ Len(upstream[c]) \in Int
      /\ Len(upstream'[c]) \in Int /\ f \in Int /\ g \in Int
      /\ pos - lo \in Int /\ hi - pos \in Int
  BY Zenon, <1>1, Difference
<1>3. /\ wr'[c][w].lo = lo /\ wr'[c][w].pos = pos /\ wr'[c][w].hi = hi
  BY SMTT(30)
<1>4. /\ credited[c] + Sent(c, w) + Sent(c, v) <= Len(upstream[c])
      /\ Len(upstream[c]) + Unsent(c, w) + Unsent(c, v) <= f
      /\ wr[c][v].lo <= wr[c][v].pos /\ wr[c][v].pos <= wr[c][v].hi
      /\ pc[c][v] # "write" => wr[c][v] = NoWrite
  <2>1. /\ credited[c] + Sent(c, "start") + Sent(c, "up") <= Len(upstream[c])
        /\ Len(upstream[c]) + Unsent(c, "start") + Unsent(c, "up") <= f
        /\ \A x \in Writers :
              /\ wr[c][x].lo <= wr[c][x].pos /\ wr[c][x].pos <= wr[c][x].hi
              /\ pc[c][x] # "write" => wr[c][x] = NoWrite
    BY Zenon, <1>2 DEF UpInvOf
  <2>2. CASE w = "start" /\ v = "up"
    BY Zenon, <2>1, <2>2
  <2>3. CASE w = "up" /\ v = "start"
    <3>1. /\ credited[c] + Sent(c, v) + Sent(c, w) <= Len(upstream[c])
          /\ Len(upstream[c]) + Unsent(c, v) + Unsent(c, w) <= f
      BY Zenon, <2>1, <2>3
    <3>2. /\ credited[c] + Sent(c, w) + Sent(c, v) <= Len(upstream[c])
          /\ Len(upstream[c]) + Unsent(c, w) + Unsent(c, v) <= f
      <4>1. /\ credited[c] + sv + sw <= Len(upstream[c])
            /\ Len(upstream[c]) + uv + uw <= f
        BY Zenon, <3>1, <1>a
      <4>2. /\ credited[c] + sw + sv <= Len(upstream[c])
            /\ Len(upstream[c]) + uw + uv <= f
        BY Zenon, <1>b, <4>1, Swapped
      <4> QED BY Zenon, <4>2, <1>a
    <3> QED BY Zenon, <2>1, <3>2
  <2> QED BY Zenon, <1>0, <2>2, <2>3
<1>5. /\ Sent(c, v)' = Sent(c, v) /\ Unsent(c, v)' = Unsent(c, v)
      /\ Sent(c, w)' = pos - lo /\ Unsent(c, w)' = hi - pos
  BY SMTT(30), <1>3 DEF Sent, Unsent
<1>6. /\ credited'[c] + (pos - lo) + Sent(c, v) <= Len(upstream'[c])
      /\ Len(upstream'[c]) + (hi - pos) + Unsent(c, v) <= g
  <2>1. /\ credited'[c] + (pos - lo) - Len(upstream'[c])
               <= credited[c] + Sent(c, w) - Len(upstream[c])
        /\ Len(upstream'[c]) + (hi - pos) - g <= Len(upstream[c]) + Unsent(c, w) - f
    BY Zenon, <1>2
  <2>2. /\ credited[c] + sw + sv <= Len(upstream[c])
        /\ Len(upstream[c]) + uw + uv <= f
        /\ credited'[c] + (pos - lo) - Len(upstream'[c])
               <= credited[c] + sw - Len(upstream[c])
        /\ Len(upstream'[c]) + (hi - pos) - g <= Len(upstream[c]) + uw - f
    BY Zenon, <1>4, <2>1, <1>a
  <2>3. /\ credited'[c] + (pos - lo) + sv <= Len(upstream'[c])
        /\ Len(upstream'[c]) + (hi - pos) + uv <= g
    BY ZenonT(30), <1>b, <2>2, Within
  <2> QED BY Zenon, <1>a, <2>3
<1>7. /\ credited'[c] + Sent(c, "start")' + Sent(c, "up")' <= Len(upstream'[c])
      /\ Len(upstream'[c]) + Unsent(c, "start")' + Unsent(c, "up")' <= g
  <2>1. /\ credited'[c] + Sent(c, w)' + Sent(c, v)' <= Len(upstream'[c])
        /\ Len(upstream'[c]) + Unsent(c, w)' + Unsent(c, v)' <= g
    BY Zenon, <1>5, <1>6
  <2>2. CASE w = "start" /\ v = "up"
    BY Zenon, <2>1, <2>2
  <2>3. CASE w = "up" /\ v = "start"
    <3>1. /\ credited'[c] + Sent(c, v)' + Sent(c, w)' <= Len(upstream'[c])
          /\ Len(upstream'[c]) + Unsent(c, v)' + Unsent(c, w)' <= g
      <4>1. /\ credited'[c] + (pos - lo) + sv <= Len(upstream'[c])
            /\ Len(upstream'[c]) + (hi - pos) + uv <= g
        BY Zenon, <1>6, <1>a
      <4>2. /\ credited'[c] + sv + (pos - lo) <= Len(upstream'[c])
            /\ Len(upstream'[c]) + uv + (hi - pos) <= g
        BY Zenon, <1>b, <4>1, Swapped
      <4> QED BY Zenon, <4>2, <1>5, <1>a
    <3> QED BY Zenon, <2>3, <3>1
  <2> QED BY Zenon, <1>0, <2>2, <2>3
<1>8. \A x \in Writers :
         /\ wr'[c][x].lo <= wr'[c][x].pos /\ wr'[c][x].pos <= wr'[c][x].hi
         /\ pc'[c][x] # "write" => wr'[c][x] = NoWrite
  <2>1. ASSUME NEW x \in Writers
        PROVE  /\ wr'[c][x].lo <= wr'[c][x].pos /\ wr'[c][x].pos <= wr'[c][x].hi
               /\ pc'[c][x] # "write" => wr'[c][x] = NoWrite
    <3>1. x = w \/ x = v
      BY SMTT(30), <1>0 DEF Writers
    <3>2. CASE x = w
      BY Zenon, <1>3, <3>2
    <3>3. CASE x = v
      BY Zenon, <1>4, <3>3
    <3> QED BY Zenon, <3>1, <3>2, <3>3
  <2> QED BY Zenon, <2>1
<1> QED BY Zenon, <1>2, <1>7, <1>8 DEF UpInvOf, Taken, QueueEnd

\* A step that leaves alone what the invariant counts
LEMMA UpKeep ==
    ASSUME NEW c \in Conns, UpInvOf(c),
           pbuf_queue'[c] = pbuf_queue[c], rcvd'[c] = rcvd[c], rcv_wnd'[c] = rcv_wnd[c],
           credited'[c] = credited[c], wr'[c] = wr[c], upstream'[c] = upstream[c],
           remote_sending'[c] = remote_sending[c], pc'[c]["up"] = pc[c]["up"],
           pc[c]["start"] = "write" => pc'[c]["start"] = "write",
           state'[c] # "FREED" => state[c] # "FREED"
    PROVE  UpInvOf(c)'
<1>1. /\ rcv_wnd'[c] + rcvd'[c] - credited'[c] = TCP_WND
      /\ QueueOK(pbuf_queue'[c], rcvd'[c])
      /\ state'[c] # "FREED" => Back(pbuf_queue'[c], rcvd'[c]) = rcvd'[c]
  BY Zenon DEF UpInvOf, QueueEnd
<1>2. \A w \in Writers : pc[c][w] = "write" => pc'[c][w] = "write"
  BY SMTT(30) DEF Writers
<1>3. \A w \in Writers :
         /\ wr'[c][w].lo <= wr'[c][w].pos /\ wr'[c][w].pos <= wr'[c][w].hi
         /\ pc'[c][w] # "write" => wr'[c][w] = NoWrite
  BY Zenon, <1>2 DEF UpInvOf
<1>4. ~remote_sending'[c] => pc'[c]["up"] = "idle"
  BY SMTT(30) DEF UpInvOf
<1>5. \A w \in Writers : Sent(c, w)' = Sent(c, w) /\ Unsent(c, w)' = Unsent(c, w)
  BY Zenon DEF Sent, Unsent
<1>6. /\ credited'[c] + Sent(c, "start")' + Sent(c, "up")' <= Len(upstream'[c])
      /\ Len(upstream'[c]) + Unsent(c, "start")' + Unsent(c, "up")'
             <= Front(pbuf_queue'[c], rcvd'[c])
  <2>1. "start" \in Writers /\ "up" \in Writers
    BY SMTT(30) DEF Writers
  <2> QED BY Zenon, <1>5, <2>1 DEF UpInvOf, Taken
<1> QED BY Zenon, <1>1, <1>3, <1>4, <1>6 DEF UpInvOf, Taken, QueueEnd

\* What is known of a writer
LEMMA UpWriter ==
    ASSUME TypeOK, NEW c \in Conns, UpInvOf(c), NEW w \in Writers
    PROVE  /\ Sent(c, w) \in Nat /\ Unsent(c, w) \in Nat
           /\ Taken(c) \in Nat /\ Taken(c) <= rcvd[c]
           /\ credited[c] + Sent(c, w) <= rcvd[c]
<1>1. /\ credited[c] \in Nat /\ Len(upstream[c]) \in Nat /\ rcvd[c] \in Nat
      /\ pbuf_queue[c] \in Seq(Intervals)
      /\ \A x \in Writers :
             wr[c][x].lo \in Nat /\ wr[c][x].pos \in Nat /\ wr[c][x].hi \in Nat
  BY Zenon, UpTypes
<1>2. /\ Taken(c) \in Nat /\ QueueEnd(c) \in Nat /\ Taken(c) <= QueueEnd(c)
      /\ QueueEnd(c) <= rcvd[c]
  <2>1. QueueOK(pbuf_queue[c], rcvd[c])
    BY Zenon DEF UpInvOf
  <2> QED BY Zenon, <1>1, <2>1, QueueType DEF Taken, QueueEnd, QueueOK
<1>3. Taken(c) <= rcvd[c]
  BY <1>1, <1>2
<1>4. \A x \in Writers : Sent(c, x) \in Nat /\ Unsent(c, x) \in Nat
  <2>1. ASSUME NEW x \in Writers PROVE Sent(c, x) \in Nat /\ Unsent(c, x) \in Nat
    <3>1. PICK lo \in Nat, pos \in Nat, hi \in Nat :
             lo = wr[c][x].lo /\ pos = wr[c][x].pos /\ hi = wr[c][x].hi
      BY Zenon, <1>1
    <3>2. lo <= pos /\ pos <= hi
      BY Zenon, <3>1 DEF UpInvOf
    <3>3. pos - lo \in Nat /\ hi - pos \in Nat
      BY <3>2
    <3> QED BY Zenon, <3>1, <3>3 DEF Sent, Unsent
  <2> QED BY Zenon, <2>1
<1>5. "start" \in Writers /\ "up" \in Writers /\ (w = "start" \/ w = "up")
  BY DEF Writers
<1>6. PICK s \in Nat, u \in Nat, x \in Nat, y \in Nat, f \in Nat :
         /\ s = Sent(c, "start") /\ u = Sent(c, "up") /\ x = Unsent(c, "start")
         /\ y = Unsent(c, "up") /\ f = Taken(c)
  BY Zenon, <1>2, <1>4, <1>5
<1>7. credited[c] + s + u <= Len(upstream[c]) /\ Len(upstream[c]) + x + y <= f /\ f <= rcvd[c]
  BY Zenon, <1>3, <1>6 DEF UpInvOf
<1>8. credited[c] + s <= rcvd[c] /\ credited[c] + u <= rcvd[c]
  <2>1. \A k, l, r \in Nat :
            k + s + u <= l /\ l + x + y <= f /\ f <= r => k + s <= r /\ k + u <= r
    BY SMTT(30)
  <2> QED BY Zenon, <2>1, <1>1, <1>7
<1> QED BY Zenon, <1>2, <1>3, <1>4, <1>5, <1>6, <1>8

\* tcp_recved for the packet that was written: the window does not overflow.
LEMMA UpCredit ==
    ASSUME TypeOK, NEW c \in Conns, UpInvOf(c), NEW w \in Writers,
           Written(c, w), TcpRecved(c, WriteLen(c, w)), rcvd'[c] = rcvd[c]
    PROVE  /\ rcv_wnd'[c] + rcvd'[c] - credited'[c] = TCP_WND
           /\ credited'[c] = credited[c] + Sent(c, w)
<1>1. /\ rcv_wnd[c] \in Nat /\ rcvd[c] \in Nat /\ credited[c] \in Nat /\ TCP_WND \in Nat
      /\ rcv_wnd[c] + rcvd[c] - credited[c] = TCP_WND
  BY Zenon, UpTypes DEF UpInvOf
<1>2. PICK n \in Nat : n = Sent(c, w) /\ credited[c] + n <= rcvd[c]
  BY Zenon, UpWriter
<1>3. n = WriteLen(c, w)
  BY Zenon, <1>2 DEF Written, WriteLen, Sent
<1>4. /\ rcv_wnd' = [rcv_wnd EXCEPT ![c] = IF @ + n > TCP_WND THEN TCP_WND ELSE @ + n]
      /\ credited' = [credited EXCEPT ![c] = @ + n]
  BY Zenon, <1>3 DEF TcpRecved
<1>5. ~(rcv_wnd[c] + n > TCP_WND)
  BY <1>1, <1>2
<1>6. rcv_wnd'[c] = rcv_wnd[c] + n /\ credited'[c] = credited[c] + n
  <2>1. rcv_wnd \in [Conns -> 0 .. TCP_WND] /\ credited \in [Conns -> Nat]
    BY Zenon DEF TypeOK, PcbTypeOK, EndTypeOK
  <2> QED BY Zenon, <1>4, <1>5, <2>1
<1>7. rcv_wnd[c] + n + rcvd[c] - (credited[c] + n) = TCP_WND
  BY <1>1
<1> QED BY Zenon, <1>2, <1>6, <1>7

\* A writer puts down what it has, without having credited more than it sent.
LEMMA UpDone ==
    ASSUME TypeOK, TypeOK', NEW c \in Conns, UpInvOf(c),
           NEW w \in Writers, NEW v \in Writers, w # v,
           wr'[c][w] = NoWrite, wr'[c][v] = wr[c][v],
           pc[c][v] = "write" => pc'[c][v] = "write",
           rcv_wnd'[c] + rcvd'[c] - credited'[c] = TCP_WND,
           credited'[c] <= credited[c] + Sent(c, w),
           pbuf_queue'[c] = pbuf_queue[c], rcvd'[c] = rcvd[c], upstream'[c] = upstream[c],
           state'[c] = state[c], ~remote_sending'[c] => pc'[c]["up"] = "idle"
    PROVE  UpInvOf(c)'
<1>1. /\ QueueOK(pbuf_queue'[c], rcvd'[c])
      /\ state'[c] # "FREED" => Back(pbuf_queue'[c], rcvd'[c]) = rcvd'[c]
      /\ Front(pbuf_queue'[c], rcvd'[c]) = Taken(c)
  BY Zenon DEF UpInvOf, QueueEnd, Taken
<1>2. credited[c] \in Nat /\ credited'[c] \in Nat /\ Len(upstream[c]) \in Nat
  <2>1. credited' \in [Conns -> Nat]
    BY Zenon DEF TypeOK, EndTypeOK
  <2> QED BY Zenon, <2>1, UpTypes
<1>3. PICK s \in Nat, u \in Nat, f \in Nat :
         s = Sent(c, w) /\ u = Unsent(c, w) /\ f = Taken(c)
  BY Zenon, UpWriter
<1>4. PICK z \in Nat : z = 0
  OBVIOUS
<1>5. z <= z /\ wr'[c][w] = [lo |-> z, pos |-> z, hi |-> z]
  BY SMTT(30), <1>4 DEF NoWrite
<1>6. credited'[c] <= credited[c] + s
  BY Zenon, <1>3
<1>7. /\ credited'[c] + (z - z) - Len(upstream[c]) <= credited[c] + s - Len(upstream[c])
      /\ Len(upstream[c]) + (z - z) - f <= Len(upstream[c]) + u - f
  <2>1. PICK x \in Nat, y \in Nat, n \in Nat :
           x = credited[c] /\ y = credited'[c] /\ n = Len(upstream[c])
    BY Zenon, <1>2
  <2>2. y <= x + s
    BY Zenon, <1>6, <2>1
  <2>3. y + (z - z) - n <= x + s - n /\ n + (z - z) - f <= n + u - f
    BY SMTT(30), <2>2
  <2> QED BY Zenon, <2>1, <2>3
<1>8. /\ credited'[c] + (z - z) - Len(upstream'[c])
             <= credited[c] + Sent(c, w) - Len(upstream[c])
      /\ Len(upstream'[c]) + (z - z) - Front(pbuf_queue'[c], rcvd'[c])
             <= Len(upstream[c]) + Unsent(c, w) - Taken(c)
  BY Zenon, <1>1, <1>3, <1>7
<1> QED BY Zenon, <1>1, <1>5, <1>8, UpIntro

\* A writer takes the front of q, which holds the bytes after those taken so far.
LEMMA UpTake ==
    ASSUME TypeOK, TypeOK', NEW c \in Conns, UpInvOf(c),
           NEW w \in Writers, NEW v \in Writers, w # v,
           NEW q \in Seq(Intervals), q # <<>>, StartWrite(c, w, q),
           QueueOK(q, rcvd'[c]), Front(q, rcvd'[c]) = Taken(c),
           state'[c] # "FREED" => Back(q, rcvd'[c]) = rcvd'[c],
           rcv_wnd'[c] + rcvd'[c] - credited'[c] = TCP_WND,
           credited'[c] <= credited[c] + Sent(c, w),
           upstream'[c] = upstream[c], ~remote_sending'[c] => pc'[c]["up"] = "idle"
    PROVE  UpInvOf(c)'
<1>1. rcvd'[c] \in Nat /\ credited'[c] \in Nat
  <2>1. rcvd' \in [Conns -> Nat] /\ credited' \in [Conns -> Nat]
    BY Zenon DEF TypeOK, EndTypeOK
  <2> QED BY Zenon, <2>1
<1>2. credited[c] \in Nat /\ Len(upstream[c]) \in Nat
  BY Zenon, UpTypes
<1>3. PICK s \in Nat, u \in Nat, f \in Nat :
         s = Sent(c, w) /\ u = Unsent(c, w) /\ f = Taken(c)
  BY Zenon, UpWriter
<1>4. PICK r \in Nat : r = rcvd'[c]
  BY Zenon, <1>1
<1>5. QueueOK(q, r) /\ Front(q, r) = f
  BY Zenon, <1>3, <1>4
<1>6. /\ Head(q) \in Intervals /\ Head(q)[1] = f
      /\ Head(q)[1] < Head(q)[2] /\ Head(q)[2] <= Front(Tail(q), r)
      /\ Tail(q) \in Seq(Intervals) /\ QueueOK(Tail(q), r)
      /\ Back(q, r) = r => Back(Tail(q), r) = r
  BY Zenon, <1>5, QueueTail
<1>7. PICK hi \in Nat, g \in Nat : hi = Head(q)[2] /\ g = Front(Tail(q), r)
  <2>1. Head(q)[2] \in Nat
    BY Zenon, <1>6 DEF Intervals
  <2> QED BY Zenon, <1>6, <2>1, QueueType
<1>8. f < hi /\ hi <= g
  BY Zenon, <1>6, <1>7
<1>9. /\ wr'[c][w] = [lo |-> f, pos |-> f, hi |-> hi] /\ wr'[c][v] = wr[c][v]
      /\ pc'[c][w] = "write" /\ pc'[c][v] = pc[c][v]
      /\ pbuf_queue'[c] = Tail(q)
  <2>1. /\ pc \in [Conns -> [Coroutines -> PCs]] /\ pbuf_queue \in [Conns -> Seq(Intervals)]
        /\ wr \in [Conns -> [Writers -> [lo : Nat, pos : Nat, hi : Nat]]]
        /\ w \in Coroutines /\ v \in Coroutines
    BY Zenon DEF TypeOK, SessionTypeOK, CoroutineTypeOK, Writers, Coroutines
  <2>2. /\ pbuf_queue' = [pbuf_queue EXCEPT ![c] = Tail(q)]
        /\ pc' = [pc EXCEPT ![c][w] = "write"]
        /\ wr' = [wr EXCEPT ![c][w] = [lo |-> f, pos |-> f, hi |-> hi]]
    BY Zenon, <1>6, <1>7 DEF StartWrite
  <2>3. pc'[c][w] = "write" /\ pc'[c][v] = pc[c][v] /\ pbuf_queue'[c] = Tail(q)
    BY Zenon, <2>1, <2>2
  <2>4. wr'[c][w] = [lo |-> f, pos |-> f, hi |-> hi] /\ wr'[c][v] = wr[c][v]
    BY Zenon, <2>1, <2>2
  <2> QED BY Zenon, <2>3, <2>4
<1>10. credited'[c] <= credited[c] + s
  BY Zenon, <1>3
<1>11. /\ credited'[c] + (f - f) - Len(upstream[c]) <= credited[c] + s - Len(upstream[c])
       /\ Len(upstream[c]) + (hi - f) - g <= Len(upstream[c]) + u - f
       /\ f <= f /\ f <= hi
  <2>1. credited'[c] + (f - f) - Len(upstream[c]) <= credited[c] + s - Len(upstream[c])
    BY Zenon, <1>1, <1>2, <1>10, TakeCredits
  <2>2. Len(upstream[c]) + (hi - f) - g <= Len(upstream[c]) + u - f
    BY Zenon, <1>2, <1>8, TakeHolds
  <2>3. f <= f /\ f <= hi
    BY Zenon, <1>8, TakeOrder
  <2> QED BY Zenon, <2>1, <2>2, <2>3
<1>12. /\ credited'[c] + (f - f) - Len(upstream'[c])
              <= credited[c] + Sent(c, w) - Len(upstream[c])
       /\ Len(upstream'[c]) + (hi - f) - Front(pbuf_queue'[c], rcvd'[c])
              <= Len(upstream[c]) + Unsent(c, w) - Taken(c)
  BY Zenon, <1>3, <1>4, <1>7, <1>9, <1>11
<1>13. /\ QueueOK(pbuf_queue'[c], rcvd'[c])
       /\ state'[c] # "FREED" => Back(pbuf_queue'[c], rcvd'[c]) = rcvd'[c]
  BY Zenon, <1>4, <1>6, <1>9
<1> QED BY ZenonT(30), <1>9, <1>11, <1>12, <1>13, UpIntro

\* Data came, and no writer has taken any of it yet.
LEMMA UpGrow ==
    ASSUME TypeOK, TypeOK', NEW c \in Conns, UpInvOf(c),
           wr'[c] = wr[c], pc'[c] = pc[c], upstream'[c] = upstream[c],
           credited'[c] = credited[c], remote_sending'[c] = remote_sending[c],
           rcv_wnd'[c] + rcvd'[c] - credited'[c] = TCP_WND,
           QueueOK(pbuf_queue'[c], rcvd'[c]), Taken(c) <= Front(pbuf_queue'[c], rcvd'[c]),
           state'[c] # "FREED" => Back(pbuf_queue'[c], rcvd'[c]) = rcvd'[c]
    PROVE  UpInvOf(c)'
<1>1. "start" \in Writers /\ "up" \in Writers /\ "start" # "up"
  BY DEF Writers
<1>2. PICK lo \in Nat, pos \in Nat, hi \in Nat :
         wr[c]["start"] = [lo |-> lo, pos |-> pos, hi |-> hi]
  <2>1. wr[c]["start"] \in [lo : Nat, pos : Nat, hi : Nat]
    BY Zenon, <1>1, UpTypes
  <2> QED BY Zenon, <2>1
<1>3. lo = wr[c]["start"].lo /\ pos = wr[c]["start"].pos /\ hi = wr[c]["start"].hi
  BY SMTT(30), <1>2
<1>4. lo <= pos /\ pos <= hi /\ (pc[c]["start"] # "write" => wr[c]["start"] = NoWrite)
  BY Zenon, <1>1, <1>3 DEF UpInvOf
<1>5. pos - lo = Sent(c, "start") /\ hi - pos = Unsent(c, "start")
  BY Zenon, <1>3 DEF Sent, Unsent
<1>6. ~remote_sending'[c] => pc'[c]["up"] = "idle"
  BY Zenon DEF UpInvOf
<1>7. PICK x \in Nat, n \in Nat, f \in Nat, g \in Nat, s \in Nat, u \in Nat :
         /\ x = credited[c] /\ n = Len(upstream[c]) /\ f = Taken(c)
         /\ g = Front(pbuf_queue'[c], rcvd'[c]) /\ s = pos - lo /\ u = hi - pos
  <2>1. rcvd'[c] \in Nat /\ pbuf_queue'[c] \in Seq(Intervals)
    <3>1. rcvd' \in [Conns -> Nat] /\ pbuf_queue' \in [Conns -> Seq(Intervals)]
      BY Zenon DEF TypeOK, EndTypeOK, SessionTypeOK
    <3> QED BY Zenon, <3>1
  <2>2. Front(pbuf_queue'[c], rcvd'[c]) \in Nat
    BY Zenon, <2>1, QueueType
  <2> QED BY ZenonT(30), <1>1, <1>5, <2>2, UpTypes, UpWriter
<1>8. f <= g
  BY Zenon, <1>7
<1>9. x + s - n <= x + s - n /\ n + u - g <= n + u - f
  BY SMTT(30), <1>8
<1>10. /\ credited'[c] + (pos - lo) - Len(upstream'[c])
              <= credited[c] + Sent(c, "start") - Len(upstream[c])
       /\ Len(upstream'[c]) + (hi - pos) - Front(pbuf_queue'[c], rcvd'[c])
              <= Len(upstream[c]) + Unsent(c, "start") - Taken(c)
  BY Zenon, <1>5, <1>7, <1>9
<1>11. /\ wr'[c]["start"] = [lo |-> lo, pos |-> pos, hi |-> hi] /\ wr'[c]["up"] = wr[c]["up"]
       /\ pc'[c]["start"] # "write" => wr'[c]["start"] = NoWrite
       /\ pc[c]["up"] = "write" => pc'[c]["up"] = "write"
  BY Zenon, <1>2, <1>4
<1> QED BY ZenonT(30), <1>1, <1>4, <1>6, <1>10, <1>11, UpIntro

\* The server takes k bytes of what a writer has.
LEMMA UpServed ==
    ASSUME TypeOK, TypeOK', NEW c \in Conns, UpInvOf(c), NEW k \in 1 .. SegMax,
           CompleteWrite(c, k)
    PROVE  UpInvOf(c)'
<1>1. PICK w \in Writers : w = Head(write_ops[c])
  <2>1. write_ops[c] \in Seq(Writers) /\ write_ops[c] # <<>>
    <3>1. write_ops \in [Conns -> Seq(Writers)]
      BY Zenon DEF TypeOK, CoroutineTypeOK
    <3> QED BY Zenon, <3>1 DEF CompleteWrite
  <2>2. Head(write_ops[c]) \in Writers
    BY <2>1
  <2> QED BY Zenon, <2>2
<1>2. PICK v \in Writers : w # v
  BY DEF Writers
<1>3. PICK lo \in Nat, pos \in Nat, hi \in Nat :
         wr[c][w] = [lo |-> lo, pos |-> pos, hi |-> hi]
  <2>1. wr[c][w] \in [lo : Nat, pos : Nat, hi : Nat]
    BY Zenon, UpTypes
  <2> QED BY Zenon, <2>1
<1>4. lo = wr[c][w].lo /\ pos = wr[c][w].pos /\ hi = wr[c][w].hi
  BY SMTT(30), <1>3
<1>5. /\ pos + k <= hi
      /\ wr' = [wr EXCEPT ![c][w].pos = @ + k]
      /\ upstream' = [upstream EXCEPT ![c] = @ \o [i \in 1 .. k |-> pos + i]]
      /\ UNCHANGED <<pcbVars, sessVars, pc, rcvd, credited>>
  BY Zenon, <1>1, <1>4 DEF CompleteWrite
<1>6. UNCHANGED <<state, rcv_wnd, pbuf_queue, remote_sending, pc, rcvd, credited>>
  BY Zenon, <1>5 DEF pcbVars, sessVars
<1>7. PICK p \in Nat : p = pos + k
  BY SizeAssumption
<1>8. wr'[c][w] = [lo |-> lo, pos |-> p, hi |-> hi] /\ wr'[c][v] = wr[c][v]
  <2>1. wr \in [Conns -> [Writers -> [lo : Nat, pos : Nat, hi : Nat]]]
    BY Zenon DEF TypeOK, CoroutineTypeOK
  <2>2. wr'[c][w] = [wr[c][w] EXCEPT !.pos = wr[c][w].pos + k] /\ wr'[c][v] = wr[c][v]
    BY Zenon, <1>2, <1>5, <2>1
  <2> QED BY SMTT(30), <1>3, <1>7, <2>2
<1>9. lo <= pos /\ (pc[c][w] # "write" => wr[c][w] = NoWrite)
  BY Zenon, <1>4 DEF UpInvOf
<1>10. k \in Nat /\ k > 0 /\ lo <= p /\ p <= hi /\ pos < hi
  BY SMTT(60), <1>5, <1>7, <1>9, SizeAssumption
<1>11. pc[c][w] = "write"
  <2>1. wr[c][w] # NoWrite
    <3>1. hi # 0
      BY <1>10
    <3> QED BY <1>3, <3>1 DEF NoWrite
  <2> QED BY Zenon, <1>9, <2>1
<1>12. Len(upstream'[c]) = Len(upstream[c]) + k
  <2>1. upstream \in [Conns -> Seq(Nat)]
    BY Zenon DEF TypeOK, EndTypeOK
  <2>2. [i \in 1 .. k |-> pos + i] \in [1 .. k -> Nat]
    BY <1>10
  <2>3. [i \in 1 .. k |-> pos + i] \in Seq(Nat) /\ Len([i \in 1 .. k |-> pos + i]) = k
    BY Zenon, <1>10, <2>2, FunctionIsSeq
  <2>4. PICK u \in Seq(Nat), e \in Seq(Nat) :
           u = upstream[c] /\ e = [i \in 1 .. k |-> pos + i]
    BY Zenon, <2>1, <2>3
  <2>5. upstream'[c] = u \o e
    BY Zenon, <1>5, <2>1, <2>4
  <2>6. Len(u \o e) = Len(u) + Len(e)
    OBVIOUS
  <2> QED BY Zenon, <2>3, <2>4, <2>5, <2>6
<1>13. PICK x \in Nat, n \in Nat, f \in Nat :
          x = credited[c] /\ n = Len(upstream[c]) /\ f = Taken(c)
  BY Zenon, UpTypes, UpWriter
<1>14. /\ x + (p - lo) - (n + k) <= x + (pos - lo) - n
       /\ (n + k) + (hi - p) - f <= n + (hi - pos) - f
  BY <1>7, <1>10
<1>15. pos - lo = Sent(c, w) /\ hi - pos = Unsent(c, w)
  BY Zenon, <1>4 DEF Sent, Unsent
<1>16. /\ rcv_wnd'[c] + rcvd'[c] - credited'[c] = TCP_WND
       /\ QueueOK(pbuf_queue'[c], rcvd'[c])
       /\ state'[c] # "FREED" => Back(pbuf_queue'[c], rcvd'[c]) = rcvd'[c]
       /\ Front(pbuf_queue'[c], rcvd'[c]) = Taken(c)
  BY Zenon, <1>6 DEF UpInvOf, QueueEnd, Taken
<1>17. ~remote_sending'[c] => pc'[c]["up"] = "idle"
  BY Zenon, <1>6 DEF UpInvOf
<1>18. /\ credited'[c] + (p - lo) - Len(upstream'[c])
              <= credited[c] + Sent(c, w) - Len(upstream[c])
       /\ Len(upstream'[c]) + (hi - p) - Front(pbuf_queue'[c], rcvd'[c])
              <= Len(upstream[c]) + Unsent(c, w) - Taken(c)
  BY Zenon, <1>6, <1>12, <1>13, <1>14, <1>15, <1>16
<1>19. pc'[c] = pc[c]
  BY Zenon, <1>6
<1> QED BY Zenon, <1>2, <1>8, <1>10, <1>11, <1>16, <1>17, <1>18, <1>19, UpIntro

\* Data from the application: dropped with the pcb of a closed session, queued,
\* or taken by the coroutine that ProxyTcpPacket spawns
LEMMA DataUp ==
    ASSUME TypeOK, TypeOK', MapInv, NEW c \in Conns, UpInvOf(c), NEW n \in 1 .. SegMax,
           RecvData(c, n)
    PROVE  UpInvOf(c)'
<1>1. session_map[TupleOf[c]] = c /\ c # NoConn /\ state[c] = "ESTABLISHED"
  BY Zenon, ConnAssumption DEF MapInv, MapMatchesPcbs, RecvData
<1>2. PICK r \in Nat, t \in Nat, q \in Seq(Intervals) :
         r = rcvd[c] /\ t = rcvd[c] + n /\ q = pbuf_queue[c]
  <2>1. rcvd[c] \in Nat /\ rcvd[c] + n \in Nat /\ pbuf_queue[c] \in Seq(Intervals)
    BY SMTT(30), UpTypes
  <2> QED BY Zenon, <2>1
<1>3. QueueOK(q, r) /\ Back(q, r) = r /\ Front(q, r) = Taken(c)
  BY Zenon, <1>1, <1>2 DEF UpInvOf, QueueEnd, Taken
<1>4. /\ rcv_wnd' = [rcv_wnd EXCEPT ![c] = rcv_wnd[c] - n]
      /\ rcvd' = [rcvd EXCEPT ![c] = @ + n]
      /\ UNCHANGED <<credited, upstream>>
      /\ n <= rcv_wnd[c]
  BY Zenon, <1>1 DEF RecvData
<1>5. rcvd'[c] = t /\ rcv_wnd'[c] = rcv_wnd[c] - n
  <2>1. rcvd \in [Conns -> Nat] /\ rcv_wnd \in [Conns -> 0 .. TCP_WND]
    BY Zenon DEF TypeOK, PcbTypeOK, EndTypeOK
  <2> QED BY Zenon, <1>2, <1>4, <2>1
<1>6. rcv_wnd'[c] + rcvd'[c] - credited'[c] = TCP_WND
  <2>1. PICK x \in Nat, y \in Nat, z \in Nat, m \in Nat :
           x = rcv_wnd[c] /\ y = rcvd[c] /\ z = credited[c] /\ m = TCP_WND
    BY Zenon, UpTypes
  <2>2. x + y - z = m
    BY Zenon, <2>1 DEF UpInvOf
  <2>3. (x - n) + (y + n) - z = m
    BY <2>2
  <2> QED BY Zenon, <1>2, <1>4, <1>5, <2>1, <2>3
<1>7. CASE status[c] = "CLOSE"
  <2>1. FreePcb(c) /\ UNCHANGED <<pbuf_queue, remote_sending, pc, wr>>
    BY Zenon, <1>1, <1>7 DEF RecvData
  <2>2. state'[c] = "FREED"
    BY Zenon, <2>1, FreePcbEffect
  <2>3. r <= t
    BY <1>2
  <2>4. QueueOK(q, t) /\ Taken(c) <= Front(q, t)
    BY Zenon, <1>3, <2>3, QueueGrow
  <2> QED BY Zenon, <1>2, <1>4, <1>5, <1>6, <2>1, <2>2, <2>4, UpGrow
<1>8. CASE status[c] # "CLOSE"
  <2>1. PICK a : a = Append(q, <<r, t>>)
    BY Zenon
  <2>2. /\ a \in Seq(Intervals) /\ a # <<>> /\ QueueOK(a, t)
        /\ Front(a, t) = Front(q, r) /\ Back(a, t) = t
    <3>1. t = r + n
      BY Zenon, <1>2
    <3> QED BY Zenon, <1>3, <2>1, <3>1, QueueAppend
  <2>3. ProxyTcpPacket(c, <<r, t>>) /\ UNCHANGED state
    BY Zenon, <1>1, <1>2, <1>8 DEF RecvData
  <2>4. CASE status[c] # "RELAYING" \/ remote_sending[c]
    <3>1. pbuf_queue' = [pbuf_queue EXCEPT ![c] = a] /\ UNCHANGED <<remote_sending, pc, wr>>
      BY Zenon, <1>2, <2>1, <2>3, <2>4 DEF ProxyTcpPacket
    <3>2. pbuf_queue'[c] = a
      <4>1. pbuf_queue \in [Conns -> Seq(Intervals)]
        BY Zenon DEF TypeOK, SessionTypeOK
      <4> QED BY Zenon, <3>1, <4>1
    <3>3. Taken(c) \in Nat /\ Taken(c) <= Taken(c)
      BY <1>3, QueueType
    <3> QED BY Zenon, <1>3, <1>4, <1>5, <1>6, <2>2, <3>1, <3>2, <3>3, UpGrow
  <2>5. CASE ~(status[c] # "RELAYING" \/ remote_sending[c])
    <3>1. /\ remote_sending' = [remote_sending EXCEPT ![c] = TRUE]
          /\ StartWrite(c, "up", a)
      BY Zenon, <1>2, <2>1, <2>3, <2>5 DEF ProxyTcpPacket
    <3>2. remote_sending'[c]
      <4>1. remote_sending \in [Conns -> BOOLEAN]
        BY Zenon DEF TypeOK, SessionTypeOK
      <4> QED BY Zenon, <3>1, <4>1
    <3>3. "up" \in Writers /\ "start" \in Writers /\ "up" # "start"
      BY DEF Writers
    <3>4. credited'[c] <= credited[c] + Sent(c, "up")
      <4>1. PICK x \in Nat, s \in Nat : x = credited[c] /\ s = Sent(c, "up")
        BY Zenon, <3>3, UpTypes, UpWriter
      <4>2. x <= x + s
        OBVIOUS
      <4> QED BY Zenon, <1>4, <4>1, <4>2
    <3>5. /\ QueueOK(a, rcvd'[c]) /\ Front(a, rcvd'[c]) = Taken(c)
          /\ Back(a, rcvd'[c]) = rcvd'[c] /\ upstream'[c] = upstream[c]
      BY Zenon, <1>3, <1>4, <1>5, <2>2
    <3> QED BY Zenon, <1>6, <2>2, <3>1, <3>2, <3>3, <3>4, <3>5, UpTake
  <2> QED BY Zenon, <2>4, <2>5
<1> QED BY Zenon, <1>7, <1>8

\* Other segments touch nothing that the invariant counts.
LEMMA LocalUp ==
    ASSUME TypeOK, TypeOK', MapInv, NEW c \in Conns, UpInvOf(c), Local(c)
    PROVE  UpInvOf(c)'
<1>1. CASE \E n \in 1 .. SegMax : RecvData(c, n)
  BY Zenon, <1>1, DataUp
<1>2. ASSUME UNCHANGED <<pbuf_queue, rcvd, rcv_wnd, credited, wr, upstream, remote_sending>>,
             pc'[c]["up"] = pc[c]["up"], pc[c]["start"] = "write" => pc'[c]["start"] = "write",
             state'[c] # "FREED" => state[c] # "FREED"
      PROVE  UpInvOf(c)'
  BY Zenon, <1>2, UpKeep
<1>3. ASSUME NEW f, Crash(f)
      PROVE  UpInvOf(c)'
  BY Zenon, <1>2, <1>3 DEF Crash, pcbVars, sessVars, coVars, endVars
<1>0. /\ pc \in [Conns -> [Coroutines -> PCs]]
      /\ "up" \in Coroutines /\ "start" \in Coroutines /\ "down" \in Coroutines
  BY SMTT(30) DEF TypeOK, CoroutineTypeOK, Coroutines
<1>4. CASE RecvSyn(c)
  <2>1. /\ UNCHANGED <<rcv_wnd, sessVars, coVars, endVars>> /\ state[c] # "FREED"
    BY <1>4 DEF RecvSyn
  <2> QED BY Zenon, <1>2, <2>1 DEF sessVars, coVars, endVars
<1>5. CASE RecvHandshakeAck(c)
  <2>1. CASE session_map[TupleOf[c]] = NoConn
    <3>1. /\ UNCHANGED <<rcv_wnd, pbuf_queue, remote_sending, wr, endVars>>
          /\ pc' = pc \/ pc' = [pc EXCEPT ![c]["start"] = "connect"]
      BY Zenon, <1>5, <2>1 DEF RecvHandshakeAck, NewSession
    <3>2. state[c] = "SYN_RCVD"
      BY Zenon, <1>5 DEF RecvHandshakeAck
    <3>3. pc[c]["start"] = "idle" /\ state[c] # "FREED" /\ pc[c]["start"] # "write"
      BY SMTT(30), <3>2 DEF MapInv
    <3>4. pc'[c]["up"] = pc[c]["up"]
      BY <1>0, <3>1
    <3> QED BY Zenon, <1>2, <3>1, <3>3, <3>4 DEF endVars
  <2>2. CASE session_map[TupleOf[c]] # NoConn
    BY Zenon, <1>3, <1>5, <2>2 DEF RecvHandshakeAck
  <2> QED BY Zenon, <2>1, <2>2
<1>6. CASE RecvFin(c)
  <2>1. /\ UNCHANGED <<rcv_wnd, pbuf_queue, remote_sending, pc, wr, rcvd, credited, upstream>>
        /\ state[c] = "ESTABLISHED"
    BY Zenon, <1>6 DEF RecvFin
  <2>2. state[c] # "FREED"
    BY <2>1
  <2> QED BY Zenon, <1>2, <2>1, <2>2
<1>7. CASE RecvFinAck(c)
  <2>1. /\ UNCHANGED <<rcv_wnd, sessVars, coVars, rcvd, credited, upstream>>
        /\ state[c] = "LAST_ACK"
    BY Zenon, <1>7 DEF RecvFinAck
  <2>2. state[c] # "FREED"
    BY <2>1
  <2> QED BY Zenon, <1>2, <2>1, <2>2 DEF sessVars, coVars
<1>8. CASE RecvRst(c)
  <2>1. CASE callback_arg[c] /\ ~Alive(c)
    BY Zenon, <1>3, <1>8, <2>1 DEF RecvRst
  <2>2. CASE ~(callback_arg[c] /\ ~Alive(c))
    <3>1. /\ UNCHANGED <<rcv_wnd, pbuf_queue, remote_sending, pc, wr, rcvd, credited, upstream>>
          /\ Active(c)
      BY Zenon, <1>8, <2>2 DEF RecvRst
    <3>2. state[c] # "FREED"
      BY <3>1 DEF Active
    <3> QED BY Zenon, <1>2, <3>1, <3>2
  <2> QED BY Zenon, <2>1, <2>2
<1>9. ASSUME NEW v \in Windows, RecvAck(c, v)
      PROVE  UpInvOf(c)'
  <2>0. state[c] # "FREED"
    BY Zenon, <1>9 DEF RecvAck
  <2>1. CASE ~callback_arg[c]
    <3>1. UNCHANGED <<rcv_wnd, sessVars, coVars, rcvd, credited, upstream>>
      BY Zenon, <1>9, <2>1 DEF RecvAck
    <3> QED BY Zenon, <1>2, <2>0, <3>1 DEF sessVars, coVars
  <2>2. CASE callback_arg[c] /\ ~Alive(c)
    BY Zenon, <1>3, <1>9, <2>2 DEF RecvAck
  <2>3. CASE callback_arg[c] /\ Alive(c)
    <3>1. /\ UNCHANGED <<rcv_wnd, pbuf_queue, remote_sending, wr, rcvd, credited, upstream>>
          /\ pc' = pc \/ pc' = [pc EXCEPT ![c]["down"] = "read"]
      BY Zenon, <1>9, <2>3 DEF RecvAck, ReadFromRemote
    <3>2. pc'[c]["up"] = pc[c]["up"] /\ pc'[c]["start"] = pc[c]["start"]
      BY <1>0, <3>1
    <3> QED BY Zenon, <1>2, <2>0, <3>1, <3>2
  <2> QED BY Zenon, <2>1, <2>2, <2>3
<1>10. ASSUME NEW v \in Windows, RecvWnd(c, v)
       PROVE  UpInvOf(c)'
  <2>1. UNCHANGED <<state, rcv_wnd, sessVars, pc, wr, rcvd, credited, upstream>>
    BY Zenon, <1>10 DEF RecvWnd
  <2> QED BY Zenon, <1>2, <2>1 DEF sessVars
<1> QED BY Zenon, <1>1, <1>4, <1>5, <1>6, <1>7, <1>8, <1>9, <1>10 DEF Local

\* Of the completions only that of a write moves bytes.
LEMMA KernelUp ==
    ASSUME TypeOK, TypeOK', NEW c \in Conns, UpInvOf(c), Kernel(c)
    PROVE  UpInvOf(c)'
<1>1. CASE ServerReads(c)
  BY Zenon, <1>1, UpServed DEF ServerReads
<1>2. CASE \/ ServerAnswers(c) \/ ServerSends(c) \/ FailWrite(c) \/ RemoteClose(c)
           \/ \E r \in Readers : FailRead(c, r)
  <2>1. UNCHANGED <<state, rcv_wnd, pbuf_queue, remote_sending, pc, wr, rcvd, credited, upstream>>
    BY Zenon, <1>2 DEF ServerAnswers, ServerSends, CompleteHandshake, CompleteRead, FailWrite,
       RemoteClose, FailRead, pcbVars, sessVars, coVars, endVars
  <2> QED BY Zenon, <2>1, UpKeep
<1> QED BY Zenon, <1>1, <1>2 DEF Kernel

\* The writers
LEMMA WriterUp ==
    ASSUME TypeOK, TypeOK', NEW c \in Conns, UpInvOf(c),
           \/ HandshakeStep(c) \/ StartFails(c) \/ EnterRelaying(c) \/ DrainStep(c)
           \/ UpStep(c) \/ UpFails(c) \/ \E w \in Writers : WriteMore(c, w)
    PROVE  UpInvOf(c)'
<1>0. /\ pc \in [Conns -> [Coroutines -> PCs]]
      /\ wr \in [Conns -> [Writers -> [lo : Nat, pos : Nat, hi : Nat]]]
      /\ "up" \in Coroutines /\ "start" \in Coroutines
      /\ "up" \in Writers /\ "start" \in Writers /\ "up" # "start"
  BY Zenon DEF TypeOK, CoroutineTypeOK, Coroutines, Writers
<1>1. ASSUME NEW f, Crash(f)
      PROVE  UpInvOf(c)'
  BY Zenon, <1>1, UpKeep DEF Crash, pcbVars, sessVars, coVars, endVars
<1>2. /\ \A w \in Writers : credited[c] <= credited[c] + Sent(c, w)
      /\ credited[c] + Sent(c, "start") <= credited[c] + Sent(c, "start")
      /\ credited[c] + Sent(c, "up") <= credited[c] + Sent(c, "up")
      /\ rcv_wnd[c] + rcvd[c] - credited[c] = TCP_WND
      /\ ~remote_sending[c] => pc[c]["up"] = "idle"
  <2>1. ASSUME NEW w \in Writers
        PROVE  /\ credited[c] <= credited[c] + Sent(c, w)
               /\ credited[c] + Sent(c, w) <= credited[c] + Sent(c, w)
    <3>1. PICK x \in Nat, s \in Nat : x = credited[c] /\ s = Sent(c, w)
      BY Zenon, UpTypes, UpWriter
    <3>2. x <= x + s /\ x + s <= x + s
      OBVIOUS
    <3> QED BY Zenon, <3>1, <3>2
  <2> QED BY Zenon, <1>0, <2>1 DEF UpInvOf
<1>3. ASSUME DrainOrRead(c), UNCHANGED <<state, rcvd, upstream, remote_sending>>,
             rcv_wnd'[c] + rcvd'[c] - credited'[c] = TCP_WND,
             credited'[c] <= credited[c] + Sent(c, "start")
      PROVE  UpInvOf(c)'
  <2>1. CASE pbuf_queue[c] # <<>>
    <3>1. StartWrite(c, "start", pbuf_queue[c])
      BY Zenon, <1>3, <2>1 DEF DrainOrRead
    <3>2. pc'[c]["up"] = pc[c]["up"]
      <4>1. pc' = [pc EXCEPT ![c]["start"] = "write"]
        BY Zenon, <3>1 DEF StartWrite
      <4> QED BY <1>0, <4>1
    <3>3. /\ pbuf_queue[c] \in Seq(Intervals) /\ QueueOK(pbuf_queue[c], rcvd'[c])
          /\ Front(pbuf_queue[c], rcvd'[c]) = Taken(c)
          /\ state'[c] # "FREED" => Back(pbuf_queue[c], rcvd'[c]) = rcvd'[c]
      BY Zenon, <1>3, UpTypes DEF UpInvOf, Taken, QueueEnd
    <3>4. ~remote_sending'[c] => pc'[c]["up"] = "idle"
      BY Zenon, <1>2, <1>3, <3>2
    <3> QED BY Zenon, <1>0, <1>3, <2>1, <3>1, <3>3, <3>4, UpTake
  <2>2. CASE pbuf_queue[c] = <<>>
    <3>1. /\ pc' = [pc EXCEPT ![c]["start"] = "read"]
          /\ wr' = [wr EXCEPT ![c]["start"] = NoWrite] /\ UNCHANGED pbuf_queue
      BY Zenon, <1>3, <2>2 DEF DrainOrRead
    <3>2. /\ pc'[c]["up"] = pc[c]["up"] /\ wr'[c]["start"] = NoWrite
          /\ wr'[c]["up"] = wr[c]["up"]
      BY SMTT(30), <1>0, <3>1
    <3>3. ~remote_sending'[c] => pc'[c]["up"] = "idle"
      BY Zenon, <1>2, <1>3, <3>2
    <3> QED BY Zenon, <1>0, <1>3, <3>1, <3>2, <3>3, UpDone
  <2> QED BY Zenon, <2>1, <2>2
<1>4. ASSUME pc' = [pc EXCEPT ![c]["start"] = "done"],
             wr' = [wr EXCEPT ![c]["start"] = NoWrite],
             UNCHANGED <<state, rcv_wnd, pbuf_queue, remote_sending, rcvd, credited, upstream>>
      PROVE  UpInvOf(c)'
  <2>1. /\ pc'[c]["up"] = pc[c]["up"] /\ wr'[c]["start"] = NoWrite
        /\ wr'[c]["up"] = wr[c]["up"]
    BY SMTT(30), <1>0, <1>4
  <2>2. ~remote_sending'[c] => pc'[c]["up"] = "idle"
    BY Zenon, <1>2, <1>4, <2>1
  <2> QED BY Zenon, <1>0, <1>2, <1>4, <2>1, <2>2, UpDone
<1>5. ASSUME UpReturns(c), UNCHANGED <<state, pbuf_queue, rcvd, upstream>>,
             rcv_wnd'[c] + rcvd'[c] - credited'[c] = TCP_WND,
             credited'[c] <= credited[c] + Sent(c, "up")
      PROVE  UpInvOf(c)'
  <2>1. /\ pc' = [pc EXCEPT ![c]["up"] = "idle"]
        /\ wr' = [wr EXCEPT ![c]["up"] = NoWrite]
    BY Zenon, <1>5 DEF UpReturns
  <2>2. /\ pc'[c]["start"] = pc[c]["start"] /\ pc'[c]["up"] = "idle"
        /\ wr'[c]["up"] = NoWrite /\ wr'[c]["start"] = wr[c]["start"]
    BY SMTT(30), <1>0, <2>1
  <2> QED BY Zenon, <1>0, <1>5, <2>2, UpDone
<1>6. CASE HandshakeStep(c)
  <2>1. CASE ~Crash("freed_pcb")
    <3>1. /\ UNCHANGED <<pcbVars, pbuf_queue, remote_sending, wr, endVars>>
          /\ pc' = [pc EXCEPT ![c]["start"] = NextHandshake[pc[c]["start"]]]
          /\ pc[c]["start"] \in DOMAIN NextHandshake
      BY Zenon, <1>6, <2>1 DEF HandshakeStep
    <3>2. pc[c]["start"] # "write"
      BY SMTT(30), <3>1 DEF NextHandshake
    <3>3. pc'[c]["up"] = pc[c]["up"]
      BY Zenon, <1>0, <3>1
    <3>4. UNCHANGED <<state, rcv_wnd, rcvd, credited, upstream>>
      BY Zenon, <3>1 DEF pcbVars, endVars
    <3> QED BY Zenon, <3>1, <3>2, <3>3, <3>4, UpKeep
  <2> QED BY Zenon, <1>1, <2>1
<1>7. CASE StartFails(c)
  BY Zenon, <1>4, <1>7 DEF StartFails, pcbVars, endVars
<1>8. CASE EnterRelaying(c)
  <2>1. CASE ~Crash("freed_pcb")
    <3>1. DrainOrRead(c) /\ UNCHANGED <<pcbVars, remote_sending, endVars>>
      BY Zenon, <1>8, <2>1 DEF EnterRelaying
    <3>2. UNCHANGED <<state, rcv_wnd, rcvd, credited, upstream, remote_sending>>
      BY Zenon, <3>1 DEF pcbVars, endVars
    <3> QED BY Zenon, <1>0, <1>2, <1>3, <3>1, <3>2
  <2> QED BY Zenon, <1>1, <2>1
<1>9. CASE DrainStep(c)
  <2>1. CASE status[c] = "CLOSE"
    <3>1. /\ pc' = [pc EXCEPT ![c]["start"] = "done"]
          /\ wr' = [wr EXCEPT ![c]["start"] = NoWrite] /\ UNCHANGED <<pcbVars, sessVars, endVars>>
      BY Zenon, <1>9, <2>1 DEF DrainStep
    <3> QED BY Zenon, <1>4, <3>1 DEF pcbVars, sessVars, endVars
  <2>2. CASE status[c] # "CLOSE" /\ state[c] = "FREED"
    BY Zenon, <1>1, <1>9, <2>2 DEF DrainStep
  <2>3. CASE status[c] # "CLOSE" /\ state[c] # "FREED"
    <3>1. /\ Written(c, "start") /\ TcpRecved(c, WriteLen(c, "start")) /\ DrainOrRead(c)
          /\ UNCHANGED <<state, rcvd, upstream, remote_sending>>
      BY Zenon, <1>9, <2>3 DEF DrainStep
    <3>2. /\ rcv_wnd'[c] + rcvd'[c] - credited'[c] = TCP_WND
          /\ credited'[c] = credited[c] + Sent(c, "start")
      BY Zenon, <1>0, <3>1, UpCredit
    <3> QED BY Zenon, <1>2, <1>3, <3>1, <3>2
  <2> QED BY Zenon, <2>1, <2>2, <2>3
<1>10. CASE UpStep(c)
  <2>1. CASE status[c] = "CLOSE"
    <3>1. UpReturns(c) /\ UNCHANGED <<pcbVars, sessVars, endVars>>
      BY Zenon, <1>10, <2>1 DEF UpStep
    <3>2. UNCHANGED <<state, rcv_wnd, pbuf_queue, rcvd, credited, upstream>>
      BY Zenon, <3>1 DEF pcbVars, sessVars, endVars
    <3> QED BY Zenon, <1>0, <1>2, <1>5, <3>1, <3>2
  <2>2. CASE status[c] # "CLOSE" /\ state[c] = "FREED"
    BY Zenon, <1>1, <1>10, <2>2 DEF UpStep
  <2>3. CASE status[c] # "CLOSE" /\ state[c] # "FREED"
    <3>1. /\ Written(c, "up") /\ TcpRecved(c, WriteLen(c, "up"))
          /\ UNCHANGED <<state, rcvd, upstream>>
      BY Zenon, <1>10, <2>3 DEF UpStep
    <3>2. /\ rcv_wnd'[c] + rcvd'[c] - credited'[c] = TCP_WND
          /\ credited'[c] = credited[c] + Sent(c, "up")
      BY Zenon, <1>0, <3>1, UpCredit
    <3>3. credited'[c] <= credited[c] + Sent(c, "up")
      BY Zenon, <1>2, <3>2
    <3>4. CASE pbuf_queue[c] # <<>>
      <4>1. StartWrite(c, "up", pbuf_queue[c]) /\ UNCHANGED remote_sending
        BY Zenon, <1>10, <2>3, <3>4 DEF UpStep
      <4>2. /\ pbuf_queue[c] \in Seq(Intervals) /\ QueueOK(pbuf_queue[c], rcvd'[c])
            /\ Front(pbuf_queue[c], rcvd'[c]) = Taken(c)
            /\ state'[c] # "FREED" => Back(pbuf_queue[c], rcvd'[c]) = rcvd'[c]
        BY Zenon, <3>1, UpTypes DEF UpInvOf, Taken, QueueEnd
      <4>3. remote_sending'[c]
        <5>1. pc[c]["up"] = "write"
          BY Zenon, <3>1 DEF Written
        <5>2. pc[c]["up"] # "idle"
          BY Zenon, <5>1
        <5> QED BY Zenon, <1>2, <4>1, <5>2
      <4> QED BY Zenon, <1>0, <3>1, <3>2, <3>3, <3>4, <4>1, <4>2, <4>3, UpTake
    <3>5. CASE pbuf_queue[c] = <<>>
      <4>1. UpReturns(c) /\ UNCHANGED pbuf_queue
        BY Zenon, <1>10, <2>3, <3>5 DEF UpStep
      <4> QED BY Zenon, <1>5, <3>1, <3>2, <3>3, <4>1
    <3> QED BY Zenon, <3>4, <3>5
  <2> QED BY Zenon, <2>1, <2>2, <2>3
<1>11. CASE UpFails(c)
  <2>1. UpReturns(c) /\ UNCHANGED <<pcbVars, pbuf_queue, endVars>>
    BY Zenon, <1>11 DEF UpFails
  <2>2. UNCHANGED <<state, rcv_wnd, pbuf_queue, rcvd, credited, upstream>>
    BY Zenon, <2>1 DEF pcbVars, endVars
  <2> QED BY Zenon, <1>0, <1>2, <1>5, <2>1, <2>2
<1>12. ASSUME NEW w \in Writers, WriteMore(c, w)
       PROVE  UpInvOf(c)'
  BY Zenon, <1>12, UpKeep DEF WriteMore, pcbVars, sessVars, endVars
<1> QED BY Zenon, <1>6, <1>7, <1>8, <1>9, <1>10, <1>11, <1>12

\* The readers have no part in it.
LEMMA ReaderUp ==
    ASSUME TypeOK, TypeOK', NEW c \in Conns, UpInvOf(c),
           ReadFails(c) \/ \E r \in Readers : ReadStep(c, r)
    PROVE  UpInvOf(c)'
<1>0. /\ pc \in [Conns -> [Coroutines -> PCs]]
      /\ "up" \in Coroutines /\ "start" \in Coroutines /\ "down" \in Coroutines
      /\ \A r \in Readers : r = "start" \/ r = "down"
  BY SMTT(30) DEF TypeOK, CoroutineTypeOK, Coroutines, Readers
<1>1. ASSUME NEW r \in {"start", "down"}, r = "start" => pc[c]["start"] # "write",
             pc' = [pc EXCEPT ![c][r] = IF r = "start" THEN "done" ELSE "idle"],
             UNCHANGED <<state, rcv_wnd, pbuf_queue, remote_sending, wr, rcvd, credited, upstream>>
      PROVE  UpInvOf(c)'
  <2>1. pc'[c]["up"] = pc[c]["up"]
    BY <1>0, <1>1
  <2>2. pc[c]["start"] = "write" => pc'[c]["start"] = "write"
    BY <1>0, <1>1
  <2> QED BY Zenon, <1>1, <2>1, <2>2, UpKeep
<1>2. CASE ReadFails(c)
  <2>1. /\ pc' = [pc EXCEPT ![c]["down"] = IF "down" = "start" THEN "done" ELSE "idle"]
        /\ UNCHANGED <<pcbVars, pbuf_queue, remote_sending, wr, endVars>>
    BY Zenon, <1>2 DEF ReadFails, ReaderReturns
  <2>2. "down" \in {"start", "down"} /\ "down" # "start"
    OBVIOUS
  <2>3. UNCHANGED <<state, rcv_wnd, rcvd, credited, upstream>>
    BY Zenon, <2>1 DEF pcbVars, endVars
  <2> QED BY Zenon, <1>1, <2>1, <2>2, <2>3
<1>3. ASSUME NEW r \in Readers, ReadStep(c, r)
      PROVE  UpInvOf(c)'
  <2>1. CASE Crash("freed_pcb")
    BY Zenon, <2>1, UpKeep DEF Crash, pcbVars, sessVars, coVars, endVars
  <2>2. CASE ~Crash("freed_pcb")
    <3>1. /\ UNCHANGED <<state, rcv_wnd, pbuf_queue, remote_sending, wr, rcvd, credited, upstream>>
          /\ \/ pc' = pc
             \/ pc' = [pc EXCEPT ![c][r] = IF r = "start" THEN "done" ELSE "idle"]
          /\ pc[c][r] = "read"
      BY Zenon, <1>3, <2>2 DEF ReadStep, ReaderReturns, pcbVars, endVars
    <3>2. CASE pc' = pc
      BY Zenon, <3>1, <3>2, UpKeep
    <3>3. CASE pc' = [pc EXCEPT ![c][r] = IF r = "start" THEN "done" ELSE "idle"]
      <4>1. r \in {"start", "down"} /\ (r = "start" => pc[c]["start"] # "write")
        BY <1>0, <3>1
      <4> QED BY Zenon, <1>1, <3>1, <3>3, <4>1
    <3> QED BY Zenon, <3>1, <3>2, <3>3
  <2> QED BY Zenon, <2>1, <2>2
<1> QED BY Zenon, <1>2, <1>3

-----------------------------------------------------------------------------
(* No byte is forwarded twice *)

Hands == [Writers -> [lo : Nat, pos : Nat, hi : Nat]]

\* What a writer has in hand is given by stream offsets.
LEMMA HandsNat ==
    ASSUME NEW g \in Hands, NEW w \in Writers
    PROVE  g[w].lo \in Nat /\ g[w].pos \in Nat /\ g[w].hi \in Nat
BY SMT DEF Hands

\* The elements of a sequence of numbers are numbers.
LEMMA SeqNat ==
    ASSUME NEW u \in Seq(Nat), NEW i \in 1 .. Len(u)
    PROVE  u[i] \in Nat
BY SMT

\* A writer that has nothing in hand
LEMMA NoWriteFields == NoWrite.lo = 0 /\ NoWrite.pos = 0 /\ NoWrite.hi = 0
BY SMT DEF NoWrite

\* Bytes came, and writers may have put down what they had in hand.
LEMMA OnceKeep ==
    ASSUME NEW u \in Seq(Nat), NEW g \in Hands, NEW h \in Hands, NEW f \in Nat, NEW k \in Nat,
           Once(u, g, f), f <= k, \A w \in Writers : h[w] = g[w] \/ h[w] = NoWrite
    PROVE  Once(u, h, k)
<1>1. /\ \A i \in 1 .. Len(u) : u[i] \in Nat
      /\ \A w \in Writers : /\ g[w].lo \in Nat /\ g[w].pos \in Nat /\ g[w].hi \in Nat
                            /\ h[w].lo \in Nat /\ h[w].pos \in Nat /\ h[w].hi \in Nat
  BY Zenon, HandsNat, SeqNat
<1>2. \A w \in Writers :
          \/ h[w].lo = g[w].lo /\ h[w].pos = g[w].pos /\ h[w].hi = g[w].hi
          \/ h[w].lo = 0 /\ h[w].pos = 0 /\ h[w].hi = 0
  BY Zenon, NoWriteFields
<1>3. \A i \in 1 .. Len(u) :
          u[i] <= k /\ \A w \in Writers : u[i] <= h[w].pos \/ h[w].hi < u[i]
  <2>1. ASSUME NEW i \in 1 .. Len(u), NEW w \in Writers
        PROVE  u[i] <= k /\ (u[i] <= h[w].pos \/ h[w].hi < u[i])
    <3>1. u[i] <= f /\ (u[i] <= g[w].pos \/ g[w].hi < u[i])
      BY Zenon DEF Once
    <3>2. u[i] <= k
      BY Zenon, <1>1, <3>1, Transitive
    <3>3. u[i] <= 0 \/ 0 < u[i]
      BY Zenon, <1>1, ZeroOrAbove
    <3> QED BY Zenon, <1>2, <3>1, <3>2, <3>3
  <2>2. "up" \in Writers
    BY DEF Writers
  <2> QED BY Zenon, <2>1, <2>2
<1>4. \A w \in Writers : h[w].hi <= k
  <2>1. ASSUME NEW w \in Writers PROVE h[w].hi <= k
    <3>1. g[w].hi <= f
      BY Zenon DEF Once
    <3>2. g[w].hi <= k /\ 0 <= k
      BY Zenon, <1>1, <3>1, Transitive, ZeroOrAbove
    <3> QED BY Zenon, <1>2, <3>2
  <2> QED BY Zenon, <2>1
<1>5. \A w, v \in Writers : w # v => h[w].hi <= h[v].lo \/ h[v].hi <= h[w].lo
  <2>1. ASSUME NEW w \in Writers, NEW v \in Writers, w # v
        PROVE  h[w].hi <= h[v].lo \/ h[v].hi <= h[w].lo
    <3>1. g[w].hi <= g[v].lo \/ g[v].hi <= g[w].lo
      BY Zenon, <2>1 DEF Once
    <3>2. h[w].lo \in Nat /\ h[v].lo \in Nat
      BY Zenon, <1>1
    <3>3. 0 <= h[w].lo /\ 0 <= h[v].lo
      BY SMTT(30), <3>2
    <3> QED BY Zenon, <1>2, <3>1, <3>3
  <2> QED BY Zenon, <2>1
<1> QED BY Zenon, <1>3, <1>4, <1>5 DEF Once

\* A writer takes the bytes from the front of the queue, f, up to e.
LEMMA OnceTake ==
    ASSUME NEW u \in Seq(Nat), NEW g \in Hands, NEW h \in Hands, NEW f \in Nat, NEW k \in Nat,
           Once(u, g, f), NEW w \in Writers, NEW e \in Nat, f <= e, e <= k,
           h[w] = [lo |-> f, pos |-> f, hi |-> e],
           \A v \in Writers : v # w => h[v] = g[v]
    PROVE  Once(u, h, k)
<1>1. /\ \A i \in 1 .. Len(u) : u[i] \in Nat
      /\ \A v \in Writers : g[v].lo \in Nat /\ g[v].pos \in Nat /\ g[v].hi \in Nat
  BY Zenon, HandsNat, SeqNat
<1>2. h[w].lo = f /\ h[w].pos = f /\ h[w].hi = e
  BY SMTT(30)
<1>3. \A i \in 1 .. Len(u) :
          u[i] <= k /\ \A v \in Writers : u[i] <= h[v].pos \/ h[v].hi < u[i]
  <2>1. ASSUME NEW i \in 1 .. Len(u) PROVE u[i] <= f /\ u[i] <= k
    <3>1. u[i] <= f
      BY Zenon DEF Once
    <3> QED BY SMTT(30), <1>1, <3>1
  <2>2. ASSUME NEW i \in 1 .. Len(u), NEW v \in Writers
        PROVE  u[i] <= h[v].pos \/ h[v].hi < u[i]
    BY Zenon, <1>2, <2>1 DEF Once
  <2> QED BY Zenon, <2>1, <2>2
<1>4. \A v \in Writers : h[v].hi <= k
  <2>1. ASSUME NEW v \in Writers, v # w PROVE h[v].hi <= k
    <3>1. g[v].hi <= f /\ h[v].hi = g[v].hi
      BY Zenon, <2>1 DEF Once
    <3> QED BY SMTT(30), <1>1, <3>1
  <2> QED BY Zenon, <1>2, <2>1
<1>5. \A x, v \in Writers : x # v => h[x].hi <= h[v].lo \/ h[v].hi <= h[x].lo
  BY ZenonT(30), <1>2 DEF Once
<1> QED BY Zenon, <1>3, <1>4, <1>5 DEF Once

\* The server is given the next k bytes of what a writer has in hand.
LEMMA OnceWrite ==
    ASSUME NEW u \in Seq(Nat), NEW g \in Hands, NEW h \in Hands, NEW f \in Nat,
           Once(u, g, f), NEW w \in Writers, NEW k \in Nat,
           \A v \in Writers : g[v].lo <= g[v].pos,
           g[w].pos + k <= g[w].hi,
           h[w].lo = g[w].lo, h[w].pos = g[w].pos + k, h[w].hi = g[w].hi,
           \A v \in Writers : v # w => h[v] = g[v],
           NEW t \in Seq(Nat), Len(t) = k, \A i \in 1 .. k : t[i] = g[w].pos + i
    PROVE  Once(u \o t, h, f)
<1>1. /\ \A i \in 1 .. Len(u) : u[i] \in Nat
      /\ \A v \in Writers : g[v].lo \in Nat /\ g[v].pos \in Nat /\ g[v].hi \in Nat
  BY Zenon, HandsNat, SeqNat
<1>2. PICK n \in Nat : n = Len(u)
  BY Zenon, SeqLen
<1>3. PICK p \in Nat, q \in Nat : p = g[w].pos /\ q = g[w].hi
  BY Zenon, <1>1
<1>4. p + k <= q /\ h[w].pos = p + k /\ h[w].hi = q /\ \A i \in 1 .. k : t[i] = p + i
  BY Zenon, <1>3
<1>5. PICK s \in Seq(Nat) : s = u \o t
  BY Zenon, ConcatSeq
<1>6. /\ Len(s) = n + k
      /\ \A i \in 1 .. n : s[i] = u[i]
      /\ \A i \in n + 1 .. n + k : s[i] = p + (i - n) /\ i - n \in 1 .. k
  <2>0. /\ Len(s) = n + k
        /\ \A i \in 1 .. n + k : s[i] = IF i <= n THEN u[i] ELSE t[i - n]
    <3>1. /\ Len(u \o t) = Len(u) + Len(t)
          /\ \A i \in 1 .. Len(u) + Len(t) :
                 (u \o t)[i] = IF i <= Len(u) THEN u[i] ELSE t[i - Len(u)]
      BY ZenonT(30), ConcatSeq
    <3> QED BY Zenon, <1>2, <1>5, <3>1
  <2>1. Len(s) = n + k /\ \A i \in 1 .. n : s[i] = u[i]
    BY Zenon, <2>0, SplitRange
  <2>2. \A i \in n + 1 .. n + k : s[i] = t[i - n] /\ i - n \in 1 .. k
    BY Zenon, <2>0, SplitRange
  <2> QED BY ZenonT(30), <1>4, <2>1, <2>2
<1>7. \A i \in 1 .. n + k : \/ i \in 1 .. n /\ s[i] = u[i]
                            \/ i \in n + 1 .. n + k /\ p < s[i] /\ s[i] <= p + k /\ s[i] \in Nat
  <2>1. ASSUME NEW i \in n + 1 .. n + k
        PROVE  p < s[i] /\ s[i] <= p + k /\ s[i] \in Nat
    <3>1. s[i] = p + (i - n) /\ i - n \in 1 .. k
      BY Zenon, <1>6
    <3>2. p < p + (i - n) /\ p + (i - n) <= p + k /\ p + (i - n) \in Nat
      BY Zenon, <3>1, RunBounds
    <3> QED BY Zenon, <3>1, <3>2
  <2>2. \A i \in 1 .. n + k : i \in 1 .. n \/ i \in n + 1 .. n + k
    BY Zenon, SplitRange
  <2> QED BY Zenon, <1>6, <2>1, <2>2
<1>7a. RunOn(s, n, p, k, q)
  BY Zenon, <1>4, <1>6 DEF RunOn
<1>7b. DistinctAfter(s, n, k)
  BY Zenon, <1>7a, RunDistinct
<1>7c. ApartAfter(s, n, k, p, q)
  BY Zenon, <1>7a, RunApart
<1>8. \A i \in 1 .. n : u[i] <= f /\ (u[i] <= p \/ q < u[i]) /\ u[i] \in Nat
  BY Zenon, <1>1, <1>2, <1>3 DEF Once
<1>9. q <= f
  BY Zenon, <1>3 DEF Once
<1>10. ASSUME NEW i \in 1 .. n + k
       PROVE  /\ s[i] <= f
              /\ \A v \in Writers : s[i] <= h[v].pos \/ h[v].hi < s[i]
  <2>1. s[i] <= f
    <3>1. CASE i \in n + 1 .. n + k /\ s[i] \in Nat
      <4>1. s[i] <= q
        BY Zenon, <1>7a, <3>1, RunBelow
      <4> QED BY Zenon, <1>9, <3>1, <4>1, Transitive
    <3> QED BY Zenon, <1>7, <1>8, <3>1
  <2>2. s[i] <= h[w].pos \/ h[w].hi < s[i]
    <3>1. CASE s[i] \in Nat /\ (s[i] <= p \/ q < s[i])
      BY SMTT(30), <1>4, <3>1
    <3> QED BY Zenon, <1>4, <1>7, <1>8, <3>1
  <2>3. ASSUME NEW v \in Writers, v # w
        PROVE  s[i] <= h[v].pos \/ h[v].hi < s[i]
    <3>1. CASE i \in 1 .. n
      BY Zenon, <1>2, <1>6, <2>3, <3>1 DEF Once
    <3>2. CASE p < s[i] /\ s[i] <= p + k /\ s[i] \in Nat
      <4>1. g[w].hi <= g[v].lo \/ g[v].hi <= g[w].lo
        BY Zenon, <2>3 DEF Once
      <4>2. g[v].lo <= g[v].pos /\ g[w].lo <= p
        BY Zenon, <1>3
      <4>3. PICK a \in Nat, b \in Nat, d \in Nat, x \in Nat, y \in Nat :
               /\ a = g[v].lo /\ b = g[v].pos /\ d = g[v].hi /\ x = g[w].lo /\ y = s[i]
        BY Zenon, <1>1, <3>2
      <4>4. (q <= a \/ d <= x) /\ a <= b /\ x <= p /\ p < y /\ y <= p + k
        BY Zenon, <1>3, <3>2, <4>1, <4>2, <4>3
      <4>5. y <= b \/ d < y
        BY SMTT(30), <1>4, <4>4
      <4>6. s[i] <= g[v].pos \/ g[v].hi < s[i]
        BY Zenon, <4>3, <4>5
      <4> QED BY Zenon, <2>3, <4>6
    <3> QED BY Zenon, <1>7, <3>1, <3>2
  <2> QED BY Zenon, <2>1, <2>2, <2>3
<1>11. ASSUME NEW i \in 1 .. n + k, NEW j \in 1 .. n + k, i # j
       PROVE  s[i] # s[j]
  <2>1. CASE i \in 1 .. n /\ j \in 1 .. n
    <3>1. u[i] # u[j]
      BY Zenon, <1>2, <1>11, <2>1 DEF Once
    <3> QED BY Zenon, <1>6, <2>1, <3>1
  <2>2. CASE i \in n + 1 .. n + k /\ j \in n + 1 .. n + k
    BY Zenon, <1>7b, <1>11, <2>2 DEF DistinctAfter
  <2>3. ASSUME NEW x \in 1 .. n, NEW y \in n + 1 .. n + k
        PROVE  s[x] # s[y]
    <3>1. s[x] = u[x]
      BY Zenon, <1>6
    <3>2. u[x] \in Nat /\ (u[x] <= p \/ q < u[x])
      BY Zenon, <1>8
    <3>3. u[x] # s[y]
      BY Zenon, <1>7c, <3>2 DEF ApartAfter
    <3> QED BY Zenon, <3>1, <3>3
  <2> QED BY Zenon, <1>7, <2>1, <2>2, <2>3
<1>12. /\ \A v \in Writers : h[v].hi <= f
       /\ \A x, v \in Writers : x # v => h[x].hi <= h[v].lo \/ h[v].hi <= h[x].lo
  <2>1. \A v \in Writers : h[v].hi = g[v].hi /\ h[v].lo = g[v].lo
    BY Zenon
  <2> QED BY Zenon, <2>1 DEF Once
<1> QED BY Zenon, <1>5, <1>6, <1>10, <1>11, <1>12 DEF Once

\* The types of what OnceInvOf relates
LEMMA OnceTypes ==
    ASSUME TypeOK, NEW c \in Conns, UpInvOf(c)
    PROVE  upstream[c] \in Seq(Nat) /\ wr[c] \in Hands /\ Taken(c) \in Nat
<1>1. "up" \in Writers
  BY DEF Writers
<1>2. Taken(c) \in Nat
  BY Zenon, <1>1, UpWriter
<1>3. upstream[c] \in Seq(Nat) /\ wr[c] \in Hands
  BY Zenon DEF TypeOK, EndTypeOK, CoroutineTypeOK, Hands
<1> QED BY Zenon, <1>2, <1>3

\* A step that gives the server nothing and starts no write
LEMMA OnceStay ==
    ASSUME TypeOK, TypeOK', NEW c \in Conns, UpInvOf(c), UpInvOf(c)', OnceInvOf(c),
           upstream'[c] = upstream[c], Taken(c) <= Taken(c)',
           \A w \in Writers : wr'[c][w] = wr[c][w] \/ wr'[c][w] = NoWrite
    PROVE  OnceInvOf(c)'
<1>1. upstream[c] \in Seq(Nat) /\ wr[c] \in Hands /\ Taken(c) \in Nat
  BY Zenon, OnceTypes
<1>2. wr'[c] \in Hands /\ Taken(c)' \in Nat
  <2>1. (TypeOK /\ UpInvOf(c) => wr[c] \in Hands /\ Taken(c) \in Nat)'
    BY OnceTypes, PTL
  <2> QED BY Zenon, <2>1
<1>3. PICK u \in Seq(Nat), g \in Hands, h \in Hands, f \in Nat, k \in Nat :
         u = upstream[c] /\ g = wr[c] /\ h = wr'[c] /\ f = Taken(c) /\ k = Taken(c)'
  BY Zenon, <1>1, <1>2
<1>4. Once(u, g, f) /\ f <= k /\ \A w \in Writers : h[w] = g[w] \/ h[w] = NoWrite
  BY Zenon, <1>3 DEF OnceInvOf
<1>5. Once(u, h, k)
  BY Zenon, <1>4, OnceKeep
<1> QED BY Zenon, <1>3, <1>5 DEF OnceInvOf

\* A writer takes the front of q.
LEMMA OnceStart ==
    ASSUME TypeOK, TypeOK', NEW c \in Conns, UpInvOf(c), UpInvOf(c)', OnceInvOf(c),
           NEW w \in Writers, NEW q \in Seq(Intervals), q # <<>>, StartWrite(c, w, q),
           QueueOK(q, rcvd'[c]), Front(q, rcvd'[c]) = Taken(c), upstream'[c] = upstream[c]
    PROVE  OnceInvOf(c)'
<1>1. upstream[c] \in Seq(Nat) /\ wr[c] \in Hands /\ Taken(c) \in Nat
  BY Zenon, OnceTypes
<1>2. wr'[c] \in Hands /\ Taken(c)' \in Nat /\ rcvd'[c] \in Nat
  <2>1. (TypeOK /\ UpInvOf(c) => wr[c] \in Hands /\ Taken(c) \in Nat)'
    BY OnceTypes, PTL
  <2>2. rcvd' \in [Conns -> Nat]
    BY Zenon DEF TypeOK, EndTypeOK
  <2> QED BY Zenon, <2>1, <2>2
<1>3. PICK u \in Seq(Nat), g \in Hands, h \in Hands, f \in Nat, k \in Nat, r \in Nat :
         /\ u = upstream[c] /\ g = wr[c] /\ h = wr'[c] /\ f = Taken(c) /\ k = Taken(c)'
         /\ r = rcvd'[c]
  BY Zenon, <1>1, <1>2
<1>4. /\ Head(q) \in Intervals /\ Head(q)[1] = f
      /\ Head(q)[1] < Head(q)[2] /\ Head(q)[2] <= Front(Tail(q), r)
  BY Zenon, <1>3, QueueTail
<1>5. PICK e \in Nat : e = Head(q)[2]
  BY Zenon, <1>4 DEF Intervals
<1>6. /\ pbuf_queue' = [pbuf_queue EXCEPT ![c] = Tail(q)]
      /\ wr' = [wr EXCEPT ![c][w] = [lo |-> f, pos |-> f, hi |-> e]]
  BY Zenon, <1>4, <1>5 DEF StartWrite
<1>7. /\ h[w] = [lo |-> f, pos |-> f, hi |-> e] /\ \A v \in Writers : v # w => h[v] = g[v]
      /\ pbuf_queue'[c] = Tail(q)
  <2>1. /\ pbuf_queue \in [Conns -> Seq(Intervals)]
        /\ wr \in [Conns -> [Writers -> [lo : Nat, pos : Nat, hi : Nat]]]
    BY Zenon DEF TypeOK, SessionTypeOK, CoroutineTypeOK
  <2> QED BY Zenon, <1>3, <1>6, <2>1
<1>8. e <= k /\ f < e
  BY Zenon, <1>3, <1>4, <1>5, <1>7 DEF Taken
<1>9. f <= e
  BY SMTT(30), <1>8
<1>10. Once(u, g, f)
  BY Zenon, <1>3 DEF OnceInvOf
<1>11. Once(u, h, k)
  BY ZenonT(30), <1>7, <1>8, <1>9, <1>10, OnceTake
<1> QED BY Zenon, <1>3, <1>11 DEF OnceInvOf

\* The server reads from a writer.
LEMMA OnceServed ==
    ASSUME TypeOK, TypeOK', NEW c \in Conns, UpInvOf(c), OnceInvOf(c), NEW k \in 1 .. SegMax,
           CompleteWrite(c, k)
    PROVE  OnceInvOf(c)'
<1>1. PICK w \in Writers : w = Head(write_ops[c])
  <2>1. write_ops[c] \in Seq(Writers) /\ write_ops[c] # <<>>
    <3>1. write_ops \in [Conns -> Seq(Writers)]
      BY Zenon DEF TypeOK, CoroutineTypeOK
    <3> QED BY Zenon, <3>1 DEF CompleteWrite
  <2>2. Head(write_ops[c]) \in Writers
    BY SMTT(30), <2>1
  <2> QED BY Zenon, <2>2
<1>2. k \in Nat
  BY SizeAssumption
<1>3. PICK u \in Seq(Nat), g \in Hands, f \in Nat :
         u = upstream[c] /\ g = wr[c] /\ f = Taken(c)
  BY Zenon, OnceTypes
<1>4. PICK h \in Hands : h = wr'[c]
  BY Zenon DEF TypeOK, CoroutineTypeOK, Hands
<1>5. PICK t : t = [i \in 1 .. k |-> g[w].pos + i]
  BY Zenon
<1>6. /\ g[w].pos + k <= g[w].hi
      /\ wr' = [wr EXCEPT ![c][w].pos = @ + k]
      /\ upstream' = [upstream EXCEPT ![c] = @ \o t]
      /\ UNCHANGED <<pbuf_queue, rcvd>>
  BY Zenon, <1>1, <1>3, <1>5 DEF CompleteWrite, sessVars
<1>7. g[w] \in [lo : Nat, pos : Nat, hi : Nat]
  BY Zenon DEF Hands
<1>8. t \in Seq(Nat) /\ Len(t) = k /\ \A i \in 1 .. k : t[i] = g[w].pos + i
  <2>1. t \in [1 .. k -> Nat]
    BY SMTT(30), <1>2, <1>5, <1>7
  <2>2. t \in Seq(Nat) /\ Len(t) = k
    BY Zenon, <1>2, <2>1, FunctionIsSeq
  <2> QED BY Zenon, <1>5, <2>2
<1>9. /\ h[w] = [g[w] EXCEPT !.pos = g[w].pos + k]
      /\ \A v \in Writers : v # w => h[v] = g[v]
      /\ upstream'[c] = u \o t
  <2>1. /\ wr \in [Conns -> [Writers -> [lo : Nat, pos : Nat, hi : Nat]]]
        /\ upstream \in [Conns -> Seq(Nat)]
    BY Zenon DEF TypeOK, CoroutineTypeOK, EndTypeOK
  <2> QED BY Zenon, <1>3, <1>4, <1>6, <2>1
<1>10. h[w].lo = g[w].lo /\ h[w].pos = g[w].pos + k /\ h[w].hi = g[w].hi
  BY <1>7, <1>9
<1>11. Once(u, g, f) /\ \A v \in Writers : g[v].lo <= g[v].pos
  BY Zenon, <1>3 DEF OnceInvOf, UpInvOf
<1>12. Once(u \o t, h, f)
  <2>1. g[w].pos + k <= g[w].hi /\ \A v \in Writers : v # w => h[v] = g[v]
    BY Zenon, <1>6, <1>9
  <2> QED BY ZenonT(40), <1>2, <1>8, <1>10, <1>11, <2>1, OnceWrite
<1>13. Taken(c)' = f
  BY Zenon, <1>3, <1>6 DEF Taken
<1> QED BY Zenon, <1>4, <1>9, <1>12, <1>13 DEF OnceInvOf

\* Data from the application is queued behind all that was taken, or taken at once.
LEMMA OnceData ==
    ASSUME TypeOK, TypeOK', MapInv, NEW c \in Conns, UpInvOf(c), UpInvOf(c)', OnceInvOf(c),
           NEW n \in 1 .. SegMax, RecvData(c, n)
    PROVE  OnceInvOf(c)'
<1>1. session_map[TupleOf[c]] = c /\ c # NoConn /\ state[c] = "ESTABLISHED"
  BY Zenon, ConnAssumption DEF MapInv, MapMatchesPcbs, RecvData
<1>2. PICK r \in Nat, t \in Nat, q \in Seq(Intervals) :
         r = rcvd[c] /\ t = rcvd[c] + n /\ q = pbuf_queue[c]
  <2>1. rcvd[c] \in Nat /\ rcvd[c] + n \in Nat /\ pbuf_queue[c] \in Seq(Intervals)
    BY SMTT(30), UpTypes
  <2> QED BY Zenon, <2>1
<1>3. QueueOK(q, r) /\ Back(q, r) = r /\ Front(q, r) = Taken(c)
  <2>1. state[c] # "FREED"
    BY SMTT(30), <1>1
  <2> QED BY Zenon, <1>2, <2>1 DEF UpInvOf, QueueEnd, Taken
<1>4. rcvd' = [rcvd EXCEPT ![c] = @ + n] /\ UNCHANGED upstream
  BY Zenon, <1>1 DEF RecvData
<1>5. rcvd'[c] = t
  <2>1. rcvd \in [Conns -> Nat]
    BY Zenon DEF TypeOK, EndTypeOK
  <2> QED BY Zenon, <1>2, <1>4, <2>1
<1>6. CASE status[c] = "CLOSE"
  <2>1. UNCHANGED <<pbuf_queue, wr>>
    BY Zenon, <1>1, <1>6 DEF RecvData
  <2>2. r <= t
    BY SMTT(30), <1>2
  <2>3. Taken(c) <= Front(q, t)
    BY Zenon, <1>3, <2>2, QueueGrow
  <2>4. Taken(c) <= Taken(c)'
    BY Zenon, <1>2, <1>5, <2>1, <2>3 DEF Taken
  <2> QED BY Zenon, <1>4, <2>1, <2>4, OnceStay
<1>7. CASE status[c] # "CLOSE"
  <2>1. PICK a : a = Append(q, <<r, t>>)
    BY Zenon
  <2>2. /\ a \in Seq(Intervals) /\ a # <<>> /\ QueueOK(a, t) /\ Front(a, t) = Taken(c)
    <3>1. t = r + n
      BY Zenon, <1>2
    <3> QED BY Zenon, <1>3, <2>1, <3>1, QueueAppend
  <2>3. ProxyTcpPacket(c, <<r, t>>)
    BY Zenon, <1>1, <1>2, <1>7 DEF RecvData
  <2>4. CASE status[c] # "RELAYING" \/ remote_sending[c]
    <3>1. pbuf_queue' = [pbuf_queue EXCEPT ![c] = a] /\ UNCHANGED wr
      BY Zenon, <1>2, <2>1, <2>3, <2>4 DEF ProxyTcpPacket
    <3>2. pbuf_queue'[c] = a
      <4>1. pbuf_queue \in [Conns -> Seq(Intervals)]
        BY Zenon DEF TypeOK, SessionTypeOK
      <4> QED BY Zenon, <3>1, <4>1
    <3>3. Taken(c)' = Taken(c) /\ Taken(c) \in Nat
      BY Zenon, <1>5, <2>2, <3>2, OnceTypes DEF Taken
    <3>4. Taken(c) <= Taken(c)'
      BY SMTT(30), <3>3
    <3> QED BY Zenon, <1>4, <3>1, <3>4, OnceStay
  <2>5. CASE ~(status[c] # "RELAYING" \/ remote_sending[c])
    <3>1. StartWrite(c, "up", a)
      BY Zenon, <1>2, <2>1, <2>3, <2>5 DEF ProxyTcpPacket
    <3>2. "up" \in Writers
      BY DEF Writers
    <3> QED BY Zenon, <1>4, <1>5, <2>2, <3>1, <3>2, OnceStart
  <2> QED BY Zenon, <2>4, <2>5
<1> QED BY Zenon, <1>6, <1>7

\* Every step of a connection keeps its bytes forwarded once.
LEMMA OnceOwn ==
    ASSUME TypeOK, TypeOK', MapInv, NEW c \in Conns, UpInvOf(c), UpInvOf(c)', OnceInvOf(c),
           \/ Local(c) \/ Kernel(c)
           \/ HandshakeStep(c) \/ StartFails(c) \/ EnterRelaying(c) \/ DrainStep(c)
           \/ UpStep(c) \/ UpFails(c) \/ \E w \in Writers : WriteMore(c, w)
           \/ ReadFails(c) \/ \E r \in Readers : ReadStep(c, r)
    PROVE  OnceInvOf(c)'
<1>0. /\ wr \in [Conns -> [Writers -> [lo : Nat, pos : Nat, hi : Nat]]]
      /\ "up" \in Writers /\ "start" \in Writers
      /\ Taken(c) \in Nat /\ Taken(c) <= Taken(c)
  <2>1. Taken(c) \in Nat
    BY Zenon, OnceTypes
  <2>2. Taken(c) <= Taken(c)
    BY SMTT(30), <2>1
  <2>3. "up" \in Writers /\ "start" \in Writers
    BY SMTT(30) DEF Writers
  <2> QED BY Zenon, <2>1, <2>2, <2>3 DEF TypeOK, CoroutineTypeOK
<1>1. ASSUME UNCHANGED <<pbuf_queue, rcvd, upstream>>,
             \A w \in Writers : wr'[c][w] = wr[c][w] \/ wr'[c][w] = NoWrite
      PROVE  OnceInvOf(c)'
  <2>1. Taken(c) <= Taken(c)'
    BY Zenon, <1>0, <1>1 DEF Taken
  <2> QED BY Zenon, <1>1, <2>1, OnceStay
<1>2. CASE UNCHANGED <<pbuf_queue, rcvd, upstream, wr>>
  BY Zenon, <1>1, <1>2
<1>3. ASSUME NEW x \in Writers, wr' = [wr EXCEPT ![c][x] = NoWrite],
             UNCHANGED <<pbuf_queue, rcvd, upstream>>
      PROVE  OnceInvOf(c)'
  <2>1. \A w \in Writers : wr'[c][w] = wr[c][w] \/ wr'[c][w] = NoWrite
    BY Zenon, <1>0, <1>3
  <2> QED BY Zenon, <1>1, <1>3, <2>1
<1>4. ASSUME NEW x \in Writers, StartWrite(c, x, pbuf_queue[c]), pbuf_queue[c] # <<>>,
             UNCHANGED <<rcvd, upstream>>
      PROVE  OnceInvOf(c)'
  <2>1. PICK q \in Seq(Intervals) : q = pbuf_queue[c]
    BY Zenon, UpTypes
  <2>2. QueueOK(q, rcvd'[c]) /\ Front(q, rcvd'[c]) = Taken(c)
    BY Zenon, <1>4, <2>1 DEF UpInvOf, Taken
  <2> QED BY Zenon, <1>4, <2>1, <2>2, OnceStart
<1>5. ASSUME DrainOrRead(c), UNCHANGED <<rcvd, upstream>>
      PROVE  OnceInvOf(c)'
  BY Zenon, <1>0, <1>3, <1>4, <1>5 DEF DrainOrRead
<1>6. CASE Local(c)
  <2>1. CASE \E n \in 1 .. SegMax : RecvData(c, n)
    BY Zenon, <2>1, OnceData
  <2>2. CASE RecvSyn(c) \/ RecvHandshakeAck(c)
    BY Zenon, <1>2, <2>2 DEF RecvSyn, RecvHandshakeAck, Crash, sessVars, coVars, endVars
  <2>3. CASE RecvFin(c) \/ RecvFinAck(c) \/ RecvRst(c)
    BY Zenon, <1>2, <2>3 DEF RecvFin, RecvFinAck, RecvRst, Crash, sessVars, coVars, endVars
  <2>4. CASE \E v \in Windows : RecvAck(c, v) \/ RecvWnd(c, v)
    BY Zenon, <1>2, <2>4 DEF RecvAck, RecvWnd, Crash, sessVars, coVars, endVars
  <2> QED BY Zenon, <1>6, <2>1, <2>2, <2>3, <2>4 DEF Local
<1>7. CASE Kernel(c)
  <2>1. CASE ServerReads(c)
    BY Zenon, <2>1, OnceServed DEF ServerReads
  <2>2. CASE \/ ServerAnswers(c) \/ ServerSends(c) \/ FailWrite(c) \/ RemoteClose(c)
             \/ \E r \in Readers : FailRead(c, r)
    BY Zenon, <1>2, <2>2 DEF ServerAnswers, ServerSends, CompleteHandshake, CompleteRead,
       FailWrite, RemoteClose, FailRead, sessVars, coVars, endVars
  <2> QED BY Zenon, <1>7, <2>1, <2>2 DEF Kernel
<1>8. CASE DrainStep(c)
  <2>1. \/ UNCHANGED <<pbuf_queue, rcvd, upstream, wr>>
        \/ wr' = [wr EXCEPT ![c]["start"] = NoWrite] /\ UNCHANGED <<pbuf_queue, rcvd, upstream>>
        \/ DrainOrRead(c) /\ UNCHANGED <<rcvd, upstream>>
    BY Zenon, <1>8 DEF DrainStep, Crash, sessVars, coVars, endVars
  <2> QED BY Zenon, <1>0, <1>2, <1>3, <1>5, <2>1
<1>9. CASE UpStep(c)
  <2>1. \/ UNCHANGED <<pbuf_queue, rcvd, upstream, wr>>
        \/ wr' = [wr EXCEPT ![c]["up"] = NoWrite] /\ UNCHANGED <<pbuf_queue, rcvd, upstream>>
        \/ /\ StartWrite(c, "up", pbuf_queue[c]) /\ pbuf_queue[c] # <<>>
           /\ UNCHANGED <<rcvd, upstream>>
    BY Zenon, <1>9 DEF UpStep, UpReturns, Crash, sessVars, coVars, endVars
  <2> QED BY Zenon, <1>0, <1>2, <1>3, <1>4, <2>1
<1>10. CASE StartFails(c) \/ UpFails(c)
  BY Zenon, <1>0, <1>3, <1>10 DEF StartFails, UpFails, UpReturns, endVars
<1>11. CASE EnterRelaying(c)
  <2>1. \/ UNCHANGED <<pbuf_queue, rcvd, upstream, wr>>
        \/ DrainOrRead(c) /\ UNCHANGED <<rcvd, upstream>>
    BY Zenon, <1>11 DEF EnterRelaying, Crash, sessVars, coVars, endVars
  <2> QED BY Zenon, <1>2, <1>5, <2>1
<1>12. CASE HandshakeStep(c) \/ ReadFails(c) \/ \E w \in Writers : WriteMore(c, w)
  BY Zenon, <1>2, <1>12 DEF HandshakeStep, ReadFails, WriteMore, Crash, sessVars, coVars, endVars
<1>13. CASE \E r \in Readers : ReadStep(c, r)
  BY Zenon, <1>2, <1>13 DEF ReadStep, Crash, sessVars, coVars, endVars
<1> QED BY Zenon, <1>6, <1>7, <1>8, <1>9, <1>10, <1>11, <1>12, <1>13
=============================================================================
