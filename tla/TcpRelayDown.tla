--------------------------- MODULE TcpRelayDown -----------------------------
(***************************************************************************)
(* What the operators that the handlers of TcpRelay share do to the state, *)
(* and that every step keeps the state typed: no window or send buffer     *)
(* leaves its bounds, no queue holds anything but intervals.               *)
(*                                                                         *)
(* The session map follows the pcbs, so a handler that looks a session up  *)
(* by its 4-tuple finds its own or none, and no handler of a connection    *)
(* touches another one.                                                    *)
(*                                                                         *)
(* Downstream, unacked and unsent stay adjacent runs of the write stream,  *)
(* for tcp_write, tcp_output, acknowledgements and every way a pcb can     *)
(* end; at most one read loop runs, and while a read is outstanding the    *)
(* send buffer has room for all it can return.                             *)
(***************************************************************************)
EXTENDS TcpRelayInv, TLAPS

\* <= is transitive.
LEMMA Transitive ==
    ASSUME NEW x \in Nat, NEW y \in Nat, NEW z \in Nat, x <= y, y <= z
    PROVE  x <= z
BY SMT

\* A number of a smaller range
LEMMA WithinRange ==
    ASSUME NEW n \in Nat, NEW k \in 0 .. n, NEW j \in 1 .. k
    PROVE  j \in 1 .. n
BY SMT

\* A number of the stream and the length of a part of a read are a number of it.
LEMMA RangeSum ==
    ASSUME NEW x \in Nat, NEW m, NEW i \in 1 .. m
    PROVE  x + i \in Nat
BY SMT

\* What an acknowledgement up to x frees, of a buffer with m - b bytes from a on
LEMMA RoomFreed ==
    \A a, b, m, x \in Nat :
        a < x /\ x <= a + m - b /\ b <= m => b + x - a \in 0 .. m /\ b <= b + x - a
BY SMT

\* The lengths of the parts of a packet
LEMMA Lengths ==
    ASSUME NEW lo \in Nat, NEW pos \in Nat, NEW hi \in Nat, lo <= pos, pos <= hi
    PROVE  hi - lo \in Nat
BY SMT

\* The numbers p + 1 .. p + k
LEMMA RunBounds ==
    ASSUME NEW p \in Nat, NEW k \in Nat, NEW i \in 1 .. k
    PROVE  p < p + i /\ p + i <= p + k /\ p + i \in Nat
BY SMT

\* A number of a range that starts at zero is a natural number.
LEMMA RangeNat ==
    ASSUME NEW n \in Nat, NEW x \in 0 .. n
    PROVE  x \in Nat
BY SMT

-----------------------------------------------------------------------------
(* Sequences *)

\* The empty sequence is the one of length zero.
LEMMA SeqEmpty ==
    ASSUME NEW S
    PROVE  /\ <<>> \in Seq(S) /\ Len(<<>>) = 0
           /\ \A s \in Seq(S) : s # <<>> => Len(s) \in Nat \ {0}
OBVIOUS

\* A sequence is a function from the numbers up to its length.
LEMMA SeqLen ==
    ASSUME NEW S, NEW s \in Seq(S)
    PROVE  /\ Len(s) \in Nat
           /\ s \in [1 .. Len(s) -> S]
           /\ DOMAIN s = 1 .. Len(s)
OBVIOUS

\* Its elements are in the set it is over.
LEMMA SeqElement ==
    ASSUME NEW S, NEW s \in Seq(S), NEW k \in 1 .. Len(s)
    PROVE  s[k] \in S
OBVIOUS

\* Taking the head of a sequence moves the others one place.
LEMMA HeadTailSeq ==
    ASSUME NEW S, NEW s \in Seq(S), s # <<>>
    PROVE  /\ Head(s) \in S /\ Tail(s) \in Seq(S)
           /\ Len(Tail(s)) = Len(s) - 1
           /\ \A k \in 1 .. Len(Tail(s)) : Tail(s)[k] = s[k + 1]
OBVIOUS

\* Appending leaves the elements before it where they are.
LEMMA AppendSeq ==
    ASSUME NEW S, NEW s \in Seq(S), NEW e \in S
    PROVE  /\ Append(s, e) \in Seq(S) /\ Append(s, e) # <<>>
           /\ Len(Append(s, e)) = Len(s) + 1
           /\ \A k \in 1 .. Len(s) : Append(s, e)[k] = s[k]
           /\ Append(s, e)[Len(s) + 1] = e
OBVIOUS

\* So does concatenation, and the second sequence follows.
LEMMA ConcatSeq ==
    ASSUME NEW S, NEW s \in Seq(S), NEW t \in Seq(S)
    PROVE  /\ s \o t \in Seq(S)
           /\ Len(s \o t) = Len(s) + Len(t)
           /\ \A k \in 1 .. Len(s) + Len(t) :
                  (s \o t)[k] = IF k <= Len(s) THEN s[k] ELSE t[k - Len(s)]
OBVIOUS

\* The elements from one place to another
LEMMA PartOfSeq ==
    ASSUME NEW S, NEW s, NEW m \in Int, NEW n \in Int, \A k \in m .. n : s[k] \in S
    PROVE  /\ SubSeq(s, m, n) \in Seq(S)
           /\ Len(SubSeq(s, m, n)) = IF m <= n THEN n - m + 1 ELSE 0
           /\ \A k \in 1 .. n - m + 1 : SubSeq(s, m, n)[k] = s[m + k - 1]
OBVIOUS

-----------------------------------------------------------------------------
(* Queues of adjacent intervals *)

\* The empty queue, of a pcb that has nothing to send
LEMMA ChainEmpty ==
    ASSUME NEW lo \in Nat, NEW max \in Nat
    PROVE  Chain(<<>>, lo, lo, max)
BY DEF Chain

\* Taking the head off, as an acknowledgement or pop() does
LEMMA ChainTail ==
    ASSUME NEW q \in Seq(Nat \X Nat), NEW lo \in Nat, NEW hi \in Nat, NEW max \in Nat,
           Chain(q, lo, hi, max), q # <<>>
    PROVE  /\ Head(q) = q[1] /\ Head(q) \in Nat \X Nat
           /\ Head(q)[1] = lo /\ lo < Head(q)[2] /\ Head(q)[2] <= hi
           /\ Head(q)[2] - lo <= max
           /\ Tail(q) \in Seq(Nat \X Nat)
           /\ Chain(Tail(q), Head(q)[2], hi, max)
<1> DEFINE t == Tail(q)
<1>1. /\ Len(q) \in Nat /\ Len(q) > 0 /\ Head(q) = q[1]
  BY SeqEmpty, SeqLen
<1>2. /\ Head(q) \in Nat \X Nat
      /\ t \in Seq(Nat \X Nat) /\ Len(t) = Len(q) - 1
      /\ \A i \in 1 .. Len(t) : t[i] = q[i + 1]
  BY SMTT(30), HeadTailSeq
<1> HIDE DEF t
<1>3. /\ q[1][1] = lo /\ q[1][1] < q[1][2] /\ q[1][2] <= hi /\ q[1][2] - q[1][1] <= max
  BY SMTT(30), <1>1 DEF Chain
<1>4. ASSUME NEW i \in 1 .. Len(t)
      PROVE  /\ t[i] = q[i + 1] /\ i + 1 \in 1 .. Len(q)
             /\ q[1][2] <= t[i][1] /\ t[i][1] < t[i][2] /\ t[i][2] <= hi
             /\ t[i][2] - t[i][1] <= max
  <2>1. t[i] = q[i + 1]
    BY <1>2
  <2>2. i + 1 \in 1 .. Len(q) /\ 1 \in 1 .. Len(q) /\ 1 < i + 1
    <3>1. Len(t) = Len(q) - 1
      BY <1>2
    <3> QED BY <3>1, <1>1
  <2>3. /\ q[1][2] <= q[i + 1][1] /\ q[i + 1][1] < q[i + 1][2]
        /\ q[i + 1][2] <= hi /\ q[i + 1][2] - q[i + 1][1] <= max
    BY Zenon, <2>2 DEF Chain
  <2> QED BY Zenon, <2>1, <2>2, <2>3
<1>5. ASSUME NEW i \in 1 .. Len(t), NEW j \in 1 .. Len(t), i < j
      PROVE  t[i][2] <= t[j][1]
  <2>1. q[i + 1][2] <= q[j + 1][1]
    <3>1. i + 1 \in 1 .. Len(q) /\ j + 1 \in 1 .. Len(q) /\ i + 1 < j + 1
      BY <1>4, <1>5
    <3> QED BY <3>1 DEF Chain
  <2> QED BY Zenon, <2>1, <1>4
<1>6. ASSUME NEW i \in 1 .. Len(t) - 1
      PROVE  t[i][2] = t[i + 1][1]
  <2>1. Len(t) \in Nat /\ Len(t) = Len(q) - 1
    BY <1>1, <1>2
  <2>2. i \in 1 .. Len(t) /\ i + 1 \in 1 .. Len(t) /\ i + 1 \in 1 .. Len(q) - 1
    BY <2>1
  <2>3. t[i] = q[i + 1] /\ t[i + 1] = q[(i + 1) + 1]
    BY <2>2, <1>4
  <2>4. q[i + 1][2] = q[(i + 1) + 1][1]
    BY <2>2 DEF Chain
  <2> QED BY <2>3, <2>4
<1>7. IF Len(t) = 0 THEN q[1][2] = hi ELSE t[1][1] = q[1][2] /\ t[Len(t)][2] = hi
  <2>1. Len(t) \in Nat /\ Len(t) = Len(q) - 1
    BY <1>1, <1>2
  <2>2. q[Len(q)][2] = hi
    BY <1>1 DEF Chain
  <2>3. CASE Len(t) = 0
    <3>1. Len(q) = 1
      BY <2>1, <2>3, <1>1
    <3> QED BY <2>2, <2>3, <3>1
  <2>4. CASE Len(t) # 0
    <3>1. 1 \in 1 .. Len(t) /\ Len(t) \in 1 .. Len(t) /\ 1 \in 1 .. Len(q) - 1
      BY SMTT(30), <2>1, <2>4
    <3>2. t[1] = q[1 + 1] /\ t[Len(t)] = q[Len(t) + 1]
      BY <3>1, <1>4
    <3>3. Len(t) + 1 = Len(q)
      BY <2>1, <1>1
    <3>4. q[1][2] = q[1 + 1][1]
      BY <3>1 DEF Chain
    <3> QED BY Zenon, <2>2, <2>4, <3>2, <3>3, <3>4
  <2> QED BY <2>3, <2>4
<1>8. Chain(t, q[1][2], hi, max)
  BY <1>3, <1>4, <1>5, <1>6, <1>7 DEF Chain
<1> QED BY SMTT(30), <1>1, <1>2, <1>3, <1>8 DEF t

\* Adding an element at the end, as tcp_write or push() does
LEMMA ChainAppend ==
    ASSUME NEW q \in Seq(Nat \X Nat), NEW lo \in Nat, NEW hi \in Nat, NEW max \in Nat,
           Chain(q, lo, hi, max), NEW new \in Nat, hi < new, new - hi <= max
    PROVE  /\ Append(q, <<hi, new>>) \in Seq(Nat \X Nat)
           /\ Chain(Append(q, <<hi, new>>), lo, new, max)
<1> DEFINE e == <<hi, new>>
           a == Append(q, e)
<1>1. e \in Nat \X Nat /\ e[1] = hi /\ e[2] = new
  OBVIOUS
<1>2. /\ a \in Seq(Nat \X Nat) /\ Len(a) = Len(q) + 1
      /\ \A i \in 1 .. Len(q) : a[i] = q[i]
      /\ a[Len(q) + 1] = e
  BY <1>1, AppendSeq
<1>3. Len(q) \in Nat
  BY SeqLen
<1> HIDE DEF e, a
<1>4. ASSUME NEW i \in 1 .. Len(a)
      PROVE  \/ i \in 1 .. Len(q) /\ a[i] = q[i]
             \/ i = Len(q) + 1 /\ a[i] = e
  <2>1. i \in 1 .. Len(q) \/ i = Len(q) + 1
    <3>1. Len(a) = Len(q) + 1
      BY <1>2
    <3> QED BY SMTT(30), <3>1, <1>3
  <2> QED BY Zenon, <2>1, <1>2
<1>5. ASSUME NEW i \in 1 .. Len(q)
      PROVE  /\ q[i][1] \in Nat /\ q[i][2] \in Nat
             /\ lo <= q[i][1] /\ q[i][1] < q[i][2] /\ q[i][2] <= hi
             /\ q[i][2] - q[i][1] <= max
  <2>1. q[i] \in Nat \X Nat
    BY SeqElement
  <2> QED BY SMTT(30), <2>1 DEF Chain
<1>6. lo <= hi
  BY DEF Chain
<1>7. ASSUME NEW i \in 1 .. Len(a)
      PROVE  /\ lo <= a[i][1] /\ a[i][1] < a[i][2] /\ a[i][2] <= new
             /\ a[i][2] - a[i][1] <= max
  <2>1. CASE i \in 1 .. Len(q) /\ a[i] = q[i]
    <3>1. /\ q[i][2] \in Nat /\ lo <= q[i][1] /\ q[i][1] < q[i][2] /\ q[i][2] <= hi
          /\ q[i][2] - q[i][1] <= max
      BY Zenon, <2>1, <1>5
    <3>2. \A x \in Nat : x <= hi => x <= new
      OBVIOUS
    <3> QED BY Zenon, <2>1, <3>1, <3>2
  <2>2. CASE a[i] = e
    BY <2>2, <1>1, <1>6
  <2> QED BY <2>1, <2>2, <1>4
<1>8. ASSUME NEW i \in 1 .. Len(a), NEW j \in 1 .. Len(a), i < j
      PROVE  a[i][2] <= a[j][1]
  <2>1. i \in 1 .. Len(q) /\ a[i] = q[i]
    <3>1. Len(a) = Len(q) + 1
      BY <1>2
    <3>2. i # Len(q) + 1
      BY <3>1, <1>3, <1>8
    <3> QED BY Zenon, <3>2, <1>4
  <2>2. CASE j \in 1 .. Len(q) /\ a[j] = q[j]
    <3>1. q[i][2] <= q[j][1]
      BY Zenon, <2>1, <2>2, <1>8 DEF Chain
    <3> QED BY <3>1, <2>1, <2>2
  <2>3. CASE a[j] = e
    BY Zenon, <2>1, <2>3, <1>1, <1>5
  <2> QED BY <2>2, <2>3, <1>4
<1>9. ASSUME NEW i \in 1 .. Len(a) - 1
      PROVE  a[i][2] = a[i + 1][1]
  <2>1. Len(a) = Len(q) + 1
    BY <1>2
  <2>2. i \in 1 .. Len(q)
    BY <2>1, <1>3
  <2>3. a[i] = q[i]
    BY <2>2, <1>2
  <2>4. CASE i = Len(q)
    <3>1. q[Len(q)][2] = hi
      BY <2>2, <2>4, <1>3 DEF Chain
    <3>2. a[i + 1] = e
      BY <2>4, <1>2
    <3> QED BY <2>3, <2>4, <3>1, <3>2, <1>1
  <2>5. CASE i # Len(q)
    <3>1. i \in 1 .. Len(q) - 1 /\ i + 1 \in 1 .. Len(q)
      BY <2>2, <2>5, <1>3
    <3>2. q[i][2] = q[i + 1][1]
      BY <3>1 DEF Chain
    <3>3. a[i + 1] = q[i + 1]
      BY Zenon, <3>1, <1>2
    <3> QED BY <2>3, <3>2, <3>3
  <2> QED BY <2>4, <2>5
<1>10. a[1][1] = lo /\ a[Len(a)][2] = new /\ Len(a) # 0 /\ lo <= new
  <2>1. Len(a) = Len(q) + 1 /\ a[Len(a)] = e
    BY <1>2
  <2>2. CASE Len(q) = 0
    <3>1. lo = hi /\ Len(a) = 1
      BY <2>1, <2>2 DEF Chain
    <3> QED BY SMTT(30), <3>1, <2>1, <1>1
  <2>3. CASE Len(q) # 0
    <3>1. 1 \in 1 .. Len(q)
      BY <2>3, <1>3
    <3>2. a[1] = q[1] /\ q[1][1] = lo
      BY <3>1, <2>3, <1>2 DEF Chain
    <3>3. Len(a) # 0
      BY <2>1, <1>3
    <3> QED BY SMTT(30), <3>2, <3>3, <2>1, <1>1, <1>6
  <2> QED BY <2>2, <2>3
<1>11. Chain(a, lo, new, max)
  BY <1>7, <1>8, <1>9, <1>10 DEF Chain
<1> QED BY <1>2, <1>11 DEF a, e

\* The first k elements of a sequence
LEMMA PrefixElements ==
    ASSUME NEW S, NEW s \in Seq(S), NEW k \in 0 .. Len(s)
    PROVE  /\ SubSeq(s, 1, k) \in Seq(S) /\ Len(SubSeq(s, 1, k)) = k
           /\ \A i \in 1 .. k : SubSeq(s, 1, k)[i] = s[i]
<1>1. Len(s) \in Nat /\ k \in Nat /\ 1 \in Int /\ k \in Int
  BY SeqLen
<1>2. \A i \in 1 .. k : s[i] \in S
  <2>1. \A i \in 1 .. k : i \in 1 .. Len(s)
    BY <1>1
  <2> QED BY Zenon, <2>1, SeqElement
<1>3. /\ SubSeq(s, 1, k) \in Seq(S)
      /\ Len(SubSeq(s, 1, k)) = IF 1 <= k THEN k - 1 + 1 ELSE 0
      /\ \A i \in 1 .. k - 1 + 1 : SubSeq(s, 1, k)[i] = s[1 + i - 1]
  BY <1>1, <1>2, PartOfSeq
<1>4. k - 1 + 1 = k /\ (IF 1 <= k THEN k - 1 + 1 ELSE 0) = k
  BY <1>1
<1>5. \A i \in 1 .. k : 1 + i - 1 = i
  BY <1>1
<1> QED BY Zenon, <1>3, <1>4, <1>5

\* Where the first k elements of q end
Cut(q, lo, k) == IF k = 0 THEN lo ELSE q[k][2]

\* The elements that tcp_output sends
LEMMA ChainPrefix ==
    ASSUME NEW q \in Seq(Nat \X Nat), NEW lo \in Nat, NEW hi \in Nat, NEW max \in Nat,
           Chain(q, lo, hi, max), NEW k \in 0 .. Len(q)
    PROVE  /\ Cut(q, lo, k) \in Nat /\ Cut(q, lo, k) <= hi /\ lo <= Cut(q, lo, k)
           /\ SubSeq(q, 1, k) \in Seq(Nat \X Nat)
           /\ Len(SubSeq(q, 1, k)) = k
           /\ Chain(SubSeq(q, 1, k), lo, Cut(q, lo, k), max)
<1> DEFINE m == Cut(q, lo, k)
           t == SubSeq(q, 1, k)
<1>1. Len(q) \in Nat /\ k \in Nat
  BY SeqLen
<1>2. ASSUME NEW i \in 1 .. Len(q)
      PROVE  /\ q[i] \in Nat \X Nat /\ q[i][1] \in Nat /\ q[i][2] \in Nat
             /\ lo <= q[i][1] /\ q[i][1] < q[i][2] /\ q[i][2] <= hi
             /\ q[i][2] - q[i][1] <= max
  <2>1. q[i] \in Nat \X Nat
    BY SeqElement
  <2> QED BY Zenon, <2>1 DEF Chain
<1>3. \A i \in 1 .. k : i \in 1 .. Len(q)
  BY <1>1
<1>4. t \in Seq(Nat \X Nat) /\ Len(t) = k
  BY Zenon, PrefixElements
<1>5. ASSUME NEW i \in 1 .. k
      PROVE  t[i] = q[i]
  BY Zenon, PrefixElements
<1>6. m \in Nat /\ m <= hi /\ lo <= m
  <2>1. CASE k = 0
    BY <2>1 DEF Cut, Chain
  <2>2. CASE k # 0
    <3>1. k \in 1 .. Len(q)
      BY <2>2, <1>1
    <3>2. m = q[k][2]
      BY <2>2 DEF Cut
    <3>3. q[k][1] \in Nat /\ q[k][2] \in Nat /\ lo <= q[k][1] /\ q[k][1] < q[k][2] /\ q[k][2] <= hi
      BY Zenon, <3>1, <1>2
    <3>4. \A x, y \in Nat : lo <= x /\ x < y => lo <= y
      OBVIOUS
    <3> QED BY Zenon, <3>2, <3>3, <3>4
  <2> QED BY <2>1, <2>2
<1> HIDE DEF t
<1>7. ASSUME NEW i \in 1 .. k
      PROVE  /\ lo <= t[i][1] /\ t[i][1] < t[i][2] /\ t[i][2] <= m
             /\ t[i][2] - t[i][1] <= max
  <2>1. i \in 1 .. Len(q) /\ k \in 1 .. Len(q) /\ k # 0
    BY SMTT(30), <1>3, <1>1
  <2>2. m = q[k][2]
    BY <2>1 DEF Cut
  <2>3. q[i][2] <= q[k][2]
    <3>1. CASE i = k
      BY SMTT(30), <3>1, <2>1, <1>2
    <3>2. CASE i < k
      <4>1. q[i][2] <= q[k][1]
        BY Zenon, <3>2, <2>1 DEF Chain
      <4>2. q[i][2] \in Nat
        BY Zenon, <2>1, <1>2
      <4>3. q[k][1] \in Nat /\ q[k][2] \in Nat /\ q[k][1] < q[k][2]
        BY Zenon, <2>1, <1>2
      <4>4. \A x, y, z \in Nat : x <= y /\ y < z => x <= z
        OBVIOUS
      <4> QED BY Zenon, <4>1, <4>2, <4>3, <4>4
    <3> QED BY <3>1, <3>2, <1>1
  <2> QED BY Zenon, <2>1, <2>2, <2>3, <1>2, <1>5
<1>8. ASSUME NEW i \in 1 .. k, NEW j \in 1 .. k, i < j
      PROVE  t[i][2] <= t[j][1]
  <2>1. q[i][2] <= q[j][1]
    BY Zenon, <1>8, <1>3 DEF Chain
  <2> QED BY Zenon, <2>1, <1>5
<1>9. ASSUME NEW i \in 1 .. k - 1
      PROVE  t[i][2] = t[i + 1][1]
  <2>1. i \in 1 .. k /\ i + 1 \in 1 .. k /\ i \in 1 .. Len(q) - 1
    BY <1>1
  <2>2. q[i][2] = q[i + 1][1]
    BY Zenon, <2>1 DEF Chain
  <2> QED BY Zenon, <2>1, <2>2, <1>5
<1>10. IF k = 0 THEN lo = m ELSE t[1][1] = lo /\ t[k][2] = m
  <2>1. CASE k = 0
    BY <2>1 DEF Cut
  <2>2. CASE k # 0
    <3>1. 1 \in 1 .. k /\ k \in 1 .. k /\ Len(q) # 0
      BY <2>2, <1>1
    <3>2. t[1] = q[1] /\ t[k] = q[k]
      BY Zenon, <3>1, <1>5
    <3>3. q[1][1] = lo
      BY <3>1 DEF Chain
    <3> QED BY <2>2, <3>2, <3>3 DEF Cut
  <2> QED BY <2>1, <2>2
<1> HIDE DEF m
<1>11. Chain(t, lo, m, max)
  BY SMTT(30), <1>4, <1>6, <1>7, <1>8, <1>9, <1>10 DEF Chain
<1> QED BY <1>4, <1>6, <1>11 DEF t, m

\* The elements that stay in the queue when tcp_output has sent the first k
LEMMA ChainSuffix ==
    ASSUME NEW q \in Seq(Nat \X Nat), NEW lo \in Nat, NEW hi \in Nat, NEW max \in Nat,
           Chain(q, lo, hi, max), NEW k \in 0 .. Len(q)
    PROVE  /\ SubSeq(q, k + 1, Len(q)) \in Seq(Nat \X Nat)
           /\ Chain(SubSeq(q, k + 1, Len(q)), Cut(q, lo, k), hi, max)
<1> DEFINE m == Cut(q, lo, k)
           t == SubSeq(q, k + 1, Len(q))
           n == Len(q) - k
<1>1. Len(q) \in Nat /\ k \in Nat /\ n \in Nat
  BY SeqLen
<1>2. ASSUME NEW i \in 1 .. Len(q)
      PROVE  /\ q[i] \in Nat \X Nat /\ q[i][1] \in Nat /\ q[i][2] \in Nat
             /\ lo <= q[i][1] /\ q[i][1] < q[i][2] /\ q[i][2] <= hi
             /\ q[i][2] - q[i][1] <= max
  <2>1. q[i] \in Nat \X Nat
    BY SeqElement
  <2> QED BY Zenon, <2>1 DEF Chain
<1>3. m \in Nat /\ m <= hi
  BY ChainPrefix
<1>4. ASSUME NEW i \in 1 .. n
      PROVE  i + k \in 1 .. Len(q)
  BY <1>1
<1>5. /\ t \in Seq(Nat \X Nat) /\ Len(t) = n
      /\ \A i \in 1 .. n : t[i] = q[i + k]
  <2>1. \A i \in k + 1 .. Len(q) : q[i] \in Nat \X Nat
    <3>1. \A i \in k + 1 .. Len(q) : i \in 1 .. Len(q)
      BY <1>1
    <3> QED BY <3>1, <1>2
  <2>2. /\ t \in Seq(Nat \X Nat)
        /\ Len(t) = IF k + 1 <= Len(q) THEN Len(q) - (k + 1) + 1 ELSE 0
        /\ \A i \in 1 .. Len(q) - (k + 1) + 1 : t[i] = q[k + 1 + i - 1]
    BY SMTT(30), <2>1, <1>1, PartOfSeq
  <2> HIDE DEF t
  <2>3. Len(t) = n
    <3>1. Len(t) = IF k + 1 <= Len(q) THEN Len(q) - (k + 1) + 1 ELSE 0
      BY <2>2
    <3> QED BY <3>1, <1>1
  <2>4. ASSUME NEW i \in 1 .. n
        PROVE  t[i] = q[i + k]
    <3>1. i \in 1 .. Len(q) - (k + 1) + 1 /\ k + 1 + i - 1 = i + k
      BY <1>1
    <3>2. t[i] = q[k + 1 + i - 1]
      BY <3>1, <2>2
    <3> QED BY Zenon, <3>1, <3>2
  <2> QED BY Zenon, <2>2, <2>3, <2>4
<1> HIDE DEF t, n
<1>6. ASSUME NEW i \in 1 .. n
      PROVE  /\ t[i] = q[i + k] /\ i + k \in 1 .. Len(q)
             /\ q[i + k][1] \in Nat /\ q[i + k][2] \in Nat
             /\ q[i + k][1] < q[i + k][2] /\ q[i + k][2] <= hi
             /\ q[i + k][2] - q[i + k][1] <= max
             /\ lo <= q[i + k][1]
  <2>1. t[i] = q[i + k] /\ i + k \in 1 .. Len(q)
    BY Zenon, <1>4, <1>5
  <2> QED BY Zenon, <2>1, <1>2
<1>7. ASSUME NEW i \in 1 .. n
      PROVE  m <= t[i][1]
  <2>1. CASE k = 0
    <3>1. m = lo
      BY <2>1 DEF Cut
    <3> QED BY Zenon, <3>1, <1>6
  <2>2. CASE k # 0
    <3>1. k \in 1 .. Len(q) /\ k < i + k /\ i + k \in 1 .. Len(q)
      <4>1. i + k \in 1 .. Len(q)
        BY <1>4
      <4> QED BY <4>1, <2>2, <1>1
    <3>2. q[k][2] <= q[i + k][1]
      BY Zenon, <3>1 DEF Chain
    <3> QED BY Zenon, <3>2, <2>2, <1>6 DEF Cut
  <2> QED BY <2>1, <2>2
<1>8. ASSUME NEW i \in 1 .. n, NEW j \in 1 .. n, i < j
      PROVE  t[i][2] <= t[j][1]
  <2>1. i + k < j + k
    BY <1>8, <1>1
  <2>2. q[i + k][2] <= q[j + k][1]
    BY Zenon, <2>1, <1>4 DEF Chain
  <2> QED BY Zenon, <2>2, <1>6
<1>9. ASSUME NEW i \in 1 .. n - 1
      PROVE  t[i][2] = t[i + 1][1]
  <2>1. /\ i \in 1 .. n /\ i + 1 \in 1 .. n /\ i + k \in 1 .. Len(q) - 1
        /\ i + 1 + k = i + k + 1
    <3>1. n + k = Len(q)
      BY <1>1 DEF n
    <3> QED BY <3>1, <1>1
  <2>2. q[i + k][2] = q[i + k + 1][1]
    BY Zenon, <2>1 DEF Chain
  <2>3. t[i] = q[i + k] /\ t[i + 1] = q[i + 1 + k]
    BY Zenon, <2>1, <1>6
  <2> QED BY Zenon, <2>1, <2>2, <2>3
<1>10. IF n = 0 THEN m = hi ELSE t[1][1] = m /\ t[n][2] = hi
  <2>1. CASE n = 0
    <3>1. k = Len(q)
      BY <2>1, <1>1 DEF n
    <3> QED BY <3>1, <2>1 DEF Chain, Cut
  <2>2. CASE n # 0
    <3>1. 1 \in 1 .. n /\ n \in 1 .. n /\ n + k = Len(q) /\ Len(q) # 0 /\ 1 + k = k + 1
      BY <2>2, <1>1 DEF n
    <3>2. t[1] = q[k + 1] /\ t[n] = q[Len(q)]
      BY Zenon, <3>1, <1>5
    <3>3. q[1][1] = lo /\ q[Len(q)][2] = hi
      BY <3>1 DEF Chain
    <3>4. q[k + 1][1] = m
      <4>1. CASE k = 0
        BY <4>1, <3>3 DEF Cut
      <4>2. CASE k # 0
        <5>1. k \in 1 .. Len(q) - 1
          BY <4>2, <3>1, <2>2, <1>1
        <5>2. q[k][2] = q[k + 1][1]
          BY Zenon, <5>1 DEF Chain
        <5> QED BY <5>2, <4>2 DEF Cut
      <4> QED BY <4>1, <4>2
    <3> QED BY <2>2, <3>2, <3>3, <3>4
  <2> QED BY <2>1, <2>2
<1> HIDE DEF m
<1>11. ASSUME NEW i \in 1 .. n
       PROVE  /\ m <= t[i][1] /\ t[i][1] < t[i][2] /\ t[i][2] <= hi
              /\ t[i][2] - t[i][1] <= max
  BY Zenon, <1>6, <1>7
<1>12. Len(t) = n
  BY <1>5
<1>13. Chain(t, m, hi, max)
  BY SMTT(30), <1>3, <1>8, <1>9, <1>10, <1>11, <1>12 DEF Chain
<1> QED BY <1>5, <1>13 DEF t, m

\* Segments just sent go behind those already in flight.
LEMMA ChainConcat ==
    ASSUME NEW p \in Seq(Nat \X Nat), NEW q \in Seq(Nat \X Nat), NEW max \in Nat,
           NEW lo \in Nat, NEW mid \in Nat, NEW hi \in Nat,
           Chain(p, lo, mid, max), Chain(q, mid, hi, max)
    PROVE  /\ p \o q \in Seq(Nat \X Nat)
           /\ Chain(p \o q, lo, hi, max)
<1>1. PICK m \in Nat, n \in Nat : m = Len(p) /\ n = Len(q)
  BY SeqLen
<1> DEFINE t == p \o q
<1>2. t \in Seq(Nat \X Nat) /\ Len(t) = m + n
  BY <1>1, ConcatSeq
<1>3. \A i \in 1 .. m + n : t[i] = IF i <= m THEN p[i] ELSE q[i - m]
  BY SMTT(30), <1>1, ConcatSeq
<1> HIDE DEF t
<1>4. ASSUME NEW i \in 1 .. m
      PROVE  t[i] = p[i]
  <2>1. i \in 1 .. m + n /\ i <= m
    OBVIOUS
  <2> QED BY <2>1, <1>3
<1>5. ASSUME NEW i \in 1 .. n
      PROVE  t[m + i] = q[i]
  <2>1. PICK e \in Nat : e = m + i
    OBVIOUS
  <2>2. e \in 1 .. m + n /\ ~ (e <= m)
    BY <2>1
  <2>3. PICK d \in Int : d = e - m
    OBVIOUS
  <2>4. t[e] = q[d]
    BY Zenon, <2>2, <2>3, <1>3
  <2>5. d = i
    BY <2>1, <2>3
  <2> QED BY <2>1, <2>4, <2>5
<1>6. ASSUME NEW i \in 1 .. m + n, i \notin 1 .. m
      PROVE  \E j \in 1 .. n : i = m + j
  <2>1. i - m \in 1 .. n /\ i = m + (i - m)
    BY <1>6
  <2> QED BY <2>1
<1>7. ASSUME NEW i \in 1 .. m
      PROVE  /\ p[i][1] \in Nat /\ p[i][2] \in Nat
             /\ lo <= p[i][1] /\ p[i][1] < p[i][2] /\ p[i][2] <= mid
             /\ p[i][2] - p[i][1] <= max
  <2>1. p[i] \in Nat \X Nat
    BY SMTT(30), <1>1, SeqElement
  <2> QED BY Zenon, <2>1, <1>1 DEF Chain
<1>8. ASSUME NEW i \in 1 .. n
      PROVE  /\ q[i][1] \in Nat /\ q[i][2] \in Nat
             /\ mid <= q[i][1] /\ q[i][1] < q[i][2] /\ q[i][2] <= hi
             /\ q[i][2] - q[i][1] <= max
  <2>1. q[i] \in Nat \X Nat
    BY <1>1, SeqElement
  <2> QED BY Zenon, <2>1, <1>1 DEF Chain
<1>9. lo <= mid /\ mid <= hi
  BY SMTT(30) DEF Chain
<1>10. /\ IF m = 0 THEN lo = mid ELSE p[1][1] = lo /\ p[m][2] = mid
       /\ IF n = 0 THEN mid = hi ELSE q[1][1] = mid /\ q[n][2] = hi
  BY SMTT(30), <1>1 DEF Chain
<1>11. ASSUME NEW i \in 1 .. m + n
       PROVE  /\ lo <= t[i][1] /\ t[i][1] < t[i][2] /\ t[i][2] <= hi
              /\ t[i][2] - t[i][1] <= max
  <2>1. CASE i \in 1 .. m
    <3>1. t[i] = p[i]
      BY Zenon, <2>1, <1>4
    <3>2. /\ p[i][1] \in Nat /\ p[i][2] \in Nat
          /\ lo <= p[i][1] /\ p[i][1] < p[i][2] /\ p[i][2] <= mid
          /\ p[i][2] - p[i][1] <= max
      BY Zenon, <2>1, <1>7
    <3>3. \A x \in Nat : x <= mid => x <= hi
      BY <1>9
    <3> QED BY Zenon, <3>1, <3>2, <3>3
  <2>2. CASE i \notin 1 .. m
    <3>1. PICK j \in 1 .. n : i = m + j
      BY <2>2, <1>6
    <3>2. t[i] = q[j]
      BY <3>1, <1>5
    <3>3. /\ q[j][1] \in Nat /\ mid <= q[j][1] /\ q[j][1] < q[j][2] /\ q[j][2] <= hi
          /\ q[j][2] - q[j][1] <= max
      BY Zenon, <1>8
    <3>4. \A x \in Nat : mid <= x => lo <= x
      BY <1>9
    <3> QED BY Zenon, <3>2, <3>3, <3>4
  <2> QED BY SMTT(30), <2>1, <2>2
<1>12. ASSUME NEW i \in 1 .. m + n, NEW j \in 1 .. m + n, i < j
       PROVE  t[i][2] <= t[j][1]
  <2>1. CASE j \in 1 .. m
    <3>1. i \in 1 .. m
      BY <2>1, <1>12
    <3>2. p[i][2] <= p[j][1]
      BY Zenon, <2>1, <3>1, <1>1, <1>12 DEF Chain
    <3> QED BY Zenon, <2>1, <3>1, <3>2, <1>4
  <2>2. CASE j \notin 1 .. m /\ i \in 1 .. m
    <3>1. PICK jj \in 1 .. n : j = m + jj
      BY <2>2, <1>6
    <3>2. t[j] = q[jj] /\ t[i] = p[i]
      BY SMTT(30), <2>2, <3>1, <1>4, <1>5
    <3>3. p[i][2] \in Nat /\ p[i][2] <= mid
      BY Zenon, <2>2, <1>7
    <3>4. q[jj][1] \in Nat /\ mid <= q[jj][1]
      BY Zenon, <1>8
    <3>5. \A x, y \in Nat : x <= mid /\ mid <= y => x <= y
      OBVIOUS
    <3>6. p[i][2] <= q[jj][1]
      BY Zenon, <3>3, <3>4, <3>5
    <3> QED BY <3>2, <3>6
  <2>3. CASE j \notin 1 .. m /\ i \notin 1 .. m
    <3>1. PICK jj \in 1 .. n : j = m + jj
      BY <2>3, <1>6
    <3>2. PICK ii \in 1 .. n : i = m + ii
      BY <2>3, <1>6
    <3>3. ii < jj
      BY <3>1, <3>2, <1>12
    <3>4. q[ii][2] <= q[jj][1]
      BY Zenon, <3>3, <1>1 DEF Chain
    <3>5. t[j] = q[jj] /\ t[i] = q[ii]
      BY Zenon, <3>1, <3>2, <1>5
    <3> QED BY SMTT(30), <3>4, <3>5
  <2> QED BY SMTT(30), <2>1, <2>2, <2>3
<1>13. ASSUME NEW i \in 1 .. m + n - 1
       PROVE  t[i][2] = t[i + 1][1]
  <2>1. CASE i \in 1 .. m - 1
    <3>1. i \in 1 .. m /\ i + 1 \in 1 .. m
      BY <2>1
    <3>2. p[i][2] = p[i + 1][1]
      BY Zenon, <2>1, <1>1 DEF Chain
    <3> QED BY Zenon, <3>1, <3>2, <1>4
  <2>2. CASE i = m
    <3>1. m \in 1 .. m /\ 1 \in 1 .. n /\ m # 0 /\ n # 0
      BY <2>2
    <3>2. t[m] = p[m] /\ t[m + 1] = q[1]
      BY SMTT(30), <3>1, <1>4, <1>5
    <3> QED BY Zenon, <2>2, <3>1, <3>2, <1>10
  <2>3. CASE i \notin 1 .. m
    <3>1. PICK j \in 1 .. n : i = m + j
      BY <2>3, <1>6
    <3>2. j \in 1 .. n - 1 /\ j + 1 \in 1 .. n /\ m + (j + 1) = i + 1
      BY <3>1
    <3>3. q[j][2] = q[j + 1][1]
      BY Zenon, <3>2, <1>1 DEF Chain
    <3>4. t[i] = q[j]
      BY Zenon, <3>1, <1>5
    <3>5. t[m + (j + 1)] = q[j + 1]
      BY <3>2, <1>5
    <3> QED BY Zenon, <3>2, <3>3, <3>4, <3>5
  <2> QED BY <2>1, <2>2, <2>3
<1>14. IF m + n = 0 THEN lo = hi ELSE t[1][1] = lo /\ t[m + n][2] = hi
  <2>1. CASE m + n = 0
    <3>1. m = 0 /\ n = 0
      BY <2>1
    <3> QED BY SMTT(30), <2>1, <3>1, <1>10
  <2>2. CASE m # 0 /\ n # 0
    <3>1. 1 \in 1 .. m /\ n \in 1 .. n
      BY <2>2
    <3>2. t[1] = p[1] /\ t[m + n] = q[n]
      BY Zenon, <3>1, <1>4, <1>5
    <3> QED BY <2>2, <3>2, <1>10
  <2>3. CASE m = 0 /\ n # 0
    <3>1. 1 \in 1 .. n /\ n \in 1 .. n /\ m + 1 = 1 /\ m + n # 0
      BY <2>3
    <3>2. t[m + 1] = q[1] /\ t[m + n] = q[n]
      BY Zenon, <3>1, <1>5
    <3>4. t[1] = q[1]
      BY <3>1, <3>2
    <3>3. lo = mid /\ q[1][1] = mid /\ q[n][2] = hi
      BY Zenon, <2>3, <1>10
    <3> QED BY Zenon, <3>1, <3>2, <3>3, <3>4
  <2>4. CASE m # 0 /\ n = 0
    <3>1. 1 \in 1 .. m /\ m \in 1 .. m /\ m + n = m /\ m + n # 0
      BY <2>4
    <3>2. t[1] = p[1] /\ t[m + n] = p[m]
      BY Zenon, <3>1, <1>4
    <3>3. p[1][1] = lo /\ p[m][2] = mid /\ mid = hi
      BY Zenon, <2>4, <1>10
    <3> QED BY Zenon, <3>1, <3>2, <3>3
  <2> QED BY SMTT(30), <2>1, <2>2, <2>3, <2>4
<1>15. lo <= hi
  BY <1>9
<1>16. Chain(t, lo, hi, max)
  <2>1. Len(t) = m + n
    BY Zenon, <1>2
  <2> HIDE DEF t
  <2>2. \A i \in 1 .. Len(t) :
            /\ lo <= t[i][1] /\ t[i][1] < t[i][2] /\ t[i][2] <= hi
            /\ t[i][2] - t[i][1] <= max
    BY Zenon, <1>11, <2>1
  <2>3. \A i, j \in 1 .. Len(t) : i < j => t[i][2] <= t[j][1]
    BY Zenon, <1>12, <2>1
  <2>4. \A i \in 1 .. Len(t) - 1 : t[i][2] = t[i + 1][1]
    <3>1. 1 .. Len(t) - 1 = 1 .. m + n - 1
      BY <2>1
    <3> QED BY Zenon, <1>13, <3>1
  <2>5. IF Len(t) = 0 THEN lo = hi ELSE t[1][1] = lo /\ t[Len(t)][2] = hi
    BY Zenon, <1>14, <2>1
  <2> QED BY Zenon, <1>15, <2>2, <2>3, <2>4, <2>5 DEF Chain
<1> QED BY <1>2, <1>16 DEF t

-----------------------------------------------------------------------------
(* What the shared operators do *)

\* A buffer a write of lwIP may name holds numbers of the stream.
LEMMA BuffersAreBuffers ==
    ASSUME TypeOK, NEW c \in Conns, NEW b \in Buffers(c)
    PROVE  b \in [1 .. ReadMax -> Nat]
<1>1. remote_recv_buff[c] \in [1 .. ReadMax -> Nat]
  BY Zenon DEF TypeOK, SessionTypeOK
<1> QED BY <1>1 DEF Buffers

\* Stop changes only the session it is called for.
LEMMA StopEffect ==
    ASSUME TypeOK, NEW s \in Conns, Stop(s)
    PROVE  /\ status' \in [Conns -> Statuses]
           /\ callback_arg' \in [Conns -> BOOLEAN]
           /\ op' \in [Conns -> [Coroutines -> Ops]]
           /\ write_ops' \in [Conns -> Seq(Writers)]
           /\ \A d \in Conns : d # s => callback_arg'[d] = callback_arg[d]
<1>1. CASE status[s] = "CLOSE"
  BY SMTT(30), <1>1 DEF Stop, TypeOK, PcbTypeOK, SessionTypeOK, CoroutineTypeOK
<1>2. CASE status[s] # "CLOSE"
  <2>1. status' \in [Conns -> Statuses]
    BY Zenon, <1>2 DEF Stop, TypeOK, SessionTypeOK, Statuses
  <2>2. callback_arg' \in [Conns -> BOOLEAN]
        /\ \A d \in Conns : d # s => callback_arg'[d] = callback_arg[d]
    BY Zenon, <1>2 DEF Stop, TypeOK, PcbTypeOK
  <2>3. op' \in [Conns -> [Coroutines -> Ops]]
    <3>1. op' = [op EXCEPT ![s] = [r \in Coroutines |->
                     IF op[s][r] = "pending" THEN "err" ELSE op[s][r]]]
      BY <1>2 DEF Stop, Cancel
    <3>2. \A r \in Coroutines : op[s][r] \in Ops
      BY DEF TypeOK, CoroutineTypeOK
    <3>3. [r \in Coroutines |-> IF op[s][r] = "pending" THEN "err" ELSE op[s][r]]
              \in [Coroutines -> Ops]
      BY Zenon, <3>2 DEF Ops
    <3> QED BY <3>1, <3>3 DEF TypeOK, CoroutineTypeOK
  <2>4. write_ops' \in [Conns -> Seq(Writers)]
    <3>1. write_ops' = [write_ops EXCEPT ![s] = <<>>]
      BY <1>2 DEF Stop, Cancel
    <3> QED BY <3>1 DEF TypeOK, CoroutineTypeOK
  <2> QED BY <2>1, <2>2, <2>3, <2>4
<1> QED BY Zenon, <1>1, <1>2

\* Clear changes the session it finds and takes it out of the map.
LEMMA ClearEffect ==
    ASSUME TypeOK, NEW c \in Conns, Clear(c)
    PROVE  /\ status' \in [Conns -> Statuses]
           /\ callback_arg' \in [Conns -> BOOLEAN]
           /\ op' \in [Conns -> [Coroutines -> Ops]]
           /\ write_ops' \in [Conns -> Seq(Writers)]
           /\ session_map' = [session_map EXCEPT ![TupleOf[c]] = NoConn]
           /\ session_map' \in [Tuples -> Conns \cup {NoConn}]
           /\ \A d \in Conns :
                  d # session_map[TupleOf[c]] => callback_arg'[d] = callback_arg[d]
<1> DEFINE s == session_map[TupleOf[c]]
<1>1. session_map \in [Tuples -> Conns \cup {NoConn}] /\ TupleOf[c] \in Tuples
  BY ConnAssumption DEF TypeOK
<1>2. CASE s = NoConn
  <2>1. session_map' = [session_map EXCEPT ![TupleOf[c]] = NoConn]
    BY <1>1, <1>2 DEF Clear
  <2>2. UNCHANGED <<status, callback_arg, op, write_ops>>
    BY <1>2 DEF Clear
  <2>3. session_map' \in [Tuples -> Conns \cup {NoConn}]
    BY <1>1, <1>2 DEF Clear
  <2> QED BY Zenon, <2>1, <2>2, <2>3
          DEF TypeOK, PcbTypeOK, SessionTypeOK, CoroutineTypeOK
<1>3. CASE s # NoConn
  <2>1. session_map' = [session_map EXCEPT ![TupleOf[c]] = NoConn] /\ Stop(s)
    BY <1>3 DEF Clear
  <2>2. session_map' \in [Tuples -> Conns \cup {NoConn}]
    BY <1>1, <2>1
  <2>3. s \in Conns
    BY <1>1, <1>3
  <2> QED BY Zenon, <2>1, <2>2, <2>3, StopEffect
<1> QED BY Zenon, <1>2, <1>3

\* tcp_free empties the queues of the pcb.
LEMMA FreePcbEffect ==
    ASSUME TypeOK, NEW c \in Conns, FreePcb(c)
    PROVE  /\ state' \in [Conns -> PcbStates]
           /\ \A d \in Conns : state'[d] = IF d = c THEN "FREED" ELSE state[d]
           /\ unsent' \in [Conns -> Seq(Intervals)]
           /\ unacked' \in [Conns -> Seq(Intervals)]
           /\ \A d \in Conns : d # c => unsent'[d] = unsent[d] /\ unacked'[d] = unacked[d]
           /\ fin' \in [Conns -> {"no", "unsent", "unacked"}]
           /\ snd_nxt' = snd_nxt /\ downstream' = downstream
<1>1. state' \in [Conns -> PcbStates]
      /\ \A d \in Conns : state'[d] = IF d = c THEN "FREED" ELSE state[d]
  BY DEF FreePcb, TypeOK, PcbTypeOK, PcbStates
<1>2. <<>> \in Seq(Intervals)
  OBVIOUS
<1>3. /\ unsent' \in [Conns -> Seq(Intervals)]
      /\ unacked' \in [Conns -> Seq(Intervals)]
      /\ \A d \in Conns : d # c => unsent'[d] = unsent[d] /\ unacked'[d] = unacked[d]
  BY SMTT(30), <1>2 DEF FreePcb, TypeOK, PcbTypeOK
<1> QED BY Zenon, <1>1, <1>3 DEF FreePcb, TypeOK, PcbTypeOK

\* A writer takes the front of the queue in hand.
LEMMA StartWriteEffect ==
    ASSUME TypeOK, NEW c \in Conns, NEW w \in Writers, NEW q \in Seq(Intervals), q # <<>>,
           StartWrite(c, w, q)
    PROVE  /\ pbuf_queue' \in [Conns -> Seq(Intervals)]
           /\ pc' \in [Conns -> [Coroutines -> PCs]]
           /\ op' \in [Conns -> [Coroutines -> Ops]]
           /\ wr' \in [Conns -> [Writers -> [lo : Nat, pos : Nat, hi : Nat]]]
           /\ write_ops' \in [Conns -> Seq(Writers)]
<1>1. Head(q) \in Intervals /\ Tail(q) \in Seq(Intervals)
  BY HeadTailSeq
<1>2. pbuf_queue' \in [Conns -> Seq(Intervals)]
  BY SMTT(30), <1>1 DEF StartWrite, TypeOK, SessionTypeOK
<1>3. w \in Coroutines
  BY DEF Writers, Coroutines
<1>4. pc' \in [Conns -> [Coroutines -> PCs]]
  BY Zenon, <1>3 DEF StartWrite, TypeOK, CoroutineTypeOK, PCs
<1>5. op' \in [Conns -> [Coroutines -> Ops]]
  BY Zenon, <1>3 DEF StartWrite, TypeOK, CoroutineTypeOK, Ops
<1>6. [lo |-> Head(q)[1], pos |-> Head(q)[1], hi |-> Head(q)[2]]
          \in [lo : Nat, pos : Nat, hi : Nat]
  BY Zenon, <1>1 DEF Intervals
<1>7. wr' \in [Conns -> [Writers -> [lo : Nat, pos : Nat, hi : Nat]]]
  BY Zenon, <1>6 DEF StartWrite, TypeOK, CoroutineTypeOK
<1>8. Append(write_ops[c], w) \in Seq(Writers)
  BY SMTT(30), AppendSeq DEF TypeOK, CoroutineTypeOK
<1>9. write_ops' \in [Conns -> Seq(Writers)]
  BY Zenon, <1>8 DEF StartWrite, TypeOK, CoroutineTypeOK
<1> QED BY <1>2, <1>4, <1>5, <1>7, <1>9

\* A function on 1 .. n is a sequence.
LEMMA FunctionIsSeq ==
    ASSUME NEW S, NEW n \in Nat, NEW f \in [1 .. n -> S]
    PROVE  f \in Seq(S) /\ Len(f) = n
OBVIOUS

\* The payload of a segment no longer than the buffer
LEMMA PayloadType ==
    ASSUME NEW seg \in Intervals, NEW b \in [1 .. ReadMax -> Nat],
           seg[1] < seg[2], seg[2] - seg[1] <= ReadMax
    PROVE  Payload(seg, b) \in [lo : Nat, data : Seq(Nat)]
<1>1. PICK n \in Nat : n = seg[2] - seg[1]
  BY DEF Intervals
<1>2. \A i \in 1 .. n : b[i] \in Nat
  <2>1. \A i \in 1 .. n : i \in 1 .. ReadMax
    BY <1>1, SizeAssumption
  <2> QED BY <2>1
<1>3. [i \in 1 .. n |-> b[i]] \in [1 .. n -> Nat]
  BY <1>2
<1>4. [i \in 1 .. n |-> b[i]] \in Seq(Nat)
  BY <1>3, FunctionIsSeq
<1> QED BY SMTT(30), <1>1, <1>4 DEF Payload, Intervals

\* tcp_output moves a prefix of the unsent queue behind the segments in flight.
LEMMA TcpOutputEffect ==
    ASSUME TypeOK, NEW c \in Conns, NEW q \in Seq(Intervals), NEW una \in Seq(Intervals),
           NEW f \in {"no", "unsent", "unacked"}, NEW b \in [1 .. ReadMax -> Nat],
           acked'[c] \in Nat, NEW hi \in Nat,
           Chain(una, acked'[c], snd_nxt[c], ReadMax),
           Chain(q, snd_nxt[c], hi, ReadMax),
           TcpOutput(c, q, una, f, b)
    PROVE  /\ unsent' \in [Conns -> Seq(Intervals)]
           /\ unacked' \in [Conns -> Seq(Intervals)]
           /\ snd_nxt' \in [Conns -> Nat]
           /\ fin' \in [Conns -> {"no", "unsent", "unacked"}]
           /\ downstream' \in [Conns -> Seq([lo : Nat, data : Seq(Nat)])]
           /\ Chain(unacked'[c], acked'[c], snd_nxt'[c], ReadMax)
           /\ Chain(unsent'[c], snd_nxt'[c], hi, ReadMax)
           /\ snd_nxt[c] <= snd_nxt'[c] /\ snd_nxt'[c] <= hi
           /\ \A d \in Conns : d # c =>
                  /\ unsent'[d] = unsent[d] /\ unacked'[d] = unacked[d]
                  /\ snd_nxt'[d] = snd_nxt[d]
<1>1. /\ unsent \in [Conns -> Seq(Intervals)] /\ unacked \in [Conns -> Seq(Intervals)]
      /\ snd_nxt \in [Conns -> Nat] /\ fin \in [Conns -> {"no", "unsent", "unacked"}]
      /\ downstream \in [Conns -> Seq([lo : Nat, data : Seq(Nat)])]
  BY ZenonT(30) DEF TypeOK, PcbTypeOK, EndTypeOK
<1>2. PICK k \in 0 .. Len(q) :
        /\ unsent' = [unsent EXCEPT ![c] = SubSeq(q, k + 1, Len(q))]
        /\ unacked' = [unacked EXCEPT ![c] = una \o SubSeq(q, 1, k)]
        /\ snd_nxt' = [snd_nxt EXCEPT ![c] = IF k = 0 THEN @ ELSE q[k][2]]
        /\ fin' = [fin EXCEPT ![c] =
               IF /\ f = "unsent" /\ k = Len(q)
                  /\ TCP_SND_BUF - snd_buf'[c] <= wnd'[c]
               THEN "unacked" ELSE f]
        /\ downstream' = [downstream EXCEPT ![c] =
               @ \o [j \in 1 .. k |-> Payload(q[j], b)]]
  BY Zenon DEF TcpOutput
<1> DEFINE cut == Cut(q, snd_nxt[c], k)
           pre == SubSeq(q, 1, k)
           suf == SubSeq(q, k + 1, Len(q))
<1>3. snd_nxt[c] \in Nat /\ ReadMax \in Nat
  BY <1>1, SizeAssumption
<1>4. /\ cut \in Nat /\ cut <= hi /\ snd_nxt[c] <= cut
      /\ pre \in Seq(Intervals) /\ Chain(pre, snd_nxt[c], cut, ReadMax)
  BY Zenon, <1>3, ChainPrefix DEF Intervals
<1>5. suf \in Seq(Intervals) /\ Chain(suf, cut, hi, ReadMax)
  BY Zenon, <1>3, ChainSuffix DEF Intervals
<1>6. una \o pre \in Seq(Intervals) /\ Chain(una \o pre, acked'[c], cut, ReadMax)
  BY Zenon, <1>3, <1>4, ChainConcat DEF Intervals
<1>7. snd_nxt' = [snd_nxt EXCEPT ![c] = cut]
  BY SMTT(30), <1>2 DEF Cut
<1>8. /\ unsent' = [unsent EXCEPT ![c] = suf]
      /\ unacked' = [unacked EXCEPT ![c] = una \o pre]
  BY SMTT(30), <1>2
<1>9. fin' \in [Conns -> {"no", "unsent", "unacked"}]
  BY Zenon, <1>1, <1>2
<1>10. downstream' \in [Conns -> Seq([lo : Nat, data : Seq(Nat)])]
  <2>1. ASSUME NEW j \in 1 .. k
        PROVE  Payload(q[j], b) \in [lo : Nat, data : Seq(Nat)]
    <3>1. j \in 1 .. Len(q)
      BY Zenon, SeqLen, WithinRange
    <3>2. q[j] \in Intervals
      BY Zenon, <3>1, SeqElement
    <3>3. q[j][1] < q[j][2] /\ q[j][2] - q[j][1] <= ReadMax
      BY Zenon, <3>1 DEF Chain
    <3> QED BY Zenon, <3>2, <3>3, PayloadType
  <2>2. k \in Nat
    BY Zenon, SeqLen, RangeNat
  <2>3. [j \in 1 .. k |-> Payload(q[j], b)] \in Seq([lo : Nat, data : Seq(Nat)])
    BY ZenonT(30), <2>1, <2>2, FunctionIsSeq
  <2>4. downstream[c] \o [j \in 1 .. k |-> Payload(q[j], b)]
            \in Seq([lo : Nat, data : Seq(Nat)])
    BY Zenon, <1>1, <2>3, ConcatSeq
  <2> QED BY Zenon, <1>1, <1>2, <2>4
<1> HIDE DEF cut, pre, suf
<1> QED BY Zenon, <1>1, <1>4, <1>5, <1>6, <1>7, <1>8, <1>9, <1>10

\* The end of the write stream is a stream offset.
LEMMA WriteEndType ==
    ASSUME TypeOK, NEW c \in Conns
    PROVE  WriteEnd(c) \in Nat /\ acked[c] \in Nat /\ acked[c] <= WriteEnd(c)
<1>1. snd_buf[c] \in 0 .. TCP_SND_BUF /\ acked[c] \in Nat
  BY DEF TypeOK, PcbTypeOK, EndTypeOK
<1> QED BY <1>1, SizeAssumption DEF WriteEnd

\* A step into a fault leaves the rest of the state alone.
LEMMA CrashType ==
    ASSUME TypeOK, NEW f \in Faults, Crash(f)
    PROVE  TypeOK'
<1>1. PcbTypeOK' /\ SessionTypeOK'
  BY Zenon DEF TypeOK, PcbTypeOK, SessionTypeOK, Crash, pcbVars, sessVars
<1>2. CoroutineTypeOK' /\ EndTypeOK'
  BY Zenon DEF TypeOK, CoroutineTypeOK, EndTypeOK, Crash, coVars, endVars
<1> QED BY <1>1, <1>2 DEF TypeOK, Crash

\* The oldest segment in flight begins at the last acknowledgement, and the room
\* it gives back does not exceed the send buffer.
LEMMA AckedSegment ==
    ASSUME TypeOK, SendInv, NEW c \in Conns, state[c] # "FREED", unacked[c] # <<>>
    PROVE  LET seg == Head(unacked[c])
               room == snd_buf[c] + seg[2] - seg[1]
           IN  /\ seg[1] = acked[c] /\ seg[2] \in Nat /\ acked[c] < seg[2]
               /\ seg[2] <= snd_nxt[c]
               /\ room \in 0 .. TCP_SND_BUF /\ snd_buf[c] <= room
               /\ Tail(unacked[c]) \in Seq(Intervals)
               /\ Chain(Tail(unacked[c]), seg[2], snd_nxt[c], ReadMax)
<1> DEFINE seg == Head(unacked[c])
           room == snd_buf[c] + seg[2] - seg[1]
<1>1. /\ unacked[c] \in Seq(Intervals) /\ unsent[c] \in Seq(Intervals)
      /\ ReadMax \in Nat /\ TCP_SND_BUF \in Nat
      /\ acked[c] \in Nat /\ snd_nxt[c] \in Nat /\ snd_buf[c] \in 0 .. TCP_SND_BUF
  BY SMTT(30), SizeAssumption DEF TypeOK, PcbTypeOK, EndTypeOK
<1>2. /\ Chain(unacked[c], acked[c], snd_nxt[c], ReadMax)
      /\ Chain(unsent[c], snd_nxt[c], WriteEnd(c), ReadMax)
  BY Zenon DEF SendInv
<1>3. /\ seg \in Intervals /\ seg[1] = acked[c] /\ acked[c] < seg[2]
      /\ seg[2] <= snd_nxt[c] /\ Tail(unacked[c]) \in Seq(Intervals)
      /\ Chain(Tail(unacked[c]), seg[2], snd_nxt[c], ReadMax)
  BY ZenonT(30), <1>1, <1>2, ChainTail DEF Intervals
<1>4. snd_nxt[c] <= WriteEnd(c)
  BY Zenon, <1>2 DEF Chain
<1>5. room \in 0 .. TCP_SND_BUF /\ snd_buf[c] <= room
  <2>1. seg[1] \in Nat /\ seg[2] \in Nat
    BY Zenon, <1>3 DEF Intervals
  <2> HIDE DEF seg
  <2>2. seg[2] <= acked[c] + TCP_SND_BUF - snd_buf[c]
    <3>1. WriteEnd(c) \in Nat
      BY Zenon, WriteEndType
    <3>2. seg[2] <= WriteEnd(c)
      BY Zenon, <1>1, <1>3, <1>4, <2>1, <3>1, Transitive
    <3> QED BY Zenon, <3>2 DEF WriteEnd
  <2>3. \A a, b, m, x \in Nat :
            a < x /\ x <= a + m - b /\ b <= m =>
                b + x - a \in 0 .. m /\ b <= b + x - a
    BY Zenon, RoomFreed
  <2>4. snd_buf[c] \in Nat /\ snd_buf[c] <= TCP_SND_BUF
    BY SMTT(60), <1>1
  <2>5. /\ snd_buf[c] + seg[2] - acked[c] \in 0 .. TCP_SND_BUF
        /\ snd_buf[c] <= snd_buf[c] + seg[2] - acked[c]
    BY Zenon, <2>1, <2>2, <2>3, <2>4, <1>1, <1>3
  <2>6. seg[1] = acked[c]
    BY Zenon, <1>3
  <2> QED BY Zenon, <2>5, <2>6
<1>6. seg[2] \in Nat
  BY SMTT(30), <1>3 DEF Intervals
<1> QED BY Zenon, <1>3, <1>5, <1>6

-----------------------------------------------------------------------------
(* Types *)

\* Every segment from the local application keeps the state typed.
LEMMA LocalType ==
    ASSUME TypeOK, MapInv, SendInv, NEW c \in Conns, Local(c)
    PROVE  TypeOK'
<1>1. CASE RecvSyn(c)
  <2>1. PcbTypeOK'
    BY SMTT(30), <1>1 DEF RecvSyn, TypeOK, PcbTypeOK, PcbStates
  <2>2. SessionTypeOK' /\ CoroutineTypeOK'
    BY Zenon, <1>1 DEF RecvSyn, TypeOK, SessionTypeOK, CoroutineTypeOK, sessVars, coVars
  <2>3. EndTypeOK'
    BY Zenon, <1>1 DEF RecvSyn, TypeOK, EndTypeOK, endVars
  <2> QED BY <1>1, <2>1, <2>2, <2>3 DEF RecvSyn, TypeOK
<1>2. CASE RecvHandshakeAck(c)
  <2>1. CASE session_map[TupleOf[c]] # NoConn
    <3>1. Crash("accept_assert")
      BY Zenon, <1>2, <2>1 DEF RecvHandshakeAck
    <3> QED BY <3>1, CrashType DEF Faults
  <2>2. CASE session_map[TupleOf[c]] = NoConn
    <3>1. PICK opened \in BOOLEAN : NewSession(c, opened)
      BY Zenon, <1>2, <2>2 DEF RecvHandshakeAck
    <3>2. PcbTypeOK'
      <4>1. /\ callback_arg' = [callback_arg EXCEPT ![c] = TRUE]
            /\ state' = [state EXCEPT ![c] = "ESTABLISHED"]
            /\ UNCHANGED <<rcv_wnd, snd_buf, snd_nxt, wnd, unsent, unacked, fin>>
        BY Zenon, <1>2, <2>2, <3>1 DEF RecvHandshakeAck, NewSession
      <4> QED BY SMTT(30), <4>1 DEF TypeOK, PcbTypeOK, PcbStates
    <3>3. SessionTypeOK'
      BY Zenon, <1>2, <2>2, <3>1 DEF RecvHandshakeAck, NewSession, TypeOK, SessionTypeOK, Statuses
    <3>4. CoroutineTypeOK'
      <4>1. UNCHANGED <<wr, nread, write_ops>>
        BY Zenon, <1>2, <2>2 DEF RecvHandshakeAck
      <4>2. CASE opened
        <5>1. /\ pc' = [pc EXCEPT ![c]["start"] = "connect"]
              /\ op' = [op EXCEPT ![c]["start"] = "pending"]
          BY <3>1, <4>2 DEF NewSession
        <5> QED BY Zenon, <4>1, <5>1 DEF TypeOK, CoroutineTypeOK, Coroutines, PCs, Handshake, Ops
      <4>3. CASE ~opened
        <5>1. UNCHANGED <<pc, op>>
          BY <3>1, <4>3 DEF NewSession
        <5> QED BY Zenon, <4>1, <5>1 DEF TypeOK, CoroutineTypeOK
      <4> QED BY Zenon, <4>2, <4>3
    <3>5. EndTypeOK'
      BY Zenon, <1>2, <2>2 DEF RecvHandshakeAck, TypeOK, EndTypeOK, endVars
    <3>6. session_map' \in [Tuples -> Conns \cup {NoConn}]
      BY Zenon, <3>1, ConnAssumption DEF NewSession, TypeOK
    <3> QED BY SMTT(30), <1>2, <2>2, <3>2, <3>3, <3>4, <3>5, <3>6 DEF RecvHandshakeAck, TypeOK
  <2> QED BY Zenon, <2>1, <2>2
<1>3. CASE RecvFin(c)
  <2>1. Clear(c)
    BY Zenon, <1>3 DEF RecvFin
  <2>2. /\ state' \in [Conns -> PcbStates] /\ snd_nxt' \in [Conns -> Nat]
        /\ unsent' \in [Conns -> Seq(Intervals)] /\ unacked' \in [Conns -> Seq(Intervals)]
        /\ fin' \in [Conns -> {"no", "unsent", "unacked"}]
        /\ downstream' \in [Conns -> Seq([lo : Nat, data : Seq(Nat)])]
    <3>1. CASE FreePcb(c)
      BY ZenonT(30), <3>1, FreePcbEffect DEF TypeOK, PcbTypeOK, EndTypeOK
    <3>2. CASE ~FreePcb(c)
      <4>1. PICK b \in Buffers(c) : TcpOutput(c, unsent[c], unacked[c], "unsent", b)
        BY Zenon, <1>3, <3>2 DEF RecvFin
      <4>2. b \in [1 .. ReadMax -> Nat]
        BY Zenon, <4>1, BuffersAreBuffers
      <4>3. /\ acked' = acked /\ state' = [state EXCEPT ![c] = "LAST_ACK"]
            /\ state[c] # "FREED"
        BY Zenon, <1>3, <3>2 DEF RecvFin
      <4>4. /\ Chain(unacked[c], acked'[c], snd_nxt[c], ReadMax)
            /\ Chain(unsent[c], snd_nxt[c], WriteEnd(c), ReadMax)
        BY Zenon, <4>3 DEF SendInv
      <4>5. acked'[c] \in Nat /\ WriteEnd(c) \in Nat
        BY <4>3, WriteEndType
      <4>6. unsent[c] \in Seq(Intervals) /\ unacked[c] \in Seq(Intervals)
        BY Zenon DEF TypeOK, PcbTypeOK
      <4>7. state' \in [Conns -> PcbStates]
        BY Zenon, <4>3 DEF TypeOK, PcbTypeOK, PcbStates
      <4> QED BY Zenon, <4>1, <4>2, <4>4, <4>5, <4>6, <4>7, TcpOutputEffect
    <3> QED BY Zenon, <3>1, <3>2
  <2>3. PcbTypeOK'
    BY Zenon, <1>3, <2>1, <2>2, ClearEffect DEF RecvFin, TypeOK, PcbTypeOK
  <2>4. SessionTypeOK'
    BY Zenon, <1>3, <2>1, ClearEffect DEF RecvFin, TypeOK, SessionTypeOK
  <2>5. CoroutineTypeOK'
    BY Zenon, <1>3, <2>1, ClearEffect DEF RecvFin, TypeOK, CoroutineTypeOK
  <2>6. EndTypeOK'
    BY Zenon, <1>3, <2>2 DEF RecvFin, TypeOK, EndTypeOK
  <2> QED BY Zenon, <1>3, <2>1, <2>3, <2>4, <2>5, <2>6, ClearEffect DEF RecvFin, TypeOK
<1>4. CASE RecvFinAck(c)
  <2>1. FreePcb(c)
    BY Zenon, <1>4 DEF RecvFinAck
  <2>2. PcbTypeOK'
    BY Zenon, <1>4, <2>1, FreePcbEffect DEF RecvFinAck, TypeOK, PcbTypeOK
  <2>3. SessionTypeOK' /\ CoroutineTypeOK'
    BY Zenon, <1>4 DEF RecvFinAck, TypeOK, SessionTypeOK, CoroutineTypeOK, sessVars, coVars
  <2>4. EndTypeOK'
    BY Zenon, <1>4, <2>1, FreePcbEffect DEF RecvFinAck, TypeOK, EndTypeOK
  <2> QED BY Zenon, <1>4, <2>2, <2>3, <2>4 DEF RecvFinAck, TypeOK
<1>5. CASE RecvRst(c)
  <2>1. CASE callback_arg[c] /\ ~Alive(c)
    <3>1. Crash("freed_session")
      BY SMTT(30), <1>5, <2>1 DEF RecvRst
    <3> QED BY Zenon, <3>1, CrashType DEF Faults
  <2>2. CASE ~(callback_arg[c] /\ ~Alive(c))
    <3>1. FreePcb(c)
      BY SMTT(30), <1>5, <2>2 DEF RecvRst
    <3>2. /\ status' \in [Conns -> Statuses]
          /\ callback_arg' \in [Conns -> BOOLEAN]
          /\ op' \in [Conns -> [Coroutines -> Ops]]
          /\ write_ops' \in [Conns -> Seq(Writers)]
          /\ session_map' \in [Tuples -> Conns \cup {NoConn}]
      <4>1. CASE callback_arg[c]
        <5>1. Clear(c)
          BY Zenon, <1>5, <2>2, <4>1 DEF RecvRst
        <5> QED BY Zenon, <5>1, ClearEffect
      <4>2. CASE ~callback_arg[c]
        <5>1. UNCHANGED <<session_map, status, callback_arg, op, write_ops>>
          BY Zenon, <1>5, <2>2, <4>2 DEF RecvRst
        <5> QED BY Zenon, <5>1 DEF TypeOK, PcbTypeOK, SessionTypeOK, CoroutineTypeOK
      <4> QED BY Zenon, <4>1, <4>2
    <3>3. PcbTypeOK'
      BY Zenon, <1>5, <2>2, <3>1, <3>2, FreePcbEffect DEF RecvRst, TypeOK, PcbTypeOK
    <3>4. SessionTypeOK' /\ CoroutineTypeOK'
      BY Zenon, <1>5, <2>2, <3>2 DEF RecvRst, TypeOK, SessionTypeOK, CoroutineTypeOK
    <3>5. EndTypeOK'
      BY Zenon, <1>5, <2>2, <3>1, FreePcbEffect DEF RecvRst, TypeOK, EndTypeOK
    <3> QED BY Zenon, <1>5, <2>2, <3>2, <3>3, <3>4, <3>5 DEF RecvRst, TypeOK
  <2> QED BY <2>1, <2>2
<1>6. ASSUME NEW n \in 1 .. SegMax, RecvData(c, n)
      PROVE  TypeOK'
  <2> DEFINE s == session_map[TupleOf[c]]
  <2>1. CASE s = NoConn
    <3>1. Crash("handle_assert")
      BY Zenon, <1>6, <2>1 DEF RecvData
    <3> QED BY <3>1, CrashType DEF Faults
  <2>2. /\ rcv_wnd[c] \in 0 .. TCP_WND /\ rcvd[c] \in Nat /\ n <= rcv_wnd[c] /\ n \in Nat
        /\ TCP_WND \in Nat
    <3>1. n <= rcv_wnd[c]
      BY Zenon, <1>6 DEF RecvData
    <3>2. rcv_wnd[c] \in 0 .. TCP_WND /\ rcvd[c] \in Nat
      BY SMTT(30) DEF TypeOK, PcbTypeOK, EndTypeOK
    <3>3. n \in Nat /\ TCP_WND \in Nat
      BY SMTT(30), SizeAssumption
    <3> QED BY Zenon, <3>1, <3>2, <3>3
  <2>3. rcv_wnd[c] - n \in 0 .. TCP_WND /\ rcvd[c] + n \in Nat
    BY SMTT(30), <2>2
  <2>4. CASE s # NoConn /\ status[s] = "CLOSE"
    <3>1. Clear(c) /\ FreePcb(c)
      BY Zenon, <1>6, <2>4 DEF RecvData
    <3>5. /\ rcv_wnd' = [rcv_wnd EXCEPT ![c] = rcv_wnd[c] - n]
          /\ rcvd' = [rcvd EXCEPT ![c] = rcvd[c] + n]
          /\ UNCHANGED <<snd_buf, wnd, credited, upstream, bytes_read, acked, remote>>
      BY Zenon, <1>6, <2>4 DEF RecvData
    <3>2. PcbTypeOK'
      BY Zenon, <2>3, <3>1, <3>5, ClearEffect, FreePcbEffect DEF TypeOK, PcbTypeOK
    <3>3. SessionTypeOK' /\ CoroutineTypeOK'
      BY ZenonT(30), <1>6, <2>4, <3>1, ClearEffect DEF RecvData, TypeOK, SessionTypeOK, CoroutineTypeOK
    <3>4. EndTypeOK'
      BY Zenon, <2>3, <3>1, <3>5, FreePcbEffect DEF TypeOK, EndTypeOK
    <3> QED BY Zenon, <1>6, <2>4, <3>1, <3>2, <3>3, <3>4, ClearEffect DEF RecvData, TypeOK
  <2>5. CASE s # NoConn /\ status[s] # "CLOSE"
    <3> DEFINE p == <<rcvd[c], rcvd[c] + n>>
               q == Append(pbuf_queue[s], p)
    <3>1. s \in Conns /\ p \in Intervals
      <4>1. s \in Conns
        BY Zenon, <2>5, ConnAssumption DEF TypeOK
      <4>2. p \in Intervals
        BY SMTT(30), <2>2, <2>3 DEF Intervals
      <4> QED BY Zenon, <4>1, <4>2
    <3>2. q \in Seq(Intervals) /\ q # <<>>
      <4> HIDE DEF s, p
      <4>1. pbuf_queue[s] \in Seq(Intervals)
        BY Zenon, <3>1 DEF TypeOK, SessionTypeOK
      <4> QED BY SMTT(30), <3>1, <4>1, AppendSeq
    <3>3. ProxyTcpPacket(s, p)
      BY Zenon, <1>6, <2>5 DEF RecvData
    <3>4. /\ pbuf_queue' \in [Conns -> Seq(Intervals)]
          /\ remote_sending' \in [Conns -> BOOLEAN]
          /\ pc' \in [Conns -> [Coroutines -> PCs]]
          /\ op' \in [Conns -> [Coroutines -> Ops]]
          /\ wr' \in [Conns -> [Writers -> [lo : Nat, pos : Nat, hi : Nat]]]
          /\ write_ops' \in [Conns -> Seq(Writers)]
      <4>1. CASE status[s] # "RELAYING" \/ remote_sending[s]
        <5>1. /\ pbuf_queue' = [pbuf_queue EXCEPT ![s] = q]
              /\ UNCHANGED <<remote_sending, pc, op, wr, write_ops>>
          BY Zenon, <3>3, <4>1 DEF ProxyTcpPacket
        <5> HIDE DEF q
        <5> QED BY Zenon, <3>2, <5>1 DEF TypeOK, SessionTypeOK, CoroutineTypeOK
      <4>2. CASE ~(status[s] # "RELAYING" \/ remote_sending[s])
        <5>1. /\ remote_sending' = [remote_sending EXCEPT ![s] = TRUE]
              /\ StartWrite(s, "up", q)
          BY Zenon, <3>3, <4>2 DEF ProxyTcpPacket
        <5> HIDE DEF q, s
        <5>2. "up" \in Writers
          BY DEF Writers
        <5>3. remote_sending' \in [Conns -> BOOLEAN]
          BY Zenon, <5>1 DEF TypeOK, SessionTypeOK
        <5> QED BY Zenon, <3>1, <3>2, <5>1, <5>2, <5>3, StartWriteEffect
      <4> QED BY Zenon, <4>1, <4>2
    <3>5. PcbTypeOK'
      <4>1. /\ rcv_wnd' = [rcv_wnd EXCEPT ![c] = rcv_wnd[c] - n]
            /\ UNCHANGED <<state, callback_arg, snd_buf, snd_nxt, wnd, unsent, unacked, fin>>
        BY Zenon, <1>6, <2>5 DEF RecvData
      <4> QED BY Zenon, <2>3, <4>1 DEF TypeOK, PcbTypeOK
    <3>6. SessionTypeOK' /\ CoroutineTypeOK'
      BY Zenon, <1>6, <2>5, <3>4 DEF RecvData, TypeOK, SessionTypeOK, CoroutineTypeOK
    <3>7. EndTypeOK'
      <4>1. /\ rcvd' = [rcvd EXCEPT ![c] = rcvd[c] + n]
            /\ UNCHANGED <<credited, upstream, bytes_read, downstream, acked, remote>>
        BY Zenon, <1>6, <2>5 DEF RecvData
      <4> QED BY Zenon, <2>3, <4>1 DEF TypeOK, EndTypeOK
    <3> QED BY Zenon, <1>6, <2>5, <3>5, <3>6, <3>7 DEF RecvData, TypeOK
  <2> QED BY Zenon, <2>1, <2>4, <2>5
<1>7. ASSUME NEW v \in Windows, RecvAck(c, v)
      PROVE  TypeOK'
  <2> DEFINE seg == Head(unacked[c])
             room == snd_buf[c] + seg[2] - seg[1]
  <2>1. CASE callback_arg[c] /\ ~Alive(c)
    <3>1. Crash("freed_session")
      BY Zenon, <1>7, <2>1 DEF RecvAck
    <3> QED BY Zenon, <3>1, CrashType DEF Faults
  <2>2. /\ unacked[c] \in Seq(Intervals) /\ unsent[c] \in Seq(Intervals)
        /\ unacked[c] # <<>> /\ state[c] # "FREED"
    BY Zenon, <1>7 DEF RecvAck, TypeOK, PcbTypeOK
  <2>3. Chain(unsent[c], snd_nxt[c], WriteEnd(c), ReadMax)
    BY Zenon, <2>2 DEF SendInv
  <2>4. /\ seg[2] \in Nat /\ room \in 0 .. TCP_SND_BUF
        /\ Tail(unacked[c]) \in Seq(Intervals)
        /\ Chain(Tail(unacked[c]), seg[2], snd_nxt[c], ReadMax)
    BY Zenon, <2>2, AckedSegment
  <2>6. seg[2] \in Nat /\ room \in 0 .. TCP_SND_BUF
    BY Zenon, <2>4
  <2>7. CASE ~callback_arg[c]
    <3>1. /\ FreePcb(c) /\ acked' = [acked EXCEPT ![c] = seg[2]]
          /\ snd_buf' = [snd_buf EXCEPT ![c] = room]
          /\ UNCHANGED <<callback_arg, rcv_wnd, wnd, session_map, sessVars, coVars, rcvd,
                         credited, upstream, bytes_read, remote, fault>>
      BY Zenon, <1>7, <2>7 DEF RecvAck
    <3> HIDE DEF seg, room
    <3>2. PcbTypeOK'
      BY Zenon, <2>6, <3>1, FreePcbEffect DEF TypeOK, PcbTypeOK
    <3>3. EndTypeOK'
      BY Zenon, <2>6, <3>1, FreePcbEffect DEF TypeOK, EndTypeOK
    <3>4. SessionTypeOK' /\ CoroutineTypeOK'
      BY Zenon, <3>1 DEF TypeOK, SessionTypeOK, CoroutineTypeOK, sessVars, coVars
    <3> QED BY Zenon, <3>1, <3>2, <3>3, <3>4 DEF TypeOK
  <2>8. CASE callback_arg[c] /\ Alive(c)
    <3>1. /\ acked' = [acked EXCEPT ![c] = seg[2]]
          /\ snd_buf' = [snd_buf EXCEPT ![c] = room]
          /\ wnd' = [wnd EXCEPT ![c] = v]
          /\ IF IsRemoteReadable(room) THEN ReadFromRemote(c)
             ELSE UNCHANGED <<should_read_from_remote, pc, op>>
          /\ TcpOutput(c, unsent[c], Tail(unacked[c]), fin[c], remote_recv_buff[c])
          /\ UNCHANGED <<state, callback_arg, rcv_wnd, session_map, status, pbuf_queue,
                         remote_sending, remote_recv_buff, wr, nread, write_ops, rcvd,
                         credited, upstream, bytes_read, remote, fault>>
      BY Zenon, <1>7, <2>8 DEF RecvAck
    <3> HIDE DEF seg, room
    <3>2. /\ should_read_from_remote' \in [Conns -> BOOLEAN]
          /\ pc' \in [Conns -> [Coroutines -> PCs]]
          /\ op' \in [Conns -> [Coroutines -> Ops]]
      <4>1. \/ ReadFromRemote(c)
            \/ UNCHANGED <<should_read_from_remote, pc, op>>
        BY Zenon, <3>1
      <4>2. \/ UNCHANGED <<should_read_from_remote, pc, op>>
            \/ /\ should_read_from_remote' = [should_read_from_remote EXCEPT ![c] = TRUE]
               /\ pc' = [pc EXCEPT ![c]["down"] = "read"]
               /\ op' = [op EXCEPT ![c]["down"] = "pending"]
        BY <4>1 DEF ReadFromRemote
      <4>3. CASE UNCHANGED <<should_read_from_remote, pc, op>>
        BY Zenon, <4>3 DEF TypeOK, SessionTypeOK, CoroutineTypeOK
      <4>4. CASE /\ should_read_from_remote' = [should_read_from_remote EXCEPT ![c] = TRUE]
                 /\ pc' = [pc EXCEPT ![c]["down"] = "read"]
                 /\ op' = [op EXCEPT ![c]["down"] = "pending"]
        <5>1. should_read_from_remote' \in [Conns -> BOOLEAN]
          BY Zenon, <4>4 DEF TypeOK, SessionTypeOK
        <5> QED BY Zenon, <4>4, <5>1 DEF TypeOK, CoroutineTypeOK, Coroutines, PCs, Ops
      <4> QED BY Zenon, <4>2, <4>3, <4>4
    <3>3. /\ acked'[c] = seg[2] /\ acked' \in [Conns -> Nat]
          /\ fin[c] \in {"no", "unsent", "unacked"}
          /\ remote_recv_buff[c] \in [1 .. ReadMax -> Nat]
      BY Zenon, <2>6, <3>1 DEF TypeOK, PcbTypeOK, EndTypeOK, SessionTypeOK
    <3>4. WriteEnd(c) \in Nat
      BY Zenon, WriteEndType
    <3>5. /\ unsent' \in [Conns -> Seq(Intervals)] /\ unacked' \in [Conns -> Seq(Intervals)]
          /\ snd_nxt' \in [Conns -> Nat] /\ fin' \in [Conns -> {"no", "unsent", "unacked"}]
          /\ downstream' \in [Conns -> Seq([lo : Nat, data : Seq(Nat)])]
      <4>1. PICK una \in Seq(Intervals) : una = Tail(unacked[c])
        BY Zenon, <2>4
      <4>2. Chain(una, acked'[c], snd_nxt[c], ReadMax) /\ acked'[c] \in Nat
        BY Zenon, <2>4, <2>6, <3>3, <4>1
      <4>3. /\ unsent[c] \in Seq(Intervals)
            /\ Chain(unsent[c], snd_nxt[c], WriteEnd(c), ReadMax)
            /\ TcpOutput(c, unsent[c], una, fin[c], remote_recv_buff[c])
        BY Zenon, <2>2, <2>3, <3>1, <4>1
      <4> QED BY ZenonT(60), <3>3, <3>4, <4>2, <4>3, TcpOutputEffect
    <3>6. PcbTypeOK'
      BY Zenon, <2>6, <3>1, <3>5 DEF TypeOK, PcbTypeOK
    <3>7. EndTypeOK'
      BY Zenon, <3>1, <3>3, <3>5 DEF TypeOK, EndTypeOK
    <3>8. SessionTypeOK' /\ CoroutineTypeOK'
      BY Zenon, <3>1, <3>2 DEF TypeOK, SessionTypeOK, CoroutineTypeOK
    <3> QED BY Zenon, <3>1, <3>6, <3>7, <3>8 DEF TypeOK
  <2> QED BY <2>1, <2>7, <2>8
<1>8. ASSUME NEW v \in Windows, RecvWnd(c, v)
      PROVE  TypeOK'
  <2>1. PICK b \in Buffers(c) : TcpOutput(c, unsent[c], unacked[c], fin[c], b)
    BY Zenon, <1>8 DEF RecvWnd
  <2>2. /\ b \in [1 .. ReadMax -> Nat] /\ fin[c] \in {"no", "unsent", "unacked"}
        /\ unacked[c] \in Seq(Intervals) /\ unsent[c] \in Seq(Intervals)
    BY Zenon, <2>1, BuffersAreBuffers DEF TypeOK, PcbTypeOK
  <2>3. acked' = acked /\ wnd' = [wnd EXCEPT ![c] = v] /\ state[c] # "FREED"
    BY Zenon, <1>8 DEF RecvWnd
  <2>4. /\ Chain(unacked[c], acked'[c], snd_nxt[c], ReadMax)
        /\ Chain(unsent[c], snd_nxt[c], WriteEnd(c), ReadMax)
    BY Zenon, <2>3 DEF SendInv
  <2>5. acked'[c] \in Nat /\ WriteEnd(c) \in Nat
    BY Zenon, <2>3, WriteEndType
  <2>6. /\ unsent' \in [Conns -> Seq(Intervals)] /\ unacked' \in [Conns -> Seq(Intervals)]
        /\ snd_nxt' \in [Conns -> Nat] /\ fin' \in [Conns -> {"no", "unsent", "unacked"}]
        /\ downstream' \in [Conns -> Seq([lo : Nat, data : Seq(Nat)])]
    BY ZenonT(60), <2>1, <2>2, <2>4, <2>5, TcpOutputEffect
  <2>7. /\ UNCHANGED <<snd_buf, session_map, pc, acked>>
        /\ UNCHANGED <<state, callback_arg, rcv_wnd, sessVars, op, wr, nread, write_ops, rcvd,
                       credited, upstream, bytes_read, remote, fault>>
    BY Zenon, <1>8 DEF RecvWnd
  <2>8. PcbTypeOK'
    BY Zenon, <2>3, <2>6, <2>7 DEF TypeOK, PcbTypeOK
  <2>9. EndTypeOK'
    BY Zenon, <2>6, <2>7 DEF TypeOK, EndTypeOK
  <2>10. SessionTypeOK' /\ CoroutineTypeOK'
    BY Zenon, <2>7 DEF TypeOK, SessionTypeOK, CoroutineTypeOK, sessVars
  <2> QED BY Zenon, <2>7, <2>8, <2>9, <2>10 DEF TypeOK
<1> QED BY Zenon, <1>1, <1>2, <1>3, <1>4, <1>5, <1>6, <1>7, <1>8 DEF Local

\* The completion of an asynchronous operation keeps the state typed.
LEMMA KernelType ==
    ASSUME TypeOK, NEW c \in Conns, Kernel(c)
    PROVE  TypeOK'
<1>1. ASSUME NEW res \in {"ok", "bad", "err"}, CompleteHandshake(c, res)
      PROVE  TypeOK'
  <2>1. CoroutineTypeOK'
    BY Zenon, <1>1 DEF CompleteHandshake, TypeOK, CoroutineTypeOK, Coroutines, Ops
  <2>2. PcbTypeOK' /\ SessionTypeOK' /\ EndTypeOK'
    BY Zenon, <1>1 DEF CompleteHandshake, TypeOK, PcbTypeOK, SessionTypeOK, EndTypeOK, pcbVars,
       sessVars, endVars
  <2> QED BY Zenon, <1>1, <2>1, <2>2 DEF CompleteHandshake, TypeOK
<1>2. ASSUME NEW k \in 1 .. SegMax, CompleteWrite(c, k)
      PROVE  TypeOK'
  <2>1. write_ops[c] \in Seq(Writers) /\ write_ops[c] # <<>>
    BY Zenon, <1>2 DEF CompleteWrite, TypeOK, CoroutineTypeOK
  <2>2. PICK w \in Writers : w = Head(write_ops[c])
    BY Zenon, <2>1, HeadTailSeq
  <2>3. Tail(write_ops[c]) \in Seq(Writers) /\ w \in Coroutines
    BY Zenon, <2>1, HeadTailSeq DEF Writers, Coroutines
  <2>4. /\ op' = [op EXCEPT ![c][w] = "ok"]
        /\ wr' = [wr EXCEPT ![c][w].pos = @ + k]
        /\ write_ops' = [write_ops EXCEPT ![c] = Tail(@)]
        /\ upstream' = [upstream EXCEPT ![c] = @ \o [i \in 1 .. k |-> wr[c][w].pos + i]]
        /\ UNCHANGED <<pc, nread>>
    BY Zenon, <1>2, <2>2 DEF CompleteWrite
  <2>5. k \in Nat /\ wr[c][w] \in [lo : Nat, pos : Nat, hi : Nat]
    BY SMTT(30), SizeAssumption DEF TypeOK, CoroutineTypeOK
  <2>6. wr' \in [Conns -> [Writers -> [lo : Nat, pos : Nat, hi : Nat]]]
    <3>1. [wr[c][w] EXCEPT !.pos = @ + k] \in [lo : Nat, pos : Nat, hi : Nat]
      BY <2>5
    <3> QED BY Zenon, <2>4, <3>1 DEF TypeOK, CoroutineTypeOK
  <2>7. CoroutineTypeOK'
    <3>1. op' \in [Conns -> [Coroutines -> Ops]]
      BY Zenon, <2>3, <2>4 DEF TypeOK, CoroutineTypeOK, Ops
    <3>2. write_ops' \in [Conns -> Seq(Writers)]
      BY <2>3, <2>4 DEF TypeOK, CoroutineTypeOK
    <3> QED BY Zenon, <2>4, <2>6, <3>1, <3>2 DEF TypeOK, CoroutineTypeOK
  <2>8. upstream' \in [Conns -> Seq(Nat)]
    <3>1. [i \in 1 .. k |-> wr[c][w].pos + i] \in [1 .. k -> Nat]
      <4>1. wr[c][w].pos \in Nat
        BY Zenon, <2>5
      <4>2. \A i \in 1 .. k : wr[c][w].pos + i \in Nat
        BY Zenon, <4>1, <2>5, RunBounds
      <4> QED BY Zenon, <4>2
    <3>2. [i \in 1 .. k |-> wr[c][w].pos + i] \in Seq(Nat)
      BY Zenon, <2>5, <3>1, FunctionIsSeq
    <3>3. upstream[c] \o [i \in 1 .. k |-> wr[c][w].pos + i] \in Seq(Nat)
      BY Zenon, <3>2, ConcatSeq DEF TypeOK, EndTypeOK
    <3> QED BY SMTT(30), <2>4, <3>3 DEF TypeOK, EndTypeOK
  <2>9. PcbTypeOK' /\ SessionTypeOK'
    BY Zenon, <1>2 DEF CompleteWrite, TypeOK, PcbTypeOK, SessionTypeOK, pcbVars, sessVars
  <2>10. EndTypeOK'
    BY Zenon, <1>2, <2>8 DEF CompleteWrite, TypeOK, EndTypeOK
  <2> QED BY Zenon, <1>2, <2>7, <2>9, <2>10 DEF CompleteWrite, TypeOK
<1>3. ASSUME NEW r \in Readers, NEW n \in 1 .. ReadMax, CompleteRead(c, r, n)
      PROVE  TypeOK'
  <2>1. /\ op' = [op EXCEPT ![c][r] = "ok"]
        /\ nread' = [nread EXCEPT ![c][r] = n]
        /\ remote_recv_buff' = [remote_recv_buff EXCEPT ![c] =
               [i \in 1 .. ReadMax |-> IF i <= n THEN bytes_read[c] + i ELSE @[i]]]
        /\ bytes_read' = [bytes_read EXCEPT ![c] = @ + n]
        /\ UNCHANGED <<pcbVars, session_map, status, pbuf_queue, remote_sending,
                       should_read_from_remote, pc, wr, write_ops, rcvd, credited,
                       upstream, downstream, acked, remote, fault>>
    BY Zenon, <1>3 DEF CompleteRead
  <2>2. /\ bytes_read[c] \in Nat /\ remote_recv_buff[c] \in [1 .. ReadMax -> Nat]
        /\ n \in Nat /\ n \in 0 .. ReadMax /\ r \in Coroutines
    <3>1. bytes_read[c] \in Nat /\ remote_recv_buff[c] \in [1 .. ReadMax -> Nat]
      BY SMTT(30) DEF TypeOK, EndTypeOK, SessionTypeOK
    <3>2. n \in Nat /\ n \in 0 .. ReadMax
      BY SizeAssumption
    <3>3. r \in Coroutines
      BY Zenon DEF Readers, Coroutines
    <3> QED BY Zenon, <3>1, <3>2, <3>3
  <2>3. [i \in 1 .. ReadMax |-> IF i <= n THEN bytes_read[c] + i ELSE remote_recv_buff[c][i]]
            \in [1 .. ReadMax -> Nat]
    <3>1. \A i \in 1 .. ReadMax :
              bytes_read[c] + i \in Nat /\ remote_recv_buff[c][i] \in Nat
      BY Zenon, <2>2, RangeSum
    <3> QED BY Zenon, <3>1
  <2>4. SessionTypeOK'
    BY Zenon, <2>1, <2>3 DEF TypeOK, SessionTypeOK
  <2>5. CoroutineTypeOK'
    BY Zenon, <2>1, <2>2 DEF TypeOK, CoroutineTypeOK, Ops
  <2>6. EndTypeOK'
    <3>1. bytes_read' = [bytes_read EXCEPT ![c] = @ + n]
      BY Zenon, <2>1
    <3>2. bytes_read[c] + n \in Nat /\ bytes_read \in [Conns -> Nat]
      <4>1. bytes_read \in [Conns -> Nat]
        BY Zenon DEF TypeOK, EndTypeOK
      <4>2. \A x, y \in Nat : x + y \in Nat
        OBVIOUS
      <4> QED BY Zenon, <2>2, <4>1, <4>2
    <3>3. bytes_read' \in [Conns -> Nat]
      BY Zenon, <3>1, <3>2
    <3> QED BY Zenon, <2>1, <3>3 DEF TypeOK, EndTypeOK
  <2>7. PcbTypeOK'
    BY Zenon, <2>1 DEF TypeOK, PcbTypeOK, pcbVars
  <2> QED BY Zenon, <2>1, <2>4, <2>5, <2>6, <2>7 DEF TypeOK
<1>4. CASE FailWrite(c)
  <2>1. write_ops[c] \in Seq(Writers) /\ write_ops[c] # <<>>
    BY Zenon, <1>4 DEF FailWrite, TypeOK, CoroutineTypeOK
  <2>2. PICK w \in Writers : w = Head(write_ops[c])
    BY Zenon, <2>1, HeadTailSeq
  <2>3. Tail(write_ops[c]) \in Seq(Writers) /\ w \in Coroutines
    BY Zenon, <2>1, HeadTailSeq DEF Writers, Coroutines
  <2>4. /\ op' = [op EXCEPT ![c][w] = "err"]
        /\ write_ops' = [write_ops EXCEPT ![c] = Tail(@)]
        /\ UNCHANGED <<pc, wr, nread>>
    BY Zenon, <1>4, <2>2 DEF FailWrite
  <2>5. CoroutineTypeOK'
    <3>1. op' \in [Conns -> [Coroutines -> Ops]]
      BY Zenon, <2>3, <2>4 DEF TypeOK, CoroutineTypeOK, Ops
    <3>2. write_ops' \in [Conns -> Seq(Writers)]
      BY Zenon, <2>3, <2>4 DEF TypeOK, CoroutineTypeOK
    <3> QED BY Zenon, <2>4, <3>1, <3>2 DEF TypeOK, CoroutineTypeOK
  <2>6. EndTypeOK'
    BY Zenon, <1>4 DEF FailWrite, TypeOK, EndTypeOK
  <2>7. PcbTypeOK' /\ SessionTypeOK'
    BY Zenon, <1>4 DEF FailWrite, TypeOK, PcbTypeOK, SessionTypeOK, pcbVars, sessVars
  <2> QED BY Zenon, <1>4, <2>5, <2>6, <2>7 DEF FailWrite, TypeOK
<1>5. CASE RemoteClose(c)
  <2>1. EndTypeOK'
    BY Zenon, <1>5 DEF RemoteClose, TypeOK, EndTypeOK
  <2>2. PcbTypeOK' /\ SessionTypeOK' /\ CoroutineTypeOK'
    BY Zenon, <1>5 DEF RemoteClose, TypeOK, PcbTypeOK, SessionTypeOK, CoroutineTypeOK, pcbVars,
       sessVars, coVars
  <2> QED BY Zenon, <1>5, <2>1, <2>2 DEF RemoteClose, TypeOK
<1>6. ASSUME NEW r \in Readers, FailRead(c, r)
      PROVE  TypeOK'
  <2>1. CoroutineTypeOK'
    BY Zenon, <1>6 DEF FailRead, TypeOK, CoroutineTypeOK, Coroutines, Readers, Ops
  <2>2. PcbTypeOK' /\ SessionTypeOK' /\ EndTypeOK'
    BY Zenon, <1>6 DEF FailRead, TypeOK, PcbTypeOK, SessionTypeOK, EndTypeOK, pcbVars,
       sessVars, endVars
  <2> QED BY Zenon, <1>6, <2>1, <2>2 DEF FailRead, TypeOK
<1> QED BY <1>1, <1>2, <1>3, <1>4, <1>5, <1>6
        DEF Kernel, ServerAnswers, ServerReads, ServerSends

\* What a writer has in hand has a length.
LEMMA WriteLenType ==
    ASSUME TypeOK, UpInv, NEW c \in Conns, NEW w \in Writers
    PROVE  WriteLen(c, w) \in Nat
<1>1. wr[c][w] \in [lo : Nat, pos : Nat, hi : Nat]
  BY Zenon DEF TypeOK, CoroutineTypeOK
<1>2. wr[c][w].lo <= wr[c][w].pos /\ wr[c][w].pos <= wr[c][w].hi
  BY Zenon DEF UpInv, UpInvOf
<1>3. wr[c][w].lo \in Nat /\ wr[c][w].pos \in Nat /\ wr[c][w].hi \in Nat
  BY Zenon, <1>1
<1> QED BY Zenon, <1>2, <1>3, Lengths DEF WriteLen

\* tcp_recved keeps the window within its bounds.
LEMMA TcpRecvedType ==
    ASSUME TypeOK, NEW c \in Conns, NEW n \in Nat, TcpRecved(c, n)
    PROVE  rcv_wnd' \in [Conns -> 0 .. TCP_WND] /\ credited' \in [Conns -> Nat]
<1>1. /\ rcv_wnd \in [Conns -> 0 .. TCP_WND] /\ credited \in [Conns -> Nat]
      /\ TCP_WND \in Nat
  BY Zenon, SizeAssumption DEF TypeOK, PcbTypeOK, EndTypeOK
<1>2. (IF rcv_wnd[c] + n > TCP_WND THEN TCP_WND ELSE rcv_wnd[c] + n) \in 0 .. TCP_WND
  BY SMTT(30), <1>1
<1> QED BY SMTT(30), <1>1, <1>2 DEF TcpRecved

\* The drain loop goes on to the next packet or to reading.
LEMMA DrainOrReadType ==
    ASSUME TypeOK, NEW c \in Conns, DrainOrRead(c)
    PROVE  /\ pbuf_queue' \in [Conns -> Seq(Intervals)]
           /\ pc' \in [Conns -> [Coroutines -> PCs]]
           /\ op' \in [Conns -> [Coroutines -> Ops]]
           /\ wr' \in [Conns -> [Writers -> [lo : Nat, pos : Nat, hi : Nat]]]
           /\ write_ops' \in [Conns -> Seq(Writers)]
<1>1. CASE pbuf_queue[c] # <<>>
  <2>1. StartWrite(c, "start", pbuf_queue[c])
    BY <1>1 DEF DrainOrRead
  <2>2. pbuf_queue[c] \in Seq(Intervals) /\ "start" \in Writers
    BY Zenon DEF TypeOK, SessionTypeOK, Writers
  <2> QED BY Zenon, <1>1, <2>1, <2>2, StartWriteEffect
<1>2. CASE pbuf_queue[c] = <<>>
  <2>1. /\ pc' = [pc EXCEPT ![c]["start"] = "read"]
        /\ op' = [op EXCEPT ![c]["start"] = "pending"]
        /\ wr' = [wr EXCEPT ![c]["start"] = NoWrite]
        /\ UNCHANGED <<pbuf_queue, write_ops>>
    BY Zenon, <1>2 DEF DrainOrRead
  <2>2. pbuf_queue' \in [Conns -> Seq(Intervals)]
    BY Zenon, <2>1 DEF TypeOK, SessionTypeOK
  <2> QED BY Zenon, <2>1, <2>2 DEF TypeOK, CoroutineTypeOK, Coroutines, Writers, PCs, Ops, NoWrite
<1> QED BY Zenon, <1>1, <1>2

\* The coroutine that Start spawns keeps the state typed; its read loop apart.
LEMMA StartType ==
    ASSUME TypeOK, UpInv, NEW c \in Conns,
           HandshakeStep(c) \/ StartFails(c) \/ EnterRelaying(c) \/ DrainStep(c)
    PROVE  TypeOK'
<1>1. CASE HandshakeStep(c)
  <2>1. CASE Crash("freed_pcb")
    BY Zenon, <2>1, CrashType DEF Faults
  <2>2. CASE ~Crash("freed_pcb")
    <3>1. PICK p \in DOMAIN NextHandshake :
            /\ pc' = [pc EXCEPT ![c]["start"] = NextHandshake[p]]
            /\ op' = [op EXCEPT ![c]["start"] = "pending"]
            /\ status' = IF p = "connect"
                         THEN [status EXCEPT ![c] = "HANDSHAKING"] ELSE status
            /\ UNCHANGED <<pcbVars, session_map, pbuf_queue, remote_sending,
                           should_read_from_remote, remote_recv_buff, wr, nread,
                           write_ops, endVars, fault>>
      BY Zenon, <1>1, <2>2 DEF HandshakeStep
    <3>2. NextHandshake[p] \in PCs
      <4>1. DOMAIN NextHandshake = {"connect", "mwrite", "mread", "rwrite"}
        BY SMTT(30) DEF NextHandshake
      <4>2. /\ NextHandshake["connect"] = "mwrite" /\ NextHandshake["mwrite"] = "mread"
            /\ NextHandshake["mread"] = "rwrite" /\ NextHandshake["rwrite"] = "rread"
        BY SMTT(30) DEF NextHandshake
      <4> QED BY Zenon, <4>1, <4>2 DEF PCs, Handshake
    <3> HIDE DEF NextHandshake
    <3>3. CoroutineTypeOK'
      BY Zenon, <3>1, <3>2 DEF TypeOK, CoroutineTypeOK, Coroutines, Ops
    <3>4. SessionTypeOK'
      BY Zenon, <3>1 DEF TypeOK, SessionTypeOK, Statuses
    <3>5. PcbTypeOK' /\ EndTypeOK'
      BY Zenon, <3>1 DEF TypeOK, PcbTypeOK, EndTypeOK, pcbVars, endVars
    <3> QED BY Zenon, <3>1, <3>3, <3>4, <3>5 DEF TypeOK
  <2> QED BY Zenon, <2>1, <2>2
<1>2. CASE StartFails(c)
  <2>1. CoroutineTypeOK'
    BY Zenon, <1>2 DEF StartFails, TypeOK, CoroutineTypeOK, Coroutines, Writers, PCs, Ops, NoWrite
  <2>2. SessionTypeOK'
    BY Zenon, <1>2 DEF StartFails, TypeOK, SessionTypeOK, Statuses
  <2>3. PcbTypeOK' /\ EndTypeOK'
    BY Zenon, <1>2 DEF StartFails, TypeOK, PcbTypeOK, EndTypeOK, pcbVars, endVars
  <2> QED BY Zenon, <1>2, <2>1, <2>2, <2>3 DEF StartFails, TypeOK
<1>3. CASE EnterRelaying(c)
  <2>1. CASE state[c] = "FREED"
    <3>1. Crash("freed_pcb")
      BY Zenon, <1>3, <2>1 DEF EnterRelaying
    <3> QED BY Zenon, <3>1, CrashType DEF Faults
  <2>2. CASE state[c] # "FREED"
    <3>1. /\ status' = [status EXCEPT ![c] = "RELAYING"]
          /\ DrainOrRead(c)
          /\ UNCHANGED <<pcbVars, session_map, remote_sending,
                         should_read_from_remote, remote_recv_buff, nread,
                         endVars, fault>>
      BY Zenon, <1>3, <2>2 DEF EnterRelaying
    <3>2. CoroutineTypeOK'
      BY Zenon, <3>1, DrainOrReadType DEF TypeOK, CoroutineTypeOK
    <3>3. SessionTypeOK'
      BY Zenon, <3>1, DrainOrReadType DEF TypeOK, SessionTypeOK, Statuses
    <3>4. PcbTypeOK' /\ EndTypeOK'
      BY Zenon, <3>1 DEF TypeOK, PcbTypeOK, EndTypeOK, pcbVars, endVars
    <3> QED BY Zenon, <3>1, <3>2, <3>3, <3>4 DEF TypeOK
  <2> QED BY <2>1, <2>2
<1>4. CASE DrainStep(c)
  <2>1. CASE status[c] = "CLOSE"
    <3>1. /\ pc' = [pc EXCEPT ![c]["start"] = "done"]
          /\ op' = [op EXCEPT ![c]["start"] = "none"]
          /\ wr' = [wr EXCEPT ![c]["start"] = NoWrite]
          /\ UNCHANGED <<pcbVars, session_map, sessVars, nread, write_ops, endVars, fault>>
      BY Zenon, <1>4, <2>1 DEF DrainStep
    <3>2. CoroutineTypeOK'
      BY Zenon, <3>1 DEF TypeOK, CoroutineTypeOK, Coroutines, Writers, PCs, Ops, NoWrite
    <3>3. PcbTypeOK' /\ SessionTypeOK' /\ EndTypeOK'
      BY Zenon, <3>1 DEF TypeOK, PcbTypeOK, SessionTypeOK, EndTypeOK, pcbVars, sessVars, endVars
    <3> QED BY Zenon, <3>1, <3>2, <3>3 DEF TypeOK
  <2>2. CASE status[c] # "CLOSE" /\ state[c] = "FREED"
    <3>1. Crash("freed_pcb")
      BY Zenon, <1>4, <2>2 DEF DrainStep
    <3> QED BY <3>1, CrashType DEF Faults
  <2>3. CASE status[c] # "CLOSE" /\ state[c] # "FREED"
    <3>1. /\ TcpRecved(c, WriteLen(c, "start"))
          /\ DrainOrRead(c)
          /\ UNCHANGED <<state, callback_arg, snd_buf, snd_nxt, wnd, unsent, unacked,
                         fin, session_map, status, remote_sending,
                         should_read_from_remote, remote_recv_buff, nread, rcvd,
                         upstream, bytes_read, downstream, acked, remote, fault>>
      BY Zenon, <1>4, <2>3 DEF DrainStep
    <3>2. WriteLen(c, "start") \in Nat
      BY Zenon, WriteLenType DEF Writers
    <3>3. PcbTypeOK'
      BY Zenon, <3>1, <3>2, TcpRecvedType DEF TypeOK, PcbTypeOK
    <3>4. EndTypeOK'
      BY Zenon, <3>1, <3>2, TcpRecvedType DEF TypeOK, EndTypeOK
    <3>5. SessionTypeOK' /\ CoroutineTypeOK'
      BY Zenon, <3>1, DrainOrReadType DEF TypeOK, SessionTypeOK, CoroutineTypeOK
    <3> QED BY Zenon, <3>1, <3>3, <3>4, <3>5 DEF TypeOK
  <2> QED BY Zenon, <2>1, <2>2, <2>3
<1> QED BY <1>1, <1>2, <1>3, <1>4

\* The writer's coroutine, and the continuation of a partial write
LEMMA UpType ==
    ASSUME TypeOK, UpInv, NEW c \in Conns,
           UpStep(c) \/ UpFails(c) \/ \E w \in Writers : WriteMore(c, w)
    PROVE  TypeOK'
<1>1. CASE UpStep(c)
  <2>1. CASE status[c] = "CLOSE"
    <3>1. /\ UpReturns(c)
          /\ UNCHANGED <<pcbVars, session_map, sessVars, nread, write_ops, endVars, fault>>
      BY Zenon, <1>1, <2>1 DEF UpStep
    <3>2. CoroutineTypeOK'
      BY Zenon, <3>1 DEF UpReturns, TypeOK, CoroutineTypeOK, Coroutines, Writers, PCs, Ops, NoWrite
    <3>3. PcbTypeOK' /\ SessionTypeOK' /\ EndTypeOK'
      BY Zenon, <3>1 DEF TypeOK, PcbTypeOK, SessionTypeOK, EndTypeOK, pcbVars, sessVars, endVars
    <3> QED BY Zenon, <3>1, <3>2, <3>3 DEF TypeOK
  <2>2. CASE status[c] # "CLOSE" /\ state[c] = "FREED"
    <3>1. Crash("freed_pcb")
      BY Zenon, <1>1, <2>2 DEF UpStep
    <3> QED BY Zenon, <3>1, CrashType DEF Faults
  <2>3. CASE status[c] # "CLOSE" /\ state[c] # "FREED"
    <3>1. /\ TcpRecved(c, WriteLen(c, "up"))
          /\ UNCHANGED <<state, callback_arg, snd_buf, snd_nxt, wnd, unsent, unacked,
                         fin, session_map, status, should_read_from_remote,
                         remote_recv_buff, nread, rcvd, upstream, bytes_read,
                         downstream, acked, remote, fault>>
      BY Zenon, <1>1, <2>3 DEF UpStep
    <3>2. WriteLen(c, "up") \in Nat
      BY Zenon, WriteLenType DEF Writers
    <3>3. PcbTypeOK'
      BY Zenon, <3>1, <3>2, TcpRecvedType DEF TypeOK, PcbTypeOK
    <3>4. EndTypeOK'
      BY Zenon, <3>1, <3>2, TcpRecvedType DEF TypeOK, EndTypeOK
    <3>5. SessionTypeOK' /\ CoroutineTypeOK'
      <4>1. CASE pbuf_queue[c] # <<>>
        <5>1. StartWrite(c, "up", pbuf_queue[c]) /\ UNCHANGED remote_sending
          BY Zenon, <1>1, <2>3, <4>1 DEF UpStep
        <5>2. pbuf_queue[c] \in Seq(Intervals) /\ "up" \in Writers
          BY DEF TypeOK, SessionTypeOK, Writers
        <5> QED BY Zenon, <3>1, <4>1, <5>1, <5>2, StartWriteEffect
                DEF TypeOK, SessionTypeOK, CoroutineTypeOK
      <4>2. CASE pbuf_queue[c] = <<>>
        <5>1. /\ UpReturns(c)
              /\ remote_sending' = [remote_sending EXCEPT ![c] = FALSE]
              /\ UNCHANGED <<pbuf_queue, write_ops>>
          BY Zenon, <1>1, <2>3, <4>2 DEF UpStep
        <5>2. SessionTypeOK'
          BY Zenon, <3>1, <5>1 DEF TypeOK, SessionTypeOK
        <5>3. CoroutineTypeOK'
          BY Zenon, <3>1, <5>1 DEF UpReturns, TypeOK, CoroutineTypeOK, Coroutines, Writers, PCs, Ops,
             NoWrite
        <5> QED BY Zenon, <5>2, <5>3
      <4> QED BY Zenon, <4>1, <4>2
    <3> QED BY Zenon, <3>1, <3>3, <3>4, <3>5 DEF TypeOK
  <2> QED BY Zenon, <2>1, <2>2, <2>3
<1>2. CASE UpFails(c)
  <2>1. PcbTypeOK' /\ EndTypeOK'
    BY Zenon, <1>2 DEF UpFails, TypeOK, PcbTypeOK, EndTypeOK, pcbVars, endVars
  <2>2. SessionTypeOK'
    BY Zenon, <1>2 DEF UpFails, TypeOK, SessionTypeOK, Statuses
  <2>3. CoroutineTypeOK'
    BY Zenon, <1>2 DEF UpFails, UpReturns, TypeOK, CoroutineTypeOK, Coroutines, Writers, PCs, Ops,
       NoWrite
  <2> QED BY Zenon, <1>2, <2>1, <2>2, <2>3 DEF UpFails, TypeOK
<1>3. ASSUME NEW w \in Writers, WriteMore(c, w)
      PROVE  TypeOK'
  <2>1. Append(write_ops[c], w) \in Seq(Writers) /\ w \in Coroutines
    BY Zenon, AppendSeq DEF TypeOK, CoroutineTypeOK, Writers, Coroutines
  <2>2. CoroutineTypeOK'
    BY Zenon, <1>3, <2>1 DEF WriteMore, TypeOK, CoroutineTypeOK, Ops
  <2>3. PcbTypeOK' /\ SessionTypeOK' /\ EndTypeOK'
    BY Zenon, <1>3 DEF WriteMore, TypeOK, PcbTypeOK, SessionTypeOK, EndTypeOK, pcbVars, sessVars,
       endVars
  <2> QED BY Zenon, <1>3, <2>2, <2>3 DEF WriteMore, TypeOK
<1> QED BY Zenon, <1>1, <1>2, <1>3

\* The end of the write stream moves by the size of a read that is accepted.
LEMMA EndGrows ==
    ASSUME NEW e \in Nat, NEW m \in Nat, NEW n \in 0 .. m, n > 0
    PROVE  e < e + n /\ e + n - e <= m
BY SMT

\* The room in the send buffer shrinks by as much.
LEMMA RoomShrinks ==
    ASSUME NEW m \in Nat, NEW x \in 0 .. m, NEW n \in Nat, n <= x
    PROVE  x - n \in 0 .. m
BY SMT

\* Room that shrinks by n moves the end by n.
LEMMA EndShifts ==
    ASSUME NEW a \in Nat, NEW m \in Nat, NEW x \in 0 .. m, NEW n \in Nat
    PROVE  a + m - (x - n) = (a + m - x) + n
BY SMT

\* A loop of reads passes one read to tcp_write and tcp_output: the send queue
\* stays a chain whose end moves by the bytes that were accepted.
LEMMA ReadStepEffect ==
    ASSUME TypeOK, SendInv, ReadInv, NEW c \in Conns, NEW r \in Readers, ReadStep(c, r),
           status[c] # "CLOSE", state[c] # "FREED"
    PROVE  /\ PcbTypeOK' /\ downstream' \in [Conns -> Seq([lo : Nat, data : Seq(Nat)])]
           /\ Chain(unacked'[c], acked'[c], snd_nxt'[c], ReadMax)
           /\ Chain(unsent'[c], snd_nxt'[c], WriteEnd(c)', ReadMax)
           /\ snd_nxt[c] <= snd_nxt'[c] /\ snd_nxt'[c] <= WriteEnd(c)'
           /\ WriteEnd(c) <= WriteEnd(c)'
           /\ \A d \in Conns : d # c =>
                  /\ unsent'[d] = unsent[d] /\ unacked'[d] = unacked[d]
                  /\ snd_nxt'[d] = snd_nxt[d] /\ snd_buf'[d] = snd_buf[d]
           /\ snd_buf' = [snd_buf EXCEPT ![c] = IF TcpWriteOk(c, nread[c][r])
                                                THEN @ - nread[c][r] ELSE @]
<1> DEFINE n == nread[c][r]
           accepted == TcpWriteOk(c, n)
           q == IF accepted THEN Append(unsent[c], <<WriteEnd(c), WriteEnd(c) + n>>)
                            ELSE unsent[c]
<1>1. /\ UNCHANGED <<acked, wnd>>
      /\ snd_buf' = [snd_buf EXCEPT ![c] = IF accepted THEN @ - n ELSE @]
      /\ TcpOutput(c, q, unacked[c], fin[c], remote_recv_buff[c])
      /\ UNCHANGED <<state, callback_arg, rcv_wnd>>
  BY Zenon DEF ReadStep
<1>2. pc[c][r] = "read" /\ op[c][r] = "ok"
  BY Zenon DEF ReadStep
<1>3. n \in 0 .. ReadMax /\ n > 0
  BY Zenon, <1>2 DEF TypeOK, CoroutineTypeOK, ReadInv, ReadInvOf
<1>4. /\ unacked[c] \in Seq(Intervals) /\ unsent[c] \in Seq(Intervals)
      /\ fin[c] \in {"no", "unsent", "unacked"} /\ snd_nxt[c] \in Nat
  BY Zenon DEF TypeOK, PcbTypeOK
<1>5. snd_buf[c] \in 0 .. TCP_SND_BUF /\ snd_buf \in [Conns -> 0 .. TCP_SND_BUF]
  BY Zenon DEF TypeOK, PcbTypeOK
<1>6. remote_recv_buff[c] \in [1 .. ReadMax -> Nat]
  BY Zenon DEF TypeOK, SessionTypeOK
<1>7. acked \in [Conns -> Nat] /\ acked[c] \in Nat
  BY Zenon DEF TypeOK, EndTypeOK
<1>8. /\ Chain(unacked[c], acked[c], snd_nxt[c], ReadMax)
      /\ Chain(unsent[c], snd_nxt[c], WriteEnd(c), ReadMax)
  BY Zenon DEF SendInv
<1>9. ReadMax \in Nat /\ TCP_SND_BUF \in Nat
  BY SMTT(30), SizeAssumption
<1>10. WriteEnd(c) \in Nat
  BY Zenon, WriteEndType
<1> HIDE DEF n, accepted
<1>11. PICK hi \in Nat :
           /\ hi = WriteEnd(c)' /\ WriteEnd(c) <= hi
           /\ q \in Seq(Intervals)
           /\ Chain(q, snd_nxt[c], hi, ReadMax)
           /\ snd_buf' \in [Conns -> 0 .. TCP_SND_BUF]
  <2>1. CASE accepted
    <3>1. n \in Nat /\ n <= snd_buf[c]
      BY <1>3, <1>9, <2>1 DEF accepted, TcpWriteOk
    <3>2. WriteEnd(c) < WriteEnd(c) + n /\ WriteEnd(c) + n - WriteEnd(c) <= ReadMax
      BY Zenon, <1>3, <1>9, <1>10, EndGrows
    <3>3. WriteEnd(c) + n \in Nat
      BY <3>1, <1>10
    <3>4. /\ q = Append(unsent[c], <<WriteEnd(c), WriteEnd(c) + n>>)
          /\ q \in Seq(Intervals) /\ Chain(q, snd_nxt[c], WriteEnd(c) + n, ReadMax)
      <4>1. PICK us \in Seq(Intervals) : us = unsent[c]
        BY Zenon, <1>4
      <4>2. PICK old \in Nat : old = WriteEnd(c)
        BY Zenon, <1>10
      <4>3. PICK new \in Nat : new = WriteEnd(c) + n
        BY Zenon, <3>3
      <4> HIDE DEF q
      <4>4. Chain(us, snd_nxt[c], old, ReadMax)
        BY Zenon, <1>8, <4>1, <4>2
      <4>5. old < new /\ new - old <= ReadMax
        BY SMTT(30), <1>3, <1>9, <4>2, <4>3
      <4>6. /\ Append(us, <<old, new>>) \in Seq(Intervals)
            /\ Chain(Append(us, <<old, new>>), snd_nxt[c], new, ReadMax)
        BY ZenonT(30), <1>4, <1>9, <4>4, <4>5, ChainAppend DEF Intervals
      <4> QED BY Zenon, <2>1, <4>1, <4>2, <4>3, <4>6 DEF q
    <3>5. snd_buf'[c] = snd_buf[c] - n /\ snd_buf[c] - n \in 0 .. TCP_SND_BUF
      BY Zenon, <1>1, <1>5, <1>9, <2>1, <3>1, RoomShrinks
    <3>6. snd_buf' \in [Conns -> 0 .. TCP_SND_BUF]
      BY Zenon, <1>1, <1>5, <2>1, <3>5
    <3>7. WriteEnd(c)' = WriteEnd(c) + n
      <4>1. acked[c] + TCP_SND_BUF - (snd_buf[c] - n)
                = (acked[c] + TCP_SND_BUF - snd_buf[c]) + n
        BY ZenonT(60), <1>5, <1>7, <1>9, <3>1, EndShifts
      <4>2. acked'[c] = acked[c] /\ snd_buf'[c] = snd_buf[c] - n
        BY Zenon, <1>1, <3>5
      <4> QED BY Zenon, <4>1, <4>2 DEF WriteEnd
    <3>8. WriteEnd(c) <= WriteEnd(c) + n
      BY SMTT(30), <3>1, <1>10
    <3> HIDE DEF q
    <3> QED BY Zenon, <3>3, <3>4, <3>6, <3>7, <3>8
  <2>2. CASE ~accepted
    <3>1. snd_buf'[c] = snd_buf[c] /\ snd_buf' \in [Conns -> 0 .. TCP_SND_BUF]
      BY Zenon, <1>1, <1>5, <2>2
    <3>2. WriteEnd(c)' = WriteEnd(c)
      BY Zenon, <1>1, <3>1 DEF WriteEnd
    <3>3. WriteEnd(c) <= WriteEnd(c)
      BY SMTT(30), <1>10
    <3>4. q = unsent[c]
      BY Zenon, <2>2
    <3> QED BY Zenon, <1>4, <1>8, <1>10, <3>1, <3>2, <3>3, <3>4
  <2> QED BY Zenon, <2>1, <2>2
<1>12. /\ unsent' \in [Conns -> Seq(Intervals)]
       /\ unacked' \in [Conns -> Seq(Intervals)]
       /\ snd_nxt' \in [Conns -> Nat]
       /\ fin' \in [Conns -> {"no", "unsent", "unacked"}]
       /\ downstream' \in [Conns -> Seq([lo : Nat, data : Seq(Nat)])]
       /\ Chain(unacked'[c], acked'[c], snd_nxt'[c], ReadMax)
       /\ Chain(unsent'[c], snd_nxt'[c], hi, ReadMax)
       /\ snd_nxt[c] <= snd_nxt'[c] /\ snd_nxt'[c] <= hi
       /\ \A d \in Conns : d # c =>
              /\ unsent'[d] = unsent[d] /\ unacked'[d] = unacked[d]
              /\ snd_nxt'[d] = snd_nxt[d]
  <2>1. acked'[c] \in Nat /\ Chain(unacked[c], acked'[c], snd_nxt[c], ReadMax)
    BY Zenon, <1>1, <1>7, <1>8
  <2> HIDE DEF q
  <2>2. PICK una \in Seq(Intervals) : una = unacked[c]
    BY Zenon, <1>4
  <2>3. PICK us \in Seq(Intervals) : us = q
    BY Zenon, <1>11
  <2>4. PICK b \in [1 .. ReadMax -> Nat] : b = remote_recv_buff[c]
    BY Zenon, <1>6
  <2>5. PICK f \in {"no", "unsent", "unacked"} : f = fin[c]
    BY Zenon, <1>4
  <2>6. /\ Chain(una, acked'[c], snd_nxt[c], ReadMax)
        /\ Chain(us, snd_nxt[c], hi, ReadMax)
        /\ TcpOutput(c, us, una, f, b)
    BY Zenon, <1>1, <1>11, <2>1, <2>2, <2>3, <2>4, <2>5
  <2> QED BY ZenonT(60), <2>1, <2>6, TcpOutputEffect
<1>13. \A d \in Conns : d # c => snd_buf'[d] = snd_buf[d]
  BY Zenon, <1>1, <1>5
<1>14. PcbTypeOK'
  BY Zenon, <1>1, <1>11, <1>12 DEF TypeOK, PcbTypeOK
<1> QED BY Zenon, <1>1, <1>11, <1>12, <1>13, <1>14 DEF n, accepted

\* The read loops keep the state typed.
LEMMA ReadType ==
    ASSUME TypeOK, SendInv, ReadInv, NEW c \in Conns,
           ReadFails(c) \/ \E r \in Readers : ReadStep(c, r)
    PROVE  TypeOK'
<1>1. ASSUME NEW r \in Readers, ReaderReturns(c, r)
      PROVE  /\ pc' \in [Conns -> [Coroutines -> PCs]]
             /\ op' \in [Conns -> [Coroutines -> Ops]]
             /\ status' \in [Conns -> Statuses]
  BY Zenon, <1>1 DEF ReaderReturns, TypeOK, CoroutineTypeOK, SessionTypeOK, Coroutines, Readers,
     PCs, Ops, Statuses
<1>2. CASE ReadFails(c)
  <2>1. /\ ReaderReturns(c, "down")
        /\ UNCHANGED <<pcbVars, session_map, pbuf_queue, remote_sending,
                       should_read_from_remote, remote_recv_buff, wr, nread,
                       write_ops, endVars, fault>>
    BY Zenon, <1>2 DEF ReadFails
  <2>2. "down" \in Readers
    BY DEF Readers
  <2>3. SessionTypeOK' /\ CoroutineTypeOK'
    BY Zenon, <1>1, <2>1, <2>2 DEF TypeOK, SessionTypeOK, CoroutineTypeOK
  <2>4. PcbTypeOK' /\ EndTypeOK'
    BY Zenon, <2>1 DEF TypeOK, PcbTypeOK, EndTypeOK, pcbVars, endVars
  <2> QED BY Zenon, <2>1, <2>3, <2>4 DEF TypeOK
<1>3. ASSUME NEW r \in Readers, ReadStep(c, r)
      PROVE  TypeOK'
  <2>1. CASE status[c] = "CLOSE"
    <3>1. /\ ReaderReturns(c, r)
          /\ UNCHANGED <<pcbVars, session_map, pbuf_queue, remote_sending,
                         should_read_from_remote, remote_recv_buff, wr, nread,
                         write_ops, endVars, fault>>
      BY Zenon, <1>3, <2>1 DEF ReadStep
    <3>2. SessionTypeOK' /\ CoroutineTypeOK'
      BY Zenon, <1>1, <3>1 DEF TypeOK, SessionTypeOK, CoroutineTypeOK
    <3>3. PcbTypeOK' /\ EndTypeOK'
      BY Zenon, <3>1 DEF TypeOK, PcbTypeOK, EndTypeOK, pcbVars, endVars
    <3> QED BY Zenon, <3>1, <3>2, <3>3 DEF TypeOK
  <2>2. CASE status[c] # "CLOSE" /\ state[c] = "FREED"
    <3>1. Crash("freed_pcb")
      BY Zenon, <1>3, <2>2 DEF ReadStep
    <3> QED BY Zenon, <3>1, CrashType DEF Faults
  <2>3. CASE status[c] # "CLOSE" /\ state[c] # "FREED"
    <3>1. /\ PcbTypeOK'
          /\ downstream' \in [Conns -> Seq([lo : Nat, data : Seq(Nat)])]
      BY Zenon, <1>3, <2>3, ReadStepEffect
    <3>2. /\ UNCHANGED acked
          /\ UNCHANGED <<session_map, pbuf_queue, remote_sending, remote_recv_buff, wr,
                         nread, write_ops, rcvd, credited, upstream, bytes_read, remote,
                         fault>>
      BY Zenon, <1>3, <2>3 DEF ReadStep
    <3>3. EndTypeOK'
      BY Zenon, <3>1, <3>2 DEF TypeOK, EndTypeOK
    <3>4. /\ pc' \in [Conns -> [Coroutines -> PCs]]
          /\ op' \in [Conns -> [Coroutines -> Ops]]
          /\ status' \in [Conns -> Statuses]
          /\ should_read_from_remote' \in [Conns -> BOOLEAN]
      <4>1. \/ /\ should_read_from_remote' =
                      [should_read_from_remote EXCEPT ![c] = FALSE]
               /\ ReaderReturns(c, r)
            \/ /\ op' = [op EXCEPT ![c][r] = "pending"]
               /\ UNCHANGED <<should_read_from_remote, pc, status>>
        BY Zenon, <1>3, <2>3 DEF ReadStep
      <4>2. CASE /\ should_read_from_remote' =
                        [should_read_from_remote EXCEPT ![c] = FALSE]
                 /\ ReaderReturns(c, r)
        <5>1. should_read_from_remote' \in [Conns -> BOOLEAN]
          BY <4>2 DEF TypeOK, SessionTypeOK
        <5> QED BY Zenon, <1>1, <4>2, <5>1
      <4>3. CASE /\ op' = [op EXCEPT ![c][r] = "pending"]
                 /\ UNCHANGED <<should_read_from_remote, pc, status>>
        <5>1. op' \in [Conns -> [Coroutines -> Ops]]
          BY SMTT(30), <4>3 DEF TypeOK, CoroutineTypeOK, Readers, Coroutines, Ops
        <5> QED BY Zenon, <4>3, <5>1 DEF TypeOK, SessionTypeOK, CoroutineTypeOK
      <4> QED BY Zenon, <4>1, <4>2, <4>3
    <3>5. SessionTypeOK' /\ CoroutineTypeOK'
      BY Zenon, <3>2, <3>4 DEF TypeOK, SessionTypeOK, CoroutineTypeOK
    <3> QED BY Zenon, <3>1, <3>2, <3>3, <3>5 DEF TypeOK
  <2> QED BY Zenon, <2>1, <2>2, <2>3
<1> QED BY Zenon, <1>2, <1>3

\* Every step is a step of one of these kinds.
LEMMA StepCases ==
    ASSUME Next
    PROVE  \E c \in Conns :
               \/ Local(c) \/ Kernel(c)
               \/ HandshakeStep(c) \/ StartFails(c) \/ EnterRelaying(c) \/ DrainStep(c)
               \/ UpStep(c) \/ UpFails(c) \/ \E w \in Writers : WriteMore(c, w)
               \/ ReadFails(c) \/ \E r \in Readers : ReadStep(c, r)
<1>1. PICK c \in Conns : Step(c)
  BY Zenon DEF Next
<1>2. "start" \in Writers /\ "up" \in Writers /\ "start" \in Readers /\ "down" \in Readers
  BY DEF Writers, Readers
<1> QED BY Zenon, <1>1, <1>2 DEF Step, StartCoroutine, UpCoroutine, DownCoroutine

\* Every step keeps the state typed.
LEMMA TypeStep ==
    ASSUME IndInv, Next
    PROVE  TypeOK'
BY Zenon, StepCases, LocalType, KernelType, StartType, UpType, ReadType DEF IndInv

\* Completions and the coroutines other than the readers leave the send side of
\* every pcb, the callback arguments and the session map alone.
LEMMA PcbFrame ==
    ASSUME NEW c \in Conns,
           \/ Kernel(c)
           \/ HandshakeStep(c) \/ StartFails(c) \/ EnterRelaying(c) \/ DrainStep(c)
           \/ UpStep(c) \/ UpFails(c) \/ \E w \in Writers : WriteMore(c, w)
           \/ ReadFails(c)
    PROVE  UNCHANGED <<state, callback_arg, session_map, unacked, unsent, snd_nxt, acked,
                       snd_buf>>
<1>1. CASE Kernel(c)
  BY Zenon, <1>1 DEF Kernel, ServerAnswers, ServerReads, ServerSends, CompleteHandshake,
     CompleteWrite, CompleteRead, FailWrite, RemoteClose, FailRead, pcbVars, endVars
<1>2. CASE HandshakeStep(c) \/ StartFails(c)
  BY Zenon, <1>2 DEF HandshakeStep, StartFails, Crash, pcbVars, endVars
<1>3. CASE EnterRelaying(c) \/ DrainStep(c)
  BY Zenon, <1>3 DEF EnterRelaying, DrainStep, Crash, pcbVars, endVars
<1>4. CASE UpStep(c) \/ UpFails(c)
  BY Zenon, <1>4 DEF UpStep, UpFails, Crash, pcbVars, endVars
<1>5. CASE ReadFails(c) \/ \E w \in Writers : WriteMore(c, w)
  BY Zenon, <1>5 DEF ReadFails, WriteMore, pcbVars, endVars
<1> QED BY Zenon, <1>1, <1>2, <1>3, <1>4, <1>5

-----------------------------------------------------------------------------
(* The session map *)

\* Clear finds the session of an active pcb by its 4-tuple, or nothing: nobody
\* else's.
LEMMA MapEntry ==
    ASSUME TypeOK, MapInv, NEW c \in Conns, Active(c)
    PROVE  session_map[TupleOf[c]] = IF state[c] = "ESTABLISHED" THEN c ELSE NoConn
<1> DEFINE s == session_map[TupleOf[c]]
<1>1. TupleOf[c] \in Tuples /\ s \in Conns \cup {NoConn}
  BY Zenon, ConnAssumption DEF TypeOK
<1>2. CASE state[c] = "ESTABLISHED"
  BY Zenon, <1>2 DEF MapInv, MapMatchesPcbs
<1>3. CASE state[c] # "ESTABLISHED"
  <2>1. ASSUME s # NoConn PROVE FALSE
    <3>1. s \in Conns /\ TupleOf[s] = TupleOf[c] /\ session_map[TupleOf[s]] = s
      BY Zenon, <1>1, <2>1 DEF MapInv, MapMatchesPcbs
    <3>2. state[s] = "ESTABLISHED"
      BY Zenon, <3>1 DEF MapInv, MapMatchesPcbs
    <3>3. Active(s)
      BY SMTT(30), <3>2 DEF Active
    <3>4. s = c
      BY Zenon, <3>1, <3>3 DEF MapInv
    <3> QED BY Zenon, <1>3, <3>2, <3>4
  <2> QED BY Zenon, <1>3, <2>1
<1> QED BY Zenon, <1>2, <1>3

\* So Clear stops the session of the pcb in hand and no other.
LEMMA ClearOwn ==
    ASSUME TypeOK, MapInv, NEW c \in Conns, Active(c), Clear(c)
    PROVE  /\ \A d \in Conns : d # c =>
                  /\ status'[d] = status[d] /\ callback_arg'[d] = callback_arg[d]
                  /\ op'[d] = op[d] /\ write_ops'[d] = write_ops[d]
           /\ \A r \in Coroutines : op'[c][r] = "ok" => op[c][r] = "ok"
           /\ session_map' = [session_map EXCEPT ![TupleOf[c]] = NoConn]
<1>1. session_map' = [session_map EXCEPT ![TupleOf[c]] = NoConn]
  BY Zenon, ClearEffect
<1>2. CASE UNCHANGED <<status, callback_arg, op, write_ops>>
  BY Zenon, <1>1, <1>2
<1>3. CASE ~UNCHANGED <<status, callback_arg, op, write_ops>>
  <2>1. session_map[TupleOf[c]] = c
    BY Zenon, <1>3, MapEntry DEF Clear
  <2>2. Stop(c)
    BY Zenon, <1>3, <2>1 DEF Clear
  <2>3. /\ status' = [status EXCEPT ![c] = "CLOSE"]
        /\ callback_arg' = [callback_arg EXCEPT ![c] = FALSE]
        /\ op' = [op EXCEPT ![c] = [r \in Coroutines |->
                     IF op[c][r] = "pending" THEN "err" ELSE op[c][r]]]
        /\ write_ops' = [write_ops EXCEPT ![c] = <<>>]
    BY Zenon, <1>3, <2>2 DEF Stop, Cancel
  <2>4. /\ status \in [Conns -> Statuses] /\ callback_arg \in [Conns -> BOOLEAN]
        /\ op \in [Conns -> [Coroutines -> Ops]]
        /\ write_ops \in [Conns -> Seq(Writers)]
    BY Zenon DEF TypeOK, PcbTypeOK, SessionTypeOK, CoroutineTypeOK
  <2>5. \A d \in Conns : d # c =>
            /\ status'[d] = status[d] /\ callback_arg'[d] = callback_arg[d]
            /\ op'[d] = op[d] /\ write_ops'[d] = write_ops[d]
    BY Zenon, <2>3, <2>4
  <2>6. op'[c] = [r \in Coroutines |-> IF op[c][r] = "pending" THEN "err" ELSE op[c][r]]
    BY Zenon, <2>3, <2>4
  <2>7. ASSUME NEW r \in Coroutines, op'[c][r] = "ok" PROVE op[c][r] = "ok"
    <3>1. op'[c][r] = IF op[c][r] = "pending" THEN "err" ELSE op[c][r]
      BY Zenon, <2>6
    <3> QED BY SMTT(30), <2>7, <3>1
  <2> QED BY Zenon, <1>1, <2>5, <2>7
<1> QED BY Zenon, <1>2, <1>3

\* tcp_output sends from one pcb.
LEMMA OutputOwn ==
    ASSUME TypeOK, NEW c \in Conns, NEW q, NEW una, NEW f, NEW b, TcpOutput(c, q, una, f, b)
    PROVE  \A d \in Conns : d # c =>
               /\ unsent'[d] = unsent[d] /\ unacked'[d] = unacked[d]
               /\ snd_nxt'[d] = snd_nxt[d] /\ fin'[d] = fin[d]
               /\ downstream'[d] = downstream[d]
<1>1. \E k \in 0 .. Len(q) :
        /\ unsent' = [unsent EXCEPT ![c] = SubSeq(q, k + 1, Len(q))]
        /\ unacked' = [unacked EXCEPT ![c] = una \o SubSeq(q, 1, k)]
        /\ snd_nxt' = [snd_nxt EXCEPT ![c] = IF k = 0 THEN @ ELSE q[k][2]]
        /\ fin' = [fin EXCEPT ![c] =
               IF /\ f = "unsent" /\ k = Len(q)
                  /\ TCP_SND_BUF - snd_buf'[c] <= wnd'[c]
               THEN "unacked" ELSE f]
        /\ downstream' = [downstream EXCEPT ![c] =
               @ \o [j \in 1 .. k |-> Payload(q[j], b)]]
  BY Zenon DEF TcpOutput
<1>2. /\ unsent \in [Conns -> Seq(Intervals)] /\ unacked \in [Conns -> Seq(Intervals)]
      /\ snd_nxt \in [Conns -> Nat] /\ fin \in [Conns -> {"no", "unsent", "unacked"}]
      /\ downstream \in [Conns -> Seq([lo : Nat, data : Seq(Nat)])]
  BY Zenon DEF TypeOK, PcbTypeOK, EndTypeOK
<1> QED BY ZenonT(60), <1>1, <1>2

\* A writer takes a packet from the queue of its own session.
LEMMA StartWriteOwn ==
    ASSUME TypeOK, NEW c \in Conns, NEW w \in Writers, NEW q, StartWrite(c, w, q),
           NEW d \in Conns, d # c
    PROVE  /\ pbuf_queue'[d] = pbuf_queue[d] /\ pc'[d] = pc[d] /\ op'[d] = op[d]
           /\ wr'[d] = wr[d] /\ write_ops'[d] = write_ops[d]
<1>1. /\ pbuf_queue \in [Conns -> Seq(Intervals)]
      /\ pc \in [Conns -> [Coroutines -> PCs]] /\ op \in [Conns -> [Coroutines -> Ops]]
      /\ wr \in [Conns -> [Writers -> [lo : Nat, pos : Nat, hi : Nat]]]
      /\ write_ops \in [Conns -> Seq(Writers)]
  BY Zenon DEF TypeOK, SessionTypeOK, CoroutineTypeOK
<1> QED BY Zenon, <1>1 DEF StartWrite

\* What the segments for one pcb change
LEMMA LocalOwn ==
    ASSUME TypeOK, MapInv, NEW c \in Conns, Local(c), NEW d \in Conns, d # c
    PROVE  Untouched(d)
<1>0. /\ state \in [Conns -> PcbStates] /\ callback_arg \in [Conns -> BOOLEAN]
      /\ rcv_wnd \in [Conns -> 0 .. TCP_WND] /\ snd_buf \in [Conns -> 0 .. TCP_SND_BUF]
      /\ wnd \in [Conns -> Windows] /\ status \in [Conns -> Statuses]
      /\ pbuf_queue \in [Conns -> Seq(Intervals)] /\ remote_sending \in [Conns -> BOOLEAN]
      /\ should_read_from_remote \in [Conns -> BOOLEAN]
      /\ pc \in [Conns -> [Coroutines -> PCs]] /\ op \in [Conns -> [Coroutines -> Ops]]
      /\ wr \in [Conns -> [Writers -> [lo : Nat, pos : Nat, hi : Nat]]]
      /\ write_ops \in [Conns -> Seq(Writers)]
      /\ rcvd \in [Conns -> Nat] /\ acked \in [Conns -> Nat]
      /\ unsent \in [Conns -> Seq(Intervals)] /\ unacked \in [Conns -> Seq(Intervals)]
      /\ fin \in [Conns -> {"no", "unsent", "unacked"}]
  BY Zenon DEF TypeOK, PcbTypeOK, SessionTypeOK, CoroutineTypeOK, EndTypeOK
<1>1. CASE RecvSyn(c)
  BY Zenon, <1>0, <1>1 DEF RecvSyn, Untouched, sessVars, coVars, endVars
<1>2. CASE RecvHandshakeAck(c)
  <2>1. CASE Crash("accept_assert")
    BY Zenon, <2>1 DEF Crash, Untouched, pcbVars, sessVars, coVars, endVars
  <2>2. CASE ~Crash("accept_assert")
    <3>1. /\ \E opened \in BOOLEAN : NewSession(c, opened)
          /\ state' = [state EXCEPT ![c] = "ESTABLISHED"]
          /\ UNCHANGED <<rcv_wnd, snd_buf, snd_nxt, wnd, unsent, unacked,
                         fin, pbuf_queue, remote_sending, should_read_from_remote,
                         remote_recv_buff, wr, nread, write_ops, endVars,
                         fault>>
      BY Zenon, <1>2, <2>2 DEF RecvHandshakeAck
    <3>2. state'[d] = state[d]
      BY Zenon, <1>0, <3>1
    <3>3. /\ callback_arg'[d] = callback_arg[d] /\ status'[d] = status[d]
          /\ pc'[d] = pc[d] /\ op'[d] = op[d]
      <4>1. PICK opened \in BOOLEAN : NewSession(c, opened)
        BY Zenon, <3>1
      <4>2. /\ callback_arg \in [Conns -> BOOLEAN] /\ status \in [Conns -> Statuses]
            /\ pc \in [Conns -> [Coroutines -> PCs]]
            /\ op \in [Conns -> [Coroutines -> Ops]]
        BY Zenon, <1>0
      <4> QED BY Zenon, <4>1, <4>2 DEF NewSession
    <3>4. UNCHANGED <<rcv_wnd, snd_buf, snd_nxt, wnd, unsent, unacked,
                      fin, pbuf_queue, remote_sending, should_read_from_remote,
                      remote_recv_buff, wr, nread, write_ops, endVars>>
      BY Zenon, <3>1
    <3> QED BY Zenon, <3>2, <3>3, <3>4 DEF Untouched, endVars
  <2> QED BY Zenon, <2>1, <2>2
<1>3. ASSUME FreePcb(c)
      PROVE  /\ state'[d] = state[d] /\ unsent'[d] = unsent[d] /\ unacked'[d] = unacked[d]
             /\ fin'[d] = fin[d] /\ snd_nxt'[d] = snd_nxt[d]
             /\ downstream'[d] = downstream[d]
  BY Zenon, <1>0, <1>3 DEF FreePcb
<1>4. ASSUME NEW n \in 1 .. SegMax, RecvData(c, n)
      PROVE  Untouched(d)
  <2>1. state[c] = "ESTABLISHED"
    BY Zenon, <1>4 DEF RecvData
  <2>2. Active(c) /\ session_map[TupleOf[c]] = c
    BY Zenon, <2>1, MapEntry DEF Active
  <2>3. \/ Crash("handle_assert")
        \/ /\ Clear(c) /\ FreePcb(c)
           /\ rcv_wnd' = [rcv_wnd EXCEPT ![c] = rcv_wnd[c] - n]
           /\ rcvd' = [rcvd EXCEPT ![c] = @ + n]
           /\ UNCHANGED <<snd_buf, wnd, pbuf_queue, remote_sending,
                          should_read_from_remote, remote_recv_buff, pc, wr,
                          nread, credited, upstream, bytes_read, acked,
                          remote, fault>>
        \/ /\ ProxyTcpPacket(c, <<rcvd[c], rcvd[c] + n>>)
           /\ rcv_wnd' = [rcv_wnd EXCEPT ![c] = rcv_wnd[c] - n]
           /\ rcvd' = [rcvd EXCEPT ![c] = @ + n]
           /\ UNCHANGED <<state, callback_arg, snd_buf, snd_nxt, wnd, unsent, unacked,
                          fin, session_map, status, should_read_from_remote,
                          remote_recv_buff, nread, credited, upstream,
                          bytes_read, downstream, acked, remote, fault>>
    BY Zenon, <1>4, <2>2 DEF RecvData
  <2>4. CASE Crash("handle_assert")
    BY Zenon, <2>4 DEF Crash, Untouched, pcbVars, sessVars, coVars, endVars
  <2>5. CASE /\ Clear(c) /\ FreePcb(c)
             /\ rcv_wnd' = [rcv_wnd EXCEPT ![c] = rcv_wnd[c] - n]
             /\ rcvd' = [rcvd EXCEPT ![c] = @ + n]
             /\ UNCHANGED <<snd_buf, wnd, pbuf_queue, remote_sending,
                            should_read_from_remote, remote_recv_buff, pc, wr,
                            nread, credited, upstream, bytes_read, acked,
                            remote, fault>>
    <3>1. /\ status'[d] = status[d] /\ callback_arg'[d] = callback_arg[d]
          /\ op'[d] = op[d] /\ write_ops'[d] = write_ops[d]
      BY Zenon, <2>2, <2>5, ClearOwn
    <3>2. rcv_wnd'[d] = rcv_wnd[d] /\ rcvd'[d] = rcvd[d]
      BY Zenon, <1>0, <2>5
    <3> QED BY Zenon, <1>3, <2>5, <3>1, <3>2 DEF Untouched
  <2>6. CASE /\ ProxyTcpPacket(c, <<rcvd[c], rcvd[c] + n>>)
             /\ rcv_wnd' = [rcv_wnd EXCEPT ![c] = rcv_wnd[c] - n]
             /\ rcvd' = [rcvd EXCEPT ![c] = @ + n]
             /\ UNCHANGED <<state, callback_arg, snd_buf, snd_nxt, wnd, unsent, unacked,
                            fin, session_map, status, should_read_from_remote,
                            remote_recv_buff, nread, credited, upstream,
                            bytes_read, downstream, acked, remote, fault>>
    <3>1. rcv_wnd'[d] = rcv_wnd[d] /\ rcvd'[d] = rcvd[d]
      BY Zenon, <1>0, <2>6
    <3>2. /\ pbuf_queue'[d] = pbuf_queue[d] /\ remote_sending'[d] = remote_sending[d]
          /\ pc'[d] = pc[d] /\ op'[d] = op[d] /\ wr'[d] = wr[d]
          /\ write_ops'[d] = write_ops[d]
      <4>1. CASE status[c] # "RELAYING" \/ remote_sending[c]
        BY Zenon, <1>0, <2>6, <4>1 DEF ProxyTcpPacket
      <4>2. CASE ~(status[c] # "RELAYING" \/ remote_sending[c])
        <5>1. /\ remote_sending' = [remote_sending EXCEPT ![c] = TRUE]
              /\ StartWrite(c, "up", Append(pbuf_queue[c], <<rcvd[c], rcvd[c] + n>>))
          BY Zenon, <2>6, <4>2 DEF ProxyTcpPacket
        <5>2. "up" \in Writers
          BY DEF Writers
        <5>3. remote_sending'[d] = remote_sending[d]
          BY Zenon, <1>0, <5>1
        <5> QED BY Zenon, <5>1, <5>2, <5>3, StartWriteOwn
      <4> QED BY Zenon, <4>1, <4>2
    <3> QED BY Zenon, <2>6, <3>1, <3>2 DEF Untouched
  <2> QED BY Zenon, <2>3, <2>4, <2>5, <2>6
<1>5. ASSUME NEW v \in Windows, RecvAck(c, v)
      PROVE  Untouched(d)
  <2>1. CASE Crash("freed_session")
    BY Zenon, <2>1 DEF Crash, Untouched, pcbVars, sessVars, coVars, endVars
  <2>2. CASE ~Crash("freed_session")
    <3>1. acked'[d] = acked[d] /\ snd_buf'[d] = snd_buf[d]
      BY ZenonT(60), <1>0, <1>5, <2>2 DEF RecvAck
    <3>2. UNCHANGED <<callback_arg, rcv_wnd, session_map, status, pbuf_queue,
                      remote_sending, remote_recv_buff, wr, nread, write_ops, rcvd,
                      credited, upstream, bytes_read, remote, fault>>
      BY Zenon, <1>5, <2>2 DEF RecvAck, sessVars, coVars
    <3>3. CASE FreePcb(c) /\ UNCHANGED <<wnd, should_read_from_remote, pc, op>>
      BY Zenon, <1>3, <3>1, <3>2, <3>3 DEF Untouched
    <3>4. CASE ~(FreePcb(c) /\ UNCHANGED <<wnd, should_read_from_remote, pc, op>>)
      <4>1. /\ wnd' = [wnd EXCEPT ![c] = v] /\ UNCHANGED state
            /\ ReadFromRemote(c) \/ UNCHANGED <<should_read_from_remote, pc, op>>
            /\ TcpOutput(c, unsent[c], Tail(unacked[c]), fin[c], remote_recv_buff[c])
        BY Zenon, <1>5, <2>2, <3>4 DEF RecvAck, sessVars, coVars
      <4>2. /\ wnd'[d] = wnd[d] /\ pc'[d] = pc[d] /\ op'[d] = op[d]
            /\ should_read_from_remote'[d] = should_read_from_remote[d]
        <5>1. wnd'[d] = wnd[d]
          BY Zenon, <1>0, <4>1
        <5>2. CASE UNCHANGED <<should_read_from_remote, pc, op>>
          BY Zenon, <5>1, <5>2
        <5>3. CASE ~UNCHANGED <<should_read_from_remote, pc, op>>
          <6>1. /\ should_read_from_remote' = [should_read_from_remote EXCEPT ![c] = TRUE]
                /\ pc' = [pc EXCEPT ![c]["down"] = "read"]
                /\ op' = [op EXCEPT ![c]["down"] = "pending"]
            BY Zenon, <4>1, <5>3 DEF ReadFromRemote
          <6> QED BY Zenon, <1>0, <5>1, <6>1
        <5> QED BY Zenon, <5>2, <5>3
      <4>3. /\ unsent'[d] = unsent[d] /\ unacked'[d] = unacked[d]
            /\ snd_nxt'[d] = snd_nxt[d] /\ fin'[d] = fin[d]
            /\ downstream'[d] = downstream[d]
        BY Zenon, <4>1, OutputOwn
      <4> QED BY Zenon, <3>1, <3>2, <4>1, <4>2, <4>3 DEF Untouched
    <3> QED BY Zenon, <3>3, <3>4
  <2> QED BY Zenon, <2>1, <2>2
<1>6. ASSUME NEW v \in Windows, RecvWnd(c, v)
      PROVE  Untouched(d)
  <2>1. /\ wnd' = [wnd EXCEPT ![c] = v]
        /\ UNCHANGED <<snd_buf, session_map, pc, acked, state, callback_arg, rcv_wnd, status,
                       pbuf_queue, remote_sending, should_read_from_remote,
                       remote_recv_buff, op, wr, nread, write_ops, rcvd, credited,
                       upstream, bytes_read, remote, fault>>
        /\ \E b \in Buffers(c) : TcpOutput(c, unsent[c], unacked[c], fin[c], b)
    BY Zenon, <1>6 DEF RecvWnd, sessVars
  <2>2. wnd'[d] = wnd[d]
    BY Zenon, <1>0, <2>1
  <2>3. /\ unsent'[d] = unsent[d] /\ unacked'[d] = unacked[d]
        /\ snd_nxt'[d] = snd_nxt[d] /\ fin'[d] = fin[d]
        /\ downstream'[d] = downstream[d]
    BY Zenon, <2>1, OutputOwn
  <2> QED BY Zenon, <2>1, <2>2, <2>3 DEF Untouched
<1>7. CASE RecvFin(c)
  <2>1. /\ state[c] = "ESTABLISHED" /\ Clear(c)
        /\ UNCHANGED <<rcv_wnd, snd_buf, wnd, pbuf_queue, remote_sending,
                       should_read_from_remote, remote_recv_buff, pc, wr, nread,
                       rcvd, credited, upstream, bytes_read, acked, remote,
                       fault>>
        /\ \/ FreePcb(c)
           \/ /\ state' = [state EXCEPT ![c] = "LAST_ACK"]
              /\ \E b \in Buffers(c) :
                     TcpOutput(c, unsent[c], unacked[c], "unsent", b)
    BY Zenon, <1>7 DEF RecvFin
  <2>2. Active(c)
    BY Zenon, <2>1 DEF Active
  <2>3. /\ status'[d] = status[d] /\ callback_arg'[d] = callback_arg[d]
        /\ op'[d] = op[d] /\ write_ops'[d] = write_ops[d]
    BY Zenon, <2>1, <2>2, ClearOwn
  <2>4. state'[d] = state[d]
    BY Zenon, <1>0, <1>3, <2>1
  <2>5. /\ unsent'[d] = unsent[d] /\ unacked'[d] = unacked[d]
        /\ snd_nxt'[d] = snd_nxt[d] /\ fin'[d] = fin[d]
        /\ downstream'[d] = downstream[d]
    BY Zenon, <1>3, <2>1, OutputOwn
  <2> QED BY Zenon, <2>1, <2>3, <2>4, <2>5 DEF Untouched
<1>8. CASE RecvFinAck(c)
  <2>1. /\ FreePcb(c)
        /\ UNCHANGED <<callback_arg, rcv_wnd, snd_buf, wnd, session_map, sessVars,
                       coVars, rcvd, credited, upstream, bytes_read, acked,
                       remote, fault>>
    BY Zenon, <1>8 DEF RecvFinAck
  <2> QED BY Zenon, <1>3, <2>1 DEF Untouched, sessVars, coVars
<1>9. CASE RecvRst(c)
  <2>1. CASE Crash("freed_session")
    BY Zenon, <2>1 DEF Crash, Untouched, pcbVars, sessVars, coVars, endVars
  <2>2. CASE ~Crash("freed_session")
    <3>1. /\ Active(c) /\ FreePcb(c)
          /\ Clear(c) \/ UNCHANGED <<status, callback_arg, op, write_ops>>
          /\ UNCHANGED <<rcv_wnd, snd_buf, wnd, pbuf_queue, remote_sending,
                         should_read_from_remote, remote_recv_buff, pc, wr,
                         nread, rcvd, credited, upstream, bytes_read, acked,
                         remote, fault>>
      BY Zenon, <1>9, <2>2 DEF RecvRst
    <3>2. /\ status'[d] = status[d] /\ callback_arg'[d] = callback_arg[d]
          /\ op'[d] = op[d] /\ write_ops'[d] = write_ops[d]
      BY Zenon, <3>1, ClearOwn
    <3> QED BY Zenon, <1>3, <3>1, <3>2 DEF Untouched
  <2> QED BY Zenon, <2>1, <2>2
<1> QED BY Zenon, <1>1, <1>2, <1>4, <1>5, <1>6, <1>7, <1>8, <1>9 DEF Local
\* What completions for one session change
LEMMA KernelOwn ==
    ASSUME TypeOK, NEW c \in Conns, Kernel(c), NEW d \in Conns, d # c
    PROVE  Untouched(d)
<1>0. /\ pc \in [Conns -> [Coroutines -> PCs]] /\ op \in [Conns -> [Coroutines -> Ops]]
      /\ wr \in [Conns -> [Writers -> [lo : Nat, pos : Nat, hi : Nat]]]
      /\ nread \in [Conns -> [Readers -> 0 .. ReadMax]]
      /\ write_ops \in [Conns -> Seq(Writers)]
      /\ remote_recv_buff \in [Conns -> [1 .. ReadMax -> Nat]]
      /\ upstream \in [Conns -> Seq(Nat)] /\ bytes_read \in [Conns -> Nat]
      /\ remote \in [Conns -> {"open", "closed", "reset"}]
  BY Zenon DEF TypeOK, SessionTypeOK, CoroutineTypeOK, EndTypeOK
<1>1. ASSUME NEW res \in {"ok", "bad", "err"}, CompleteHandshake(c, res)
      PROVE  Untouched(d)
  BY Zenon, <1>0, <1>1 DEF CompleteHandshake, Untouched, pcbVars, sessVars, endVars
<1>2. ASSUME NEW r \in Readers, NEW n \in 1 .. ReadMax, CompleteRead(c, r, n)
      PROVE  Untouched(d)
  <2>1. /\ op'[d] = op[d] /\ nread'[d] = nread[d]
        /\ remote_recv_buff'[d] = remote_recv_buff[d] /\ bytes_read'[d] = bytes_read[d]
    BY Zenon, <1>0, <1>2 DEF CompleteRead
  <2> QED BY Zenon, <1>2, <2>1 DEF CompleteRead, Untouched, pcbVars
<1>3. CASE RemoteClose(c)
  BY Zenon, <1>0, <1>3 DEF RemoteClose, Untouched, pcbVars, sessVars, coVars
<1>4. ASSUME NEW r \in Readers, FailRead(c, r)
      PROVE  Untouched(d)
  BY Zenon, <1>0, <1>4 DEF FailRead, Untouched, pcbVars, sessVars, endVars
<1>5. ASSUME NEW k \in 1 .. SegMax, CompleteWrite(c, k)
      PROVE  Untouched(d)
  <2>1. /\ op'[d] = op[d] /\ wr'[d] = wr[d] /\ write_ops'[d] = write_ops[d]
        /\ upstream'[d] = upstream[d]
    BY Zenon, <1>0, <1>5 DEF CompleteWrite
  <2> QED BY Zenon, <1>5, <2>1 DEF CompleteWrite, Untouched, pcbVars, sessVars
<1>6. CASE FailWrite(c)
  <2>1. remote'[d] = remote[d] /\ op'[d] = op[d] /\ write_ops'[d] = write_ops[d]
    BY Zenon, <1>0, <1>6 DEF FailWrite
  <2> QED BY Zenon, <1>6, <2>1 DEF FailWrite, Untouched, pcbVars, sessVars
<1> QED BY Zenon, <1>1, <1>2, <1>3, <1>4, <1>5, <1>6
        DEF Kernel, ServerAnswers, ServerReads, ServerSends

\* What the coroutines of one session change
LEMMA CoroutineOwn ==
    ASSUME TypeOK, NEW c \in Conns, NEW d \in Conns, d # c,
           \/ HandshakeStep(c) \/ StartFails(c) \/ EnterRelaying(c) \/ DrainStep(c)
           \/ UpStep(c) \/ UpFails(c) \/ \E w \in Writers : WriteMore(c, w)
           \/ ReadFails(c) \/ \E r \in Readers : ReadStep(c, r)
    PROVE  Untouched(d)
<1>0. /\ pc \in [Conns -> [Coroutines -> PCs]] /\ op \in [Conns -> [Coroutines -> Ops]]
      /\ wr \in [Conns -> [Writers -> [lo : Nat, pos : Nat, hi : Nat]]]
      /\ write_ops \in [Conns -> Seq(Writers)] /\ status \in [Conns -> Statuses]
      /\ pbuf_queue \in [Conns -> Seq(Intervals)] /\ remote_sending \in [Conns -> BOOLEAN]
      /\ should_read_from_remote \in [Conns -> BOOLEAN]
      /\ rcv_wnd \in [Conns -> 0 .. TCP_WND] /\ snd_buf \in [Conns -> 0 .. TCP_SND_BUF]
      /\ credited \in [Conns -> Nat]
  BY Zenon DEF TypeOK, PcbTypeOK, SessionTypeOK, CoroutineTypeOK, EndTypeOK
<1>1. ASSUME NEW f, Crash(f)
      PROVE  Untouched(d)
  BY Zenon, <1>1 DEF Crash, Untouched, pcbVars, sessVars, coVars, endVars
<1>2. ASSUME DrainOrRead(c)
      PROVE  /\ pbuf_queue'[d] = pbuf_queue[d] /\ pc'[d] = pc[d] /\ op'[d] = op[d]
             /\ wr'[d] = wr[d] /\ write_ops'[d] = write_ops[d]
  <2>1. "start" \in Writers
    BY DEF Writers
  <2>2. CASE StartWrite(c, "start", pbuf_queue[c])
    BY Zenon, <2>1, <2>2, StartWriteOwn
  <2>3. CASE ~StartWrite(c, "start", pbuf_queue[c])
    BY Zenon, <1>0, <1>2, <2>3 DEF DrainOrRead
  <2> QED BY Zenon, <2>2, <2>3
<1>3. ASSUME NEW n, TcpRecved(c, n)
      PROVE  rcv_wnd'[d] = rcv_wnd[d] /\ credited'[d] = credited[d]
  BY Zenon, <1>0, <1>3 DEF TcpRecved
<1>4. ASSUME NEW r \in Readers, ReaderReturns(c, r)
      PROVE  pc'[d] = pc[d] /\ op'[d] = op[d] /\ status'[d] = status[d]
  BY Zenon, <1>0, <1>4 DEF ReaderReturns
<1>5. ASSUME UpReturns(c)
      PROVE  pc'[d] = pc[d] /\ op'[d] = op[d] /\ wr'[d] = wr[d]
  BY Zenon, <1>0, <1>5 DEF UpReturns
<1>6. CASE HandshakeStep(c)
  <2>1. CASE ~Crash("freed_pcb")
    <3>1. pc'[d] = pc[d] /\ op'[d] = op[d] /\ status'[d] = status[d]
      BY ZenonT(60), <1>0, <1>6, <2>1 DEF HandshakeStep
    <3> QED BY Zenon, <1>6, <2>1, <3>1 DEF HandshakeStep, Untouched, pcbVars, endVars
  <2> QED BY Zenon, <1>1, <2>1
<1>7. CASE StartFails(c)
  <2>1. /\ pc'[d] = pc[d] /\ op'[d] = op[d] /\ status'[d] = status[d]
        /\ wr'[d] = wr[d]
    BY Zenon, <1>0, <1>7 DEF StartFails
  <2> QED BY Zenon, <1>7, <2>1 DEF StartFails, Untouched, pcbVars, endVars
<1>8. CASE EnterRelaying(c)
  <2>1. CASE ~Crash("freed_pcb")
    <3>1. status'[d] = status[d] /\ DrainOrRead(c)
      BY Zenon, <1>0, <1>8, <2>1 DEF EnterRelaying
    <3> QED BY Zenon, <1>2, <1>8, <2>1, <3>1 DEF EnterRelaying, Untouched, pcbVars, endVars
  <2> QED BY Zenon, <1>1, <2>1
<1>9. CASE DrainStep(c)
  <2>1. CASE status[c] = "CLOSE"
    <3>1. pc'[d] = pc[d] /\ op'[d] = op[d] /\ wr'[d] = wr[d]
      BY Zenon, <1>0, <1>9, <2>1 DEF DrainStep
    <3> QED BY Zenon, <1>9, <2>1, <3>1 DEF DrainStep, Untouched, pcbVars, sessVars, endVars
  <2>2. CASE status[c] # "CLOSE" /\ state[c] # "FREED"
    BY Zenon, <1>2, <1>3, <1>9, <2>2 DEF DrainStep, Untouched
  <2>3. CASE status[c] # "CLOSE" /\ state[c] = "FREED"
    BY Zenon, <1>1, <1>9, <2>3 DEF DrainStep
  <2> QED BY Zenon, <2>1, <2>2, <2>3
<1>10. CASE UpStep(c)
  <2>1. CASE status[c] = "CLOSE"
    BY Zenon, <1>5, <1>10, <2>1 DEF UpStep, Untouched, pcbVars, sessVars, endVars
  <2>2. CASE status[c] # "CLOSE" /\ state[c] # "FREED"
    <3>1. /\ pbuf_queue'[d] = pbuf_queue[d] /\ pc'[d] = pc[d] /\ op'[d] = op[d]
          /\ wr'[d] = wr[d] /\ write_ops'[d] = write_ops[d]
          /\ remote_sending'[d] = remote_sending[d]
      <4>1. "up" \in Writers
        BY DEF Writers
      <4>2. \/ StartWrite(c, "up", pbuf_queue[c]) /\ UNCHANGED remote_sending
            \/ /\ UpReturns(c) /\ UNCHANGED <<pbuf_queue, write_ops>>
               /\ remote_sending' = [remote_sending EXCEPT ![c] = FALSE]
        BY Zenon, <1>10, <2>2 DEF UpStep
      <4> QED BY Zenon, <1>0, <1>5, <4>1, <4>2, StartWriteOwn
    <3> QED BY Zenon, <1>3, <1>10, <2>2, <3>1 DEF UpStep, Untouched
  <2>3. CASE status[c] # "CLOSE" /\ state[c] = "FREED"
    BY Zenon, <1>1, <1>10, <2>3 DEF UpStep
  <2> QED BY Zenon, <2>1, <2>2, <2>3
<1>11. CASE UpFails(c)
  <2>1. status'[d] = status[d]
    BY Zenon, <1>0, <1>11 DEF UpFails
  <2> QED BY Zenon, <1>5, <1>11, <2>1 DEF UpFails, Untouched, pcbVars, endVars
<1>12. ASSUME NEW w \in Writers, WriteMore(c, w)
       PROVE  Untouched(d)
  <2>1. op'[d] = op[d] /\ write_ops'[d] = write_ops[d]
    BY Zenon, <1>0, <1>12 DEF WriteMore
  <2> QED BY Zenon, <1>12, <2>1 DEF WriteMore, Untouched, pcbVars, sessVars, endVars
<1>13. CASE ReadFails(c)
  <2>1. "down" \in Readers
    BY DEF Readers
  <2> QED BY Zenon, <1>4, <1>13, <2>1 DEF ReadFails, Untouched, pcbVars, endVars
<1>14. ASSUME NEW r \in Readers, ReadStep(c, r)
       PROVE  Untouched(d)
  <2>1. CASE status[c] = "CLOSE"
    BY Zenon, <1>4, <1>14, <2>1 DEF ReadStep, Untouched, pcbVars, endVars
  <2>2. CASE status[c] # "CLOSE" /\ state[c] # "FREED"
    <3>1. /\ UNCHANGED <<acked, wnd, state, callback_arg, rcv_wnd, session_map, pbuf_queue,
                         remote_sending, remote_recv_buff, wr, nread, write_ops,
                         rcvd, credited, upstream, bytes_read, remote, fault>>
          /\ \/ /\ should_read_from_remote' =
                        [should_read_from_remote EXCEPT ![c] = FALSE]
                /\ ReaderReturns(c, r)
             \/ /\ op' = [op EXCEPT ![c][r] = "pending"]
                /\ UNCHANGED <<should_read_from_remote, pc, status>>
          /\ \E q : TcpOutput(c, q, unacked[c], fin[c], remote_recv_buff[c])
      BY Zenon, <1>14, <2>2 DEF ReadStep
    <3>2. snd_buf'[d] = snd_buf[d]
      BY ZenonT(30), <1>0, <1>14, <2>2 DEF ReadStep
    <3>3. /\ unsent'[d] = unsent[d] /\ unacked'[d] = unacked[d]
          /\ snd_nxt'[d] = snd_nxt[d] /\ fin'[d] = fin[d]
          /\ downstream'[d] = downstream[d]
      BY Zenon, <3>1, OutputOwn
    <3>4. /\ should_read_from_remote'[d] = should_read_from_remote[d]
          /\ pc'[d] = pc[d] /\ op'[d] = op[d] /\ status'[d] = status[d]
      BY Zenon, <1>0, <1>4, <3>1
    <3> QED BY Zenon, <3>1, <3>2, <3>3, <3>4 DEF Untouched
  <2>3. CASE status[c] # "CLOSE" /\ state[c] = "FREED"
    BY Zenon, <1>1, <1>14, <2>3 DEF ReadStep
  <2> QED BY Zenon, <2>1, <2>2, <2>3
<1> QED BY Zenon, <1>6, <1>7, <1>8, <1>9, <1>10, <1>11, <1>12, <1>13, <1>14

\* A step of one connection leaves every other one as it is.
LEMMA IsolationStep ==
    ASSUME TypeOK, MapInv, Next
    PROVE  \E c \in Conns : \A d \in Conns \ {c} : Untouched(d)
<1>1. PICK c \in Conns :
           \/ Local(c) \/ Kernel(c)
           \/ HandshakeStep(c) \/ StartFails(c) \/ EnterRelaying(c) \/ DrainStep(c)
           \/ UpStep(c) \/ UpFails(c) \/ \E w \in Writers : WriteMore(c, w)
           \/ ReadFails(c) \/ \E r \in Readers : ReadStep(c, r)
  BY Zenon, StepCases
<1>2. ASSUME NEW d \in Conns, d # c
      PROVE  Untouched(d)
  BY Zenon, <1>1, <1>2, LocalOwn, KernelOwn, CoroutineOwn
<1>3. \A d \in Conns \ {c} : Untouched(d)
  BY Zenon, <1>2
<1> QED BY Zenon, <1>3

\* A step that changes no pcb state and no entry, and starts nothing for a
\* connection that was not accepted
LEMMA MapFrame ==
    ASSUME MapInv, UNCHANGED <<state, callback_arg, session_map>>,
           fault' = fault \/ fault' \in {"freed_pcb", "freed_session"},
           \A d \in Conns : state[d] \in {"NONE", "SYN_RCVD"} =>
               pc'[d]["start"] = pc[d]["start"] /\ pc'[d]["down"] = pc[d]["down"]
    PROVE  MapInv'
<1>1. fault' \notin {"handle_assert", "accept_assert"}
  BY SMTT(30) DEF MapInv, MapMatchesPcbs
<1>2. MapMatchesPcbs'
  BY Zenon, <1>1 DEF MapInv, MapMatchesPcbs
<1>3. \A d \in Conns : Active(d)' <=> Active(d)
  BY Zenon DEF Active
<1>4. \A d, e \in Conns :
          Active(d)' /\ Active(e)' /\ TupleOf[d] = TupleOf[e] => d = e
  BY Zenon, <1>3 DEF MapInv
<1>5. \A d \in Conns :
          state'[d] \in {"NONE", "SYN_RCVD"} =>
              pc'[d]["start"] = "idle" /\ pc'[d]["down"] = "idle"
  BY Zenon DEF MapInv
<1> QED BY Zenon, <1>2, <1>4, <1>5 DEF MapInv

\* A pcb leaves ESTABLISHED, or ends, together with the entry of its 4-tuple.
LEMMA MapEnd ==
    ASSUME TypeOK, MapInv, NEW c \in Conns, Active(c),
           session_map' = [session_map EXCEPT ![TupleOf[c]] = NoConn],
           state'[c] \in {"LAST_ACK", "FREED"}, UNCHANGED <<pc, fault>>,
           \A d \in Conns : d # c =>
               state'[d] = state[d] /\ callback_arg'[d] = callback_arg[d]
    PROVE  MapInv'
<1>1. /\ session_map \in [Tuples -> Conns \cup {NoConn}]
      /\ \A d \in Conns : TupleOf[d] \in Tuples /\ d # NoConn
  BY Zenon, ConnAssumption DEF TypeOK
<1>2. /\ session_map'[TupleOf[c]] = NoConn
      /\ \A t \in Tuples : t # TupleOf[c] => session_map'[t] = session_map[t]
  BY Zenon, <1>1
<1>3. state'[c] # "ESTABLISHED" /\ state'[c] \notin {"NONE", "SYN_RCVD"}
  BY SMTT(30)
<1>4. ASSUME NEW d \in Conns, d # c, TupleOf[d] = TupleOf[c]
      PROVE  state[d] # "ESTABLISHED"
  <2>1. ~Active(d)
    BY Zenon, <1>4 DEF MapInv
  <2> QED BY SMTT(30), <2>1 DEF Active
<1>5. ASSUME NEW d \in Conns
      PROVE  state'[d] = "ESTABLISHED" <=> session_map'[TupleOf[d]] = d
  <2>1. CASE TupleOf[d] = TupleOf[c]
    BY Zenon, <1>1, <1>2, <1>3, <1>4, <2>1
  <2>2. CASE TupleOf[d] # TupleOf[c]
    <3>1. state'[d] = state[d] /\ session_map'[TupleOf[d]] = session_map[TupleOf[d]]
      BY Zenon, <1>1, <1>2, <2>2
    <3>2. state[d] = "ESTABLISHED" <=> session_map[TupleOf[d]] = d
      BY Zenon DEF MapInv, MapMatchesPcbs
    <3> QED BY Zenon, <3>1, <3>2
  <2> QED BY Zenon, <2>1, <2>2
<1>6. ASSUME NEW t \in Tuples, session_map'[t] # NoConn
      PROVE  TupleOf[session_map'[t]] = t
  <2>1. t # TupleOf[c] /\ session_map'[t] = session_map[t]
    BY Zenon, <1>2, <1>6
  <2> QED BY ZenonT(60), <1>6, <2>1 DEF MapInv, MapMatchesPcbs
<1>7. ASSUME NEW d \in Conns, state'[d] = "ESTABLISHED"
      PROVE  callback_arg'[d]
  <2>1. state[d] = "ESTABLISHED" /\ callback_arg'[d] = callback_arg[d]
    BY Zenon, <1>3, <1>7
  <2>2. callback_arg[d]
    BY Zenon, <2>1 DEF MapInv, MapMatchesPcbs
  <2> QED BY SMTT(30), <2>1, <2>2
<1>8. MapMatchesPcbs'
  BY Zenon, <1>5, <1>6, <1>7 DEF MapInv, MapMatchesPcbs
<1>9. \A d \in Conns : Active(d)' => Active(d)
  BY Zenon DEF Active
<1>10. \A d, e \in Conns :
           Active(d)' /\ Active(e)' /\ TupleOf[d] = TupleOf[e] => d = e
  BY Zenon, <1>9 DEF MapInv
<1>11. \A d \in Conns :
           state'[d] \in {"NONE", "SYN_RCVD"} =>
               pc'[d]["start"] = "idle" /\ pc'[d]["down"] = "idle"
  BY Zenon, <1>3 DEF MapInv
<1> QED BY Zenon, <1>8, <1>10, <1>11 DEF MapInv

\* An entry that is not there need not be taken out.
LEMMA MapNoEntry ==
    ASSUME TypeOK, MapInv, NEW c \in Conns, Active(c), state[c] # "ESTABLISHED",
           UNCHANGED session_map
    PROVE  session_map' = [session_map EXCEPT ![TupleOf[c]] = NoConn]
<1>1. session_map[TupleOf[c]] = NoConn
  BY Zenon, MapEntry
<1>2. session_map \in [Tuples -> Conns \cup {NoConn}] /\ TupleOf[c] \in Tuples
  BY Zenon, ConnAssumption DEF TypeOK
<1> QED BY <1>1, <1>2

\* Segments from the application keep map and pcbs together.
LEMMA LocalMap ==
    ASSUME TypeOK, MapInv, NEW c \in Conns, Local(c)
    PROVE  MapInv'
<1>0. /\ state \in [Conns -> PcbStates] /\ callback_arg \in [Conns -> BOOLEAN]
      /\ session_map \in [Tuples -> Conns \cup {NoConn}]
      /\ pc \in [Conns -> [Coroutines -> PCs]]
      /\ \A d \in Conns : TupleOf[d] \in Tuples /\ d # NoConn
  BY Zenon, ConnAssumption DEF TypeOK, PcbTypeOK, CoroutineTypeOK
<1>1. CASE RecvSyn(c)
  <2>1. /\ state[c] = "NONE" /\ state' = [state EXCEPT ![c] = "SYN_RCVD"]
        /\ \A d \in Conns : TupleOf[d] = TupleOf[c] => ~Active(d)
        /\ UNCHANGED <<callback_arg, session_map, pc, fault>>
    BY Zenon, <1>1 DEF RecvSyn, coVars
  <2>2. state'[c] = "SYN_RCVD" /\ \A d \in Conns : d # c => state'[d] = state[d]
    BY Zenon, <1>0, <2>1
  <2>3. \A d \in Conns : state'[d] = "ESTABLISHED" <=> state[d] = "ESTABLISHED"
    BY <2>1, <2>2
  <2>4. MapMatchesPcbs'
    BY Zenon, <2>1, <2>3 DEF MapInv, MapMatchesPcbs
  <2>5. \A d \in Conns : d # c => (Active(d)' <=> Active(d))
    BY Zenon, <2>2 DEF Active
  <2>6. \A d, e \in Conns :
            Active(d)' /\ Active(e)' /\ TupleOf[d] = TupleOf[e] => d = e
    BY Zenon, <2>1, <2>5 DEF MapInv
  <2>7. pc[c]["start"] = "idle" /\ pc[c]["down"] = "idle"
    BY Zenon, <2>1 DEF MapInv
  <2>8. \A d \in Conns :
            state'[d] \in {"NONE", "SYN_RCVD"} =>
                pc'[d]["start"] = "idle" /\ pc'[d]["down"] = "idle"
    BY Zenon, <2>1, <2>2, <2>7 DEF MapInv
  <2> QED BY Zenon, <2>4, <2>6, <2>8 DEF MapInv
<1>2. CASE RecvHandshakeAck(c)
  <2>1. state[c] = "SYN_RCVD"
    BY Zenon, <1>2 DEF RecvHandshakeAck
  <2>2. Active(c) /\ state[c] # "ESTABLISHED"
    BY <2>1 DEF Active
  <2>3. session_map[TupleOf[c]] = NoConn
    BY Zenon, <2>2, MapEntry
  <2>4. /\ \E opened \in BOOLEAN : NewSession(c, opened)
        /\ state' = [state EXCEPT ![c] = "ESTABLISHED"] /\ UNCHANGED fault
    BY Zenon, <1>2, <2>3 DEF RecvHandshakeAck
  <2>5. state'[c] = "ESTABLISHED" /\ \A d \in Conns : d # c => state'[d] = state[d]
    BY Zenon, <1>0, <2>4
  <2>6. /\ callback_arg' = [callback_arg EXCEPT ![c] = TRUE]
        /\ session_map' = [session_map EXCEPT ![TupleOf[c]] = c]
    BY Zenon, <2>4 DEF NewSession
  <2>7. /\ callback_arg'[c]
        /\ \A d \in Conns : d # c => callback_arg'[d] = callback_arg[d]
    BY Zenon, <1>0, <2>6
  <2>8. /\ session_map'[TupleOf[c]] = c
        /\ \A t \in Tuples : t # TupleOf[c] => session_map'[t] = session_map[t]
    BY Zenon, <1>0, <2>6
  <2>9. \A d \in Conns : d # c => pc'[d] = pc[d]
    BY ZenonT(30), <1>0, <2>4 DEF NewSession
  <2>10. ASSUME NEW d \in Conns
         PROVE  state'[d] = "ESTABLISHED" <=> session_map'[TupleOf[d]] = d
    <3>1. CASE d = c
      BY Zenon, <2>5, <2>8, <3>1
    <3>2. CASE d # c /\ TupleOf[d] = TupleOf[c]
      <4>1. ~Active(d)
        BY Zenon, <2>2, <3>2 DEF MapInv
      <4>2. state[d] # "ESTABLISHED"
        BY <4>1 DEF Active
      <4> QED BY Zenon, <2>5, <2>8, <3>2, <4>2
    <3>3. CASE TupleOf[d] # TupleOf[c]
      <4>1. state'[d] = state[d] /\ session_map'[TupleOf[d]] = session_map[TupleOf[d]]
        BY Zenon, <1>0, <2>5, <2>8, <3>3
      <4>2. state[d] = "ESTABLISHED" <=> session_map[TupleOf[d]] = d
        BY Zenon DEF MapInv, MapMatchesPcbs
      <4> QED BY Zenon, <4>1, <4>2
    <3> QED BY Zenon, <3>1, <3>2, <3>3
  <2>11. ASSUME NEW t \in Tuples, session_map'[t] # NoConn
         PROVE  TupleOf[session_map'[t]] = t
    BY ZenonT(60), <1>0, <2>8, <2>11 DEF MapInv, MapMatchesPcbs
  <2>12. ASSUME NEW d \in Conns, state'[d] = "ESTABLISHED"
         PROVE  callback_arg'[d]
    <3>1. CASE d # c
      <4>1. state[d] = "ESTABLISHED" /\ callback_arg'[d] = callback_arg[d]
        BY Zenon, <2>5, <2>7, <2>12, <3>1
      <4>2. callback_arg[d]
        BY Zenon, <4>1 DEF MapInv, MapMatchesPcbs
      <4> QED BY SMT, <4>1, <4>2
    <3> QED BY Zenon, <2>7, <3>1
  <2>13. MapMatchesPcbs'
    BY Zenon, <2>4, <2>10, <2>11, <2>12 DEF MapInv, MapMatchesPcbs
  <2>14. \A d \in Conns : Active(d)' => Active(d)
    BY Zenon, <2>2, <2>5 DEF Active
  <2>15. \A d, e \in Conns :
             Active(d)' /\ Active(e)' /\ TupleOf[d] = TupleOf[e] => d = e
    BY Zenon, <2>14 DEF MapInv
  <2>16. state'[c] \notin {"NONE", "SYN_RCVD"}
    BY <2>5
  <2>17. \A d \in Conns :
             state'[d] \in {"NONE", "SYN_RCVD"} =>
                 pc'[d]["start"] = "idle" /\ pc'[d]["down"] = "idle"
    BY Zenon, <2>5, <2>9, <2>16 DEF MapInv
  <2> QED BY Zenon, <2>13, <2>15, <2>17 DEF MapInv
<1>3. ASSUME FreePcb(c)
      PROVE  state'[c] = "FREED" /\ \A d \in Conns : d # c => state'[d] = state[d]
  BY Zenon, <1>3, FreePcbEffect
<1>4. ASSUME NEW n \in 1 .. SegMax, RecvData(c, n)
      PROVE  MapInv'
  <2>1. state[c] = "ESTABLISHED"
    BY Zenon, <1>4 DEF RecvData
  <2>2. Active(c) /\ session_map[TupleOf[c]] = c /\ c # NoConn
    BY Zenon, <1>0, <2>1, MapEntry DEF Active
  <2>3. CASE Clear(c) /\ FreePcb(c) /\ UNCHANGED <<pc, fault>>
    <3>1. session_map' = [session_map EXCEPT ![TupleOf[c]] = NoConn]
          /\ \A d \in Conns : d # c => callback_arg'[d] = callback_arg[d]
      BY Zenon, <2>2, <2>3, ClearOwn
    <3> QED BY Zenon, <1>3, <2>2, <2>3, <3>1, MapEnd
  <2>4. CASE ~(Clear(c) /\ FreePcb(c) /\ UNCHANGED <<pc, fault>>)
    <3>1. /\ ProxyTcpPacket(c, <<rcvd[c], rcvd[c] + n>>)
          /\ UNCHANGED <<state, callback_arg, session_map, fault>>
      BY Zenon, <1>4, <2>2, <2>4 DEF RecvData
    <3>2. UNCHANGED pc \/ pc' = [pc EXCEPT ![c]["up"] = "write"]
      BY Zenon, <3>1 DEF ProxyTcpPacket, StartWrite
    <3>3. \A d \in Conns : pc'[d]["start"] = pc[d]["start"] /\ pc'[d]["down"] = pc[d]["down"]
      BY SMTT(30), <1>0, <3>2 DEF Coroutines
    <3> QED BY Zenon, <3>1, <3>3, MapFrame
  <2> QED BY Zenon, <2>3, <2>4
<1>5. ASSUME NEW v \in Windows, RecvAck(c, v)
      PROVE  MapInv'
  <2>1. state[c] \in {"ESTABLISHED", "LAST_ACK"}
    BY Zenon, <1>5 DEF RecvAck
  <2>2. Active(c) /\ state[c] \notin {"NONE", "SYN_RCVD"}
    BY <2>1 DEF Active
  <2>3. CASE Crash("freed_session")
    <3>1. UNCHANGED <<state, callback_arg, session_map, pc>> /\ fault' = "freed_session"
      BY Zenon, <2>3 DEF Crash, pcbVars, coVars
    <3> QED BY Zenon, <3>1, MapFrame
  <2>4. CASE ~callback_arg[c]
    <3>1. FreePcb(c) /\ UNCHANGED <<callback_arg, session_map, pc, fault>>
      BY Zenon, <1>5, <2>4 DEF RecvAck, coVars
    <3>2. state[c] # "ESTABLISHED"
      BY Zenon, <2>4 DEF MapInv, MapMatchesPcbs
    <3>3. session_map' = [session_map EXCEPT ![TupleOf[c]] = NoConn]
      BY Zenon, <2>2, <3>1, <3>2, MapNoEntry
    <3> QED BY Zenon, <1>3, <2>2, <3>1, <3>3, MapEnd
  <2>5. CASE callback_arg[c] /\ ~Crash("freed_session")
    <3>1. /\ UNCHANGED <<state, callback_arg, session_map, fault>>
          /\ ReadFromRemote(c) \/ UNCHANGED pc
      BY Zenon, <1>5, <2>5 DEF RecvAck
    <3>2. UNCHANGED pc \/ pc' = [pc EXCEPT ![c]["down"] = "read"]
      BY Zenon, <3>1 DEF ReadFromRemote
    <3>3. \A d \in Conns : d # c => pc'[d] = pc[d]
      BY Zenon, <1>0, <3>2
    <3> QED BY Zenon, <2>2, <3>1, <3>3, MapFrame
  <2> QED BY Zenon, <2>3, <2>4, <2>5
<1>6. ASSUME NEW v \in Windows, RecvWnd(c, v)
      PROVE  MapInv'
  <2>1. UNCHANGED <<state, callback_arg, session_map, pc, fault>>
    BY Zenon, <1>6 DEF RecvWnd
  <2> QED BY Zenon, <2>1, MapFrame
<1>7. CASE RecvFin(c)
  <2>1. /\ state[c] = "ESTABLISHED" /\ Clear(c) /\ UNCHANGED <<pc, fault>>
        /\ FreePcb(c) \/ state' = [state EXCEPT ![c] = "LAST_ACK"]
    BY Zenon, <1>7 DEF RecvFin
  <2>2. Active(c)
    BY <2>1 DEF Active
  <2>3. /\ session_map' = [session_map EXCEPT ![TupleOf[c]] = NoConn]
        /\ \A d \in Conns : d # c => callback_arg'[d] = callback_arg[d]
    BY Zenon, <2>1, <2>2, ClearOwn
  <2>4. /\ state'[c] \in {"LAST_ACK", "FREED"}
        /\ \A d \in Conns : d # c => state'[d] = state[d]
    BY Zenon, <1>0, <1>3, <2>1
  <2> QED BY Zenon, <2>1, <2>2, <2>3, <2>4, MapEnd
<1>8. CASE RecvFinAck(c)
  <2>1. /\ state[c] = "LAST_ACK" /\ FreePcb(c)
        /\ UNCHANGED <<callback_arg, session_map, pc, fault>>
    BY Zenon, <1>8 DEF RecvFinAck, coVars
  <2>2. Active(c) /\ state[c] # "ESTABLISHED"
    BY <2>1 DEF Active
  <2>3. session_map' = [session_map EXCEPT ![TupleOf[c]] = NoConn]
    BY Zenon, <2>1, <2>2, MapNoEntry
  <2> QED BY Zenon, <1>3, <2>1, <2>2, <2>3, MapEnd
<1>9. CASE RecvRst(c)
  <2>1. CASE Crash("freed_session")
    <3>1. UNCHANGED <<state, callback_arg, session_map, pc>> /\ fault' = "freed_session"
      BY Zenon, <2>1 DEF Crash, pcbVars, coVars
    <3> QED BY Zenon, <3>1, MapFrame
  <2>2. CASE ~Crash("freed_session")
    <3>1. /\ Active(c) /\ FreePcb(c) /\ UNCHANGED <<pc, fault>>
          /\ \/ Clear(c)
             \/ ~callback_arg[c] /\ UNCHANGED <<session_map, callback_arg>>
      BY Zenon, <1>9, <2>2 DEF RecvRst
    <3>2. CASE Clear(c)
      <4>1. /\ session_map' = [session_map EXCEPT ![TupleOf[c]] = NoConn]
            /\ \A d \in Conns : d # c => callback_arg'[d] = callback_arg[d]
        BY Zenon, <3>1, <3>2, ClearOwn
      <4> QED BY Zenon, <1>3, <3>1, <4>1, MapEnd
    <3>3. CASE ~callback_arg[c] /\ UNCHANGED <<session_map, callback_arg>>
      <4>1. state[c] # "ESTABLISHED"
        BY Zenon, <3>3 DEF MapInv, MapMatchesPcbs
      <4>2. session_map' = [session_map EXCEPT ![TupleOf[c]] = NoConn]
        BY Zenon, <3>1, <3>3, <4>1, MapNoEntry
      <4>3. \A d \in Conns : callback_arg'[d] = callback_arg[d]
        BY Zenon, <3>3
      <4>4. /\ state'[c] \in {"LAST_ACK", "FREED"}
            /\ \A d \in Conns : d # c => state'[d] = state[d]
        BY Zenon, <1>3, <3>1
      <4>5. UNCHANGED <<pc, fault>> /\ Active(c)
        BY Zenon, <3>1
      <4> QED BY Zenon, <4>2, <4>3, <4>4, <4>5, MapEnd
    <3> QED BY Zenon, <3>1, <3>2, <3>3
  <2> QED BY Zenon, <2>1, <2>2
<1> QED BY Zenon, <1>1, <1>2, <1>4, <1>5, <1>6, <1>7, <1>8, <1>9 DEF Local

\* Every step keeps map and pcbs together.
LEMMA MapStep ==
    ASSUME IndInv, Next
    PROVE  MapInv'
<1>1. PICK c \in Conns :
           \/ Local(c) \/ Kernel(c)
           \/ HandshakeStep(c) \/ StartFails(c) \/ EnterRelaying(c) \/ DrainStep(c)
           \/ UpStep(c) \/ UpFails(c) \/ \E w \in Writers : WriteMore(c, w)
           \/ ReadFails(c) \/ \E r \in Readers : ReadStep(c, r)
  BY Zenon, StepCases
<1>2. TypeOK /\ MapInv
  BY Zenon DEF IndInv
<1>3. pc \in [Conns -> [Coroutines -> PCs]]
  BY Zenon, <1>2 DEF TypeOK, CoroutineTypeOK
<1>4. CASE Local(c)
  BY Zenon, <1>2, <1>4, LocalMap
<1>5. CASE Kernel(c)
  <2>1. UNCHANGED <<state, callback_arg, session_map>>
    BY Zenon, <1>5, PcbFrame
  <2>2. UNCHANGED <<pc, fault>>
    BY Zenon, <1>5 DEF Kernel, ServerAnswers, ServerReads, ServerSends, CompleteHandshake,
       CompleteWrite, CompleteRead, FailWrite, RemoteClose, FailRead, coVars
  <2> QED BY Zenon, <1>2, <2>1, <2>2, MapFrame
<1>6. CASE UpStep(c) \/ UpFails(c) \/ \E w \in Writers : WriteMore(c, w)
  <2>1. UNCHANGED <<state, callback_arg, session_map>>
    BY Zenon, <1>6, PcbFrame
  <2>2. /\ fault' = fault \/ fault' = "freed_pcb"
        /\ UNCHANGED pc \/ \E p : pc' = [pc EXCEPT ![c]["up"] = p]
    BY Zenon, <1>6 DEF UpStep, UpFails, WriteMore, UpReturns, StartWrite, Crash, coVars
  <2>3. \A d \in Conns : pc'[d]["start"] = pc[d]["start"] /\ pc'[d]["down"] = pc[d]["down"]
    BY <1>3, <2>2 DEF Coroutines
  <2> QED BY Zenon, <1>2, <2>1, <2>2, <2>3, MapFrame
<1>7. CASE ReadFails(c)
  <2>1. UNCHANGED <<state, callback_arg, session_map>>
    BY Zenon, <1>7, PcbFrame
  <2>2. UNCHANGED fault /\ pc' = [pc EXCEPT ![c]["down"] = "idle"]
    BY SMTT(30), <1>7 DEF ReadFails, ReaderReturns
  <2>3. /\ \A d \in Conns : d # c => pc'[d] = pc[d]
        /\ pc'[c]["start"] = pc[c]["start"] /\ pc'[c]["down"] = "idle"
    BY <1>3, <2>2 DEF Coroutines
  <2>4. state[c] \in {"NONE", "SYN_RCVD"} => pc[c]["down"] = "idle"
    BY Zenon, <1>2 DEF MapInv
  <2> QED BY Zenon, <1>2, <2>1, <2>2, <2>3, <2>4, MapFrame
<1>8. CASE \/ HandshakeStep(c) \/ StartFails(c) \/ EnterRelaying(c) \/ DrainStep(c)
           \/ \E r \in Readers : ReadStep(c, r)
  <2>1. pc[c]["start"] # "idle" \/ pc[c]["down"] # "idle"
    BY Zenon, <1>8 DEF HandshakeStep, NextHandshake, StartFails, EnterRelaying, DrainStep, Written,
       ReadStep, Readers
  <2>2. state[c] \notin {"NONE", "SYN_RCVD"}
    BY Zenon, <1>2, <2>1 DEF MapInv
  <2>3. UNCHANGED <<state, callback_arg, session_map>>
    <3>1. ASSUME NEW r \in Readers, ReadStep(c, r)
          PROVE  UNCHANGED <<state, callback_arg, session_map>>
      BY Zenon, <3>1 DEF ReadStep, Crash, pcbVars
    <3> QED BY Zenon, <1>8, <3>1, PcbFrame
  <2>4. fault' = fault \/ fault' = "freed_pcb"
    BY Zenon, <1>8 DEF HandshakeStep, StartFails, EnterRelaying, DrainStep, ReadStep, Crash
  <2>5. \A d \in Conns : d # c => pc'[d] = pc[d]
    BY Zenon, <1>2, <1>8, CoroutineOwn DEF Untouched
  <2> QED BY Zenon, <1>2, <2>2, <2>3, <2>4, <2>5, MapFrame
<1> QED BY Zenon, <1>1, <1>4, <1>5, <1>6, <1>7, <1>8

-----------------------------------------------------------------------------
(* Downstream *)

\* A step that concerns one pcb disturbs the send queues of no other.
LEMMA SendFrame ==
    ASSUME SendInv, NEW c \in Conns,
           state'[c] # "FREED" =>
               /\ Chain(unacked'[c], acked'[c], snd_nxt'[c], ReadMax)
               /\ Chain(unsent'[c], snd_nxt'[c], WriteEnd(c)', ReadMax),
           \A d \in Conns : d # c =>
               /\ state'[d] = state[d] /\ unacked'[d] = unacked[d]
               /\ unsent'[d] = unsent[d] /\ snd_nxt'[d] = snd_nxt[d]
               /\ acked'[d] = acked[d] /\ snd_buf'[d] = snd_buf[d]
    PROVE  SendInv'
<1>1. ASSUME NEW d \in Conns, state'[d] # "FREED"
      PROVE  /\ Chain(unacked'[d], acked'[d], snd_nxt'[d], ReadMax)
             /\ Chain(unsent'[d], snd_nxt'[d], WriteEnd(d)', ReadMax)
  <2>1. CASE d = c
    BY Zenon, <1>1, <2>1
  <2>2. CASE d # c
    <3>1. /\ state[d] # "FREED" /\ unacked'[d] = unacked[d] /\ unsent'[d] = unsent[d]
          /\ snd_nxt'[d] = snd_nxt[d] /\ acked'[d] = acked[d]
      BY Zenon, <1>1, <2>2
    <3>2. WriteEnd(d)' = WriteEnd(d)
      BY Zenon, <2>2 DEF WriteEnd
    <3> QED BY Zenon, <3>1, <3>2 DEF SendInv
  <2> QED BY Zenon, <2>1, <2>2
<1> QED BY Zenon, <1>1 DEF SendInv

\* A step that leaves the pcbs and the acknowledgements alone
LEMMA SendStutter ==
    ASSUME SendInv, UNCHANGED <<state, unacked, unsent, snd_nxt, acked, snd_buf>>
    PROVE  SendInv'
<1>1. \A d \in Conns : WriteEnd(d)' = WriteEnd(d)
  BY Zenon DEF WriteEnd
<1> QED BY Zenon, <1>1 DEF SendInv

\* Freeing a pcb ends its obligations.
LEMMA SendFree ==
    ASSUME TypeOK, SendInv, NEW c \in Conns, FreePcb(c),
           \A d \in Conns : d # c => acked'[d] = acked[d] /\ snd_buf'[d] = snd_buf[d]
    PROVE  SendInv'
<1>1. /\ state'[c] = "FREED"
      /\ \A d \in Conns : d # c =>
             /\ state'[d] = state[d] /\ unacked'[d] = unacked[d]
             /\ unsent'[d] = unsent[d] /\ snd_nxt'[d] = snd_nxt[d]
  BY ZenonT(30), FreePcbEffect
<1> QED BY Zenon, <1>1, SendFrame

\* tcp_output with no new acknowledgement keeps the queues chains.
LEMMA SendOutput ==
    ASSUME TypeOK, SendInv, NEW c \in Conns, state[c] # "FREED",
           NEW f \in {"no", "unsent", "unacked"}, NEW b \in [1 .. ReadMax -> Nat],
           UNCHANGED <<acked, snd_buf>>,
           TcpOutput(c, unsent[c], unacked[c], f, b),
           \A d \in Conns : d # c => state'[d] = state[d]
    PROVE  SendInv'
<1>1. PICK una \in Seq(Intervals) : una = unacked[c]
  BY Zenon DEF TypeOK, PcbTypeOK
<1>2. PICK q \in Seq(Intervals) : q = unsent[c]
  BY Zenon DEF TypeOK, PcbTypeOK
<1>3. PICK hi \in Nat : hi = WriteEnd(c)
  BY Zenon, WriteEndType
<1>4. acked'[c] \in Nat /\ acked'[c] = acked[c] /\ WriteEnd(c)' = WriteEnd(c)
  BY Zenon DEF TypeOK, EndTypeOK, WriteEnd
<1>5. /\ Chain(una, acked'[c], snd_nxt[c], ReadMax)
      /\ Chain(q, snd_nxt[c], hi, ReadMax)
  BY Zenon, <1>1, <1>2, <1>3, <1>4 DEF SendInv
<1>6. TcpOutput(c, q, una, f, b)
  BY Zenon, <1>1, <1>2
<1>7. /\ Chain(unacked'[c], acked'[c], snd_nxt'[c], ReadMax)
      /\ Chain(unsent'[c], snd_nxt'[c], hi, ReadMax)
      /\ \A d \in Conns : d # c =>
             /\ unsent'[d] = unsent[d] /\ unacked'[d] = unacked[d]
             /\ snd_nxt'[d] = snd_nxt[d]
  BY ZenonT(60), <1>4, <1>5, <1>6, TcpOutputEffect
<1> QED BY Zenon, <1>3, <1>4, <1>7, SendFrame

\* Every buffer that lwIP may read through its pointer has the buffer's type.
LEMMA BuffersType ==
    ASSUME TypeOK, NEW c \in Conns, NEW b \in Buffers(c)
    PROVE  b \in [1 .. ReadMax -> Nat]
<1>1. remote_recv_buff[c] \in [1 .. ReadMax -> Nat]
  BY Zenon DEF TypeOK, SessionTypeOK
<1>2. [i \in 1 .. ReadMax |-> 0] \in [1 .. ReadMax -> Nat]
  OBVIOUS
<1>3. b = remote_recv_buff[c] \/ b = [i \in 1 .. ReadMax |-> 0]
  BY Zenon DEF Buffers
<1> QED BY Zenon, <1>1, <1>2, <1>3

\* Segments from the application keep the send queues adjacent.
LEMMA LocalSend ==
    ASSUME TypeOK, SendInv, NEW c \in Conns, Local(c)
    PROVE  SendInv'
<1>0. state \in [Conns -> PcbStates] /\ fin[c] \in {"no", "unsent", "unacked"}
  BY Zenon DEF TypeOK, PcbTypeOK
<1>1. CASE RecvSyn(c)
  <2>1. /\ state[c] = "NONE" /\ state' = [state EXCEPT ![c] = "SYN_RCVD"]
        /\ UNCHANGED <<unacked, unsent, snd_nxt, acked, snd_buf>>
    BY Zenon, <1>1 DEF RecvSyn, endVars
  <2>2. state[c] # "FREED" /\ \A d \in Conns : d # c => state'[d] = state[d]
    BY <1>0, <2>1
  <2>3. WriteEnd(c)' = WriteEnd(c)
    BY Zenon, <2>1 DEF WriteEnd
  <2>4. /\ Chain(unacked'[c], acked'[c], snd_nxt'[c], ReadMax)
        /\ Chain(unsent'[c], snd_nxt'[c], WriteEnd(c)', ReadMax)
    BY Zenon, <2>1, <2>2, <2>3 DEF SendInv
  <2> QED BY Zenon, <2>1, <2>2, <2>4, SendFrame
<1>2. CASE RecvHandshakeAck(c)
  <2>1. CASE Crash("accept_assert")
    <3>1. UNCHANGED <<state, unacked, unsent, snd_nxt, acked, snd_buf>>
      BY Zenon, <2>1 DEF Crash, pcbVars, endVars
    <3> QED BY Zenon, <3>1, SendStutter
  <2>2. CASE ~Crash("accept_assert")
    <3>1. /\ state[c] = "SYN_RCVD" /\ state' = [state EXCEPT ![c] = "ESTABLISHED"]
          /\ UNCHANGED <<unacked, unsent, snd_nxt, acked, snd_buf>>
      BY Zenon, <1>2, <2>2 DEF RecvHandshakeAck, endVars
    <3>2. state[c] # "FREED" /\ \A d \in Conns : d # c => state'[d] = state[d]
      BY <1>0, <3>1
    <3>3. WriteEnd(c)' = WriteEnd(c)
      BY Zenon, <3>1 DEF WriteEnd
    <3>4. /\ Chain(unacked'[c], acked'[c], snd_nxt'[c], ReadMax)
          /\ Chain(unsent'[c], snd_nxt'[c], WriteEnd(c)', ReadMax)
      BY Zenon, <3>1, <3>2, <3>3 DEF SendInv
    <3> QED BY Zenon, <3>1, <3>2, <3>4, SendFrame
  <2> QED BY Zenon, <2>1, <2>2
<1>3. ASSUME NEW n \in 1 .. SegMax, RecvData(c, n)
      PROVE  SendInv'
  <2>1. \/ FreePcb(c) /\ UNCHANGED <<acked, snd_buf>>
        \/ UNCHANGED <<state, unacked, unsent, snd_nxt, acked, snd_buf>>
    BY Zenon, <1>3 DEF RecvData, Crash, pcbVars, endVars
  <2> QED BY Zenon, <2>1, SendFree, SendStutter
<1>4. ASSUME NEW v \in Windows, RecvAck(c, v)
      PROVE  SendInv'
  <2>1. state[c] # "FREED" /\ unacked[c] # <<>>
    BY ZenonT(30), <1>4 DEF RecvAck
  <2>2. CASE Crash("freed_session")
    <3>1. UNCHANGED <<state, unacked, unsent, snd_nxt, acked, snd_buf>>
      BY Zenon, <2>2 DEF Crash, pcbVars, endVars
    <3> QED BY Zenon, <3>1, SendStutter
  <2>3. CASE ~Crash("freed_session")
    <3>1. PICK end \in Nat, room \in 0 .. TCP_SND_BUF :
              /\ end = Head(unacked[c])[2] /\ acked[c] < end
              /\ room = snd_buf[c] + end - Head(unacked[c])[1]
              /\ Head(unacked[c])[1] = acked[c]
              /\ Tail(unacked[c]) \in Seq(Intervals)
              /\ Chain(Tail(unacked[c]), end, snd_nxt[c], ReadMax)
      BY Zenon, <2>1, AckedSegment
    <3>2. /\ acked' = [acked EXCEPT ![c] = end]
          /\ snd_buf' = [snd_buf EXCEPT ![c] = room]
      BY Zenon, <1>4, <2>3, <3>1 DEF RecvAck
    <3>3. acked \in [Conns -> Nat] /\ snd_buf \in [Conns -> 0 .. TCP_SND_BUF]
      BY Zenon DEF TypeOK, PcbTypeOK, EndTypeOK
    <3>4. /\ acked'[c] = end /\ snd_buf'[c] = room
          /\ \A d \in Conns : d # c => acked'[d] = acked[d] /\ snd_buf'[d] = snd_buf[d]
      BY <3>2, <3>3
    <3>5. CASE FreePcb(c)
      BY Zenon, <3>4, <3>5, SendFree
    <3>6. CASE ~FreePcb(c)
      <4>1. /\ UNCHANGED state
            /\ TcpOutput(c, unsent[c], Tail(unacked[c]), fin[c], remote_recv_buff[c])
        BY Zenon, <1>4, <2>3, <3>6 DEF RecvAck
      <4>2. PICK una \in Seq(Intervals) : una = Tail(unacked[c])
        BY Zenon, <3>1
      <4>3. PICK q \in Seq(Intervals) : q = unsent[c]
        BY Zenon DEF TypeOK, PcbTypeOK
      <4>4. PICK hi \in Nat : hi = WriteEnd(c)
        BY Zenon, WriteEndType
      <4>5. PICK b \in [1 .. ReadMax -> Nat] : b = remote_recv_buff[c]
        BY Zenon DEF TypeOK, SessionTypeOK
      <4>6. PICK f \in {"no", "unsent", "unacked"} : f = fin[c]
        BY Zenon, <1>0
      <4>7. /\ acked'[c] \in Nat /\ Chain(una, acked'[c], snd_nxt[c], ReadMax)
            /\ Chain(q, snd_nxt[c], hi, ReadMax) /\ TcpOutput(c, q, una, f, b)
        BY Zenon, <2>1, <3>1, <3>4, <4>1, <4>2, <4>3, <4>4, <4>5, <4>6 DEF SendInv
      <4>8. /\ Chain(unacked'[c], acked'[c], snd_nxt'[c], ReadMax)
            /\ Chain(unsent'[c], snd_nxt'[c], hi, ReadMax)
            /\ \A d \in Conns : d # c =>
                   /\ unsent'[d] = unsent[d] /\ unacked'[d] = unacked[d]
                   /\ snd_nxt'[d] = snd_nxt[d]
        BY ZenonT(60), <4>7, TcpOutputEffect
      <4>9. WriteEnd(c)' = hi
        <5>1. acked[c] \in Nat /\ snd_buf[c] \in Nat /\ TCP_SND_BUF \in Nat
          BY SMTT(30), <3>3, SizeAssumption
        <5>2. end + TCP_SND_BUF - (snd_buf[c] + end - acked[c])
                  = acked[c] + TCP_SND_BUF - snd_buf[c]
          BY SMTT(60), <5>1
        <5> QED BY Zenon, <5>2, <3>1, <3>4, <4>4 DEF WriteEnd
      <4> QED BY Zenon, <3>4, <4>1, <4>8, <4>9, SendFrame
    <3> QED BY Zenon, <3>5, <3>6
  <2> QED BY Zenon, <2>2, <2>3
<1>5. ASSUME NEW v \in Windows, RecvWnd(c, v)
      PROVE  SendInv'
  <2>1. /\ UNCHANGED <<acked, snd_buf, state>>
        /\ \E b \in Buffers(c) : TcpOutput(c, unsent[c], unacked[c], fin[c], b)
    BY Zenon, <1>5 DEF RecvWnd
  <2>2. state[c] # "FREED"
    BY ZenonT(60), <1>5 DEF RecvWnd
  <2> QED BY Zenon, <1>0, <2>1, <2>2, BuffersType, SendOutput
<1>6. CASE RecvFin(c)
  <2>1. CASE FreePcb(c)
    <3>1. UNCHANGED <<acked, snd_buf>>
      BY Zenon, <1>6 DEF RecvFin
    <3> QED BY Zenon, <2>1, <3>1, SendFree
  <2>2. CASE ~FreePcb(c)
    <3>1. /\ UNCHANGED <<acked, snd_buf>> /\ state[c] = "ESTABLISHED"
          /\ state' = [state EXCEPT ![c] = "LAST_ACK"]
          /\ \E b \in Buffers(c) : TcpOutput(c, unsent[c], unacked[c], "unsent", b)
      BY Zenon, <1>6, <2>2 DEF RecvFin
    <3>2. state[c] # "FREED" /\ \A d \in Conns : d # c => state'[d] = state[d]
      BY ZenonT(60), <1>0, <3>1
    <3> QED BY Zenon, <3>1, <3>2, BuffersType, SendOutput
  <2> QED BY Zenon, <2>1, <2>2
<1>7. CASE RecvFinAck(c)
  <2>1. FreePcb(c) /\ UNCHANGED <<acked, snd_buf>>
    BY Zenon, <1>7 DEF RecvFinAck
  <2> QED BY Zenon, <2>1, SendFree
<1>8. CASE RecvRst(c)
  <2>1. \/ FreePcb(c) /\ UNCHANGED <<acked, snd_buf>>
        \/ UNCHANGED <<state, unacked, unsent, snd_nxt, acked, snd_buf>>
    BY Zenon, <1>8 DEF RecvRst, Crash, pcbVars, endVars
  <2> QED BY Zenon, <2>1, SendFree, SendStutter
<1> QED BY Zenon, <1>1, <1>2, <1>3, <1>4, <1>5, <1>6, <1>7, <1>8 DEF Local
\* Every step keeps the send queues of all pcbs adjacent runs of the write stream.
LEMMA SendStep ==
    ASSUME IndInv, Next
    PROVE  SendInv'
<1>1. PICK c \in Conns :
           \/ Local(c) \/ Kernel(c)
           \/ HandshakeStep(c) \/ StartFails(c) \/ EnterRelaying(c) \/ DrainStep(c)
           \/ UpStep(c) \/ UpFails(c) \/ \E w \in Writers : WriteMore(c, w)
           \/ ReadFails(c) \/ \E r \in Readers : ReadStep(c, r)
  BY Zenon, StepCases
<1>2. TypeOK /\ SendInv /\ ReadInv
  BY Zenon DEF IndInv
<1>3. CASE Local(c)
  BY Zenon, <1>2, <1>3, LocalSend
<1>4. ASSUME NEW r \in Readers, ReadStep(c, r)
      PROVE  SendInv'
  <2>1. CASE status[c] = "CLOSE" \/ state[c] = "FREED"
    <3>1. UNCHANGED <<state, unacked, unsent, snd_nxt, acked, snd_buf>>
      BY Zenon, <1>4, <2>1 DEF ReadStep, Crash, pcbVars, endVars
    <3> QED BY Zenon, <1>2, <3>1, SendStutter
  <2>2. CASE status[c] # "CLOSE" /\ state[c] # "FREED"
    <3>1. UNCHANGED <<state, acked>>
      BY Zenon, <1>4, <2>2 DEF ReadStep
    <3>2. /\ Chain(unacked'[c], acked'[c], snd_nxt'[c], ReadMax)
          /\ Chain(unsent'[c], snd_nxt'[c], WriteEnd(c)', ReadMax)
          /\ \A d \in Conns : d # c =>
                 /\ unsent'[d] = unsent[d] /\ unacked'[d] = unacked[d]
                 /\ snd_nxt'[d] = snd_nxt[d] /\ snd_buf'[d] = snd_buf[d]
      BY Zenon, <1>2, <1>4, <2>2, ReadStepEffect
    <3> QED BY Zenon, <1>2, <3>1, <3>2, SendFrame
  <2> QED BY Zenon, <2>1, <2>2
<1> QED BY Zenon, <1>1, <1>2, <1>3, <1>4, PcbFrame, SendStutter

-----------------------------------------------------------------------------
(* The two read loops *)

\* The room in a send buffer is a number, before a step and after it.
LEMMA SndBufNat ==
    ASSUME NEW c \in Conns
    PROVE  (TypeOK => snd_buf[c] \in Nat) /\ (TypeOK' => snd_buf'[c] \in Nat)
<1>1. TCP_SND_BUF \in Nat
  BY Zenon, SizeAssumption
<1>2. ASSUME TypeOK PROVE snd_buf[c] \in Nat
  <2>1. snd_buf[c] \in 0 .. TCP_SND_BUF
    BY Zenon, <1>2 DEF TypeOK, PcbTypeOK
  <2> QED BY Zenon, <1>1, <2>1, RangeNat
<1>3. ASSUME TypeOK' PROVE snd_buf'[c] \in Nat
  <2>1. snd_buf'[c] \in 0 .. TCP_SND_BUF
    BY Zenon, <1>3 DEF TypeOK, PcbTypeOK
  <2> QED BY Zenon, <1>1, <2>1, RangeNat
<1> QED BY Zenon, <1>2, <1>3

\* Room for a read stays when the buffer loses none.
LEMMA RoomKept ==
    ASSUME NEW x \in Nat, NEW y \in Nat, NEW n \in Nat, x <= y, x >= n
    PROVE  y >= n
BY SMT

\* A step that moves no reader, takes no room and completes no read
LEMMA ReadKeep ==
    ASSUME TypeOK, TypeOK', NEW c \in Conns, ReadInvOf(c),
           pc'[c]["start"] = pc[c]["start"], pc'[c]["down"] = pc[c]["down"],
           should_read_from_remote'[c] = should_read_from_remote[c],
           snd_buf[c] <= snd_buf'[c],
           \A r \in Readers : pc'[c][r] = "read" /\ op'[c][r] = "ok" =>
               op[c][r] = "ok" /\ nread'[c][r] = nread[c][r]
    PROVE  ReadInvOf(c)'
<1>1. snd_buf[c] \in Nat /\ snd_buf'[c] \in Nat /\ ReadMax \in Nat
  BY Zenon, SndBufNat, SizeAssumption
<1>2. snd_buf[c] >= ReadMax => snd_buf'[c] >= ReadMax
  BY Zenon, <1>1, RoomKept
<1>3. /\ pc'[c]["down"] \in {"idle", "read"}
      /\ pc'[c]["down"] = "read" => should_read_from_remote'[c]
      /\ pc'[c]["start"] # "done" =>
             /\ should_read_from_remote'[c] /\ pc'[c]["down"] = "idle"
             /\ snd_buf'[c] >= ReadMax
      /\ pc'[c]["down"] = "read" => snd_buf'[c] >= ReadMax
  <2>1. should_read_from_remote'[c] <=> should_read_from_remote[c]
    BY Zenon DEF TypeOK, SessionTypeOK
  <2> QED BY Zenon, <1>2, <2>1 DEF ReadInvOf
<1>4. ASSUME NEW r \in Readers, pc'[c][r] = "read", op'[c][r] = "ok"
      PROVE  nread'[c][r] > 0
  <2>1. pc[c][r] = "read" /\ op[c][r] = "ok" /\ nread'[c][r] = nread[c][r]
    BY Zenon, <1>4 DEF Readers
  <2> QED BY Zenon, <2>1 DEF ReadInvOf
<1> QED BY Zenon, <1>3, <1>4 DEF ReadInvOf

\* A step of another connection
LEMMA ReadOther ==
    ASSUME TypeOK, TypeOK', NEW d \in Conns, ReadInvOf(d), Untouched(d)
    PROVE  ReadInvOf(d)'
<1>1. snd_buf[d] <= snd_buf'[d]
  <2>1. snd_buf[d] \in Nat /\ snd_buf'[d] = snd_buf[d]
    BY Zenon, SndBufNat DEF Untouched
  <2> QED BY SMTT(60), <2>1
<1>2. /\ pc'[d] = pc[d] /\ op'[d] = op[d] /\ nread'[d] = nread[d]
      /\ should_read_from_remote'[d] = should_read_from_remote[d]
  BY Zenon DEF Untouched
<1> QED BY Zenon, <1>1, <1>2, ReadKeep

\* Segments from the application: an acknowledgement gives room back, and wakes
\* a reader only when none is there and there is room for a whole read.
LEMMA LocalRead ==
    ASSUME TypeOK, TypeOK', MapInv, SendInv, NEW c \in Conns, ReadInvOf(c), Local(c)
    PROVE  ReadInvOf(c)'
<1>0. /\ pc \in [Conns -> [Coroutines -> PCs]] /\ op \in [Conns -> [Coroutines -> Ops]]
      /\ snd_buf \in [Conns -> 0 .. TCP_SND_BUF]
      /\ should_read_from_remote \in [Conns -> BOOLEAN]
  BY Zenon DEF TypeOK, PcbTypeOK, SessionTypeOK, CoroutineTypeOK
<1>1. snd_buf[c] <= snd_buf[c] /\ \A r \in Readers : r \in Coroutines
  BY SMTT(30), <1>0, SizeAssumption DEF Readers, Coroutines
<1>2. ASSUME UNCHANGED <<pc, op, nread, should_read_from_remote, snd_buf>>
      PROVE  ReadInvOf(c)'
  <2>1. snd_buf[c] <= snd_buf'[c]
    BY Zenon, <1>1, <1>2
  <2> QED BY Zenon, <1>2, <2>1, ReadKeep
<1>3. ASSUME Clear(c), Active(c), UNCHANGED <<pc, nread, should_read_from_remote, snd_buf>>
      PROVE  ReadInvOf(c)'
  <2>1. \A r \in Readers : op'[c][r] = "ok" => op[c][r] = "ok"
    BY Zenon, <1>1, <1>3, ClearOwn
  <2>2. snd_buf[c] <= snd_buf'[c]
    BY Zenon, <1>1, <1>3
  <2> QED BY Zenon, <1>3, <2>1, <2>2, ReadKeep
<1>4. ASSUME NEW f, Crash(f) PROVE ReadInvOf(c)'
  BY Zenon, <1>2, <1>4 DEF Crash, coVars, sessVars, pcbVars
<1>5. CASE RecvSyn(c)
  BY Zenon, <1>2, <1>5 DEF RecvSyn, coVars, sessVars
<1>6. CASE RecvHandshakeAck(c)
  <2>1. CASE ~Crash("accept_assert")
    <3>1. /\ state[c] = "SYN_RCVD"
          /\ \E opened \in BOOLEAN : NewSession(c, opened)
          /\ UNCHANGED <<snd_buf, should_read_from_remote, nread>>
      BY Zenon, <1>6, <2>1 DEF RecvHandshakeAck
    <3>2. pc[c]["start"] = "idle" /\ pc[c]["down"] = "idle"
      BY Zenon, <3>1 DEF MapInv
    <3>3. CASE UNCHANGED <<pc, op>>
      BY Zenon, <1>2, <3>1, <3>3
    <3>4. CASE ~UNCHANGED <<pc, op>>
      <4>1. /\ pc' = [pc EXCEPT ![c]["start"] = "connect"]
            /\ op' = [op EXCEPT ![c]["start"] = "pending"]
        BY Zenon, <3>1, <3>4 DEF NewSession
      <4>2. pc'[c]["start"] = "connect" /\ pc'[c]["down"] = "idle"
        BY SMTT(30), <1>0, <3>2, <4>1 DEF Coroutines
      <4>3. should_read_from_remote[c] /\ snd_buf[c] >= ReadMax
        BY Zenon, <3>2 DEF ReadInvOf
      <4>4. should_read_from_remote'[c] /\ snd_buf'[c] >= ReadMax
        BY Zenon, <3>1, <4>3
      <4> QED BY Zenon, <4>2, <4>4 DEF ReadInvOf, Readers
    <3> QED BY Zenon, <3>3, <3>4
  <2> QED BY Zenon, <1>4, <2>1
<1>7. ASSUME NEW n \in 1 .. SegMax, RecvData(c, n) PROVE ReadInvOf(c)'
  <2>1. state[c] = "ESTABLISHED"
    BY Zenon, <1>7 DEF RecvData
  <2>2. Active(c) /\ session_map[TupleOf[c]] = c
    BY Zenon, <2>1, MapEntry DEF Active
  <2>3. \/ Crash("handle_assert")
        \/ Clear(c) /\ UNCHANGED <<pc, nread, should_read_from_remote, snd_buf>>
        \/ /\ ProxyTcpPacket(c, <<rcvd[c], rcvd[c] + n>>)
           /\ UNCHANGED <<nread, should_read_from_remote, snd_buf>>
    BY Zenon, <1>7, <2>2 DEF RecvData
  <2>4. CASE /\ ProxyTcpPacket(c, <<rcvd[c], rcvd[c] + n>>)
             /\ UNCHANGED <<nread, should_read_from_remote, snd_buf>>
    <3>1. \/ UNCHANGED <<pc, op>>
          \/ /\ pc' = [pc EXCEPT ![c]["up"] = "write"]
             /\ op' = [op EXCEPT ![c]["up"] = "pending"]
      BY Zenon, <2>4 DEF ProxyTcpPacket, StartWrite
    <3>2. \A r \in Readers : pc'[c][r] = pc[c][r] /\ op'[c][r] = op[c][r]
      BY SMTT(30), <1>0, <3>1 DEF Coroutines, Readers
    <3>3. pc'[c]["start"] = pc[c]["start"] /\ pc'[c]["down"] = pc[c]["down"]
      BY SMTT(60), <3>2 DEF Readers
    <3>4. snd_buf[c] <= snd_buf'[c]
      BY Zenon, <1>1, <2>4
    <3> QED BY Zenon, <2>4, <3>2, <3>3, <3>4, ReadKeep
  <2> QED BY Zenon, <1>3, <1>4, <2>2, <2>3, <2>4
<1>8. ASSUME NEW v \in Windows, RecvAck(c, v) PROVE ReadInvOf(c)'
  <2>1. state[c] # "FREED" /\ unacked[c] # <<>>
    BY Zenon, <1>8 DEF RecvAck
  <2>2. CASE ~Crash("freed_session")
    <3>1. PICK room \in 0 .. TCP_SND_BUF :
              /\ room = snd_buf[c] + Head(unacked[c])[2] - Head(unacked[c])[1]
              /\ snd_buf[c] <= room
      BY Zenon, <2>1, AckedSegment
    <3>2. /\ snd_buf' = [snd_buf EXCEPT ![c] = room] /\ UNCHANGED nread
          /\ \/ UNCHANGED <<pc, op, should_read_from_remote>>
             \/ IsRemoteReadable(room) /\ ReadFromRemote(c)
      BY Zenon, <1>8, <2>2, <3>1 DEF RecvAck, sessVars, coVars
    <3>3. snd_buf'[c] = room
      BY Zenon, <1>0, <3>2
    <3>4. CASE UNCHANGED <<pc, op, should_read_from_remote>>
      BY Zenon, <3>1, <3>2, <3>3, <3>4, ReadKeep
    <3>5. CASE ~UNCHANGED <<pc, op, should_read_from_remote>>
      <4>1. /\ room > LowWater /\ ~should_read_from_remote[c]
            /\ should_read_from_remote' = [should_read_from_remote EXCEPT ![c] = TRUE]
            /\ pc' = [pc EXCEPT ![c]["down"] = "read"]
            /\ op' = [op EXCEPT ![c]["down"] = "pending"]
        BY Zenon, <3>2, <3>5 DEF IsRemoteReadable, ReadFromRemote
      <4>2. pc[c]["start"] = "done"
        BY SMTT(30), <4>1 DEF ReadInvOf
      <4>3. /\ pc'[c]["start"] = "done" /\ pc'[c]["down"] = "read"
            /\ op'[c]["down"] = "pending" /\ should_read_from_remote'[c]
        BY SMTT(30), <1>0, <4>1, <4>2 DEF Coroutines
      <4>4. snd_buf'[c] >= ReadMax
        BY SMTT(30), <3>3, <4>1, SizeAssumption
      <4> QED BY ZenonT(30), <4>3, <4>4 DEF ReadInvOf, Readers
    <3> QED BY Zenon, <3>4, <3>5
  <2> QED BY Zenon, <1>4, <2>2
<1>9. ASSUME NEW v \in Windows, RecvWnd(c, v) PROVE ReadInvOf(c)'
  BY Zenon, <1>2, <1>9 DEF RecvWnd, sessVars
<1>10. CASE RecvFin(c)
  <2>1. /\ state[c] = "ESTABLISHED" /\ Clear(c)
        /\ UNCHANGED <<pc, nread, should_read_from_remote, snd_buf>>
    BY Zenon, <1>10 DEF RecvFin
  <2>2. Active(c)
    BY <2>1 DEF Active
  <2> QED BY Zenon, <1>3, <2>1, <2>2
<1>11. CASE RecvFinAck(c)
  BY Zenon, <1>2, <1>11 DEF RecvFinAck, sessVars, coVars
<1>12. CASE RecvRst(c)
  <2>1. CASE ~Crash("freed_session")
    <3>1. /\ Active(c) /\ UNCHANGED <<pc, nread, should_read_from_remote, snd_buf>>
          /\ Clear(c) \/ UNCHANGED op
      BY Zenon, <1>12, <2>1 DEF RecvRst
    <3> QED BY Zenon, <1>2, <1>3, <3>1
  <2> QED BY Zenon, <1>4, <2>1
<1> QED BY Zenon, <1>5, <1>6, <1>7, <1>8, <1>9, <1>10, <1>11, <1>12 DEF Local

\* Completions: a read that completes has read something.
LEMMA KernelRead ==
    ASSUME TypeOK, TypeOK', UpInv, NEW c \in Conns, ReadInvOf(c), Kernel(c)
    PROVE  ReadInvOf(c)'
<1>0. /\ pc \in [Conns -> [Coroutines -> PCs]] /\ op \in [Conns -> [Coroutines -> Ops]]
      /\ nread \in [Conns -> [Readers -> 0 .. ReadMax]]
  BY Zenon DEF TypeOK, CoroutineTypeOK
<1>1. UNCHANGED <<snd_buf, pc, should_read_from_remote>>
  BY Zenon DEF Kernel, ServerAnswers, ServerReads, ServerSends, CompleteHandshake,
     CompleteWrite, CompleteRead, FailWrite, RemoteClose, FailRead, coVars, sessVars, pcbVars
<1>2. snd_buf[c] <= snd_buf'[c]
  <2>1. snd_buf[c] \in Nat
    BY Zenon, SndBufNat
  <2>2. snd_buf[c] <= snd_buf[c]
    BY <2>1
  <2> QED BY Zenon, <1>1, <2>2
<1>3. ASSUME \A r \in Readers : pc[c][r] = "read" /\ op'[c][r] = "ok" =>
                 op[c][r] = "ok" /\ nread'[c][r] = nread[c][r]
      PROVE  ReadInvOf(c)'
  BY Zenon, <1>1, <1>2, <1>3, ReadKeep
<1>4. ASSUME NEW res \in {"ok", "bad", "err"}, CompleteHandshake(c, res)
      PROVE  ReadInvOf(c)'
  <2>1. /\ pc[c]["start"] \in Handshake /\ UNCHANGED nread
        /\ op' = [op EXCEPT ![c]["start"] = res]
    BY Zenon, <1>4 DEF CompleteHandshake
  <2>2. pc[c]["start"] # "read" /\ op'[c]["down"] = op[c]["down"]
    BY SMTT(30), <1>0, <2>1 DEF Handshake, Coroutines
  <2>3. \A r \in Readers : r = "start" \/ r = "down"
    BY DEF Readers
  <2> QED BY Zenon, <1>3, <2>1, <2>2, <2>3
<1>5. ASSUME NEW r \in Readers, NEW n \in 1 .. ReadMax, CompleteRead(c, r, n)
      PROVE  ReadInvOf(c)'
  <2>1. /\ op' = [op EXCEPT ![c][r] = "ok"]
        /\ nread' = [nread EXCEPT ![c][r] = n]
    BY Zenon, <1>5 DEF CompleteRead
  <2>2. \A x \in Readers : x # r => op'[c][x] = op[c][x] /\ nread'[c][x] = nread[c][x]
    BY SMTT(30), <1>0, <2>1 DEF Readers, Coroutines
  <2>3. nread'[c][r] = n /\ n > 0
    BY SMTT(30), <1>0, <2>1, SizeAssumption
  <2>4. \A x \in Readers : pc'[c][x] = "read" /\ op'[c][x] = "ok" => nread'[c][x] > 0
    BY Zenon, <1>1, <2>2, <2>3 DEF ReadInvOf
  <2> QED BY Zenon, <1>1, <2>4 DEF ReadInvOf
<1>6. CASE RemoteClose(c)
  BY Zenon, <1>3, <1>6 DEF RemoteClose, coVars
<1>7. ASSUME NEW r \in Readers, FailRead(c, r)
      PROVE  ReadInvOf(c)'
  <2>1. op' = [op EXCEPT ![c][r] = "err"] /\ UNCHANGED nread
    BY Zenon, <1>7 DEF FailRead
  <2>2. \A x \in Readers : op'[c][x] = "ok" => op[c][x] = "ok"
    BY <1>0, <2>1 DEF Readers, Coroutines
  <2> QED BY Zenon, <1>3, <2>1, <2>2
<1>8. ASSUME NEW k \in 1 .. SegMax, CompleteWrite(c, k)
      PROVE  ReadInvOf(c)'
  <2>1. /\ write_ops[c] # <<>> /\ op' = [op EXCEPT ![c][Head(write_ops[c])] = "ok"]
        /\ wr[c][Head(write_ops[c])].pos + k <= wr[c][Head(write_ops[c])].hi
        /\ UNCHANGED nread
    BY Zenon, <1>8 DEF CompleteWrite
  <2>2. PICK w \in Writers : w = Head(write_ops[c])
    <3>1. write_ops[c] \in Seq(Writers)
      BY Zenon DEF TypeOK, CoroutineTypeOK
    <3> QED BY SMTT(30), <2>1, <3>1
  <2>3. pc[c][w] = "write"
    <3>1. ASSUME pc[c][w] # "write" PROVE FALSE
      <4>1. wr[c][w] = NoWrite
        BY Zenon, <3>1 DEF UpInv, UpInvOf
      <4>2. wr[c][w].pos = 0 /\ wr[c][w].hi = 0
        BY SMTT(30), <4>1 DEF NoWrite
      <4>3. 0 + k <= 0
        BY Zenon, <2>1, <2>2, <4>2
      <4> QED BY <4>3, SizeAssumption
    <3> QED BY Zenon, <3>1
  <2>4. \A x \in Readers : x # w => op'[c][x] = op[c][x]
    BY ZenonT(30), <1>0, <2>1, <2>2 DEF Readers, Writers, Coroutines
  <2>5. pc[c][w] # "read"
    BY Zenon, <2>3
  <2> QED BY Zenon, <1>3, <2>1, <2>4, <2>5
<1>9. CASE FailWrite(c)
  <2>1. /\ op' = [op EXCEPT ![c][Head(write_ops[c])] = "err"] /\ UNCHANGED nread
    BY Zenon, <1>9 DEF FailWrite, coVars
  <2>2. \A x \in Readers : op'[c][x] = "ok" => op[c][x] = "ok"
    BY <1>0, <2>1 DEF Readers, Coroutines
  <2> QED BY Zenon, <1>3, <2>1, <2>2
<1> QED BY Zenon, <1>4, <1>5, <1>6, <1>7, <1>8, <1>9
        DEF Kernel, ServerAnswers, ServerReads, ServerSends

\* The coroutines that do not read, or have not begun to
LEMMA WriterRead ==
    ASSUME TypeOK, TypeOK', NEW c \in Conns, ReadInvOf(c),
           \/ HandshakeStep(c) \/ StartFails(c) \/ EnterRelaying(c) \/ DrainStep(c)
           \/ UpStep(c) \/ UpFails(c) \/ \E w \in Writers : WriteMore(c, w)
    PROVE  ReadInvOf(c)'
<1>0. /\ pc \in [Conns -> [Coroutines -> PCs]] /\ op \in [Conns -> [Coroutines -> Ops]]
  BY Zenon DEF TypeOK, CoroutineTypeOK
<1>1. UNCHANGED snd_buf
  BY Zenon, PcbFrame
<1>2. UNCHANGED <<nread, should_read_from_remote>>
  BY Zenon DEF HandshakeStep, StartFails, EnterRelaying, DrainStep, UpStep, UpFails, WriteMore,
     Crash, coVars, sessVars
<1>3. snd_buf[c] <= snd_buf'[c]
  <2>1. snd_buf[c] \in Nat
    BY Zenon, SndBufNat
  <2>2. snd_buf[c] <= snd_buf[c]
    BY <2>1
  <2> QED BY Zenon, <1>1, <2>2
<1>4. ASSUME UNCHANGED <<pc, op>>
      PROVE  ReadInvOf(c)'
  BY Zenon, <1>2, <1>3, <1>4, ReadKeep
<1>5. ASSUME pc[c]["start"] # "done",
             NEW p, pc' = [pc EXCEPT ![c]["start"] = p],
             NEW o \in {"none", "pending"}, op' = [op EXCEPT ![c]["start"] = o]
      PROVE  ReadInvOf(c)'
  <2>1. /\ should_read_from_remote[c] /\ pc[c]["down"] = "idle" /\ snd_buf[c] >= ReadMax
    BY Zenon, <1>5 DEF ReadInvOf
  <2>2. should_read_from_remote'[c] /\ snd_buf'[c] >= ReadMax
    BY Zenon, <1>1, <1>2, <2>1
  <2>3. pc'[c]["down"] = "idle" /\ op'[c]["start"] = o
    BY Zenon, <1>0, <1>5, <2>1 DEF Coroutines
  <2> QED BY Zenon, <2>2, <2>3 DEF ReadInvOf, Readers
<1>6. ASSUME UNCHANGED pc \/ \E p : pc' = [pc EXCEPT ![c]["up"] = p],
             \E o \in {"none", "pending"}, x \in Coroutines : op' = [op EXCEPT ![c][x] = o]
      PROVE  ReadInvOf(c)'
  <2>1. pc'[c]["start"] = pc[c]["start"] /\ pc'[c]["down"] = pc[c]["down"]
    BY SMTT(30), <1>0, <1>6 DEF Coroutines
  <2>2. \A r \in Readers : op'[c][r] = "ok" => op[c][r] = "ok"
    BY SMTT(30), <1>0, <1>6 DEF Coroutines, Readers
  <2> QED BY Zenon, <1>2, <1>3, <2>1, <2>2, ReadKeep
<1>7. ASSUME DrainOrRead(c), pc[c]["start"] # "done"
      PROVE  ReadInvOf(c)'
  <2>1. /\ \E p : pc' = [pc EXCEPT ![c]["start"] = p]
        /\ op' = [op EXCEPT ![c]["start"] = "pending"]
    BY Zenon, <1>7 DEF DrainOrRead, StartWrite
  <2> QED BY Zenon, <1>5, <1>7, <2>1
<1>8. CASE HandshakeStep(c)
  <2>1. pc[c]["start"] # "done"
    BY Zenon, <1>8 DEF HandshakeStep, NextHandshake
  <2>2. \/ UNCHANGED <<pc, op>>
        \/ /\ \E p : pc' = [pc EXCEPT ![c]["start"] = p]
           /\ op' = [op EXCEPT ![c]["start"] = "pending"]
    BY Zenon, <1>8 DEF HandshakeStep, Crash, coVars
  <2> QED BY Zenon, <1>4, <1>5, <2>1, <2>2
<1>9. CASE StartFails(c)
  <2>1. /\ pc[c]["start"] # "done" /\ op' = [op EXCEPT ![c]["start"] = "none"]
        /\ pc' = [pc EXCEPT ![c]["start"] = "done"]
    BY Zenon, <1>9 DEF StartFails
  <2> QED BY Zenon, <1>5, <2>1
<1>10. CASE EnterRelaying(c)
  <2>1. /\ pc[c]["start"] # "done"
    BY Zenon, <1>10 DEF EnterRelaying
  <2>2. UNCHANGED <<pc, op>> \/ DrainOrRead(c)
    BY Zenon, <1>10 DEF EnterRelaying, Crash, coVars
  <2> QED BY Zenon, <1>4, <1>7, <2>1, <2>2
<1>11. CASE DrainStep(c)
  <2>1. pc[c]["start"] # "done"
    BY Zenon, <1>11 DEF DrainStep, Written
  <2>2. \/ UNCHANGED <<pc, op>> \/ DrainOrRead(c)
        \/ /\ pc' = [pc EXCEPT ![c]["start"] = "done"]
           /\ op' = [op EXCEPT ![c]["start"] = "none"]
    BY Zenon, <1>11 DEF DrainStep, Crash, coVars
  <2> QED BY Zenon, <1>4, <1>5, <1>7, <2>1, <2>2
<1>12. CASE UpStep(c) \/ UpFails(c)
  <2>1. \/ UNCHANGED <<pc, op>>
        \/ /\ \E p : pc' = [pc EXCEPT ![c]["up"] = p]
           /\ \E o \in {"none", "pending"} : op' = [op EXCEPT ![c]["up"] = o]
    BY Zenon, <1>12 DEF UpStep, UpFails, UpReturns, StartWrite, Crash, coVars
  <2>2. "up" \in Coroutines
    BY DEF Coroutines
  <2> QED BY Zenon, <1>4, <1>6, <2>1, <2>2
<1>13. ASSUME NEW w \in Writers, WriteMore(c, w)
       PROVE  ReadInvOf(c)'
  <2>1. w \in Coroutines
    BY DEF Coroutines, Writers
  <2>2. UNCHANGED pc /\ op' = [op EXCEPT ![c][w] = "pending"]
    BY Zenon, <1>13 DEF WriteMore
  <2> QED BY Zenon, <1>6, <2>1, <2>2
<1> QED BY Zenon, <1>8, <1>9, <1>10, <1>11, <1>12, <1>13

\* The readers: one that goes on has room for another read, one that pauses
\* lets should_read_from_remote say so.
LEMMA ReaderRead ==
    ASSUME TypeOK, TypeOK', SendInv, ReadInv, NEW c \in Conns,
           ReadFails(c) \/ \E r \in Readers : ReadStep(c, r)
    PROVE  ReadInvOf(c)'
<1>0. /\ pc \in [Conns -> [Coroutines -> PCs]] /\ op \in [Conns -> [Coroutines -> Ops]]
      /\ should_read_from_remote \in [Conns -> BOOLEAN]
      /\ \A r \in Readers : r = "start" \/ r = "down"
  BY Zenon DEF TypeOK, SessionTypeOK, CoroutineTypeOK, Readers
<1>1. ReadInvOf(c)
  BY Zenon DEF ReadInv
<1>2. ASSUME NEW r \in Readers, ReaderReturns(c, r)
      PROVE  /\ pc'[c]["start"] = IF r = "start" THEN "done" ELSE pc[c]["start"]
             /\ pc'[c]["down"] = IF r = "down" THEN "idle" ELSE pc[c]["down"]
             /\ \A x \in Readers : x # r => op'[c][x] = op[c][x]
  BY SMTT(30), <1>0, <1>2 DEF ReaderReturns, Readers, Coroutines
<1>3. ASSUME NEW r \in Readers, ReaderReturns(c, r),
             UNCHANGED <<should_read_from_remote, snd_buf, nread>>
      PROVE  ReadInvOf(c)'
  <2>1. CASE r = "start"
    <3>1. /\ pc'[c]["start"] = "done" /\ pc'[c]["down"] = pc[c]["down"]
          /\ op'[c]["down"] = op[c]["down"]
      BY ZenonT(30), <1>2, <1>3, <2>1 DEF Readers
    <3> QED BY Zenon, <1>1, <1>3, <3>1 DEF ReadInvOf, Readers
  <2>2. CASE r = "down"
    <3>1. /\ pc'[c]["start"] = pc[c]["start"] /\ pc'[c]["down"] = "idle"
          /\ op'[c]["start"] = op[c]["start"]
      BY ZenonT(30), <1>2, <1>3, <2>2 DEF Readers
    <3> QED BY ZenonT(30), <1>1, <1>3, <3>1 DEF ReadInvOf, Readers
  <2> QED BY Zenon, <1>0, <2>1, <2>2
<1>4. CASE ReadFails(c)
  <2>1. ReaderReturns(c, "down") /\ UNCHANGED <<should_read_from_remote, snd_buf, nread>>
    BY Zenon, <1>4 DEF ReadFails, pcbVars
  <2>2. "down" \in Readers
    BY DEF Readers
  <2> QED BY Zenon, <1>3, <2>1, <2>2
<1>5. ASSUME NEW r \in Readers, ReadStep(c, r)
      PROVE  ReadInvOf(c)'
  <2>1. CASE status[c] = "CLOSE"
    <3>1. ReaderReturns(c, r) /\ UNCHANGED <<should_read_from_remote, snd_buf, nread>>
      BY Zenon, <1>5, <2>1 DEF ReadStep, pcbVars
    <3> QED BY Zenon, <1>3, <3>1
  <2>2. CASE status[c] # "CLOSE" /\ state[c] = "FREED"
    <3>1. Crash("freed_pcb")
      BY Zenon, <1>5, <2>2 DEF ReadStep
    <3>2. UNCHANGED <<pc, op, nread, should_read_from_remote, snd_buf>>
      BY Zenon, <3>1 DEF Crash, coVars, sessVars, pcbVars
    <3> QED BY Zenon, <1>1, <3>2 DEF ReadInvOf
  <2>3. CASE status[c] # "CLOSE" /\ state[c] # "FREED"
    <3>1. /\ UNCHANGED nread /\ pc[c][r] = "read"
          /\ IF snd_buf'[c] < LowWater
             THEN /\ should_read_from_remote' =
                        [should_read_from_remote EXCEPT ![c] = FALSE]
                  /\ ReaderReturns(c, r)
             ELSE /\ op' = [op EXCEPT ![c][r] = "pending"]
                  /\ UNCHANGED <<should_read_from_remote, pc, status>>
      BY Zenon, <1>5, <2>3 DEF ReadStep
    <3>2. CASE snd_buf'[c] < LowWater
      <4>1. ReaderReturns(c, r)
        BY Zenon, <3>1, <3>2
      <4>2. pc'[c]["start"] = "done" /\ pc'[c]["down"] = "idle"
        <5>1. CASE r = "start"
          BY ZenonT(30), <1>1, <1>2, <3>1, <4>1, <5>1 DEF ReadInvOf
        <5>2. CASE r = "down"
          BY ZenonT(30), <1>1, <1>2, <3>1, <4>1, <5>2 DEF ReadInvOf
        <5> QED BY Zenon, <1>0, <5>1, <5>2
      <4> QED BY Zenon, <4>2 DEF ReadInvOf, Readers
    <3>3. CASE ~(snd_buf'[c] < LowWater)
      <4>1. op' = [op EXCEPT ![c][r] = "pending"]
            /\ UNCHANGED <<should_read_from_remote, pc, nread>>
        BY Zenon, <3>1, <3>3
      <4>2. snd_buf'[c] >= ReadMax
        <5>1. snd_buf'[c] \in Nat
          BY Zenon, SndBufNat
        <5> QED BY <3>3, <5>1, SizeAssumption
      <4>3. \A x \in Readers : op'[c][x] = "ok" => op[c][x] = "ok"
        BY <1>0, <4>1 DEF Readers, Coroutines
      <4> QED BY Zenon, <1>1, <4>1, <4>2, <4>3 DEF ReadInvOf
    <3> QED BY Zenon, <3>2, <3>3
  <2> QED BY Zenon, <2>1, <2>2, <2>3
<1> QED BY Zenon, <1>4, <1>5

\* Every step keeps the readers apart and their reads within the send buffer.
LEMMA ReadersStep ==
    ASSUME IndInv, Next
    PROVE  ReadInv'
<1>1. PICK c \in Conns :
           \/ Local(c) \/ Kernel(c)
           \/ HandshakeStep(c) \/ StartFails(c) \/ EnterRelaying(c) \/ DrainStep(c)
           \/ UpStep(c) \/ UpFails(c) \/ \E w \in Writers : WriteMore(c, w)
           \/ ReadFails(c) \/ \E r \in Readers : ReadStep(c, r)
  BY Zenon, StepCases
<1>2. TypeOK /\ MapInv /\ ReadInv /\ SendInv /\ UpInv /\ TypeOK'
  BY Zenon, TypeStep DEF IndInv
<1>3. ReadInvOf(c)'
  BY Zenon, <1>1, <1>2, LocalRead, KernelRead, WriterRead, ReaderRead DEF ReadInv
<1>4. ASSUME NEW d \in Conns, d # c
      PROVE  ReadInvOf(d)'
  <2>1. Untouched(d)
    BY Zenon, <1>1, <1>2, <1>4, LocalOwn, KernelOwn, CoroutineOwn
  <2> QED BY Zenon, <1>2, <2>1, ReadOther DEF ReadInv
<1> QED BY Zenon, <1>3, <1>4 DEF ReadInv
=============================================================================
