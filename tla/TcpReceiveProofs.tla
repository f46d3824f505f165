-------------------------- MODULE TcpReceiveProofs --------------------------
(***************************************************************************)
(* Proofs about TcpReceive: the invariant of TcpReceiveInv is inductive,   *)
(* and what it gives for the out-of-sequence queue, the receive window and *)
(* the stream that tcp_recv_func is given.                                 *)
(***************************************************************************)
EXTENDS TcpReceiveInv, WellFoundedInduction, TLAPS

-----------------------------------------------------------------------------
(* Numbers that wrap *)

\* A number modulo m is one of 0 .. m - 1.
LEMMA ModRange ==
    ASSUME NEW m \in Nat \ {0}, NEW x \in Int PROVE x % m \in 0 .. m - 1
BY SMT

\* Below m it is the number itself.
LEMMA ModLow ==
    ASSUME NEW m \in Nat \ {0}, NEW x \in 0 .. m - 1 PROVE x % m = x
BY SMT

\* From m on it has wrapped once.
LEMMA ModHigh ==
    ASSUME NEW m \in Nat \ {0}, NEW x \in Int, m <= x, x < m + m PROVE x % m = x - m
BY SMT

\* Below zero it has wrapped once the other way.
LEMMA ModNegative ==
    ASSUME NEW m \in Nat \ {0}, NEW x \in Int, -m <= x, x < 0 PROVE x % m = x + m
BY SMT

\* An even number is twice its half.
LEMMA Halves ==
    ASSUME NEW m \in Nat, m % 2 = 0
    PROVE m \div 2 \in Nat /\ m \div 2 + m \div 2 = m
BY SMT

\* The constants are the numbers the assumptions say they are.
LEMMA Constants ==
    /\ Modulus \in Nat \ {0} /\ ISS \in SeqNo /\ SeqNo \subseteq Int
    /\ \A x \in SeqNo : 0 <= x /\ x < Modulus
    /\ Total \in Nat /\ TCP_WND \in Nat \ {0} /\ mss \in Nat \ {0}
    /\ Modulus \div 2 \in Nat /\ Modulus \div 2 + Modulus \div 2 = Modulus
    /\ Total + TCP_WND + 1 < Modulus \div 2
<1>1. Modulus \div 2 \in Nat /\ Modulus \div 2 + Modulus \div 2 = Modulus
  BY ModulusAssumption, Halves, Zenon
<1>2. Total + TCP_WND + 1 < Modulus \div 2
  BY ReceiveAssumption, Zenon
<1> QED BY <1>1, <1>2, ReceiveAssumption, ModulusAssumption DEF SeqNo

\* The stream and a window take less than half of the sequence numbers.
LEMMA Sizes ==
    /\ Modulus \in Nat /\ Total \in Nat /\ TCP_WND \in Nat /\ 1 <= TCP_WND
    /\ (Total + TCP_WND + 1) + (Total + TCP_WND + 1) < Modulus
<1> DEFINE half == Modulus \div 2
<1>1. /\ Modulus \in Nat /\ Total \in Nat /\ TCP_WND \in Nat \ {0} /\ half \in Nat
      /\ half + half = Modulus /\ Total + TCP_WND + 1 < half
  BY Constants, Zenon
<1> HIDE DEF half
<1> QED BY <1>1

\* A number within Modulus of the sequence numbers wraps at most once.
LEMMA ModCases ==
    ASSUME NEW x \in Int, -Modulus <= x, x < Modulus + Modulus
    PROVE /\ x % Modulus \in SeqNo
          /\ \/ 0 <= x /\ x < Modulus /\ x % Modulus = x
             \/ Modulus <= x /\ x % Modulus = x - Modulus
             \/ x < 0 /\ x % Modulus = x + Modulus
<1>1. x % Modulus \in SeqNo
  BY Constants, ModRange, Zenon DEF SeqNo
<1>2. CASE x < 0
  <2>1. x % Modulus = x + Modulus
    BY <1>2, Constants, ModNegative, Zenon
  <2> QED BY <1>1, <1>2, <2>1, Zenon
<1>3. CASE 0 <= x /\ x < Modulus
  <2>1. x \in 0 .. Modulus - 1
    BY <1>3, Constants
  <2>2. x % Modulus = x
    BY <2>1, Constants, ModLow, Zenon
  <2> QED BY <1>1, <1>3, <2>2, Zenon
<1>4. CASE Modulus <= x
  <2>1. x % Modulus = x - Modulus
    BY <1>4, Constants, ModHigh, Zenon
  <2> QED BY <1>1, <1>4, <2>1, Zenon
<1>5. x < 0 \/ (0 <= x /\ x < Modulus) \/ Modulus <= x
  BY Constants
<1> QED BY <1>2, <1>3, <1>4, <1>5, Zenon

\* Adding to a sequence number, or subtracting one, wraps at most once.
LEMMA WrapOnce ==
    ASSUME NEW a \in SeqNo, NEW n \in -Modulus .. Modulus
    PROVE /\ Plus(a, n) \in SeqNo
          /\ Plus(a, n) \in {a + n, a + n - Modulus, a + n + Modulus}
<1>1. a + n \in Int /\ -Modulus <= a + n /\ a + n < Modulus + Modulus
  BY Constants
<1>2. /\ (a + n) % Modulus \in SeqNo
      /\ \/ (a + n) % Modulus = a + n
         \/ (a + n) % Modulus = (a + n) - Modulus
         \/ (a + n) % Modulus = (a + n) + Modulus
  BY <1>1, ModCases, Zenon
<1>3. (a + n) - Modulus = a + n - Modulus /\ (a + n) + Modulus = a + n + Modulus
  BY Constants
<1> QED BY <1>2, <1>3, Zenon DEF Plus

\* Two positions are as far apart as their sequence numbers.
LEMMA Positions ==
    ASSUME NEW a \in -Modulus .. Modulus, NEW b \in -Modulus .. Modulus
    PROVE /\ Plus(ISS, a) \in SeqNo
          /\ 0 <= a - b /\ a - b < Modulus => Minus(Plus(ISS, a), Plus(ISS, b)) = a - b
          /\ a - b < 0 /\ -Modulus <= a - b =>
                Minus(Plus(ISS, a), Plus(ISS, b)) = a - b + Modulus
<1> DEFINE x == Plus(ISS, a)
           y == Plus(ISS, b)
<1>1. /\ x \in SeqNo /\ x \in {ISS + a, ISS + a - Modulus, ISS + a + Modulus}
      /\ y \in SeqNo /\ y \in {ISS + b, ISS + b - Modulus, ISS + b + Modulus}
  BY Constants, WrapOnce, Zenon
<1> HIDE DEF x, y
<1>2. x - y \in Int /\ -Modulus <= x - y /\ x - y < Modulus + Modulus
  BY <1>1, Constants
<1>3. \/ 0 <= x - y /\ x - y < Modulus /\ (x - y) % Modulus = x - y
      \/ Modulus <= x - y /\ (x - y) % Modulus = (x - y) - Modulus
      \/ x - y < 0 /\ (x - y) % Modulus = (x - y) + Modulus
  BY <1>2, ModCases, Zenon
<1>4. /\ 0 <= a - b /\ a - b < Modulus => (x - y) % Modulus = a - b
      /\ a - b < 0 /\ -Modulus <= a - b => (x - y) % Modulus = a - b + Modulus
  BY <1>1, <1>3, Constants
<1> QED BY <1>1, <1>4, Zenon DEF x, y, Minus

\* Comparing sequence numbers compares their positions.
LEMMA Compare ==
    ASSUME NEW a \in -Modulus .. Modulus, NEW b \in -Modulus .. Modulus,
           a - b < Modulus \div 2, b - a <= Modulus \div 2
    PROVE /\ TCP_SEQ_LT(Plus(ISS, a), Plus(ISS, b)) <=> a < b
          /\ TCP_SEQ_LEQ(Plus(ISS, a), Plus(ISS, b)) <=> a <= b
          /\ Plus(ISS, a) = Plus(ISS, b) <=> a = b
<1> DEFINE x == Plus(ISS, a)
           y == Plus(ISS, b)
<1>1. /\ 0 <= a - b /\ a - b < Modulus => Minus(x, y) = a - b
      /\ a - b < 0 /\ -Modulus <= a - b => Minus(x, y) = a - b + Modulus
  BY Positions, Zenon
<1>2. x \in SeqNo /\ y \in SeqNo
  BY Positions, Zenon
<1> HIDE DEF x, y
<1>3. Minus(x, x) = 0
  <2>1. x \in Int
    BY <1>2, Constants, Zenon
  <2>2. x - x = 0 /\ 0 \in 0 .. Modulus - 1
    BY <2>1, Constants
  <2> QED BY <2>2, ModLow, Constants, Zenon DEF Minus
<1>4. x = y => Minus(x, y) = 0
  BY <1>3, Zenon
<1>5. Minus(x, y) >= Modulus \div 2 <=> a < b
  BY <1>1, Constants
<1>6. x = y <=> a = b
  <2>1. x = y => a = b
    BY <1>1, <1>4, Constants
  <2> QED BY <2>1, Zenon DEF x, y
<1>7. TCP_SEQ_LT(x, y) <=> a < b
  BY <1>5, Zenon DEF TCP_SEQ_LT
<1>8. TCP_SEQ_LEQ(x, y) <=> a <= b
  <2>1. TCP_SEQ_LEQ(x, y) <=> a = b \/ a < b
    BY <1>6, <1>7, Zenon DEF TCP_SEQ_LEQ
  <2> QED BY <2>1
<1> QED BY <1>6, <1>7, <1>8, Zenon DEF x, y

\* Counting on from a position's sequence number
LEMMA Onwards ==
    ASSUME NEW a \in -Modulus .. Modulus, NEW n \in -Modulus .. Modulus,
           a + n \in -Modulus .. Modulus
    PROVE Plus(Plus(ISS, a), n) = Plus(ISS, a + n)
<1> DEFINE x == Plus(ISS, a)
           y == Plus(ISS, a + n)
           z == Plus(x, n)
<1>1. x \in SeqNo /\ x \in {ISS + a, ISS + a - Modulus, ISS + a + Modulus}
  BY Constants, WrapOnce, Zenon
<1>2. y \in SeqNo
      /\ y \in {ISS + (a + n), ISS + (a + n) - Modulus, ISS + (a + n) + Modulus}
  BY Constants, WrapOnce, Zenon
<1> HIDE DEF x
<1>3. z \in SeqNo /\ z \in {x + n, x + n - Modulus, x + n + Modulus}
  BY <1>1, Constants, WrapOnce, Zenon
<1> HIDE DEF y, z
<1>4. y = z
  BY <1>1, <1>2, <1>3, Constants
<1> QED BY <1>4, Zenon DEF x, y, z

-----------------------------------------------------------------------------
(* Sequences and walks over them *)

\* A set of numbers that is not empty has a least one.
LEMMA LeastNat ==
    ASSUME NEW T, T \subseteq Nat, T # {}
    PROVE \E x \in T : \A y \in T : x <= y
<1>1. PICK x \in T : \A y \in T : ~ (<<y, x>> \in OpToRel(<, Nat))
  BY NatLessThanWellFounded, WFMin, Zenon
<1>2. ASSUME NEW y \in T PROVE x <= y
  <2>1. x \in Nat /\ y \in Nat
    BY Zenon
  <2>2. <<y, x>> \notin OpToRel(<, Nat)
    BY <1>1, Zenon
  <2>3. ~(y < x)
    BY <2>1, <2>2 DEF OpToRel
  <2> QED BY <2>1, <2>3
<1> QED BY <1>2, Zenon

\* A sequence is a function from the numbers up to its length.
LEMMA SeqLen ==
    ASSUME NEW S, NEW s \in Seq(S)
    PROVE /\ Len(s) \in Nat
          /\ s \in [1 .. Len(s) -> S]
          /\ DOMAIN s = 1 .. Len(s)
          /\ \A i \in 1 .. Len(s) : s[i] \in S
OBVIOUS

\* A function from the numbers up to n is a sequence.
LEMMA FunctionSeq ==
    ASSUME NEW S, NEW n \in Nat, NEW p \in [1 .. n -> S]
    PROVE p \in Seq(S) /\ Len(p) = n
OBVIOUS

\* The part of a sequence from m to n
LEMMA SubSeqOf ==
    ASSUME NEW S, NEW s \in Seq(S), NEW m \in 1 .. Len(s) + 1, NEW n \in m - 1 .. Len(s)
    PROVE /\ SubSeq(s, m, n) \in Seq(S) /\ Len(SubSeq(s, m, n)) = n - m + 1
          /\ \A i \in 1 .. n - m + 1 : SubSeq(s, m, n)[i] = s[m - 1 + i]
OBVIOUS

\* Two sequences one after the other
LEMMA ConcatOf ==
    ASSUME NEW S, NEW s \in Seq(S), NEW t \in Seq(S)
    PROVE /\ s \o t \in Seq(S) /\ Len(s \o t) = Len(s) + Len(t)
          /\ \A i \in 1 .. Len(s) : (s \o t)[i] = s[i]
          /\ \A i \in 1 .. Len(t) : (s \o t)[Len(s) + i] = t[i]
OBVIOUS

\* A sequence of one element
LEMMA OneOf ==
    ASSUME NEW S, NEW x \in S
    PROVE <<x>> \in Seq(S) /\ Len(<<x>>) = 1 /\ <<x>>[1] = x
OBVIOUS

\* A walk over q stops at the first segment that is not a good one.
LEMMA WalkStops ==
    ASSUME NEW q, NEW good, Len(q) \in Nat, good \subseteq 1 .. Len(q)
    PROVE /\ Walk(q, good) \in 0 .. Len(q)
          /\ \A i \in 1 .. Walk(q, good) : i \in good
          /\ Walk(q, good) + 1 \notin good
<1> DEFINE T == {n \in Nat : n + 1 \notin good}
<1>1. Len(q) \in T
  BY SMT
<1>2. PICK k \in T : \A n \in T : k <= n
  <2>1. T \subseteq Nat /\ T # {}
    BY <1>1, Zenon
  <2> HIDE DEF T
  <2> QED BY <2>1, LeastNat, Zenon
<1>3. k \in 0 .. Len(q) /\ k + 1 \notin good
  BY <1>1, <1>2
<1>4. 1 .. k \subseteq good
  <2> SUFFICES ASSUME NEW i \in 1 .. k PROVE i \in good
    BY Zenon
  <2>1. i - 1 \in Nat /\ i - 1 + 1 = i /\ ~(k <= i - 1)
    BY <1>3
  <2>2. i - 1 \notin T
    BY <2>1, <1>2, Zenon
  <2> QED BY <2>1, <2>2
<1>5. \E n \in 0 .. Len(q) : 1 .. n \subseteq good /\ n + 1 \notin good
  BY <1>3, <1>4, Zenon
<1>6. /\ Walk(q, good) \in 0 .. Len(q)
      /\ 1 .. Walk(q, good) \subseteq good /\ Walk(q, good) + 1 \notin good
  BY <1>5, Zenon DEF Walk
<1> QED BY <1>6, Zenon

-----------------------------------------------------------------------------
(* Honest segments *)

\* The position of a position's sequence number
LEMMA PositionOf ==
    ASSUME NEW a \in 0 .. Total
    PROVE Plus(ISS, a) \in SeqNo /\ Minus(Plus(ISS, a), ISS) = a
<1>1. a \in -Modulus .. Modulus /\ 0 \in -Modulus .. Modulus /\ 0 <= a - 0 /\ a - 0 < Modulus
      /\ a - 0 = a
  BY Constants
<1>2. Plus(ISS, a) \in SeqNo /\ Minus(Plus(ISS, a), Plus(ISS, 0)) = a
  BY <1>1, Positions, Zenon
<1>3. ISS + 0 = ISS /\ ISS \in 0 .. Modulus - 1
  BY Constants DEF SeqNo
<1>4. Plus(ISS, 0) = ISS
  BY <1>3, ModLow, Constants, Zenon DEF Plus
<1> QED BY <1>2, <1>4, Zenon

\* The positions of an honest segment and the sequence numbers they have
LEMMA HonestFacts ==
    ASSUME NEW seg \in Honest
    PROVE /\ seg \in Segments /\ seg.fin \in BOOLEAN
          /\ Len(seg.p) \in Nat /\ At(seg) \in 0 .. Total
          /\ Past(seg) = At(seg) + Len(seg.p) /\ Past(seg) \in 0 .. Total
          /\ Reach(seg) = Past(seg) + (IF seg.fin THEN 1 ELSE 0)
          /\ seg.seqno = Plus(ISS, At(seg)) /\ End(seg) = Plus(ISS, Past(seg))
          /\ seg.fin => Past(seg) = Total
          /\ seg = Sent(At(seg), Len(seg.p), seg.fin)
<1> DEFINE a == At(seg)
           n == Len(seg.p)
<1>1. seg \in Segments /\ seg.fin \in BOOLEAN /\ n \in Nat /\ seg.seqno \in SeqNo
  <2>1. seg \in Segments
    BY Zenon DEF Honest
  <2>2. seg.fin \in BOOLEAN /\ seg.p \in Seq(1 .. Total) /\ seg.seqno \in SeqNo
    BY <2>1 DEF Segments
  <2> QED BY <2>1, <2>2, SeqLen, Zenon
<1>2. /\ Past(seg) <= Total /\ (seg.fin => Past(seg) = Total)
      /\ seg = Sent(a, n, seg.fin)
  BY Zenon DEF Honest
<1>3. Past(seg) = a + n
  BY Zenon DEF Past
<1>4. seg.seqno = Plus(ISS, a)
  BY <1>2 DEF Sent
<1>5. a \in 0 .. Total /\ a + n \in 0 .. Total
  <2>1. seg.seqno - ISS \in Int
    <3>1. seg.seqno \in Int /\ ISS \in Int
      BY <1>1, Constants, Zenon
    <3> QED BY <3>1
  <2>2. a \in 0 .. Modulus - 1
    BY <2>1, ModRange, Constants, Zenon DEF At, Minus
  <2> HIDE DEF a, n
  <2> QED BY <1>1, <1>2, <1>3, <2>2, Constants
<1>6. End(seg) = Plus(ISS, a + n)
  <2>1. End(seg) = Plus(Plus(ISS, a), n)
    BY <1>4, Zenon DEF End
  <2> HIDE DEF a, n
  <2>2. a \in -Modulus .. Modulus /\ n \in -Modulus .. Modulus
        /\ a + n \in -Modulus .. Modulus
    BY <1>1, <1>5, Constants
  <2> QED BY <2>1, <2>2, Onwards, Zenon
<1>7. Reach(seg) = Past(seg) + (IF seg.fin THEN 1 ELSE 0)
  <2>1. Reach(seg) = a + (n + (IF seg.fin THEN 1 ELSE 0))
    BY Zenon DEF Reach, TCP_TCPLEN
  <2> HIDE DEF a, n
  <2> QED BY <1>1, <1>3, <1>5, <2>1
<1> QED BY <1>1, <1>2, <1>3, <1>4, <1>5, <1>6, <1>7, Zenon

\* Positions are numbers.
LEMMA HonestInt ==
    ASSUME NEW seg \in Honest
    PROVE At(seg) \in Int /\ Past(seg) \in Int /\ Reach(seg) \in Int /\ At(seg) <= Past(seg)
<1>1. /\ At(seg) \in 0 .. Total /\ Past(seg) \in 0 .. Total /\ Len(seg.p) \in Nat
      /\ Past(seg) = At(seg) + Len(seg.p)
      /\ Reach(seg) = Past(seg) + (IF seg.fin THEN 1 ELSE 0)
  BY HonestFacts, Zenon
<1> QED BY <1>1

\* What the sender cuts from its stream is honest.
LEMMA SentHonest ==
    ASSUME NEW a \in 0 .. Total, NEW n \in Nat, NEW fin \in BOOLEAN,
           a + n <= Total, fin => a + n = Total
    PROVE LET seg == Sent(a, n, fin)
          IN  /\ seg \in Honest /\ At(seg) = a /\ Past(seg) = a + n
              /\ Len(seg.p) = n /\ seg.fin = fin
              /\ Reach(seg) = (a + n) + (IF fin THEN 1 ELSE 0)
<1> DEFINE seg == Sent(a, n, fin)
           p == [i \in 1 .. n |-> a + i]
<1>1. seg.seqno = Plus(ISS, a) /\ seg.p = p /\ seg.fin = fin
  BY DEF Sent
<1>2. \A i \in 1 .. n : a + i \in 1 .. Total
  BY Constants
<1>3. p \in Seq(1 .. Total) /\ Len(p) = n
  <2>1. p \in [1 .. n -> 1 .. Total]
    BY <1>2, Zenon
  <2> HIDE DEF p
  <2> QED BY <2>1, FunctionSeq, Zenon
<1>4. Plus(ISS, a) \in SeqNo /\ Minus(Plus(ISS, a), ISS) = a
  BY PositionOf, Zenon
<1> HIDE DEF p
<1>5. At(seg) = a
  BY <1>1, <1>4, Zenon DEF At
<1>6. Past(seg) = a + n
  BY <1>1, <1>3, <1>5, Zenon DEF Past
<1>7. seg \in Segments
  <2>1. seg = [seqno |-> Plus(ISS, a), p |-> p, fin |-> fin]
    BY Zenon DEF Sent, p
  <2> HIDE DEF seg
  <2> QED BY <2>1, <1>3, <1>4, Zenon DEF Segments
<1>8. seg = Sent(At(seg), Len(seg.p), seg.fin)
  BY <1>1, <1>3, <1>5, Zenon
<1> HIDE DEF seg
<1>9. seg \in Honest
  <2>1. Past(seg) <= Total /\ (seg.fin => Past(seg) = Total)
    BY <1>1, <1>6, Zenon
  <2> QED BY <1>7, <1>8, <2>1, Zenon DEF Honest
<1>10. Reach(seg) = (a + n) + (IF fin THEN 1 ELSE 0)
  BY <1>1, <1>6, <1>9, HonestFacts, Zenon
<1> QED BY <1>1, <1>3, <1>5, <1>6, <1>9, <1>10, Zenon DEF seg

\* The sequence numbers of honest segments are in the order of their positions.
LEMMA HonestOrder ==
    ASSUME NEW a \in 0 .. Total + TCP_WND + 1, NEW b \in 0 .. Total + TCP_WND + 1
    PROVE /\ TCP_SEQ_LT(Plus(ISS, a), Plus(ISS, b)) <=> a < b
          /\ TCP_SEQ_LEQ(Plus(ISS, a), Plus(ISS, b)) <=> a <= b
          /\ Plus(ISS, a) = Plus(ISS, b) <=> a = b
          /\ b <= a => Minus(Plus(ISS, a), Plus(ISS, b)) = a - b
<1>1. /\ a \in -Modulus .. Modulus /\ b \in -Modulus .. Modulus
      /\ a - b < Modulus \div 2 /\ b - a <= Modulus \div 2
      /\ b <= a => 0 <= a - b /\ a - b < Modulus
  BY Constants
<1> QED BY <1>1, Compare, Positions, Zenon

\* pbuf_realloc keeps a segment honest, when the FIN is not left behind.
LEMMA TrimHonest ==
    ASSUME NEW seg \in Honest, NEW n \in 0 .. Len(seg.p), ~seg.fin
    PROVE LET cut == Trim(seg, n)
          IN  /\ cut \in Honest /\ ~cut.fin /\ At(cut) = At(seg)
              /\ Past(cut) = At(seg) + n /\ Reach(cut) = At(seg) + n
<1> DEFINE a == At(seg)
           m == Len(seg.p)
           b == seg.fin
<1>1. /\ m \in Nat /\ a \in 0 .. Total /\ a + m \in 0 .. Total
      /\ seg = Sent(a, m, b) /\ b \in BOOLEAN /\ ~b
  BY HonestFacts, Zenon
<1>2. n \in 0 .. m
  BY Zenon
<1> HIDE DEF a, m, b
<1>3. Trim(seg, n) = Sent(a, n, b)
  <2> DEFINE x == Plus(ISS, a)
             f == [i \in 1 .. m |-> a + i]
             g == [i \in 1 .. n |-> a + i]
  <2>1. SubSeq(f, 1, n) = g
    BY <1>1, <1>2
  <2>2. seg = [seqno |-> x, p |-> f, fin |-> b]
    BY <1>1, Zenon DEF Sent
  <2> HIDE DEF x, f, g
  <2>3. [seg EXCEPT !.p = SubSeq(@, 1, n)] = [seqno |-> x, p |-> g, fin |-> b]
    <3>0. seg.p = f
      BY <2>2
    <3>1. [seg EXCEPT !.p = g] = [seqno |-> x, p |-> g, fin |-> b]
      BY <2>2
    <3>2. [seg EXCEPT !.p = SubSeq(@, 1, n)] = [seg EXCEPT !.p = g]
      BY <2>1, <3>0, Zenon
    <3> QED BY <3>1, <3>2, Zenon
  <2> QED BY <2>3, Zenon DEF Trim, Sent, x, g
<1>4. n \in Nat /\ a + n <= Total /\ (a + n) + 0 = a + n
  BY <1>1, <1>2, Sizes
<1>5. /\ Sent(a, n, b) \in Honest /\ ~Sent(a, n, b).fin
      /\ At(Sent(a, n, b)) = a /\ Past(Sent(a, n, b)) = a + n
      /\ Reach(Sent(a, n, b)) = a + n
  <2>1. /\ a \in 0 .. Total /\ n \in Nat /\ b \in BOOLEAN /\ ~b /\ a + n <= Total
        /\ (a + n) + 0 = a + n
    BY <1>1, <1>4, Zenon
  <2> QED BY <2>1, SentHonest, Zenon
<1> QED BY <1>3, <1>5, Zenon DEF a

-----------------------------------------------------------------------------
(* Sound queues *)

\* The segments of a sound queue
LEMMA SoundFacts ==
    ASSUME NEW q, NEW lo, NEW hi, Sound(q, lo, hi)
    PROVE /\ q \in Seq(Honest) /\ Len(q) \in Nat
          /\ \A i \in 1 .. Len(q) : q[i] \in Honest /\ lo <= At(q[i]) /\ Reach(q[i]) <= hi
          /\ \A i, j \in 1 .. Len(q) : i < j => Past(q[i]) <= At(q[j]) /\ ~q[i].fin
<1>1. q \in Seq(Honest)
  BY Zenon DEF Sound
<1>2. Len(q) \in Nat /\ \A i \in 1 .. Len(q) : q[i] \in Honest
  BY <1>1, SeqLen, Zenon
<1> QED BY <1>1, <1>2, Zenon DEF Sound

\* No segment and one segment
LEMMA SoundSmall ==
    ASSUME NEW lo, NEW hi
    PROVE /\ Sound(<<>>, lo, hi)
          /\ \A seg \in Honest : lo <= At(seg) /\ Reach(seg) <= hi => Sound(<<seg>>, lo, hi)
<1>1. Sound(<<>>, lo, hi)
  <2>1. <<>> \in Seq(Honest) /\ 1 .. Len(<<>>) = {}
    OBVIOUS
  <2> QED BY <2>1, Zenon DEF Sound
<1>2. ASSUME NEW seg \in Honest, lo <= At(seg), Reach(seg) <= hi
      PROVE Sound(<<seg>>, lo, hi)
  <2>1. <<seg>> \in Seq(Honest) /\ Len(<<seg>>) = 1 /\ <<seg>>[1] = seg
    BY OneOf, Zenon
  <2>2. \A i \in 1 .. 1 : i = 1
    OBVIOUS
  <2>3. ~(1 < 1)
    OBVIOUS
  <2>4. \A i \in 1 .. Len(<<seg>>) : i = 1
    BY <2>1, <2>2, Zenon
  <2> DEFINE s == <<seg>>
  <2>5. \A i \in 1 .. Len(s) : lo <= At(s[i]) /\ Reach(s[i]) <= hi
    BY <1>2, <2>1, <2>4, Zenon
  <2>6. \A i, j \in 1 .. Len(s) : i < j => Past(s[i]) <= At(s[j]) /\ ~s[i].fin
    BY <2>3, <2>4, Zenon
  <2> QED BY <2>1, <2>5, <2>6, Zenon DEF Sound
<1> QED BY <1>1, <1>2, Zenon

\* A part of a sound queue is sound.
LEMMA SoundPart ==
    ASSUME NEW q, NEW lo, NEW hi, Sound(q, lo, hi),
           NEW m \in 1 .. Len(q) + 1, NEW n \in m - 1 .. Len(q)
    PROVE /\ Sound(SubSeq(q, m, n), lo, hi) /\ Len(SubSeq(q, m, n)) = n - m + 1
          /\ \A i \in 1 .. n - m + 1 : SubSeq(q, m, n)[i] = q[m - 1 + i]
<1>1. /\ q \in Seq(Honest) /\ Len(q) \in Nat
      /\ \A i \in 1 .. Len(q) : q[i] \in Honest /\ lo <= At(q[i]) /\ Reach(q[i]) <= hi
      /\ \A i, j \in 1 .. Len(q) : i < j => Past(q[i]) <= At(q[j]) /\ ~q[i].fin
  BY SoundFacts, Zenon
<1> DEFINE s == SubSeq(q, m, n)
<1>2. /\ s \in Seq(Honest) /\ Len(s) = n - m + 1
      /\ \A i \in 1 .. n - m + 1 : s[i] = q[m - 1 + i]
  BY <1>1, SubSeqOf, Zenon
<1>3. \A i \in 1 .. n - m + 1 : m - 1 + i \in 1 .. Len(q)
  BY <1>1
<1>4. \A i, j \in 1 .. n - m + 1 : i < j => m - 1 + i < m - 1 + j
  BY <1>1
<1> HIDE DEF s
<1>5. \A i \in 1 .. Len(s) : lo <= At(s[i]) /\ Reach(s[i]) <= hi
  BY <1>1, <1>2, <1>3, Zenon
<1>6. \A i, j \in 1 .. Len(s) : i < j => Past(s[i]) <= At(s[j]) /\ ~s[i].fin
  <2> SUFFICES ASSUME NEW i \in 1 .. n - m + 1, NEW j \in 1 .. n - m + 1, i < j
               PROVE Past(s[i]) <= At(s[j]) /\ ~s[i].fin
    BY <1>2, Zenon
  <2>1. m - 1 + i \in 1 .. Len(q) /\ m - 1 + j \in 1 .. Len(q) /\ m - 1 + i < m - 1 + j
    BY <1>3, <1>4, Zenon
  <2>2. s[i] = q[m - 1 + i] /\ s[j] = q[m - 1 + j]
    BY <1>2, Zenon
  <2> QED BY <1>1, <2>1, <2>2, Zenon
<1>7. Sound(s, lo, hi)
  BY <1>2, <1>5, <1>6, Zenon DEF Sound
<1> QED BY <1>2, <1>7, Zenon DEF s

\* The first n segments of a sound queue
LEMMA SoundFront ==
    ASSUME NEW q, NEW lo, NEW hi, Sound(q, lo, hi), NEW n \in 0 .. Len(q)
    PROVE /\ Sound(SubSeq(q, 1, n), lo, hi) /\ Len(SubSeq(q, 1, n)) = n
          /\ \A i \in 1 .. n : SubSeq(q, 1, n)[i] = q[i]
<1> DEFINE m == 1
           s == SubSeq(q, m, n)
<1>1. Len(q) \in Nat
  BY SoundFacts, Zenon
<1>2. /\ m \in 1 .. Len(q) + 1 /\ n \in m - 1 .. Len(q) /\ n - m + 1 = n
      /\ \A i \in 1 .. n : m - 1 + i = i
  BY <1>1
<1> HIDE DEF m
<1>3. /\ Sound(s, lo, hi) /\ Len(s) = n - m + 1
      /\ \A i \in 1 .. n - m + 1 : s[i] = q[m - 1 + i]
  <2>1. m \in 1 .. Len(q) + 1 /\ n \in m - 1 .. Len(q) /\ Sound(q, lo, hi)
    BY <1>2, Zenon
  <2> QED BY ONLY <2>1, SoundPart, Zenon DEF s
<1> HIDE DEF s
<1>4. Sound(s, lo, hi) /\ Len(s) = n /\ \A i \in 1 .. n : s[i] = q[i]
  BY <1>2, <1>3, Zenon
<1> QED BY <1>4, Zenon DEF s, m

\* What is left of a sound queue behind its first k segments
LEMMA SoundBack ==
    ASSUME NEW q, NEW lo, NEW hi, Sound(q, lo, hi), NEW k \in 0 .. Len(q)
    PROVE LET s == SubSeq(q, k + 1, Len(q))
          IN  /\ Sound(s, lo, hi) /\ Len(s) = Len(q) - k
              /\ \A i \in 1 .. Len(q) - k : s[i] = q[k + i] /\ k + i \in 1 .. Len(q)
<1> DEFINE m == k + 1
           n == Len(q)
           s == SubSeq(q, m, n)
<1>1. n \in Nat
  BY SoundFacts, Zenon
<1>2. /\ m \in 1 .. n + 1 /\ n \in m - 1 .. n /\ n - m + 1 = n - k
      /\ \A i \in 1 .. n - k : m - 1 + i = k + i /\ k + i \in 1 .. n
  BY <1>1
<1> HIDE DEF m
<1>3. /\ Sound(s, lo, hi) /\ Len(s) = n - m + 1
      /\ \A i \in 1 .. n - m + 1 : s[i] = q[m - 1 + i]
  <2>1. m \in 1 .. Len(q) + 1 /\ n \in m - 1 .. Len(q) /\ Sound(q, lo, hi)
    BY <1>2, Zenon
  <2> HIDE DEF n
  <2> QED BY ONLY <2>1, SoundPart, Zenon DEF s
<1> HIDE DEF s, n
<1>4. /\ Sound(s, lo, hi) /\ Len(s) = n - k
      /\ \A i \in 1 .. n - k : s[i] = q[k + i] /\ k + i \in 1 .. n
  BY <1>2, <1>3, Zenon
<1> QED BY <1>4, Zenon DEF s, m, n

\* Behind segments without a FIN another sound queue may follow.
LEMMA SoundJoin ==
    ASSUME NEW q, NEW r, NEW lo \in Int, NEW mid \in Int, NEW hi \in Int, lo <= mid,
           Sound(q, lo, hi), Sound(r, mid, hi),
           \A i \in 1 .. Len(q) : Past(q[i]) <= mid /\ ~q[i].fin
    PROVE Sound(q \o r, lo, hi) /\ Len(q \o r) = Len(q) + Len(r)
<1>1. /\ q \in Seq(Honest) /\ Len(q) \in Nat
      /\ \A i \in 1 .. Len(q) : q[i] \in Honest /\ lo <= At(q[i]) /\ Reach(q[i]) <= hi
      /\ \A i, j \in 1 .. Len(q) : i < j => Past(q[i]) <= At(q[j]) /\ ~q[i].fin
  BY SoundFacts, Zenon
<1>2. /\ r \in Seq(Honest) /\ Len(r) \in Nat
      /\ \A i \in 1 .. Len(r) : r[i] \in Honest /\ mid <= At(r[i]) /\ Reach(r[i]) <= hi
      /\ \A i, j \in 1 .. Len(r) : i < j => Past(r[i]) <= At(r[j]) /\ ~r[i].fin
  BY SoundFacts, Zenon
<1> DEFINE s == q \o r
           n == Len(q)
           m == Len(r)
<1>3. /\ s \in Seq(Honest) /\ Len(s) = n + m
      /\ \A i \in 1 .. n : s[i] = q[i]
      /\ \A i \in 1 .. m : s[n + i] = r[i]
  <2>1. q \in Seq(Honest) /\ r \in Seq(Honest)
    BY <1>1, <1>2, Zenon
  <2>2. /\ q \o r \in Seq(Honest) /\ Len(q \o r) = Len(q) + Len(r)
        /\ \A i \in 1 .. Len(q) : (q \o r)[i] = q[i]
        /\ \A i \in 1 .. Len(r) : (q \o r)[Len(q) + i] = r[i]
    BY <2>1, SMT
  <2> QED BY <2>2, Zenon
<1> HIDE DEF s, n, m
<1>4. n \in Nat /\ m \in Nat
  BY <1>1, <1>2, Zenon DEF n, m
<1>5. \A k \in 1 .. n + m : k \in 1 .. n \/ \E i \in 1 .. m : k = n + i
  <2> SUFFICES ASSUME NEW k \in 1 .. n + m, k \notin 1 .. n
               PROVE \E i \in 1 .. m : k = n + i
    BY Zenon
  <2>1. k - n \in 1 .. m /\ k = n + (k - n)
    BY <1>4
  <2> QED BY <2>1, Zenon
<1>6. \A x \in Honest : At(x) \in Int /\ Past(x) \in Int
  BY HonestInt, Zenon
<1>7. \A i \in 1 .. m : lo <= At(r[i])
  <2> SUFFICES ASSUME NEW i \in 1 .. m PROVE lo <= At(r[i])
    BY Zenon
  <2>1. mid <= At(r[i]) /\ At(r[i]) \in Int
    BY <1>2, <1>6, Zenon DEF m
  <2> QED BY <2>1
<1>8. \A k \in 1 .. Len(s) : lo <= At(s[k]) /\ Reach(s[k]) <= hi
  <2> SUFFICES ASSUME NEW k \in 1 .. n + m PROVE lo <= At(s[k]) /\ Reach(s[k]) <= hi
    BY <1>3, Zenon
  <2>1. CASE k \in 1 .. n
    BY <2>1, <1>1, <1>3, Zenon DEF n
  <2>2. CASE \E i \in 1 .. m : k = n + i
    <3>1. PICK i \in 1 .. m : k = n + i
      BY <2>2, Zenon
    <3>2. s[k] = r[i]
      BY <1>3, <3>1, Zenon
    <3> QED BY <1>2, <1>7, <3>2, Zenon DEF m
  <2> QED BY <1>5, <2>1, <2>2, Zenon
<1>9. \A k, l \in 1 .. Len(s) : k < l => Past(s[k]) <= At(s[l]) /\ ~s[k].fin
  <2> SUFFICES ASSUME NEW k \in 1 .. n + m, NEW l \in 1 .. n + m, k < l
               PROVE Past(s[k]) <= At(s[l]) /\ ~s[k].fin
    BY <1>3, Zenon
  <2>1. CASE k \in 1 .. n /\ l \in 1 .. n
    BY <2>1, <1>1, <1>3, Zenon DEF n
  <2>2. CASE k \in 1 .. n /\ \E i \in 1 .. m : l = n + i
    <3>1. PICK i \in 1 .. m : l = n + i
      BY <2>2, Zenon
    <3>2. s[l] = r[i] /\ s[k] = q[k] /\ k \in 1 .. n
      BY <1>3, <2>2, <3>1, Zenon
    <3>3. /\ Past(q[k]) <= mid /\ ~q[k].fin /\ mid <= At(r[i])
          /\ Past(q[k]) \in Int /\ At(r[i]) \in Int
      BY <1>1, <1>2, <1>6, <3>2, Zenon DEF n, m
    <3>4. Past(q[k]) <= At(r[i])
      BY <3>3
    <3> QED BY <3>2, <3>3, <3>4, Zenon
  <2>3. CASE (\E i \in 1 .. m : k = n + i) /\ (\E i \in 1 .. m : l = n + i)
    <3>1. PICK i \in 1 .. m : k = n + i
      BY <2>3, Zenon
    <3>2. PICK j \in 1 .. m : l = n + j
      BY <2>3, Zenon
    <3>3. i < j
      BY <1>4, <3>1, <3>2
    <3>4. s[k] = r[i] /\ s[l] = r[j]
      BY <1>3, <3>1, <3>2, Zenon
    <3> QED BY <1>2, <3>3, <3>4, Zenon DEF m
  <2>4. CASE (\E i \in 1 .. m : k = n + i) /\ l \in 1 .. n
    <3>1. PICK i \in 1 .. m : k = n + i
      BY <2>4, Zenon
    <3>2. FALSE
      BY <1>4, <2>4, <3>1
    <3> QED BY <3>2, Zenon
  <2> QED BY <1>5, <2>1, <2>2, <2>3, <2>4, Zenon
<1>10. Sound(s, lo, hi)
  BY <1>3, <1>8, <1>9, Zenon DEF Sound
<1> QED BY <1>3, <1>10, Zenon DEF s, n, m

-----------------------------------------------------------------------------
(* The out-of-sequence queue *)

\* Merge: the segment takes the place of those it covers and of their FIN, and
\* ends where the rest of the queue begins.
LEMMA MergeSound ==
    ASSUME NEW seg \in Honest, NEW q, NEW hi \in Int,
           Sound(q, At(seg), hi), Reach(seg) <= hi
    PROVE LET m == Merge(seg, q)
          IN  /\ m.seg \in Honest /\ At(m.seg) = At(seg) /\ Reach(m.seg) <= hi
              /\ Sound(m.rest, Past(m.seg), hi)
              /\ m.seg.fin => m.rest = <<>>
              /\ m = [seg |-> m.seg, rest |-> m.rest]
<1> DEFINE a == At(seg)
           n == Len(seg.p)
           k == Covered(q, End(seg))
           rest == SubSeq(q, k + 1, Len(q))
           fin == \E i \in 1 .. k : q[i].fin
           wide == [seg EXCEPT !.fin = fin]
<1>1. /\ seg.fin \in BOOLEAN /\ n \in Nat /\ a \in 0 .. Total
      /\ Past(seg) = a + n /\ Past(seg) \in 0 .. Total
      /\ Reach(seg) = Past(seg) + (IF seg.fin THEN 1 ELSE 0)
      /\ seg.seqno = Plus(ISS, a) /\ End(seg) = Plus(ISS, Past(seg))
      /\ (seg.fin => Past(seg) = Total) /\ seg = Sent(a, n, seg.fin)
  BY HonestFacts, Zenon
<1>2. /\ q \in Seq(Honest) /\ Len(q) \in Nat
      /\ \A i \in 1 .. Len(q) : q[i] \in Honest /\ a <= At(q[i]) /\ Reach(q[i]) <= hi
      /\ \A i, j \in 1 .. Len(q) : i < j => Past(q[i]) <= At(q[j]) /\ ~q[i].fin
  BY SoundFacts, Zenon
<1>3. CASE seg.fin
  <2>1. Merge(seg, q) = [seg |-> seg, rest |-> <<>>]
    BY <1>3, Zenon DEF Merge
  <2>2. Sound(<<>>, Past(seg), hi)
    BY SoundSmall, Zenon
  <2> QED BY <2>1, <2>2
<1>4. CASE ~seg.fin
  <2> HIDE DEF a, n, k, rest, fin
  <2>1. Merge(seg, q) = [seg |-> CutAfter(wide, rest), rest |-> rest]
    BY <1>4, Zenon DEF Merge, k, rest, fin
  <2>2. /\ k \in 0 .. Len(q)
        /\ \A i \in 1 .. k : i \in 1 .. Len(q) /\ Past(q[i]) <= Past(seg)
        /\ k + 1 \in 1 .. Len(q) => Past(seg) < Past(q[k + 1])
    <3> DEFINE good == {i \in 1 .. Len(q) : TCP_SEQ_LEQ(End(q[i]), End(seg))}
    <3>1. ASSUME NEW i \in 1 .. Len(q) PROVE i \in good <=> Past(q[i]) <= Past(seg)
      <4>1. q[i] \in Honest
        BY <1>2, Zenon
      <4>2. End(q[i]) = Plus(ISS, Past(q[i])) /\ Past(q[i]) \in 0 .. Total
        BY <4>1, HonestFacts, Zenon
      <4>3. Past(q[i]) \in 0 .. Total + TCP_WND + 1 /\ Past(seg) \in 0 .. Total + TCP_WND + 1
        <5>1. Past(q[i]) \in 0 .. Total /\ Past(seg) \in 0 .. Total
          BY <1>1, <4>2, Zenon
        <5> QED BY <5>1, Sizes
      <4>4. TCP_SEQ_LEQ(Plus(ISS, Past(q[i])), Plus(ISS, Past(seg)))
                <=> Past(q[i]) <= Past(seg)
        BY <4>3, HonestOrder, Zenon
      <4> QED BY <1>1, <4>2, <4>4, Zenon
    <3>2. k = Walk(q, good)
      BY Zenon DEF Covered, k
    <3>3. good \subseteq 1 .. Len(q)
      BY Zenon
    <3> HIDE DEF good
    <3>4. k \in 0 .. Len(q) /\ (\A i \in 1 .. k : i \in good) /\ k + 1 \notin good
      BY <1>2, <3>2, <3>3, WalkStops, Zenon
    <3>5. \A i \in 1 .. k : i \in 1 .. Len(q) /\ Past(q[i]) <= Past(seg)
      BY <3>1, <3>3, <3>4, Zenon
    <3>6. ASSUME k + 1 \in 1 .. Len(q) PROVE Past(seg) < Past(q[k + 1])
      <4>1. ~(Past(q[k + 1]) <= Past(seg))
        BY <3>1, <3>4, <3>6, Zenon
      <4>2. Past(q[k + 1]) \in Int /\ Past(seg) \in Int
        BY <1>2, <3>6, HonestInt, Zenon
      <4> QED BY <4>1, <4>2
    <3> QED BY <3>4, <3>5, <3>6, Zenon
  <2>3. /\ Sound(rest, a, hi) /\ Len(rest) = Len(q) - k
        /\ \A i \in 1 .. Len(rest) : rest[i] = q[k + i] /\ k + i \in 1 .. Len(q)
    <3>1. k \in 0 .. Len(q)
      BY <2>2, Zenon
    <3>2. /\ Sound(SubSeq(q, k + 1, Len(q)), At(seg), hi)
          /\ Len(SubSeq(q, k + 1, Len(q))) = Len(q) - k
          /\ \A i \in 1 .. Len(q) - k :
                SubSeq(q, k + 1, Len(q))[i] = q[k + i] /\ k + i \in 1 .. Len(q)
      BY <3>1, SoundBack, Zenon
    <3> QED BY <3>2, Zenon DEF a, rest
  <2>4. /\ wide \in Honest /\ At(wide) = a /\ Past(wide) = a + n /\ Len(wide.p) = n
        /\ wide.fin = fin /\ Reach(wide) <= hi /\ wide.seqno = Plus(ISS, a)
    <3>1. fin \in BOOLEAN
      BY Zenon DEF fin
    <3>2. wide = Sent(a, n, fin)
      <4> DEFINE x == Plus(ISS, a)
                 f == [i \in 1 .. n |-> a + i]
                 b == seg.fin
      <4>1. seg = [seqno |-> x, p |-> f, fin |-> b]
        BY <1>1, Zenon DEF Sent
      <4> HIDE DEF x, f, b
      <4>2. wide = [seqno |-> x, p |-> f, fin |-> fin]
        BY <4>1
      <4> QED BY <4>2, Zenon DEF Sent, x, f
    <3>3. ASSUME fin PROVE a + n = Total /\ Total + 1 <= hi
      <4>1. PICK i \in 1 .. k : q[i].fin
        BY <3>3, Zenon DEF fin
      <4>2. /\ q[i] \in Honest /\ Past(q[i]) <= Past(seg) /\ Reach(q[i]) <= hi
        BY <1>2, <2>2, Zenon
      <4>3. Past(q[i]) = Total /\ Reach(q[i]) = Past(q[i]) + 1
        BY <4>1, <4>2, HonestFacts
      <4> QED BY <1>1, <4>2, <4>3, Sizes
    <3>4. a + n <= Total /\ a + n = Past(seg) /\ Past(seg) <= hi
      BY <1>1, <1>4, Sizes
    <3>5. /\ wide \in Honest /\ At(wide) = a /\ Past(wide) = a + n /\ Len(wide.p) = n
          /\ wide.fin = fin /\ Reach(wide) = (a + n) + (IF fin THEN 1 ELSE 0)
      <4> HIDE DEF wide
      <4>1. LET sent == Sent(a, n, fin)
            IN  /\ sent \in Honest /\ At(sent) = a /\ Past(sent) = a + n
                /\ Len(sent.p) = n /\ sent.fin = fin
                /\ Reach(sent) = (a + n) + (IF fin THEN 1 ELSE 0)
        <5>1. /\ a \in 0 .. Total /\ n \in Nat /\ fin \in BOOLEAN /\ a + n <= Total
              /\ (fin => a + n = Total)
          BY <1>1, <3>1, <3>3, <3>4, Zenon
        <5> QED BY <5>1, SentHonest, Zenon
      <4> QED BY <3>2, <4>1, Zenon
    <3> HIDE DEF wide
    <3>6. Reach(wide) <= hi
      BY <3>3, <3>4, <3>5, <1>1, Sizes
    <3>7. wide.seqno = Plus(ISS, a)
      BY <3>5, HonestFacts, Zenon
    <3> QED BY <3>5, <3>6, <3>7, Zenon
  <2> HIDE DEF wide
  <2>5. CASE rest = <<>>
    <3>1. CutAfter(wide, rest) = wide
      BY <2>5, Zenon DEF CutAfter
    <3>2. Sound(rest, Past(wide), hi)
      BY <2>5, SoundSmall, Zenon
    <3> QED BY <2>1, <2>4, <2>5, <3>1, <3>2, SMT DEF a
  <2>6. CASE rest # <<>>
    <3> DEFINE r == rest[1]
               b == At(r)
               cut == CutAfter(wide, rest)
    <3>1. 1 \in 1 .. Len(rest) /\ Head(rest) = r
      <4>1. rest \in Seq(Honest)
        BY <2>3, SoundFacts, Zenon
      <4> QED BY <2>6, <4>1
    <3>2. r = q[k + 1] /\ k + 1 \in 1 .. Len(q)
      BY <2>3, <3>1, Zenon
    <3>3. r \in Honest /\ a <= b /\ Past(seg) < Past(r)
      BY <1>2, <2>2, <3>2, Zenon
    <3>4. ~fin
      <4> SUFFICES ASSUME NEW i \in 1 .. k, q[i].fin PROVE FALSE
        BY Zenon DEF fin
      <4>1. i < k + 1 /\ i \in 1 .. Len(q)
        BY <2>2
      <4> QED BY <1>2, <3>2, <4>1, Zenon
    <3>5. b \in 0 .. Total /\ r.seqno = Plus(ISS, b)
      BY <3>3, HonestFacts, Zenon
    <3>6. /\ cut \in Honest /\ At(cut) = a /\ Past(cut) <= b /\ ~cut.fin
          /\ Reach(cut) <= hi
      <4> HIDE DEF b
      <4>1. /\ End(wide) = Plus(ISS, a + n) /\ a + n \in 0 .. Total
        BY <1>1, <2>4, HonestFacts, Zenon
      <4>2. /\ a \in 0 .. Total + TCP_WND + 1 /\ b \in 0 .. Total + TCP_WND + 1
            /\ a + n \in 0 .. Total + TCP_WND + 1
        BY <1>1, <3>5, <4>1, Sizes
      <4>3. TCP_SEQ_LT(Head(rest).seqno, End(wide)) <=> b < a + n
        <5>1. TCP_SEQ_LT(Plus(ISS, b), Plus(ISS, a + n)) <=> b < a + n
          BY <4>2, HonestOrder, Zenon
        <5> QED BY <3>1, <3>5, <4>1, <5>1, Zenon
      <4>4. Minus(Head(rest).seqno, wide.seqno) = b - a
        <5>1. a <= b
          BY <3>3, Zenon DEF b
        <5>2. Minus(Plus(ISS, b), Plus(ISS, a)) = b - a
          BY <4>2, <5>1, HonestOrder, Zenon
        <5> QED BY <2>4, <3>1, <3>5, <5>2, Zenon
      <4>5. CASE b < a + n
        <5>1. cut = Trim(wide, b - a)
          BY <2>6, <4>3, <4>4, <4>5, Zenon DEF CutAfter
        <5>2. a <= b
          BY <3>3, Zenon DEF b
        <5>3. b - a \in 0 .. n /\ a + (b - a) = b /\ b <= hi
          <6>1. Reach(wide) = a + n
            BY <2>4, <3>4, HonestFacts, SMT
          <6> QED BY <1>1, <2>4, <4>2, <4>5, <5>2, <6>1
        <5>4. b - a \in 0 .. Len(wide.p) /\ ~wide.fin
          BY <2>4, <3>4, <5>3, Zenon
        <5>5. /\ Trim(wide, b - a) \in Honest /\ ~Trim(wide, b - a).fin
              /\ At(Trim(wide, b - a)) = a
              /\ Past(Trim(wide, b - a)) = b /\ Reach(Trim(wide, b - a)) = b
          BY <2>4, <5>3, <5>4, TrimHonest, Zenon
        <5>6. b <= b
          BY <4>2
        <5> QED BY <5>1, <5>3, <5>5, <5>6, Zenon
      <4>6. CASE ~(b < a + n)
        <5>1. cut = wide
          BY <4>3, <4>6, Zenon DEF CutAfter
        <5>2. a + n <= b
          BY <4>2, <4>6
        <5> QED BY <2>4, <3>4, <5>1, <5>2, Zenon
      <4> QED BY <4>5, <4>6, Zenon
    <3>7. Sound(rest, Past(cut), hi)
      <4>1. /\ rest \in Seq(Honest)
            /\ \A i \in 1 .. Len(rest) : rest[i] \in Honest /\ Reach(rest[i]) <= hi
            /\ \A i, j \in 1 .. Len(rest) : i < j => Past(rest[i]) <= At(rest[j]) /\ ~rest[i].fin
        BY <2>3, SoundFacts, Zenon
      <4>2. ASSUME NEW i \in 1 .. Len(rest) PROVE Past(cut) <= At(rest[i])
        <5>1. rest[i] \in Honest /\ (1 < i => Past(r) <= At(rest[i]))
          BY <3>1, <4>1, Zenon
        <5>2. /\ At(rest[i]) \in Int /\ b \in Int /\ Past(r) \in Int /\ b <= Past(r)
              /\ Past(cut) \in Int
          BY <3>3, <3>6, <5>1, HonestInt, Zenon
        <5>3. i = 1 => At(rest[i]) = b
          BY Zenon
        <5> HIDE DEF b, r, cut
        <5> QED BY <3>6, <5>1, <5>2, <5>3
      <4> HIDE DEF cut
      <4> QED BY <4>1, <4>2, Zenon DEF Sound
    <3> HIDE DEF cut
    <3>8. Merge(seg, q) = [seg |-> cut, rest |-> rest]
      BY <2>1, Zenon DEF cut
    <3> QED BY <3>6, <3>7, <3>8, SMT DEF a
  <2> QED BY <2>5, <2>6, Zenon
<1> QED BY <1>3, <1>4, Zenon

\* tcp_oos_insert_segment puts a segment in front of a sound queue.
LEMMA InsertSound ==
    ASSUME NEW seg \in Honest, NEW q, NEW hi \in Int,
           Sound(q, At(seg), hi), Reach(seg) <= hi
    PROVE Sound(tcp_oos_insert_segment(seg, q), At(seg), hi)
<1> DEFINE x == Merge(seg, q).seg
           rest == Merge(seg, q).rest
<1>1. /\ x \in Honest /\ At(x) = At(seg) /\ Reach(x) <= hi
      /\ Sound(rest, Past(x), hi) /\ (x.fin => rest = <<>>)
  BY MergeSound, Zenon
<1>2. tcp_oos_insert_segment(seg, q) = <<x>> \o rest
  BY Zenon DEF tcp_oos_insert_segment
<1> HIDE DEF x, rest
<1>3. At(x) \in Int /\ Past(x) \in Int /\ At(x) <= Past(x) /\ At(x) <= At(x) /\ Past(x) <= Past(x)
  <2>1. At(x) \in Int /\ Past(x) \in Int /\ At(x) <= Past(x)
    BY <1>1, HonestInt, Zenon
  <2> QED BY <2>1
<1>4. Sound(<<x>>, At(x), hi)
  BY <1>1, <1>3, SoundSmall, Zenon
<1>5. CASE x.fin
  <2>1. <<x>> \o rest = <<x>>
    <3>1. <<x>> \in Seq(Honest) /\ rest = <<>>
      BY <1>1, <1>5, OneOf, Zenon
    <3> QED BY <3>1
  <2> QED BY <1>1, <1>2, <1>4, <2>1, Zenon
<1>6. CASE ~x.fin
  <2>1. \A i \in 1 .. Len(<<x>>) : <<x>>[i] = x
    OBVIOUS
  <2>2. \A i \in 1 .. Len(<<x>>) : Past(<<x>>[i]) <= Past(x) /\ ~<<x>>[i].fin
    BY <1>3, <1>6, <2>1, Zenon
  <2>3. Sound(<<x>> \o rest, At(x), hi)
    BY <1>1, <1>3, <1>4, <2>2, SoundJoin, Zenon
  <2> QED BY <1>1, <1>2, <2>3, Zenon
<1> QED BY <1>5, <1>6, Zenon

\* CutBefore: a segment that begins before another is cut where that begins.
LEMMA CutBeforeHonest ==
    ASSUME NEW x \in Honest, NEW seg \in Honest, At(x) < At(seg), ~x.fin
    PROVE LET cut == CutBefore(x, seg.seqno)
          IN  /\ cut \in Honest /\ ~cut.fin /\ At(cut) = At(x)
              /\ Past(cut) <= At(seg) /\ Past(cut) <= Past(x) /\ Reach(cut) <= Reach(x)
<1> DEFINE a == At(x)
           n == Len(x.p)
           b == At(seg)
<1>1. /\ n \in Nat /\ a \in 0 .. Total /\ Past(x) = a + n /\ a + n \in 0 .. Total
      /\ Reach(x) = Past(x) + (IF x.fin THEN 1 ELSE 0)
      /\ x.seqno = Plus(ISS, a) /\ End(x) = Plus(ISS, a + n)
  BY HonestFacts, Zenon
<1>2. b \in 0 .. Total /\ seg.seqno = Plus(ISS, b)
  BY HonestFacts, Zenon
<1>3. a < b
  BY Zenon
<1>4. Reach(x) = a + n
  <2> HIDE DEF a, n
  <2> QED BY <1>1
<1> HIDE DEF a, b, n
<1>5. /\ a \in 0 .. Total + TCP_WND + 1 /\ b \in 0 .. Total + TCP_WND + 1
      /\ a + n \in 0 .. Total + TCP_WND + 1 /\ a <= b
  BY <1>1, <1>2, <1>3, Sizes
<1>6. TCP_SEQ_LT(Plus(ISS, b), Plus(ISS, a + n)) <=> b < a + n
  BY <1>5, HonestOrder, Zenon
<1>7. Minus(Plus(ISS, b), Plus(ISS, a)) = b - a
  BY <1>5, HonestOrder, Zenon
<1>8. CASE b < a + n
  <2>1. CutBefore(x, seg.seqno) = Trim(x, b - a)
    BY <1>1, <1>2, <1>6, <1>7, <1>8, Zenon DEF CutBefore
  <2>2. b - a \in 0 .. n /\ a + (b - a) = b /\ b <= a + n /\ b <= b
    BY <1>1, <1>5, <1>8
  <2>3. b - a \in 0 .. Len(x.p)
    BY <2>2, Zenon DEF n
  <2>4. LET cut == Trim(x, b - a)
        IN  /\ cut \in Honest /\ ~cut.fin /\ At(cut) = At(x)
            /\ Past(cut) = At(x) + (b - a) /\ Reach(cut) = At(x) + (b - a)
    BY <2>3, TrimHonest, Zenon
  <2>5. At(x) + (b - a) = b
    BY <2>2, Zenon DEF a
  <2> QED BY <1>1, <1>4, <2>1, <2>2, <2>4, <2>5, Zenon DEF b
<1>9. CASE ~(b < a + n)
  <2>1. CutBefore(x, seg.seqno) = x
    BY <1>1, <1>2, <1>6, <1>9, Zenon DEF CutBefore
  <2>2. a + n <= b /\ a + n <= a + n
    BY <1>1, <1>5, <1>9
  <2> QED BY <1>1, <1>4, <2>1, <2>2, Zenon DEF b
<1> QED BY <1>8, <1>9, Zenon

\* The segments in front of a new one, the last of them cut where it begins
LEMMA CutHeadSound ==
    ASSUME NEW seg \in Honest, NEW q, NEW lo \in Int, NEW hi \in Int, Sound(q, lo, hi),
           NEW n \in 0 .. Len(q),
           \A i \in 1 .. n : At(q[i]) < At(seg) /\ ~q[i].fin
    PROVE LET cut == [SubSeq(q, 1, n) EXCEPT ![n] = CutBefore(@, seg.seqno)]
          IN  /\ Sound(cut, lo, hi)
              /\ \A i \in 1 .. Len(cut) : Past(cut[i]) <= At(seg) /\ ~cut[i].fin
<1> DEFINE head == SubSeq(q, 1, n)
           x == CutBefore(head[n], seg.seqno)
           cut == [head EXCEPT ![n] = x]
<1>1. /\ q \in Seq(Honest) /\ Len(q) \in Nat
      /\ \A i \in 1 .. Len(q) : q[i] \in Honest /\ lo <= At(q[i]) /\ Reach(q[i]) <= hi
      /\ \A i, j \in 1 .. Len(q) : i < j => Past(q[i]) <= At(q[j]) /\ ~q[i].fin
  BY SoundFacts, Zenon
<1>2. /\ Sound(head, lo, hi) /\ Len(head) = n
      /\ \A i \in 1 .. n : head[i] = q[i]
  BY SoundFront, Zenon
<1>3. head \in Seq(Honest)
  BY <1>2, SoundFacts, Zenon
<1> HIDE DEF head
<1>4. CASE n = 0
  <2>1. cut = head /\ 1 .. Len(head) = {}
    BY <1>2, <1>3, <1>4
  <2> QED BY <1>2, <2>1, Zenon DEF head
<1>5. CASE n # 0
  <2>1. n \in 1 .. n
    BY <1>1, <1>5
  <2>2. n \in 1 .. Len(q) /\ head[n] = q[n] /\ q[n] \in Honest
    <3>1. n \in 1 .. Len(q)
      BY <1>1, <2>1
    <3> QED BY <1>1, <1>2, <2>1, <3>1, Zenon
  <2>3. /\ x \in Honest /\ ~x.fin /\ At(x) = At(q[n]) /\ Past(x) <= At(seg)
        /\ Past(x) <= Past(q[n]) /\ Reach(x) <= Reach(q[n])
    BY <2>1, <2>2, CutBeforeHonest, Zenon
  <2> HIDE DEF x
  <2>4. /\ cut \in Seq(Honest) /\ Len(cut) = n /\ cut[n] = x
        /\ \A i \in 1 .. n : i # n => cut[i] = head[i]
    BY <1>2, <1>3, <2>1, <2>3
  <2> DEFINE c == cut
  <2> HIDE DEF c
  <2>5. \A i \in 1 .. n : i \in 1 .. Len(q)
    BY <1>1
  <2>6. \A i \in 1 .. n : i # n => c[i] = q[i] /\ i < n
    <3>1. \A i \in 1 .. n : i # n => i < n
      BY <1>1
    <3> QED BY <1>2, <2>4, <3>1, Zenon DEF c
  <2>7. ASSUME NEW i \in 1 .. n
        PROVE /\ lo <= At(c[i]) /\ Reach(c[i]) <= hi
              /\ Past(c[i]) <= At(seg) /\ ~c[i].fin /\ At(c[i]) = At(q[i])
    <3>1. CASE i = n
      <4>1. c[i] = x
        BY <2>4, <3>1, Zenon DEF c
      <4>2. Reach(x) <= hi
        <5>1. Reach(x) <= Reach(q[n]) /\ Reach(q[n]) <= hi
          BY <1>1, <2>2, <2>3, Zenon
        <5>2. Reach(x) \in Int /\ Reach(q[n]) \in Int
          BY <2>2, <2>3, HonestInt, Zenon
        <5> QED BY <5>1, <5>2
      <4> QED BY <1>1, <2>2, <2>3, <3>1, <4>1, <4>2, Zenon
    <3>2. CASE i # n
      <4>1. c[i] = q[i] /\ i < n
        BY <2>6, <3>2, Zenon
      <4>2. Past(q[i]) <= At(seg)
        <5>1. Past(q[i]) <= At(q[n]) /\ At(q[n]) < At(seg)
          BY <1>1, <2>1, <2>2, <2>5, <4>1, Zenon
        <5>2. Past(q[i]) \in Int /\ At(q[n]) \in Int /\ At(seg) \in Int
          BY <1>1, <2>2, <2>5, HonestInt, Zenon
        <5> QED BY <5>1, <5>2
      <4> QED BY <1>1, <2>5, <4>1, <4>2, Zenon
    <3> QED BY <3>1, <3>2, Zenon
  <2>8. ASSUME NEW i \in 1 .. n, NEW j \in 1 .. n, i < j
        PROVE Past(c[i]) <= At(c[j]) /\ ~c[i].fin
    <3>1. i # n
      BY <2>8, <1>1
    <3>2. c[i] = q[i] /\ At(c[j]) = At(q[j])
      BY <2>6, <2>7, <3>1, Zenon
    <3> QED BY <1>1, <2>5, <2>8, <3>2, Zenon
  <2>9. c \in Seq(Honest) /\ Len(c) = n
    BY <2>4, Zenon DEF c
  <2>10. Sound(c, lo, hi)
    BY <2>7, <2>8, <2>9, Zenon DEF Sound
  <2>11. \A i \in 1 .. Len(c) : Past(c[i]) <= At(seg) /\ ~c[i].fin
    BY <2>7, <2>9, Zenon
  <2>12. c = [SubSeq(q, 1, n) EXCEPT ![n] = CutBefore(@, seg.seqno)]
    BY Zenon DEF c, x, head
  <2> QED BY <2>10, <2>11, <2>12, Zenon
<1> QED BY <1>4, <1>5, Zenon

\* FitWindow has nothing to cut off a segment that fits.
LEMMA FitsWindow ==
    ASSUME NEW seg \in Honest, NEW pos \in 0 .. Total, rcv_nxt = Plus(ISS, pos),
           rcv_wnd \in Int, pos <= At(seg), Reach(seg) <= pos + rcv_wnd
    PROVE FitWindow(seg) = seg
<1> DEFINE a == At(seg)
           l == TCP_TCPLEN(seg)
<1>1. /\ a \in 0 .. Total /\ seg.seqno = Plus(ISS, a) /\ Reach(seg) = a + l
      /\ Len(seg.p) \in Nat /\ seg.fin \in BOOLEAN
  BY HonestFacts, Zenon DEF Reach
<1>2. l \in Nat
  <2> DEFINE k == IF seg.fin THEN 1 ELSE 0
  <2>1. l = Len(seg.p) + k
    BY Zenon DEF TCP_TCPLEN
  <2>2. k \in Nat
    OBVIOUS
  <2> HIDE DEF l, k
  <2> QED BY <1>1, <2>1, <2>2
<1>3. a + l <= pos + rcv_wnd /\ pos <= a
  BY <1>1, Zenon
<1> HIDE DEF a, l
<1>4. a \in 0 .. Total + TCP_WND + 1 /\ pos \in 0 .. Total + TCP_WND + 1
  BY <1>1, Sizes
<1>5. Minus(seg.seqno, rcv_nxt) = a - pos
  BY <1>1, <1>3, <1>4, HonestOrder, Zenon
<1>6. ~((a - pos) + l > rcv_wnd)
  BY <1>1, <1>2, <1>3
<1> QED BY <1>5, <1>6, Zenon DEF FitWindow, l

\* Queue keeps the queue sound, whatever order the segments come in.
LEMMA QueueKeepsSound ==
    ASSUME NEW seg \in Honest, NEW pos \in 0 .. Total, rcv_nxt = Plus(ISS, pos),
           rcv_wnd \in Int, pos + 1 <= At(seg), Reach(seg) <= pos + rcv_wnd,
           NEW q, Sound(q, pos + 1, pos + rcv_wnd)
    PROVE Sound(Queue(seg, q), pos + 1, pos + rcv_wnd)
<1> DEFINE lo == pos + 1
           hi == pos + rcv_wnd
           good == {i \in 1 .. Len(q) : TCP_SEQ_LT(q[i].seqno, seg.seqno)}
           n == Walk(q, good)
           head == SubSeq(q, 1, n)
           tail == SubSeq(q, n + 1, Len(q))
           cut == [head EXCEPT ![n] = CutBefore(@, seg.seqno)]
<1>1. lo \in Int /\ hi \in Int
  OBVIOUS
<1>2. Sound(q, lo, hi) /\ lo <= At(seg) /\ Reach(seg) <= hi
  BY Zenon
<1>3. FitWindow(seg) = seg
  <2>1. At(seg) \in Int
    BY HonestInt, Zenon
  <2>2. pos <= At(seg)
    BY <2>1
  <2> QED BY <2>2, FitsWindow, Zenon
<1> HIDE DEF lo, hi
<1>4. /\ q \in Seq(Honest) /\ Len(q) \in Nat
      /\ \A i \in 1 .. Len(q) : q[i] \in Honest /\ lo <= At(q[i]) /\ Reach(q[i]) <= hi
      /\ \A i, j \in 1 .. Len(q) : i < j => Past(q[i]) <= At(q[j]) /\ ~q[i].fin
  BY <1>2, SoundFacts, Zenon
<1>5. ASSUME NEW i \in 1 .. Len(q)
      PROVE /\ i \in good <=> At(q[i]) < At(seg)
            /\ q[i].seqno = seg.seqno <=> At(q[i]) = At(seg)
  <2>1. q[i] \in Honest
    BY <1>4, Zenon
  <2>2. /\ q[i].seqno = Plus(ISS, At(q[i])) /\ At(q[i]) \in 0 .. Total
        /\ seg.seqno = Plus(ISS, At(seg)) /\ At(seg) \in 0 .. Total
    BY <2>1, HonestFacts, Zenon
  <2>3. At(q[i]) \in 0 .. Total + TCP_WND + 1 /\ At(seg) \in 0 .. Total + TCP_WND + 1
    BY SMTT(30), <2>2, Sizes
  <2>4. /\ TCP_SEQ_LT(Plus(ISS, At(q[i])), Plus(ISS, At(seg))) <=> At(q[i]) < At(seg)
        /\ Plus(ISS, At(q[i])) = Plus(ISS, At(seg)) <=> At(q[i]) = At(seg)
    BY <2>3, HonestOrder, Zenon
  <2> QED BY <2>2, <2>4, Zenon
<1>6. good \subseteq 1 .. Len(q)
  BY Zenon
<1>7. /\ Queue(seg, q) =
           IF q = <<>> THEN <<seg>>
           ELSE IF n = Len(q)
                THEN IF q[n].fin THEN q ELSE Append(cut, FitWindow(seg))
           ELSE IF q[n + 1].seqno # seg.seqno
                THEN cut \o tcp_oos_insert_segment(seg, tail)
           ELSE IF Len(seg.p) > Len(q[n + 1].p)
                THEN head \o tcp_oos_insert_segment(seg, tail)
           ELSE q
  BY Zenon DEF Queue
<1> HIDE DEF good
<1>8. n \in 0 .. Len(q) /\ (\A i \in 1 .. n : i \in good) /\ n + 1 \notin good
  BY <1>4, <1>6, WalkStops, Zenon
<1> HIDE DEF n
<1>9. \A i \in 1 .. n : i \in 1 .. Len(q) /\ At(q[i]) < At(seg)
  BY <1>5, <1>6, <1>8, Zenon
<1>10. CASE q = <<>>
  BY <1>2, <1>7, <1>10, SoundSmall, Zenon DEF lo, hi
<1>11. ASSUME \A i \in 1 .. n : ~q[i].fin
       PROVE /\ Sound(cut, lo, hi)
             /\ \A i \in 1 .. Len(cut) : Past(cut[i]) <= At(seg) /\ ~cut[i].fin
  BY <1>1, <1>2, <1>8, <1>9, <1>11, CutHeadSound, Zenon
<1> HIDE DEF cut
<1>12. At(seg) \in Int /\ At(seg) <= At(seg)
  <2>1. At(seg) \in Int
    BY HonestInt, Zenon
  <2> QED BY <2>1
<1>13. CASE q # <<>> /\ n = Len(q)
  <2>1. CASE q[n].fin
    <3>1. Queue(seg, q) = q
      BY <1>7, <1>13, <2>1, Zenon
    <3> QED BY <3>1, Zenon
  <2>2. CASE ~q[n].fin
    <3>1. n \in 1 .. Len(q) /\ \A i \in 1 .. n : i = n \/ i < n
      <4>1. Len(q) # 0
        BY <1>4, <1>13
      <4> QED BY <1>8, <1>13, <4>1
    <3>2. \A i \in 1 .. n : ~q[i].fin
      BY <1>4, <1>9, <2>2, <3>1, Zenon
    <3>3. /\ Sound(cut, lo, hi)
          /\ \A i \in 1 .. Len(cut) : Past(cut[i]) <= At(seg) /\ ~cut[i].fin
      BY <1>11, <3>2, Zenon
    <3>4. Sound(<<seg>>, At(seg), hi)
      BY <1>2, <1>12, SoundSmall, Zenon
    <3>5. Sound(cut \o <<seg>>, lo, hi)
      BY <1>1, <1>2, <1>12, <3>3, <3>4, SoundJoin, Zenon
    <3>6. Append(cut, seg) = cut \o <<seg>>
      <4>1. cut \in Seq(Honest)
        BY <3>3, SoundFacts, Zenon
      <4> QED BY <4>1
    <3>7. Queue(seg, q) = cut \o <<seg>>
      BY <1>3, <1>7, <1>13, <2>2, <3>6, Zenon
    <3> QED BY <3>5, <3>7, Zenon DEF lo, hi
  <2> QED BY <2>1, <2>2, Zenon
<1>14. CASE q # <<>> /\ n # Len(q)
  <2>1. n + 1 \in 1 .. Len(q) /\ \A i \in 1 .. n : i < n + 1
    BY <1>4, <1>8, <1>14
  <2>2. \A i \in 1 .. n : Past(q[i]) <= At(q[n + 1]) /\ ~q[i].fin
    BY <1>4, <1>9, <2>1, Zenon
  <2>3. At(seg) <= At(q[n + 1])
    <3>1. ~(At(q[n + 1]) < At(seg)) /\ q[n + 1] \in Honest
      BY <1>4, <1>5, <1>8, <2>1, Zenon
    <3>2. At(q[n + 1]) \in Int
      BY <3>1, HonestInt, Zenon
    <3> QED BY <1>12, <3>1, <3>2
  <2>4. /\ Sound(tail, lo, hi) /\ Len(tail) = Len(q) - n
        /\ \A i \in 1 .. Len(q) - n : tail[i] = q[n + i] /\ n + i \in 1 .. Len(q)
    <3>1. n \in 0 .. Len(q) /\ Sound(q, lo, hi)
      BY <1>2, <1>8, Zenon
    <3> QED BY <3>1, SoundBack, Zenon
  <2> HIDE DEF tail
  <2>5. Sound(tail, At(seg), hi)
    <3>1. /\ tail \in Seq(Honest)
          /\ \A i \in 1 .. Len(tail) : tail[i] \in Honest /\ Reach(tail[i]) <= hi
          /\ \A i, j \in 1 .. Len(tail) : i < j => Past(tail[i]) <= At(tail[j]) /\ ~tail[i].fin
      BY <2>4, SoundFacts, Zenon
    <3>2. ASSUME NEW i \in 1 .. Len(tail) PROVE At(seg) <= At(tail[i])
      <4>1. i \in 1 .. Len(q) - n
        BY <2>4, Zenon
      <4>2. i = 1 \/ n + 1 < n + i
        BY <4>1, <1>4, <1>8
      <4>3. tail[i] = q[n + i] /\ n + i \in 1 .. Len(q) /\ q[n + i] \in Honest
            /\ q[n + 1] \in Honest
        BY <1>4, <2>1, <2>4, <4>1, Zenon
      <4>4. n + 1 < n + i => Past(q[n + 1]) <= At(q[n + i])
        BY <1>4, <2>1, <4>3, Zenon
      <4>5. /\ At(q[n + i]) \in Int /\ At(q[n + 1]) \in Int /\ Past(q[n + 1]) \in Int
            /\ At(q[n + 1]) <= Past(q[n + 1])
        BY <4>3, HonestInt, Zenon
      <4>6. At(seg) <= At(q[n + i])
        <5>1. CASE i = 1
          BY <2>3, <5>1, Zenon
        <5>2. CASE n + 1 < n + i
          <6>1. Past(q[n + 1]) <= At(q[n + i])
            BY <4>4, <5>2, Zenon
          <6> DEFINE y == q[n + 1]
                     z == q[n + i]
          <6> HIDE DEF y, z
          <6>2. /\ At(z) \in Int /\ At(y) \in Int /\ Past(y) \in Int /\ At(y) <= Past(y)
                /\ At(seg) <= At(y) /\ Past(y) <= At(z)
            BY <2>3, <4>5, <6>1, Zenon DEF y, z
          <6>3. At(seg) <= At(z)
            BY <1>12, <6>2
          <6> QED BY <6>3, Zenon DEF z
        <5> QED BY <4>2, <5>1, <5>2, Zenon
      <4> QED BY <4>3, <4>6, Zenon
    <3> QED BY <3>1, <3>2, Zenon DEF Sound
  <2>6. Sound(tcp_oos_insert_segment(seg, tail), At(seg), hi)
    BY <1>1, <1>2, <2>5, InsertSound, Zenon
  <2>7. CASE q[n + 1].seqno # seg.seqno
    <3>1. Queue(seg, q) = cut \o tcp_oos_insert_segment(seg, tail)
      BY <1>7, <1>14, <2>7, Zenon DEF tail
    <3>2. /\ Sound(cut, lo, hi)
          /\ \A i \in 1 .. Len(cut) : Past(cut[i]) <= At(seg) /\ ~cut[i].fin
      BY <1>11, <2>2, Zenon
    <3>3. Sound(cut \o tcp_oos_insert_segment(seg, tail), lo, hi)
      BY <1>1, <1>2, <1>12, <2>6, <3>2, SoundJoin, Zenon
    <3> QED BY <3>1, <3>3, Zenon DEF lo, hi
  <2>8. CASE q[n + 1].seqno = seg.seqno /\ Len(seg.p) > Len(q[n + 1].p)
    <3>1. Queue(seg, q) = head \o tcp_oos_insert_segment(seg, tail)
      BY <1>7, <1>14, <2>8, Zenon DEF tail
    <3>2. At(q[n + 1]) = At(seg)
      BY <1>5, <2>1, <2>8, Zenon
    <3>3. /\ Sound(head, lo, hi) /\ Len(head) = n
          /\ \A i \in 1 .. n : head[i] = q[i]
      <4>1. n \in 0 .. Len(q) /\ Sound(q, lo, hi)
        BY <1>2, <1>8, Zenon
      <4> QED BY <4>1, SoundFront, Zenon
    <3> HIDE DEF head
    <3>4. \A i \in 1 .. Len(head) : Past(head[i]) <= At(seg) /\ ~head[i].fin
      BY <2>2, <3>2, <3>3, Zenon
    <3>5. Sound(head \o tcp_oos_insert_segment(seg, tail), lo, hi)
      BY <1>1, <1>2, <1>12, <2>6, <3>3, <3>4, SoundJoin, Zenon
    <3> QED BY <3>1, <3>5, Zenon DEF lo, hi
  <2>9. CASE q[n + 1].seqno = seg.seqno /\ ~(Len(seg.p) > Len(q[n + 1].p))
    <3>1. Queue(seg, q) = q
      BY <1>7, <1>14, <2>9, Zenon
    <3> QED BY <3>1, Zenon
  <2> QED BY <2>7, <2>8, <2>9, Zenon
<1> QED BY <1>10, <1>13, <1>14, Zenon

-----------------------------------------------------------------------------
(* Delivery *)

\* A run of bytes and the run that follows it
LEMMA RunConcat ==
    ASSUME NEW pos \in Nat, NEW e \in Nat, NEW n \in Nat
    PROVE [j \in 1 .. e |-> pos + j] \o [j \in 1 .. n |-> (pos + e) + j]
              = [j \in 1 .. e + n |-> pos + j]
OBVIOUS

\* pbuf_cat over a chain of segments without gaps gives a run of the stream.
LEMMA ChainedRun ==
    ASSUME NEW chain \in Seq(Honest), NEW pos \in Nat, Len(chain) # 0,
           At(chain[1]) = pos,
           \A i \in 1 .. Len(chain) - 1 : At(chain[i + 1]) = Past(chain[i])
    PROVE /\ pos <= Past(chain[Len(chain)])
          /\ Chained(chain) = [j \in 1 .. Past(chain[Len(chain)]) - pos |-> pos + j]
<1> DEFINE N == Len(chain)
           e(i) == IF i = 0 THEN 0 ELSE Past(chain[i]) - pos
           G == [i \in 0 .. N |-> [j \in 1 .. e(i) |-> pos + j]]
           Cats(f) == f = [i \in 0 .. N |-> IF i = 0 THEN <<>> ELSE f[i - 1] \o chain[i].p]
<1>1. N \in Nat /\ \A i \in 1 .. N : chain[i] \in Honest
  BY SeqLen, Zenon
<1>2. ASSUME NEW i \in 1 .. N PROVE At(chain[i]) = pos + e(i - 1)
  <2>1. CASE i = 1
    <3>1. e(1 - 1) = 0 /\ pos + 0 = pos
      BY SMT
    <3> QED BY <2>1, <3>1, Zenon
  <2>2. CASE i # 1
    <3>1. i - 1 \in 1 .. N - 1 /\ i - 1 + 1 = i /\ i - 1 # 0 /\ i - 1 \in 1 .. N
      BY <1>1, <2>2
    <3>2. At(chain[i]) = Past(chain[i - 1]) /\ e(i - 1) = Past(chain[i - 1]) - pos
      BY <3>1, Zenon
    <3>3. Past(chain[i - 1]) \in Int
      BY <1>1, <3>1, HonestInt, Zenon
    <3>4. pos + (Past(chain[i - 1]) - pos) = Past(chain[i - 1])
      BY <3>3
    <3> QED BY <3>2, <3>4, Zenon
  <2> QED BY <2>1, <2>2, Zenon
<1>3. ASSUME NEW i \in 1 .. N
      PROVE /\ Len(chain[i].p) \in Nat /\ e(i) = e(i - 1) + Len(chain[i].p)
            /\ chain[i].p = [j \in 1 .. Len(chain[i].p) |-> (pos + e(i - 1)) + j]
  <2>1. /\ Len(chain[i].p) \in Nat /\ Past(chain[i]) = At(chain[i]) + Len(chain[i].p)
        /\ chain[i] = Sent(At(chain[i]), Len(chain[i].p), chain[i].fin)
        /\ Past(chain[i]) \in Int /\ At(chain[i]) \in Int
    BY <1>1, HonestFacts, HonestInt, Zenon
  <2>2. chain[i].p = [j \in 1 .. Len(chain[i].p) |-> At(chain[i]) + j]
    <3> DEFINE s == chain[i]
               a == At(s)
               l == Len(s.p)
    <3>1. s = Sent(a, l, s.fin)
      BY <2>1, Zenon
    <3> HIDE DEF s, a, l
    <3>2. s.p = [j \in 1 .. l |-> a + j]
      BY <3>1 DEF Sent
    <3> QED BY <3>2, Zenon DEF s, a, l
  <2>3. e(i - 1) \in Int
    <3>1. i - 1 = 0 \/ i - 1 \in 1 .. N
      BY <1>1
    <3>2. CASE i - 1 = 0
      BY <3>2
    <3>3. CASE i - 1 \in 1 .. N
      <4>1. Past(chain[i - 1]) \in Int
        BY <1>1, <3>3, HonestInt, Zenon
      <4> QED BY <4>1
    <3> QED BY <3>1, <3>2, <3>3, Zenon
  <2>4. e(i) = Past(chain[i]) - pos
    BY SMT
  <2> HIDE DEF e
  <2>5. e(i) = e(i - 1) + Len(chain[i].p)
    <3> DEFINE u == e(i - 1)
               v == e(i)
               a == At(chain[i])
               l == Len(chain[i].p)
               z == Past(chain[i])
    <3>1. /\ a = pos + u /\ z = a + l /\ v = z - pos
          /\ u \in Int /\ a \in Int /\ l \in Nat /\ z \in Int
      BY <1>2, <2>1, <2>3, <2>4, Zenon
    <3> HIDE DEF u, v, a, l, z
    <3>2. v = u + l
      BY <3>1
    <3> QED BY <3>2, Zenon DEF u, v, l
  <2> QED BY <1>2, <2>1, <2>2, <2>5, Zenon
<1>4. e(0) = 0 /\ e(N) = Past(chain[N]) - pos
  BY Zenon
<1> HIDE DEF e
<1>5. \A i \in 0 .. N : e(i) \in Nat
  <2> DEFINE T == {i \in 0 .. N : e(i) \notin Nat}
  <2> SUFFICES ASSUME T # {} PROVE FALSE
    BY Zenon
  <2>1. T \subseteq Nat
    BY <1>1
  <2>2. PICK k \in T : \A y \in T : k <= y
    BY <2>1, LeastNat, Zenon
  <2>3. k # 0
    BY <1>4
  <2>4. k \in 1 .. N /\ k - 1 \in 0 .. N /\ ~(k <= k - 1)
    BY <1>1, <2>3
  <2>5. e(k - 1) \in Nat
    BY <2>2, <2>4, Zenon
  <2>6. e(k) = e(k - 1) + Len(chain[k].p) /\ Len(chain[k].p) \in Nat
    BY <1>3, <2>4, Zenon
  <2>7. e(k) \in Nat
    BY ONLY <2>5, <2>6
  <2> QED BY <2>7, Zenon
<1>6. \A i \in 1 .. N : i - 1 \in 0 .. N
  BY <1>1
<1>7. ASSUME NEW i \in 1 .. N PROVE G[i] = G[i - 1] \o chain[i].p
  <2> DEFINE l == Len(chain[i].p)
             d == e(i - 1)
  <2>1. l \in Nat /\ e(i) = d + l /\ chain[i].p = [j \in 1 .. l |-> (pos + d) + j]
    BY <1>3, Zenon
  <2>2. d \in Nat
    BY <1>5, <1>6, Zenon
  <2>3. i \in 0 .. N
    BY <1>1
  <2>4. G[i] = [j \in 1 .. d + l |-> pos + j] /\ G[i - 1] = [j \in 1 .. d |-> pos + j]
    BY <1>6, <2>1, <2>3, Zenon
  <2> HIDE DEF l, d, G
  <2>5. [j \in 1 .. d |-> pos + j] \o [j \in 1 .. l |-> (pos + d) + j]
            = [j \in 1 .. d + l |-> pos + j]
    BY <2>1, <2>2, RunConcat
  <2> QED BY <2>1, <2>4, <2>5, Zenon
<1>8. G[0] = <<>>
  <2>1. 0 \in 0 .. N
    BY <1>1
  <2>2. G[0] = [j \in 1 .. 0 |-> pos + j]
    BY <1>4, <2>1, Zenon
  <2>3. [j \in 1 .. 0 |-> pos + j] = <<>>
    OBVIOUS
  <2> QED BY <2>2, <2>3, Zenon
<1>9. \A i \in 0 .. N : i = 0 \/ i \in 1 .. N
  BY <1>1
<1>10. Cats(G)
  <2>1. G = [i \in 0 .. N |-> G[i]]
    BY Zenon
  <2> HIDE DEF G
  <2>2. \A i \in 0 .. N : G[i] = IF i = 0 THEN <<>> ELSE G[i - 1] \o chain[i].p
    BY <1>7, <1>8, <1>9, Zenon
  <2> QED BY <2>1, <2>2, Zenon
<1> DEFINE cat == CHOOSE f : Cats(f)
<1>11. Cats(cat)
  BY <1>10, Zenon
<1>12. Chained(chain) = cat[N]
  BY DEF Chained
<1> HIDE DEF cat, G
<1>13. cat[0] = <<>> /\ \A i \in 1 .. N : cat[i] = cat[i - 1] \o chain[i].p
  <2>1. \A i \in 0 .. N : cat[i] = IF i = 0 THEN <<>> ELSE cat[i - 1] \o chain[i].p
    BY <1>11, Zenon
  <2>2. 0 \in 0 .. N /\ \A i \in 1 .. N : i \in 0 .. N /\ i # 0
    BY <1>1
  <2> QED BY <2>1, <2>2, Zenon
<1>14. \A i \in 0 .. N : cat[i] = G[i]
  <2> DEFINE T == {i \in 0 .. N : cat[i] # G[i]}
  <2> SUFFICES ASSUME T # {} PROVE FALSE
    BY Zenon
  <2>1. T \subseteq Nat
    BY <1>1
  <2>2. PICK k \in T : \A y \in T : k <= y
    BY <2>1, LeastNat, Zenon
  <2>3. k # 0
    BY <1>8, <1>13, Zenon
  <2>4. k \in 1 .. N /\ k - 1 \in 0 .. N /\ ~(k <= k - 1)
    BY <1>1, <2>3
  <2>5. cat[k - 1] = G[k - 1]
    BY <2>2, <2>4, Zenon
  <2>6. cat[k] = G[k]
    BY <1>7, <1>13, <2>4, <2>5, Zenon
  <2> QED BY <2>6, Zenon
<1>15. N \in 0 .. N
  BY <1>1
<1>16. Chained(chain) = [j \in 1 .. Past(chain[N]) - pos |-> pos + j]
  <2>1. G[N] = [j \in 1 .. e(N) |-> pos + j]
    BY <1>15, Zenon DEF G
  <2> QED BY <1>4, <1>12, <1>14, <1>15, <2>1, Zenon
<1>17. pos <= Past(chain[N])
  <2>1. Past(chain[N]) - pos \in Nat
    BY <1>4, <1>5, <1>15, Zenon
  <2>2. N \in 1 .. N
    BY <1>1
  <2>3. Past(chain[N]) \in Int
    BY <1>1, <2>2, HonestInt, Zenon
  <2> QED BY <2>1, <2>3
<1> QED BY <1>16, <1>17, Zenon

\* The sequence number after a segment is that of the position it reaches.
LEMMA NextNumber ==
    ASSUME NEW seg \in Honest
    PROVE /\ Plus(seg.seqno, TCP_TCPLEN(seg)) = Plus(ISS, Reach(seg))
          /\ Reach(seg) \in 0 .. Total + 1 /\ TCP_TCPLEN(seg) \in Nat
          /\ Reach(seg) = At(seg) + TCP_TCPLEN(seg)
<1> DEFINE a == At(seg)
           l == TCP_TCPLEN(seg)
           k == IF seg.fin THEN 1 ELSE 0
<1>1. /\ a \in 0 .. Total /\ seg.seqno = Plus(ISS, a) /\ Len(seg.p) \in Nat
      /\ Past(seg) \in 0 .. Total /\ Reach(seg) = Past(seg) + k
  BY HonestFacts, Zenon
<1>2. l = Len(seg.p) + k /\ Reach(seg) = a + l
  BY Zenon DEF TCP_TCPLEN, Reach
<1>3. k \in 0 .. 1
  OBVIOUS
<1> HIDE DEF a, l, k
<1>4. l \in Nat /\ Reach(seg) \in 0 .. Total + 1
  BY SMTT(30), <1>1, <1>2, <1>3, Sizes
<1>5. a \in -Modulus .. Modulus /\ l \in -Modulus .. Modulus /\ a + l \in -Modulus .. Modulus
  <2>1. a \in 0 .. Total /\ l \in Nat /\ a + l \in 0 .. Total + 1
    BY <1>1, <1>2, <1>4, Zenon
  <2> QED BY ONLY <2>1, Sizes
<1>6. Plus(Plus(ISS, a), l) = Plus(ISS, a + l)
  BY <1>5, Onwards, Zenon
<1> QED BY <1>1, <1>2, <1>4, <1>6, Zenon DEF a, l

\* The walk of tcp_receive over the queued segments that are now in sequence:
\* those it takes follow each other without a gap, one with a FIN is the last of
\* all, and a gap is left in front of those that stay queued.
LEMMA WalkInSequence ==
    ASSUME NEW seg \in Honest, NEW rest, NEW hi \in Int, Reach(seg) <= hi,
           Sound(rest, Past(seg), hi), seg.fin => rest = <<>>
    PROVE LET n == InSequence(rest, Plus(seg.seqno, TCP_TCPLEN(seg)))
              chain == <<seg>> \o SubSeq(rest, 1, n)
              left == SubSeq(rest, n + 1, Len(rest))
          IN  /\ chain \in Seq(Honest) /\ n \in Nat /\ Len(chain) = n + 1
              /\ chain[1] = seg
              /\ \A i \in 1 .. n : At(chain[i + 1]) = Past(chain[i]) /\ ~chain[i].fin
              /\ Reach(chain[n + 1]) <= hi
              /\ chain[n + 1].fin => left = <<>>
              /\ Sound(left, Past(chain[n + 1]) + 1, hi)
<1> DEFINE nxt == Plus(seg.seqno, TCP_TCPLEN(seg))
           good == {i \in 1 .. Len(rest) :
                        rest[i].seqno = IF i = 1 THEN nxt
                                        ELSE Plus(rest[i - 1].seqno, TCP_TCPLEN(rest[i - 1]))}
           n == Walk(rest, good)
           w == <<seg>> \o rest
           chain == <<seg>> \o SubSeq(rest, 1, n)
           left == SubSeq(rest, n + 1, Len(rest))
<1>1. InSequence(rest, nxt) = n
  BY Zenon DEF InSequence
<1>2. /\ rest \in Seq(Honest) /\ Len(rest) \in Nat
      /\ \A i \in 1 .. Len(rest) : rest[i] \in Honest /\ Past(seg) <= At(rest[i])
                                   /\ Reach(rest[i]) <= hi
      /\ \A i, j \in 1 .. Len(rest) : i < j => Past(rest[i]) <= At(rest[j]) /\ ~rest[i].fin
  BY SoundFacts, Zenon
<1>3. good \subseteq 1 .. Len(rest)
  BY Zenon
<1>4. n \in 0 .. Len(rest) /\ (\A i \in 1 .. n : i \in good) /\ n + 1 \notin good
  <2> HIDE DEF good
  <2> QED BY <1>2, <1>3, WalkStops, Zenon
<1> HIDE DEF n
<1>5. /\ w \in Seq(Honest) /\ Len(w) = Len(rest) + 1 /\ w[1] = seg
      /\ \A i \in 1 .. Len(rest) : w[i + 1] = rest[i]
  <2>1. seg \in Honest /\ rest \in Seq(Honest)
    BY <1>2, Zenon
  <2> QED BY <2>1
<1>6. /\ chain \in Seq(Honest) /\ Len(chain) = n + 1
      /\ \A i \in 1 .. n + 1 : chain[i] = w[i]
  <2>1. seg \in Honest /\ rest \in Seq(Honest) /\ n \in 0 .. Len(rest)
    BY <1>2, <1>4, Zenon
  <2> QED BY <2>1
<1>7. /\ left \in Seq(Honest) /\ Len(left) = Len(rest) - n
      /\ \A i \in 1 .. Len(rest) - n : left[i] = rest[n + i]
  <2>1. rest \in Seq(Honest) /\ n \in 0 .. Len(rest)
    BY <1>2, <1>4, Zenon
  <2> QED BY <2>1
<1> HIDE DEF w, chain, left
<1>8. ASSUME NEW i \in 1 .. Len(rest) + 1
      PROVE w[i] \in Honest /\ Reach(w[i]) <= hi /\ (i <= Len(rest) => ~w[i].fin)
  <2>1. CASE i = 1
    <3>1. 1 <= Len(rest) => rest # <<>>
      BY <1>2
    <3> QED BY <1>5, <2>1, <3>1, Zenon
  <2>2. CASE i # 1
    <3>1. i - 1 \in 1 .. Len(rest) /\ i - 1 + 1 = i
          /\ (i <= Len(rest) => i \in 1 .. Len(rest) /\ i - 1 < i)
      BY <1>2, <2>2
    <3>2. w[i] = rest[i - 1]
      BY <1>5, <3>1, Zenon
    <3> QED BY <1>2, <3>1, <3>2, Zenon
  <2> QED BY <2>1, <2>2, Zenon
<1>9. ASSUME NEW i \in 1 .. Len(rest)
      PROVE /\ i \in good <=> At(rest[i]) = Past(w[i])
            /\ Past(w[i]) <= At(rest[i])
  <2>1. i \in 1 .. Len(rest) + 1 /\ i <= Len(rest)
    BY <1>2
  <2>2. w[i] \in Honest /\ ~w[i].fin /\ rest[i] \in Honest
    BY <1>2, <1>8, <2>1, Zenon
  <2>3. i \in good <=> rest[i].seqno = Plus(w[i].seqno, TCP_TCPLEN(w[i]))
    <3>1. CASE i = 1
      BY <1>5, <3>1, Zenon
    <3>2. CASE i # 1
      <4>1. i - 1 \in 1 .. Len(rest) /\ i - 1 + 1 = i
        BY <1>2, <3>2
      <4>2. w[i] = rest[i - 1]
        BY <1>5, <4>1, Zenon
      <4> QED BY <3>2, <4>2, Zenon
    <3> QED BY <3>1, <3>2, Zenon
  <2>4. Reach(w[i]) = Past(w[i])
    <3>1. Reach(w[i]) = Past(w[i]) + 0
      BY <2>2, HonestFacts, Zenon
    <3>2. Past(w[i]) \in Int
      BY <2>2, HonestInt, Zenon
    <3> QED BY <3>1, <3>2
  <2>5. /\ Plus(w[i].seqno, TCP_TCPLEN(w[i])) = Plus(ISS, Past(w[i]))
        /\ rest[i].seqno = Plus(ISS, At(rest[i]))
        /\ At(rest[i]) \in 0 .. Total /\ Past(w[i]) \in 0 .. Total
    BY <2>2, <2>4, HonestFacts, NextNumber, Zenon
  <2>6. At(rest[i]) \in 0 .. Total + TCP_WND + 1 /\ Past(w[i]) \in 0 .. Total + TCP_WND + 1
    BY <2>5, Sizes
  <2>7. Plus(ISS, At(rest[i])) = Plus(ISS, Past(w[i])) <=> At(rest[i]) = Past(w[i])
    BY <2>6, HonestOrder, Zenon
  <2>8. Past(w[i]) <= At(rest[i])
    <3>1. CASE i = 1
      BY <1>2, <1>5, <3>1, Zenon
    <3>2. CASE i # 1
      <4>1. i - 1 \in 1 .. Len(rest) /\ i - 1 + 1 = i /\ i - 1 < i
        BY <1>2, <3>2
      <4>2. w[i] = rest[i - 1]
        BY <1>5, <4>1, Zenon
      <4> QED BY <1>2, <4>1, <4>2, Zenon
    <3> QED BY <3>1, <3>2, Zenon
  <2> QED BY <2>3, <2>5, <2>7, <2>8, Zenon
<1> HIDE DEF good
<1>10. ASSUME NEW i \in 1 .. n
       PROVE At(chain[i + 1]) = Past(chain[i]) /\ ~chain[i].fin
  <2>1. i \in 1 .. Len(rest) /\ i \in 1 .. n + 1 /\ i + 1 \in 1 .. n + 1
        /\ i \in 1 .. Len(rest) + 1 /\ i <= Len(rest)
    BY <1>2, <1>4
  <2>2. chain[i + 1] = rest[i] /\ chain[i] = w[i]
    BY <1>5, <1>6, <2>1, Zenon
  <2> QED BY <1>4, <1>8, <1>9, <2>1, <2>2, Zenon
<1>11. n + 1 \in 1 .. Len(rest) + 1 /\ n + 1 \in 1 .. n + 1 /\ 1 \in 1 .. n + 1 /\ n \in Nat
  BY <1>2, <1>4
<1>12. chain[n + 1] = w[n + 1] /\ chain[1] = seg /\ Reach(chain[n + 1]) <= hi
       /\ chain[n + 1] \in Honest
  BY <1>5, <1>6, <1>8, <1>11, Zenon
<1>13. chain[n + 1].fin => left = <<>>
  <2> SUFFICES ASSUME chain[n + 1].fin PROVE left = <<>>
    BY Zenon
  <2>1. ~(n + 1 <= Len(rest))
    BY <1>8, <1>11, <1>12, Zenon
  <2>2. Len(left) = 0
    BY <1>2, <1>4, <1>7, <2>1
  <2> QED BY <1>7, <2>2
<1>14. Sound(left, Past(chain[n + 1]) + 1, hi)
  <2> DEFINE z == Past(chain[n + 1])
  <2>1. z \in Int
    BY <1>12, HonestInt, Zenon
  <2> HIDE DEF z
  <2>2. \A i \in 1 .. Len(rest) - n : n + i \in 1 .. Len(rest) /\ (i = 1 \/ n + 1 < n + i)
                                      /\ n + 1 \in 1 .. Len(rest)
    BY <1>2, <1>4
  <2>3. ASSUME NEW i \in 1 .. Len(left)
        PROVE z + 1 <= At(left[i]) /\ Reach(left[i]) <= hi
    <3>1. i \in 1 .. Len(rest) - n
      BY <1>7, Zenon
    <3> DEFINE x == rest[n + 1]
               y == rest[n + i]
    <3>2. left[i] = y /\ x \in Honest /\ y \in Honest /\ Reach(y) <= hi
      BY <1>2, <1>7, <2>2, <3>1, Zenon
    <3>3. z <= At(x) /\ At(x) # z
      BY <1>4, <1>9, <1>12, <2>2, <3>1, Zenon DEF z
    <3>4. i # 1 => Past(x) <= At(y)
      BY <1>2, <2>2, <3>1, Zenon
    <3>5. i = 1 => At(x) = At(y)
      BY Zenon
    <3>6. At(x) \in Int /\ At(y) \in Int /\ Past(x) \in Int /\ At(x) <= Past(x)
      BY <3>2, HonestInt, Zenon
    <3> HIDE DEF x, y
    <3>7. z + 1 <= At(y)
      BY <2>1, <3>3, <3>4, <3>5, <3>6
    <3> QED BY <3>2, <3>7, Zenon
  <2>4. ASSUME NEW i \in 1 .. Len(left), NEW j \in 1 .. Len(left), i < j
        PROVE Past(left[i]) <= At(left[j]) /\ ~left[i].fin
    <3>1. i \in 1 .. Len(rest) - n /\ j \in 1 .. Len(rest) - n
      BY <1>7, Zenon
    <3>2. n + i < n + j
      BY <1>2, <1>4, <2>4, <3>1
    <3> QED BY <1>2, <1>7, <2>2, <3>1, <3>2, Zenon
  <2>5. Sound(left, z + 1, hi)
    BY <1>7, <2>3, <2>4, Zenon DEF Sound
  <2> QED BY <2>5, Zenon DEF z
<1> QED BY <1>1, <1>6, <1>10, <1>11, <1>12, <1>13, <1>14, Zenon DEF chain, left

-----------------------------------------------------------------------------
(* The announced window *)

\* tcp_update_rcv_ann_wnd announces no more than is free and never less than has
\* been announced before.
LEMMA AnnouncedFits ==
    ASSUME NEW pos \in 0 .. Total + 1, NEW wnd \in 0 .. TCP_WND,
           NEW edge \in 0 .. Total + TCP_WND, rcv_ann_right_edge = Plus(ISS, edge),
           edge <= pos + wnd
    PROVE LET ann == AnnouncedWindow(Plus(ISS, pos), wnd)
          IN  ann \in 0 .. wnd /\ edge <= pos + ann
<1> DEFINE h == IF TCP_WND \div 2 < mss THEN TCP_WND \div 2 ELSE mss
           ann == AnnouncedWindow(Plus(ISS, pos), wnd)
<1>1. h \in 0 .. TCP_WND
  <2>1. TCP_WND \in Nat /\ mss \in Nat
    BY Constants, Zenon
  <2> QED BY <2>1
<1>2. ann = IF TCP_SEQ_LEQ(Plus(rcv_ann_right_edge, h), Plus(Plus(ISS, pos), wnd)) THEN wnd
            ELSE IF TCP_SEQ_LT(rcv_ann_right_edge, Plus(ISS, pos)) THEN 0
            ELSE Minus(rcv_ann_right_edge, Plus(ISS, pos))
  BY Zenon DEF AnnouncedWindow
<1> HIDE DEF h, ann
<1>3. /\ edge \in -Modulus .. Modulus /\ h \in -Modulus .. Modulus
      /\ edge + h \in -Modulus .. Modulus
      /\ pos \in -Modulus .. Modulus /\ wnd \in -Modulus .. Modulus
      /\ pos + wnd \in -Modulus .. Modulus
      /\ (edge + h) - (pos + wnd) < Modulus \div 2
      /\ (pos + wnd) - (edge + h) <= Modulus \div 2
      /\ edge \in 0 .. Total + TCP_WND + 1 /\ pos \in 0 .. Total + TCP_WND + 1
  BY <1>1, Sizes
<1>4. /\ Plus(rcv_ann_right_edge, h) = Plus(ISS, edge + h)
      /\ Plus(Plus(ISS, pos), wnd) = Plus(ISS, pos + wnd)
  BY <1>3, Onwards, Zenon
<1>5. TCP_SEQ_LEQ(Plus(ISS, edge + h), Plus(ISS, pos + wnd)) <=> edge + h <= pos + wnd
  BY <1>3, Compare, Zenon
<1>6. /\ TCP_SEQ_LT(Plus(ISS, edge), Plus(ISS, pos)) <=> edge < pos
      /\ pos <= edge => Minus(Plus(ISS, edge), Plus(ISS, pos)) = edge - pos
  BY <1>3, HonestOrder, Zenon
<1>7. ~(edge < pos) => pos <= edge
  BY <1>3
<1>8. ann = IF edge + h <= pos + wnd THEN wnd ELSE IF edge < pos THEN 0 ELSE edge - pos
  BY <1>2, <1>4, <1>5, <1>6, <1>7, Zenon
<1>9. ann \in 0 .. wnd /\ edge <= pos + ann
  BY <1>1, <1>8
<1> QED BY <1>9, Zenon DEF ann

\* What an acknowledgement does to the edge of the announced window and to what
\* the sender knows of it
EdgeMoves(pos, ann, edge) ==
    /\ flags' \subseteq {"ACK_DELAY", "ACK_NOW"}
    /\ snd_una' \in Nat /\ snd_una' <= pos /\ snd_edge' \in Nat
    /\ \E e \in 0 .. Total + TCP_WND :
          /\ rcv_ann_right_edge' = Plus(ISS, e)
          /\ edge <= e /\ snd_edge' <= e /\ e <= pos + ann

\* The edge stays or moves on, whether the acknowledgement is seen, lost or not
\* sent at all.
LEMMA SendAckEdge ==
    ASSUME NEW pos \in 0 .. Total + 1, NEW ann \in Nat, pos + ann <= Total + TCP_WND,
           NEW edge \in 0 .. Total + TCP_WND, rcv_ann_right_edge = Plus(ISS, edge),
           snd_una \in Nat, snd_una <= pos, snd_edge \in Nat, snd_edge <= edge,
           edge <= pos + ann,
           NEW fate \in Fates, SendAck(Plus(ISS, pos), ann, pos, fate)
    PROVE EdgeMoves(pos, ann, edge)
<1>1. /\ flags' = IF fate = "unsent" THEN {"ACK_DELAY", "ACK_NOW"} ELSE {}
      /\ rcv_ann_right_edge' = IF fate = "unsent" THEN rcv_ann_right_edge
                               ELSE Plus(Plus(ISS, pos), ann)
      /\ IF fate = "seen"
         THEN snd_una' = Larger(snd_una, pos) /\ snd_edge' = Larger(snd_edge, pos + ann)
         ELSE UNCHANGED <<snd_una, snd_edge>>
  BY Zenon DEF SendAck
<1>2. flags' \subseteq {"ACK_DELAY", "ACK_NOW"}
  BY <1>1, Zenon
<1>3. /\ pos + ann \in 0 .. Total + TCP_WND
      /\ pos \in -Modulus .. Modulus /\ ann \in -Modulus .. Modulus
      /\ pos + ann \in -Modulus .. Modulus
  BY Sizes
<1>4. Plus(Plus(ISS, pos), ann) = Plus(ISS, pos + ann)
  BY <1>3, Onwards, Zenon
<1>5. /\ Larger(snd_una, pos) = pos /\ pos \in Nat /\ pos <= pos
      /\ Larger(snd_edge, pos + ann) = pos + ann /\ pos + ann \in Nat
      /\ pos + ann <= pos + ann /\ snd_edge <= pos + ann /\ edge <= edge
  BY DEF Larger
<1>6. CASE fate = "unsent"
  <2>1. fate # "seen"
    BY <1>6
  <2>2. snd_una' = snd_una /\ snd_edge' = snd_edge /\ rcv_ann_right_edge' = Plus(ISS, edge)
    BY <1>1, <1>6, <2>1, Zenon
  <2> QED BY <1>2, <1>5, <2>2, Zenon DEF EdgeMoves
<1>7. CASE fate # "unsent"
  <2>1. rcv_ann_right_edge' = Plus(ISS, pos + ann)
    BY <1>1, <1>4, <1>7, Zenon
  <2>2. /\ snd_una' \in Nat /\ snd_una' <= pos
        /\ snd_edge' \in Nat /\ snd_edge' <= pos + ann
    BY <1>1, <1>5, Zenon
  <2> QED BY <1>2, <1>3, <1>5, <2>1, <2>2, Zenon DEF EdgeMoves
<1> QED BY <1>6, <1>7, Zenon

\* So it does when tcp_output decides whether one is sent.
LEMMA OutputEdge ==
    ASSUME NEW pos \in 0 .. Total + 1, NEW ann \in Nat, pos + ann <= Total + TCP_WND,
           NEW edge \in 0 .. Total + TCP_WND, rcv_ann_right_edge = Plus(ISS, edge),
           snd_una \in Nat, snd_una <= pos, snd_edge \in Nat, snd_edge <= edge,
           edge <= pos + ann, NEW fl, fl \subseteq {"ACK_DELAY", "ACK_NOW"},
           NEW fate \in Fates, tcp_output(fl, Plus(ISS, pos), ann, pos, fate)
    PROVE EdgeMoves(pos, ann, edge)
<1>1. CASE SendAck(Plus(ISS, pos), ann, pos, fate)
  BY <1>1, SendAckEdge, Zenon
<1>2. CASE flags' = fl /\ UNCHANGED <<rcv_ann_right_edge, snd_una, snd_edge>>
  <2>1. /\ flags' = fl /\ rcv_ann_right_edge' = rcv_ann_right_edge
        /\ snd_una' = snd_una /\ snd_edge' = snd_edge /\ edge <= edge
    <3>1. edge <= edge
      OBVIOUS
    <3> QED BY <1>2, <3>1, Zenon
  <2> QED BY <2>1, Zenon DEF EdgeMoves
<1> QED BY <1>1, <1>2, Zenon DEF tcp_output

-----------------------------------------------------------------------------
(* Incoming segments *)

\* TrimFront cuts a segment at rcv_nxt or leaves it alone.
LEMMA TrimFrontHonest ==
    ASSUME NEW seg \in Honest, NEW pos \in 0 .. Total, rcv_nxt = Plus(ISS, pos)
    PROVE LET x == TrimFront(seg)
          IN  /\ x \in Honest /\ Reach(x) = Reach(seg)
              /\ At(x) = At(seg) \/ At(x) = pos
<1> DEFINE a == At(seg)
           n == Len(seg.p)
           l == TCP_TCPLEN(seg)
           b == seg.fin
<1>1. /\ b \in BOOLEAN /\ n \in Nat /\ a \in 0 .. Total /\ a + n \in 0 .. Total
      /\ seg.seqno = Plus(ISS, a) /\ (b => a + n = Total) /\ seg = Sent(a, n, b)
      /\ Reach(seg) = (a + n) + (IF b THEN 1 ELSE 0)
  BY HonestFacts, Zenon
<1>2. l \in Nat /\ Reach(seg) = a + l
  BY NextNumber, Zenon
<1> HIDE DEF a, n, l, b
<1>3. a + n <= a + l /\ a + l <= (a + n) + 1
  BY <1>1, <1>2
<1>4. /\ a \in -Modulus .. Modulus /\ 1 \in -Modulus .. Modulus
      /\ a + 1 \in -Modulus .. Modulus /\ l - 1 \in -Modulus .. Modulus
      /\ a + (l - 1) \in -Modulus .. Modulus /\ pos \in -Modulus .. Modulus
      /\ (a + 1) - pos < Modulus \div 2 /\ pos - (a + 1) <= Modulus \div 2
      /\ pos - (a + (l - 1)) < Modulus \div 2 /\ (a + (l - 1)) - pos <= Modulus \div 2
  BY <1>1, <1>2, <1>3, Sizes
<1>5. /\ Plus(seg.seqno, 1) = Plus(ISS, a + 1)
      /\ Plus(seg.seqno, l - 1) = Plus(ISS, a + (l - 1))
  <2>1. Plus(Plus(ISS, a), 1) = Plus(ISS, a + 1)
    BY <1>4, Onwards, Zenon
  <2>2. Plus(Plus(ISS, a), l - 1) = Plus(ISS, a + (l - 1))
    BY <1>4, Onwards, Zenon
  <2> QED BY <1>1, <2>1, <2>2, Zenon
<1>6. TCP_SEQ_LEQ(Plus(ISS, a + 1), Plus(ISS, pos)) <=> a + 1 <= pos
  BY <1>4, Compare, Zenon
<1>7. TCP_SEQ_LEQ(Plus(ISS, pos), Plus(ISS, a + (l - 1))) <=> pos <= a + (l - 1)
  BY <1>4, Compare, Zenon
<1>8. TCP_SEQ_BETWEEN(rcv_nxt, Plus(seg.seqno, 1), Plus(seg.seqno, TCP_TCPLEN(seg) - 1))
         <=> a + 1 <= pos /\ pos <= a + (l - 1)
  BY <1>5, <1>6, <1>7, Zenon DEF TCP_SEQ_BETWEEN, l
<1>9. CASE a + 1 <= pos /\ pos <= a + (l - 1)
  <2> DEFINE off == pos - a
             k == n - off
  <2>1. off \in 1 .. n /\ k \in Nat /\ pos + k = a + n /\ a <= pos /\ a + off = pos
    BY <1>1, <1>2, <1>3, <1>9
  <2>2. a \in 0 .. Total + TCP_WND + 1 /\ pos \in 0 .. Total + TCP_WND + 1
    BY <1>1, Sizes
  <2>3. Minus(rcv_nxt, seg.seqno) = off
    <3>1. Minus(Plus(ISS, pos), Plus(ISS, a)) = pos - a
      BY <2>1, <2>2, HonestOrder, Zenon
    <3> QED BY <1>1, <3>1, Zenon
  <2>4. TrimFront(seg) = [seqno |-> rcv_nxt, p |-> SubSeq(seg.p, off + 1, Len(seg.p)),
                          fin |-> seg.fin]
    BY <1>8, <1>9, <2>3, Zenon DEF TrimFront
  <2> HIDE DEF off, k
  <2>5. seg.p = [i \in 1 .. n |-> a + i]
    BY <1>1 DEF Sent
  <2>6. SubSeq([i \in 1 .. n |-> a + i], off + 1, n) = [i \in 1 .. k |-> pos + i]
    <3>1. n - (off + 1) + 1 = k
      BY <1>1, <2>1 DEF k
    <3>2. \A i \in 1 .. k : a + (off + 1 + i - 1) = pos + i
      BY <1>1, <2>1
    <3> QED BY SMTT(30), <1>1, <2>1, <3>1, <3>2
  <2>7. TrimFront(seg) = Sent(pos, k, b)
    BY <2>4, <2>5, <2>6, Zenon DEF Sent, n, b
  <2>8. LET x == Sent(pos, k, b)
        IN  /\ x \in Honest /\ At(x) = pos
            /\ Reach(x) = (pos + k) + (IF b THEN 1 ELSE 0)
    <3>1. pos + k <= Total /\ (b => pos + k = Total)
      BY <1>1, <2>1
    <3>2. pos \in 0 .. Total /\ k \in Nat /\ b \in BOOLEAN
      BY <1>1, <2>1, Zenon
    <3> QED BY <3>1, <3>2, SentHonest, Zenon
  <2> QED BY <1>1, <2>1, <2>7, <2>8, Zenon
<1>10. CASE ~(a + 1 <= pos /\ pos <= a + (l - 1))
  <2>1. TrimFront(seg) = seg
    BY <1>8, <1>10, Zenon DEF TrimFront
  <2> QED BY <2>1, Zenon
<1> QED BY <1>9, <1>10, Zenon

\* InWindow compares positions.
LEMMA InWindowMeans ==
    ASSUME NEW pos \in 0 .. Total, rcv_nxt = Plus(ISS, pos), rcv_wnd \in 0 .. TCP_WND,
           NEW a \in 0 .. Total
    PROVE InWindow(Plus(ISS, a)) <=> pos <= a /\ a < pos + rcv_wnd
<1> DEFINE r == pos + (rcv_wnd - 1)
<1>1. /\ a \in -Modulus .. Modulus /\ pos \in -Modulus .. Modulus
      /\ rcv_wnd - 1 \in -Modulus .. Modulus /\ r \in -Modulus .. Modulus
      /\ pos - a < Modulus \div 2 /\ a - pos <= Modulus \div 2
      /\ a - r < Modulus \div 2 /\ r - a <= Modulus \div 2
  BY Sizes
<1>2. Plus(rcv_nxt, rcv_wnd - 1) = Plus(ISS, r)
  BY <1>1, Onwards, Zenon
<1> HIDE DEF r
<1>3. TCP_SEQ_LEQ(Plus(ISS, pos), Plus(ISS, a)) <=> pos <= a
  BY <1>1, Compare, Zenon
<1>4. TCP_SEQ_LEQ(Plus(ISS, a), Plus(ISS, r)) <=> a <= r
  BY <1>1, Compare, Zenon
<1>5. a <= r <=> a < pos + rcv_wnd
  BY DEF r
<1> QED BY <1>2, <1>3, <1>4, <1>5, Zenon DEF InWindow, TCP_SEQ_BETWEEN

\* A sound queue may be said to begin earlier.
LEMMA SoundLower ==
    ASSUME NEW q, NEW lo \in Int, NEW low \in Int, NEW hi, low <= lo, Sound(q, lo, hi)
    PROVE Sound(q, low, hi)
<1>1. /\ q \in Seq(Honest)
      /\ \A i \in 1 .. Len(q) : q[i] \in Honest /\ lo <= At(q[i]) /\ Reach(q[i]) <= hi
      /\ \A i, j \in 1 .. Len(q) : i < j => Past(q[i]) <= At(q[j]) /\ ~q[i].fin
  BY SoundFacts, Zenon
<1>2. ASSUME NEW i \in 1 .. Len(q) PROVE low <= At(q[i])
  <2>1. lo <= At(q[i]) /\ At(q[i]) \in Int
    BY <1>1, HonestInt, Zenon
  <2> QED BY <2>1
<1> QED BY <1>1, <1>2, Zenon DEF Sound

\* What the invariant says while the stream has not ended
LEMMA OpenFacts ==
    ASSUME IndInv, ~eof
    PROVE LET R == Len(received)
          IN  /\ eof = FALSE /\ received \in Seq(1 .. Total) /\ R \in 0 .. Total
              /\ \A i \in 1 .. R : received[i] = i
              /\ rcv_nxt = Plus(ISS, R) /\ state = "ESTABLISHED"
              /\ rcv_wnd \in 0 .. TCP_WND /\ unread \in 0 .. TCP_WND
              /\ rcv_wnd + unread = TCP_WND /\ rcv_ann_wnd \in 0 .. rcv_wnd
              /\ snd_una \in Nat /\ snd_una <= R /\ snd_edge \in Nat
              /\ flags \subseteq {"ACK_DELAY", "ACK_NOW"}
              /\ Sound(ooseq, R + 1, R + rcv_wnd)
              /\ \E edge \in 0 .. Total + TCP_WND : EdgeInv(edge)
<1> DEFINE R == Len(received)
<1>1. /\ received \in Seq(1 .. Total) /\ rcv_wnd \in 0 .. TCP_WND /\ unread \in 0 .. TCP_WND
      /\ rcv_ann_wnd \in 0 .. TCP_WND /\ snd_una \in 0 .. Total + 1
      /\ snd_edge \in 0 .. Total + 1 + TCP_WND /\ flags \subseteq {"ACK_DELAY", "ACK_NOW"}
  BY Zenon DEF IndInv, TypeOK
<1>2. /\ R <= Total /\ (\A i \in 1 .. R : received[i] = i)
      /\ rcv_nxt = Plus(ISS, R + 0) /\ state = "ESTABLISHED"
  BY Zenon DEF IndInv, ReceivedInv, FinSeen
<1>3. /\ rcv_wnd + unread = TCP_WND /\ snd_una <= R + 0 /\ rcv_ann_wnd <= rcv_wnd
      /\ \E edge \in 0 .. Total + TCP_WND : EdgeInv(edge)
  BY Zenon DEF IndInv, WindowInv, FinSeen
<1>4. Sound(ooseq, R + 1, R + rcv_wnd)
  BY Zenon DEF IndInv, QueueInv
<1>5. R \in Nat
  BY <1>1, SeqLen, Zenon
<1> HIDE DEF R
<1>6. /\ R + 0 = R /\ R \in 0 .. Total /\ snd_una \in Nat /\ snd_edge \in Nat
      /\ rcv_ann_wnd \in 0 .. rcv_wnd
  <2>1. R <= Total /\ rcv_ann_wnd <= rcv_wnd
    BY <1>2, <1>3, Zenon
  <2> QED BY <1>1, <1>5, <2>1, Sizes
<1>7. eof = FALSE
  <2>1. eof \in BOOLEAN
    BY Zenon DEF IndInv, TypeOK
  <2> QED BY <2>1, Zenon
<1> QED BY <1>1, <1>2, <1>3, <1>4, <1>6, <1>7, Zenon DEF R

-----------------------------------------------------------------------------
(* Steps *)

\* An edge that moves on does not move back.
LEMMA EdgeKept ==
    ASSUME NEW pos, NEW ann, NEW edge \in 0 .. Total + TCP_WND,
           rcv_ann_right_edge = Plus(ISS, edge), EdgeMoves(pos, ann, edge)
    PROVE ~TCP_SEQ_LT(rcv_ann_right_edge', rcv_ann_right_edge)
<1>1. PICK e \in 0 .. Total + TCP_WND : rcv_ann_right_edge' = Plus(ISS, e) /\ edge <= e
  BY Zenon DEF EdgeMoves
<1>2. edge \in 0 .. Total + TCP_WND + 1 /\ e \in 0 .. Total + TCP_WND + 1 /\ ~(e < edge)
  BY <1>1, Sizes
<1>3. TCP_SEQ_LT(Plus(ISS, e), Plus(ISS, edge)) <=> e < edge
  BY <1>2, HonestOrder, Zenon
<1> QED BY <1>1, <1>2, <1>3, Zenon

\* The invariant after a step that does not end the stream, from its parts
LEMMA OpenStep ==
    ASSUME NEW R \in 0 .. Total, NEW wnd \in 0 .. TCP_WND, NEW un \in 0 .. TCP_WND,
           NEW ann \in 0 .. wnd, NEW edge \in 0 .. Total + TCP_WND,
           received' \in Seq(1 .. Total), Len(received') = R,
           \A i \in 1 .. R : received'[i] = i,
           eof' = FALSE, state' = "ESTABLISHED", rcv_nxt' = Plus(ISS, R),
           rcv_wnd' = wnd, unread' = un, wnd + un = TCP_WND, rcv_ann_wnd' = ann,
           Sound(ooseq', R + 1, R + wnd),
           rcv_ann_right_edge = Plus(ISS, edge), EdgeMoves(R, ann, edge)
    PROVE IndInv' /\ ~TCP_SEQ_LT(rcv_ann_right_edge', rcv_ann_right_edge)
<1>1. /\ flags' \subseteq {"ACK_DELAY", "ACK_NOW"}
      /\ snd_una' \in Nat /\ snd_una' <= R /\ snd_edge' \in Nat
  BY Zenon DEF EdgeMoves
<1>2. PICK e \in 0 .. Total + TCP_WND :
          rcv_ann_right_edge' = Plus(ISS, e) /\ snd_edge' <= e /\ e <= R + ann
  BY Zenon DEF EdgeMoves
<1>3. /\ R \in -Modulus .. Modulus /\ e \in -Modulus .. Modulus
      /\ ann \in 0 .. TCP_WND /\ R + 0 = R /\ R <= Total /\ ann <= wnd
      /\ snd_una' \in 0 .. Total + 1 /\ snd_edge' \in 0 .. Total + 1 + TCP_WND
  <2> DEFINE u == snd_una'
             s == snd_edge'
  <2>1. u \in Nat /\ u <= R /\ s \in Nat /\ s <= e
    BY <1>1, <1>2, Zenon
  <2> HIDE DEF u, s
  <2>2. /\ R \in -Modulus .. Modulus /\ e \in -Modulus .. Modulus
        /\ ann \in 0 .. TCP_WND /\ R + 0 = R /\ R <= Total /\ ann <= wnd
        /\ u \in 0 .. Total + 1 /\ s \in 0 .. Total + 1 + TCP_WND
    BY <2>1, Sizes
  <2> QED BY <2>2, Zenon DEF u, s
<1>4. Plus(ISS, R) \in SeqNo /\ Plus(ISS, e) \in SeqNo
  BY <1>3, Positions, Zenon
<1>5. ooseq' \in Seq(Segments)
  <2>1. ooseq' \in Seq(Honest)
    BY SoundFacts, Zenon
  <2>2. \A x \in Honest : x \in Segments
    BY Zenon DEF Honest
  <2> DEFINE o == ooseq'
  <2> HIDE DEF o
  <2>3. o \in Seq(Honest)
    BY <2>1, Zenon DEF o
  <2>4. o \in Seq(Segments)
    BY <2>2, <2>3
  <2> QED BY <2>4, Zenon DEF o
<1>6. TypeOK'
  BY <1>1, <1>2, <1>3, <1>4, <1>5, Zenon DEF TypeOK
<1>7. ReceivedInv'
  BY <1>3, Zenon DEF ReceivedInv, FinSeen
<1>8. WindowInv'
  <2>1. EdgeInv(e)'
    BY <1>2, Zenon DEF EdgeInv
  <2> QED BY <1>1, <1>3, <2>1, Zenon DEF WindowInv, FinSeen
<1>9. QueueInv'
  BY Zenon DEF QueueInv
<1>10. ~TCP_SEQ_LT(rcv_ann_right_edge', rcv_ann_right_edge)
  BY EdgeKept, Zenon
<1> QED BY <1>6, <1>7, <1>8, <1>9, <1>10, Zenon DEF IndInv

\* Acknowledging again keeps the invariant, if the queue stays sound.
LEMMA AckAgainKeeps ==
    ASSUME IndInv, ~eof, NEW fate \in Fates, AckAgain(fate),
           Sound(ooseq', Len(received) + 1, Len(received) + rcv_wnd)
    PROVE /\ IndInv' /\ ~TCP_SEQ_LT(rcv_ann_right_edge', rcv_ann_right_edge)
          /\ received' = received /\ eof' = eof
<1> DEFINE R == Len(received)
<1>1. /\ eof = FALSE /\ received \in Seq(1 .. Total) /\ R \in 0 .. Total
      /\ \A i \in 1 .. R : received[i] = i
      /\ rcv_nxt = Plus(ISS, R) /\ state = "ESTABLISHED"
      /\ rcv_wnd \in 0 .. TCP_WND /\ unread \in 0 .. TCP_WND
      /\ rcv_wnd + unread = TCP_WND /\ rcv_ann_wnd \in 0 .. rcv_wnd
      /\ snd_una \in Nat /\ snd_una <= R /\ snd_edge \in Nat
      /\ \E edge \in 0 .. Total + TCP_WND : EdgeInv(edge)
  BY OpenFacts, Zenon
<1>2. PICK edge \in 0 .. Total + TCP_WND :
          /\ rcv_ann_right_edge = Plus(ISS, edge)
          /\ snd_edge <= edge /\ edge <= R + rcv_ann_wnd
  BY <1>1, Zenon DEF EdgeInv
<1>3. /\ SendAck(Plus(ISS, R), rcv_ann_wnd, R, fate)
      /\ state' = state /\ rcv_nxt' = rcv_nxt /\ rcv_wnd' = rcv_wnd
      /\ rcv_ann_wnd' = rcv_ann_wnd /\ received' = received /\ eof' = eof
      /\ unread' = unread
  BY <1>1, Zenon DEF AckAgain
<1> HIDE DEF R
<1>4. R \in 0 .. Total + 1 /\ rcv_ann_wnd \in Nat /\ R + rcv_ann_wnd <= Total + TCP_WND
  BY <1>1, Sizes
<1>5. EdgeMoves(R, rcv_ann_wnd, edge)
  BY <1>1, <1>2, <1>3, <1>4, SendAckEdge, Zenon
<1>6. /\ received' \in Seq(1 .. Total) /\ Len(received') = R
      /\ (\A i \in 1 .. R : received'[i] = i)
      /\ eof' = FALSE /\ state' = "ESTABLISHED" /\ rcv_nxt' = Plus(ISS, R)
      /\ Sound(ooseq', R + 1, R + rcv_wnd)
  BY <1>1, <1>3, Zenon DEF R
<1>7. IndInv' /\ ~TCP_SEQ_LT(rcv_ann_right_edge', rcv_ann_right_edge)
  BY <1>1, <1>2, <1>3, <1>5, <1>6, OpenStep, Zenon
<1> QED BY <1>3, <1>7, Zenon

\* The front of the stream and the run that follows it are a longer front.
LEMMA FrontGrows ==
    ASSUME NEW S, NEW s \in Seq(S), NEW r \in Seq(S),
           \A i \in 1 .. Len(s) : s[i] = i, \A i \in 1 .. Len(r) : r[i] = Len(s) + i
    PROVE /\ s \o r \in Seq(S) /\ Len(s \o r) = Len(s) + Len(r)
          /\ \A i \in 1 .. Len(s) + Len(r) : (s \o r)[i] = i
<1> DEFINE t == s \o r
           m == Len(s)
           d == Len(r)
<1>1. m \in Nat /\ d \in Nat
  BY SeqLen, Zenon
<1>2. /\ t \in Seq(S) /\ Len(t) = m + d
      /\ \A i \in 1 .. m : t[i] = s[i]
      /\ \A i \in 1 .. d : t[m + i] = r[i]
  BY ConcatOf, SMT
<1> HIDE DEF t, m, d
<1>3. (\A i \in 1 .. m : s[i] = i) /\ (\A i \in 1 .. d : r[i] = m + i)
  BY Zenon DEF m, d
<1>4. ASSUME NEW i \in 1 .. m + d PROVE t[i] = i
  <2>1. CASE i \in 1 .. m
    BY <1>2, <1>3, <2>1, Zenon
  <2>2. CASE i \notin 1 .. m
    <3>1. i - m \in 1 .. d /\ m + (i - m) = i
      BY <1>1, <2>2
    <3>2. t[m + (i - m)] = m + (i - m)
      BY <1>2, <1>3, <3>1, Zenon
    <3> QED BY <3>1, <3>2, Zenon
  <2> QED BY <2>1, <2>2, Zenon
<1> QED BY <1>2, <1>4, Zenon DEF t, m, d

\* The invariant after the step that ends the stream, from its parts
LEMMA ClosedStep ==
    ASSUME NEW wnd \in 0 .. TCP_WND, NEW un \in 0 .. TCP_WND, NEW ann \in 0 .. TCP_WND,
           NEW edge \in 0 .. Total + TCP_WND,
           received' \in Seq(1 .. Total), Len(received') = Total,
           \A i \in 1 .. Total : received'[i] = i,
           eof' = TRUE, state' = "CLOSE_WAIT", rcv_nxt' = Plus(ISS, Total + 1),
           rcv_wnd' = wnd, unread' = un, wnd + un = TCP_WND, rcv_ann_wnd' = ann,
           ooseq' = <<>>,
           rcv_ann_right_edge = Plus(ISS, edge), EdgeMoves(Total + 1, ann, edge)
    PROVE IndInv' /\ ~TCP_SEQ_LT(rcv_ann_right_edge', rcv_ann_right_edge)
<1>1. /\ flags' \subseteq {"ACK_DELAY", "ACK_NOW"}
      /\ snd_una' \in Nat /\ snd_una' <= Total + 1 /\ snd_edge' \in Nat
  BY Zenon DEF EdgeMoves
<1>2. PICK e \in 0 .. Total + TCP_WND : rcv_ann_right_edge' = Plus(ISS, e) /\ snd_edge' <= e
  BY Zenon DEF EdgeMoves
<1>3. /\ Total + 1 \in -Modulus .. Modulus /\ e \in -Modulus .. Modulus /\ Total <= Total
      /\ snd_una' \in 0 .. Total + 1 /\ snd_edge' \in 0 .. Total + 1 + TCP_WND
  <2> DEFINE u == snd_una'
             s == snd_edge'
  <2>1. u \in Nat /\ u <= Total + 1 /\ s \in Nat /\ s <= e
    BY <1>1, <1>2, Zenon
  <2> HIDE DEF u, s
  <2>2. /\ Total + 1 \in -Modulus .. Modulus /\ e \in -Modulus .. Modulus /\ Total <= Total
        /\ u \in 0 .. Total + 1 /\ s \in 0 .. Total + 1 + TCP_WND
    BY <2>1, Sizes
  <2> QED BY <2>2, Zenon DEF u, s
<1>4. Plus(ISS, Total + 1) \in SeqNo /\ Plus(ISS, e) \in SeqNo
  BY <1>3, Positions, Zenon
<1>5. <<>> \in Seq(Segments)
  OBVIOUS
<1>6. TypeOK'
  BY <1>1, <1>2, <1>3, <1>4, <1>5, Zenon DEF TypeOK
<1>7. ReceivedInv'
  BY <1>3, Zenon DEF ReceivedInv, FinSeen
<1>8. WindowInv'
  BY <1>1, Zenon DEF WindowInv, FinSeen
<1>9. QueueInv'
  BY Zenon DEF QueueInv
<1>10. ~TCP_SEQ_LT(rcv_ann_right_edge', rcv_ann_right_edge)
  BY EdgeKept, Zenon
<1> QED BY <1>6, <1>7, <1>8, <1>9, <1>10, Zenon DEF IndInv

\* Delivering a chain without gaps that begins at rcv_nxt keeps the invariant and
\* hands over the next bytes of the stream.
LEMMA DeliverKeeps ==
    ASSUME IndInv, ~eof, NEW fate \in Fates,
           NEW chain \in Seq(Honest), NEW n \in Nat, Len(chain) = n + 1, NEW left,
           At(chain[1]) = Len(received),
           \A i \in 1 .. n : At(chain[i + 1]) = Past(chain[i]) /\ ~chain[i].fin,
           Reach(chain[n + 1]) <= Len(received) + rcv_wnd,
           chain[n + 1].fin => left = <<>>,
           Sound(left, Past(chain[n + 1]) + 1, Len(received) + rcv_wnd),
           Deliver(chain, left, fate)
    PROVE /\ IndInv' /\ ~TCP_SEQ_LT(rcv_ann_right_edge', rcv_ann_right_edge)
          /\ \E k \in 0 .. Total : Stream!Deliver(k)
<1> DEFINE R == Len(received)
           last == chain[n + 1]
           z == Past(last)
           d == z - R
           run == [j \in 1 .. d |-> R + j]
<1>1. /\ eof = FALSE /\ received \in Seq(1 .. Total) /\ R \in 0 .. Total
      /\ \A i \in 1 .. R : received[i] = i
      /\ rcv_nxt = Plus(ISS, R) /\ state = "ESTABLISHED"
      /\ rcv_wnd \in 0 .. TCP_WND /\ unread \in 0 .. TCP_WND
      /\ rcv_wnd + unread = TCP_WND /\ rcv_ann_wnd \in 0 .. rcv_wnd
      /\ snd_una \in Nat /\ snd_una <= R /\ snd_edge \in Nat
      /\ flags \subseteq {"ACK_DELAY", "ACK_NOW"}
      /\ \E edge \in 0 .. Total + TCP_WND : EdgeInv(edge)
  BY OpenFacts, Zenon
<1>2. PICK edge \in 0 .. Total + TCP_WND :
          /\ rcv_ann_right_edge = Plus(ISS, edge)
          /\ snd_edge <= edge /\ edge <= R + rcv_ann_wnd
  BY <1>1, Zenon DEF EdgeInv
<1>3. R \in Nat /\ Len(chain) # 0 /\ Len(chain) - 1 = n /\ n + 1 \in 1 .. Len(chain)
      /\ \A i \in 1 .. Len(chain) : i \in 1 .. n \/ i = n + 1
  <2> HIDE DEF R
  <2> QED BY SMTT(30), <1>1
<1>4. R <= z /\ Chained(chain) = run
  <2>1. /\ R <= Past(chain[Len(chain)])
        /\ Chained(chain) = [j \in 1 .. Past(chain[Len(chain)]) - R |-> R + j]
    <3>1. /\ At(chain[1]) = R
          /\ \A i \in 1 .. Len(chain) - 1 : At(chain[i + 1]) = Past(chain[i])
      BY <1>3, Zenon
    <3> HIDE DEF R
    <3> QED BY <1>3, <3>1, ChainedRun, Zenon
  <2> QED BY <2>1, Zenon
<1>5. last \in Honest
  BY <1>3, SeqLen, Zenon
<1>6. /\ z \in 0 .. Total /\ last.fin \in BOOLEAN /\ (last.fin => z = Total)
      /\ Reach(last) = z + (IF last.fin THEN 1 ELSE 0) /\ Reach(last) <= R + rcv_wnd
  BY <1>5, HonestFacts, Zenon
<1>7. (\E i \in 1 .. Len(chain) : chain[i].fin) <=> last.fin
  BY <1>3, Zenon
<1>8. /\ received \o run \in Seq(1 .. Total) /\ Len(received \o run) = z
      /\ (\A i \in 1 .. z : (received \o run)[i] = i) /\ Len(run) = d
      /\ d \in Nat /\ R + d = z
  <2>1. d \in Nat /\ R + d <= Total /\ R + d = z
    <3> HIDE DEF R, z
    <3> QED BY SMTT(30), <1>1, <1>4, <1>6
  <2>2. /\ received \o run \in Seq(1 .. Total) /\ Len(received \o run) = R + d
        /\ (\A i \in 1 .. R + d : (received \o run)[i] = i) /\ Len(run) = d
    <3> HIDE DEF d
    <3>1. \A j \in 1 .. d : R + j \in 1 .. Total
      <4>1. R \in Nat /\ d \in Nat /\ R + d <= Total
        BY <1>3, <2>1, Zenon
      <4> HIDE DEF R
      <4> QED BY <4>1, Sizes
    <3>2. run \in [1 .. d -> 1 .. Total] /\ \A j \in 1 .. d : run[j] = R + j
      BY <3>1, Zenon
    <3> HIDE DEF run
    <3>3. run \in Seq(1 .. Total) /\ Len(run) = d
      <4> DEFINE S == 1 .. Total
      <4>1. d \in Nat /\ run \in [1 .. d -> S]
        BY <2>1, <3>2, Zenon
      <4> HIDE DEF S
      <4>2. run \in Seq(S) /\ Len(run) = d
        BY <4>1, FunctionSeq, Zenon
      <4> QED BY <4>2, Zenon DEF S
    <3>4. \A j \in 1 .. Len(run) : run[j] = Len(received) + j
      BY <3>2, <3>3, Zenon
    <3>5. /\ received \o run \in Seq(1 .. Total)
          /\ Len(received \o run) = Len(received) + Len(run)
          /\ \A i \in 1 .. Len(received) + Len(run) : (received \o run)[i] = i
      <4>1. received \in Seq(1 .. Total) /\ \A i \in 1 .. Len(received) : received[i] = i
        BY <1>1, Zenon
      <4> DEFINE S == 1 .. Total
                 s == received
      <4>2. s \in Seq(S) /\ run \in Seq(S) /\ (\A i \in 1 .. Len(s) : s[i] = i)
            /\ \A i \in 1 .. Len(run) : run[i] = Len(s) + i
        BY <3>3, <3>4, <4>1, Zenon
      <4> HIDE DEF S, s
      <4>3. /\ s \o run \in Seq(S) /\ Len(s \o run) = Len(s) + Len(run)
            /\ \A i \in 1 .. Len(s) + Len(run) : (s \o run)[i] = i
        BY <4>2, FrontGrows, Zenon
      <4> QED BY <4>3, Zenon DEF S, s
    <3> QED BY <3>3, <3>5, Zenon
  <2> QED BY <2>1, <2>2, Zenon
<1>9. PICK fin \in {\E i \in 1 .. Len(chain) : chain[i].fin} :
          \E len \in {Len(run) + IF fin THEN 1 ELSE 0} :
          \E ann \in {AnnouncedWindow(Plus(rcv_nxt, len), rcv_wnd - len)} :
              /\ ooseq' = left
              /\ rcv_nxt' = Plus(rcv_nxt, len)
              /\ rcv_wnd' = CorrectedWindow(rcv_wnd - len, fin)
              /\ rcv_ann_wnd' = ann
              /\ received' = received \o run /\ unread' = unread + Len(run)
              /\ eof' = fin
              /\ state' = IF fin THEN "CLOSE_WAIT" ELSE state
              /\ tcp_output(tcp_ack(flags) \cup IF fin THEN {"ACK_NOW"} ELSE {},
                            Plus(rcv_nxt, len), ann, R + len, fate)
  <2> HIDE DEF run
  <2>1. PICK data \in {Chained(chain)}, fin \in {\E i \in 1 .. Len(chain) : chain[i].fin} :
          \E len \in {Len(data) + IF fin THEN 1 ELSE 0} :
          \E ann \in {AnnouncedWindow(Plus(rcv_nxt, len), rcv_wnd - len)} :
              /\ ooseq' = left
              /\ rcv_nxt' = Plus(rcv_nxt, len)
              /\ rcv_wnd' = CorrectedWindow(rcv_wnd - len, fin)
              /\ rcv_ann_wnd' = ann
              /\ received' = received \o data /\ unread' = unread + Len(data)
              /\ eof' = fin
              /\ state' = IF fin THEN "CLOSE_WAIT" ELSE state
              /\ tcp_output(tcp_ack(flags) \cup IF fin THEN {"ACK_NOW"} ELSE {},
                            Plus(rcv_nxt, len), ann, Len(received) + len, fate)
    BY Zenon DEF Deliver
  <2>2. data = run
    BY <1>4, Zenon
  <2> QED BY <2>1, <2>2, Zenon
<1>10. fin \in BOOLEAN /\ (fin <=> last.fin)
  BY <1>7, <1>9, Zenon
<1> DEFINE len == d + IF fin THEN 1 ELSE 0
           pos == R + len
           room == rcv_wnd - len
           ann == AnnouncedWindow(Plus(ISS, pos), room)
<1>11. /\ pos = Reach(last) /\ len \in Nat /\ pos \in 0 .. Total + 1
       /\ room \in 0 .. TCP_WND /\ pos + room = R + rcv_wnd /\ (fin => room + 1 \in 0 .. TCP_WND)
       /\ (fin => room # TCP_WND) /\ (~fin => pos = z)
  <2> HIDE DEF d, R, z, last
  <2>0. /\ R \in 0 .. Total /\ rcv_wnd \in 0 .. TCP_WND /\ z \in 0 .. Total
        /\ d \in Nat /\ R + d = z /\ Reach(last) <= R + rcv_wnd
    BY <1>1, <1>6, <1>8, Zenon
  <2>1. CASE fin
    <3>1. Reach(last) = z + 1 /\ len = d + 1
      BY <1>6, <1>10, <2>1, Zenon
    <3> HIDE DEF len
    <3>2. /\ R + len = Reach(last) /\ len \in Nat /\ R + len \in 0 .. Total + 1
          /\ rcv_wnd - len \in 0 .. TCP_WND /\ (R + len) + (rcv_wnd - len) = R + rcv_wnd
          /\ rcv_wnd - len + 1 \in 0 .. TCP_WND /\ rcv_wnd - len # TCP_WND
      BY <2>0, <3>1, Sizes
    <3> QED BY <2>1, <3>2, Zenon
  <2>2. CASE ~fin
    <3>1. Reach(last) = z + 0 /\ len = d + 0
      BY <1>6, <1>10, <2>2, Zenon
    <3> HIDE DEF len
    <3>2. /\ R + len = Reach(last) /\ len \in Nat /\ R + len \in 0 .. Total + 1
          /\ rcv_wnd - len \in 0 .. TCP_WND /\ (R + len) + (rcv_wnd - len) = R + rcv_wnd
          /\ R + len = z
      BY SMTT(30), <2>0, <3>1, Sizes
    <3> QED BY <2>2, <3>2, Zenon
  <2> QED BY <2>1, <2>2, Zenon
<1>12. Plus(rcv_nxt, len) = Plus(ISS, pos)
  <2> HIDE DEF R, len
  <2>1. R \in -Modulus .. Modulus /\ len \in -Modulus .. Modulus /\ R + len \in -Modulus .. Modulus
    <3>1. R \in 0 .. Total /\ len \in Nat /\ R + len \in 0 .. Total + 1
      BY <1>1, <1>11, Zenon
    <3> QED BY <3>1, Sizes
  <2>2. Plus(Plus(ISS, R), len) = Plus(ISS, R + len)
    BY <2>1, Onwards, Zenon
  <2> QED BY <1>1, <2>2, Zenon
<1>13. /\ ooseq' = left /\ rcv_nxt' = Plus(ISS, pos)
       /\ rcv_wnd' = CorrectedWindow(room, fin) /\ rcv_ann_wnd' = ann
       /\ received' = received \o run /\ unread' = unread + d /\ eof' = fin
       /\ state' = IF fin THEN "CLOSE_WAIT" ELSE state
       /\ tcp_output(tcp_ack(flags) \cup IF fin THEN {"ACK_NOW"} ELSE {},
                     Plus(ISS, pos), ann, pos, fate)
  <2> HIDE DEF run, d
  <2> QED BY <1>8, <1>9, <1>12, Zenon
<1> HIDE DEF last, z, d, run, len, room
<1>14. ann \in 0 .. room /\ edge <= pos + ann
  <2>1. edge <= pos + room
    <3> HIDE DEF R, pos
    <3>1. /\ R \in 0 .. Total /\ rcv_wnd \in 0 .. TCP_WND /\ rcv_ann_wnd \in 0 .. rcv_wnd
          /\ edge <= R + rcv_ann_wnd /\ pos + room = R + rcv_wnd
      BY <1>1, <1>2, <1>11, Zenon
    <3> QED BY <3>1, Sizes
  <2> HIDE DEF pos
  <2> QED BY <1>2, <1>11, <2>1, AnnouncedFits, Zenon
<1> HIDE DEF ann, pos, R
<1>15. /\ ann \in Nat /\ pos + ann <= Total + TCP_WND /\ snd_una <= pos /\ ann \in 0 .. TCP_WND
  <2>1. /\ R \in 0 .. Total /\ rcv_wnd \in 0 .. TCP_WND /\ snd_una \in Nat /\ snd_una <= R
        /\ len \in Nat /\ pos = R + len /\ pos + room = R + rcv_wnd
        /\ room \in 0 .. TCP_WND /\ ann \in 0 .. room
    BY <1>1, <1>11, <1>14, Zenon DEF pos
  <2> QED BY SMTT(30), <2>1, Sizes
<1>16. EdgeMoves(pos, ann, edge)
  <2> DEFINE fl == tcp_ack(flags) \cup IF fin THEN {"ACK_NOW"} ELSE {}
  <2>1. fl \subseteq {"ACK_DELAY", "ACK_NOW"}
    BY <1>1, Zenon DEF tcp_ack
  <2>2. tcp_output(fl, Plus(ISS, pos), ann, pos, fate)
    BY <1>13, Zenon
  <2> HIDE DEF fl
  <2> QED BY <1>1, <1>2, <1>11, <1>14, <1>15, <2>1, <2>2, OutputEdge, Zenon
<1>17. \E k \in 0 .. Total : Stream!Deliver(k)
  <2>1. d \in 0 .. Total /\ R + d <= Total
    <3>1. R \in 0 .. Total /\ z \in 0 .. Total /\ d \in Nat /\ R + d = z
      BY <1>1, <1>6, <1>8, Zenon
    <3> QED BY <3>1, Sizes
  <2>2. /\ ~eof /\ Len(received) + d <= Total
        /\ received' = received \o [i \in 1 .. d |-> Len(received) + i]
    BY <1>1, <1>13, <2>1, Zenon DEF R, run
  <2>3. eof' \in IF Len(received) + d = Total THEN BOOLEAN ELSE {FALSE}
    <3>1. CASE fin
      <4>1. Len(received) + d = Total
        BY <1>6, <1>8, <1>10, <3>1, Zenon DEF R
      <4> QED BY <1>10, <1>13, <4>1, Zenon
    <3>2. CASE ~fin
      <4>1. eof' = FALSE
        BY <1>10, <1>13, <3>2, Zenon
      <4> QED BY <4>1, Zenon
    <3> QED BY <3>1, <3>2, Zenon
  <2>4. Stream!Deliver(d)
    BY <2>2, <2>3, Zenon DEF Stream!Deliver
  <2> QED BY <2>1, <2>4, Zenon
<1>18. CASE ~fin
  <2>1. pos = z /\ rcv_wnd' = room /\ eof' = FALSE /\ state' = "ESTABLISHED"
    BY <1>1, <1>10, <1>11, <1>13, <1>18, Zenon DEF CorrectedWindow
  <2>2. /\ unread + d \in 0 .. TCP_WND /\ room + (unread + d) = TCP_WND
        /\ pos + room = R + rcv_wnd
    <3>1. /\ R \in 0 .. Total /\ unread \in 0 .. TCP_WND /\ rcv_wnd \in 0 .. TCP_WND
          /\ rcv_wnd + unread = TCP_WND /\ d \in Nat /\ room \in 0 .. TCP_WND
          /\ R + d = pos /\ pos + room = R + rcv_wnd
      BY <1>1, <1>8, <1>11, <2>1, Zenon
    <3> QED BY SMTT(30), <3>1, Sizes
  <2>3. Sound(ooseq', pos + 1, pos + room)
    BY <1>13, <2>1, <2>2, Zenon DEF z, R, last
  <2>4. pos \in 0 .. Total
    BY <1>6, <2>1, Zenon
  <2>5. /\ received' \in Seq(1 .. Total) /\ Len(received') = pos
        /\ \A i \in 1 .. pos : received'[i] = i
    BY <1>8, <1>13, <2>1, Zenon
  <2>6. IndInv' /\ ~TCP_SEQ_LT(rcv_ann_right_edge', rcv_ann_right_edge)
    BY <1>2, <1>11, <1>13, <1>14, <1>16, <2>1, <2>2, <2>3, <2>4, <2>5, OpenStep, Zenon
  <2> QED BY <1>17, <2>6, Zenon
<1>19. CASE fin
  <2>1. /\ z = Total /\ rcv_wnd' = room + 1 /\ room + 1 \in 0 .. TCP_WND /\ eof' = TRUE
        /\ state' = "CLOSE_WAIT" /\ ooseq' = <<>>
    BY <1>6, <1>10, <1>11, <1>13, <1>19, Zenon DEF CorrectedWindow, last
  <2>2. pos = Total + 1
    <3>1. Reach(last) = z + 1
      BY <1>6, <1>10, <1>19, Zenon
    <3> QED BY <1>11, <2>1, <3>1
  <2>3. /\ unread + d \in 0 .. TCP_WND /\ (room + 1) + (unread + d) = TCP_WND
    <3>1. R + d = Total /\ (Total + 1) + room = R + rcv_wnd
      BY <1>8, <1>11, <2>1, <2>2, Zenon
    <3>2. /\ R \in 0 .. Total /\ unread \in 0 .. TCP_WND /\ rcv_wnd \in 0 .. TCP_WND
          /\ rcv_wnd + unread = TCP_WND /\ d \in Nat /\ room \in 0 .. TCP_WND
      BY <1>1, <1>8, <1>11, Zenon
    <3> QED BY SMTT(30), <3>1, <3>2, Sizes
  <2>4. /\ received' \in Seq(1 .. Total) /\ Len(received') = Total
        /\ \A i \in 1 .. Total : received'[i] = i
    BY <1>8, <1>13, <2>1, Zenon
  <2>5. rcv_nxt' = Plus(ISS, Total + 1) /\ EdgeMoves(Total + 1, ann, edge)
    BY <1>13, <1>16, <2>2, Zenon
  <2>6. IndInv' /\ ~TCP_SEQ_LT(rcv_ann_right_edge', rcv_ann_right_edge)
    BY <1>2, <1>13, <1>15, <2>1, <2>3, <2>4, <2>5, ClosedStep, Zenon
  <2> QED BY <1>17, <2>6, Zenon
<1> QED BY <1>18, <1>19, Zenon

\* What every step must do: keep the invariant, leave the edge of the announced
\* window where it is or move it on, and hand over the stream's next bytes or none
StepSound ==
    /\ IndInv' /\ ~TCP_SEQ_LT(rcv_ann_right_edge', rcv_ann_right_edge)
    /\ [Stream!Next]_<<received, eof>>

\* A segment that is the next in sequence
LEMMA InSequenceKeeps ==
    ASSUME IndInv, ~eof, NEW fate \in Fates, NEW seg \in Honest,
           At(seg) = Len(received), Reach(seg) <= Len(received) + rcv_wnd,
           ReceiveInSequence(seg, fate)
    PROVE StepSound
<1> DEFINE R == Len(received)
           hi == R + rcv_wnd
           m == Merge(seg, ooseq)
           n == InSequence(m.rest, Plus(rcv_nxt, TCP_TCPLEN(m.seg)))
           chain == <<m.seg>> \o SubSeq(m.rest, 1, n)
           left == SubSeq(m.rest, n + 1, Len(m.rest))
<1>1. /\ R \in 0 .. Total /\ rcv_nxt = Plus(ISS, R) /\ rcv_wnd \in 0 .. TCP_WND
      /\ Sound(ooseq, R + 1, hi) /\ At(seg) = R /\ Reach(seg) <= hi
  BY OpenFacts, Zenon
<1>2. hi \in Int /\ R \in Int /\ R + 1 \in Int /\ R <= R + 1 /\ R <= R /\ rcv_wnd \in Int
  <2> HIDE DEF R
  <2> QED BY <1>1
<1> HIDE DEF R, hi
<1>3. FitWindow(seg) = seg
  BY <1>1, <1>2, FitsWindow, Zenon DEF hi
<1>4. Deliver(chain, left, fate)
  BY <1>3, Zenon DEF ReceiveInSequence
<1>5. Sound(ooseq, At(seg), hi)
  BY <1>1, <1>2, SoundLower, Zenon
<1>6. /\ m.seg \in Honest /\ At(m.seg) = R /\ Reach(m.seg) <= hi
      /\ Sound(m.rest, Past(m.seg), hi) /\ (m.seg.fin => m.rest = <<>>)
  BY <1>1, <1>2, <1>5, MergeSound, Zenon
<1> DEFINE x == m.seg
           rest == m.rest
<1> HIDE DEF m
<1>7. x.seqno = rcv_nxt
  BY <1>1, <1>6, HonestFacts, Zenon
<1>8. /\ chain \in Seq(Honest) /\ n \in Nat /\ Len(chain) = n + 1
      /\ chain[1] = x
      /\ \A i \in 1 .. n : At(chain[i + 1]) = Past(chain[i]) /\ ~chain[i].fin
      /\ Reach(chain[n + 1]) <= hi
      /\ (chain[n + 1].fin => left = <<>>)
      /\ Sound(left, Past(chain[n + 1]) + 1, hi)
  <2>1. n = InSequence(rest, Plus(x.seqno, TCP_TCPLEN(x)))
    BY <1>7, Zenon
  <2>2. /\ x \in Honest /\ Reach(x) <= hi /\ Sound(rest, Past(x), hi)
        /\ (x.fin => rest = <<>>)
    BY <1>6, Zenon
  <2> HIDE DEF x, rest
  <2>3. LET k == InSequence(rest, Plus(x.seqno, TCP_TCPLEN(x)))
            c == <<x>> \o SubSeq(rest, 1, k)
            l == SubSeq(rest, k + 1, Len(rest))
        IN  /\ c \in Seq(Honest) /\ k \in Nat /\ Len(c) = k + 1
            /\ c[1] = x
            /\ \A i \in 1 .. k : At(c[i + 1]) = Past(c[i]) /\ ~c[i].fin
            /\ Reach(c[k + 1]) <= hi
            /\ c[k + 1].fin => l = <<>>
            /\ Sound(l, Past(c[k + 1]) + 1, hi)
    BY <1>2, <2>2, WalkInSequence, Zenon
  <2> HIDE DEF n
  <2> QED BY <2>1, <2>3, Zenon DEF x, rest
<1> HIDE DEF n, chain, left
<1>9. At(chain[1]) = Len(received)
  BY <1>6, <1>8, Zenon DEF R
<1>10. /\ IndInv' /\ ~TCP_SEQ_LT(rcv_ann_right_edge', rcv_ann_right_edge)
       /\ \E k \in 0 .. Total : Stream!Deliver(k)
  BY <1>4, <1>8, <1>9, DeliverKeeps, Zenon DEF R, hi
<1> QED BY <1>10, Zenon DEF StepSound, Stream!Next

\* A segment that leaves a gap
LEMMA OutOfSequenceKeeps ==
    ASSUME IndInv, ~eof, NEW fate \in Fates, NEW seg \in Honest,
           Len(received) + 1 <= At(seg), Reach(seg) <= Len(received) + rcv_wnd,
           ReceiveOutOfSequence(seg, fate)
    PROVE StepSound
<1> DEFINE R == Len(received)
<1>1. /\ R \in 0 .. Total /\ rcv_nxt = Plus(ISS, R) /\ rcv_wnd \in 0 .. TCP_WND
      /\ Sound(ooseq, R + 1, R + rcv_wnd)
  BY OpenFacts, Zenon
<1>2. rcv_wnd \in Int
  BY <1>1
<1>3. R + 1 <= At(seg) /\ Reach(seg) <= R + rcv_wnd
  BY Zenon
<1> HIDE DEF R
<1>4. Sound(Queue(seg, ooseq), R + 1, R + rcv_wnd)
  BY <1>1, <1>2, <1>3, QueueKeepsSound, Zenon
<1>5. Sound(ooseq', R + 1, R + rcv_wnd) /\ AckAgain(fate)
  BY <1>1, <1>4, Zenon DEF ReceiveOutOfSequence
<1>6. /\ IndInv' /\ ~TCP_SEQ_LT(rcv_ann_right_edge', rcv_ann_right_edge)
      /\ received' = received /\ eof' = eof
  BY <1>5, AckAgainKeeps, Zenon DEF R
<1> QED BY <1>6, Zenon DEF StepSound

\* Acknowledging again, the queue as it is
LEMMA AgainKeeps ==
    ASSUME IndInv, ~eof, NEW fate \in Fates, AckAgain(fate), UNCHANGED ooseq
    PROVE StepSound
<1>1. Sound(ooseq', Len(received) + 1, Len(received) + rcv_wnd)
  BY OpenFacts, Zenon
<1>2. /\ IndInv' /\ ~TCP_SEQ_LT(rcv_ann_right_edge', rcv_ann_right_edge)
      /\ received' = received /\ eof' = eof
  BY <1>1, AckAgainKeeps, Zenon
<1> QED BY <1>2, Zenon DEF StepSound

\* A segment without data in the window
LEMMA EmptyKeeps ==
    ASSUME IndInv, ~eof, NEW fate \in Fates,
           tcp_output(flags, rcv_nxt, rcv_ann_wnd, Len(received), fate),
           UNCHANGED <<state, rcv_nxt, rcv_wnd, rcv_ann_wnd, ooseq, received, eof, unread>>
    PROVE StepSound
<1> DEFINE R == Len(received)
<1>1. /\ eof = FALSE /\ received \in Seq(1 .. Total) /\ R \in 0 .. Total
      /\ \A i \in 1 .. R : received[i] = i
      /\ rcv_nxt = Plus(ISS, R) /\ state = "ESTABLISHED"
      /\ rcv_wnd \in 0 .. TCP_WND /\ unread \in 0 .. TCP_WND
      /\ rcv_wnd + unread = TCP_WND /\ rcv_ann_wnd \in 0 .. rcv_wnd
      /\ snd_una \in Nat /\ snd_una <= R /\ snd_edge \in Nat
      /\ flags \subseteq {"ACK_DELAY", "ACK_NOW"}
      /\ Sound(ooseq, R + 1, R + rcv_wnd)
      /\ \E edge \in 0 .. Total + TCP_WND : EdgeInv(edge)
  BY OpenFacts, Zenon
<1>2. PICK edge \in 0 .. Total + TCP_WND :
          /\ rcv_ann_right_edge = Plus(ISS, edge)
          /\ snd_edge <= edge /\ edge <= R + rcv_ann_wnd
  BY <1>1, Zenon DEF EdgeInv
<1>3. /\ tcp_output(flags, Plus(ISS, R), rcv_ann_wnd, R, fate)
      /\ state' = state /\ rcv_nxt' = rcv_nxt /\ rcv_wnd' = rcv_wnd
      /\ rcv_ann_wnd' = rcv_ann_wnd /\ received' = received /\ eof' = eof
      /\ unread' = unread /\ ooseq' = ooseq
  BY <1>1, Zenon
<1> HIDE DEF R
<1>4. R \in 0 .. Total + 1 /\ rcv_ann_wnd \in Nat /\ R + rcv_ann_wnd <= Total + TCP_WND
  <2>1. R \in 0 .. Total /\ rcv_wnd \in 0 .. TCP_WND /\ rcv_ann_wnd \in 0 .. rcv_wnd
    BY <1>1, Zenon
  <2> QED BY <2>1, Sizes
<1>5. EdgeMoves(R, rcv_ann_wnd, edge)
  BY <1>1, <1>2, <1>3, <1>4, OutputEdge, Zenon
<1>6. /\ received' \in Seq(1 .. Total) /\ Len(received') = R
      /\ (\A i \in 1 .. R : received'[i] = i)
      /\ eof' = FALSE /\ state' = "ESTABLISHED" /\ rcv_nxt' = Plus(ISS, R)
      /\ Sound(ooseq', R + 1, R + rcv_wnd)
  BY <1>1, <1>3, Zenon DEF R
<1>7. IndInv' /\ ~TCP_SEQ_LT(rcv_ann_right_edge', rcv_ann_right_edge)
  BY <1>1, <1>2, <1>3, <1>5, <1>6, OpenStep, Zenon
<1> QED BY <1>3, <1>7, Zenon DEF StepSound

\* The connection is open exactly while the stream has not ended.
LEMMA OpenState ==
    ASSUME IndInv, state = "ESTABLISHED" PROVE ~eof
<1>1. state = IF eof THEN "CLOSE_WAIT" ELSE "ESTABLISHED"
  BY Zenon DEF IndInv, ReceivedInv
<1>2. "ESTABLISHED" # "CLOSE_WAIT"
  OBVIOUS
<1> QED BY <1>1, <1>2, Zenon

\* tcp_input with any segment the sender may have sent
LEMMA InputKeeps ==
    ASSUME IndInv, NEW pos \in 0 .. Total, NEW len \in 0 .. mss, NEW fin \in BOOLEAN,
           NEW fate \in Fates, Input(pos, len, fin, fate)
    PROVE StepSound
<1> DEFINE R == Len(received)
           sent == Sent(pos, len, fin)
           seg == TrimFront(sent)
           end == (pos + len) + (IF fin THEN 1 ELSE 0)
<1>1. ~eof
  BY OpenState, Zenon DEF Input
<1>2. /\ R \in 0 .. Total /\ rcv_nxt = Plus(ISS, R)
      /\ rcv_wnd \in 0 .. TCP_WND /\ rcv_ann_wnd \in 0 .. rcv_wnd
      /\ snd_una \in Nat /\ snd_una <= R /\ snd_edge \in Nat
      /\ \E edge \in 0 .. Total + TCP_WND : EdgeInv(edge)
  BY <1>1, OpenFacts, Zenon
<1>3. PICK edge \in 0 .. Total + TCP_WND : snd_edge <= edge /\ edge <= R + rcv_ann_wnd
  BY <1>2, Zenon DEF EdgeInv
<1> HIDE DEF R
<1>4. snd_edge <= R + rcv_wnd
  BY <1>2, <1>3
<1>5. /\ pos + len <= Total /\ (fin => pos + len = Total)
      /\ \/ end <= snd_edge
         \/ pos = snd_una /\ pos = snd_edge /\ end = pos + 1
  <2>1. /\ pos + len <= Total /\ (fin => pos + len = Total)
        /\ \/ pos + len + (IF fin THEN 1 ELSE 0) <= snd_edge
           \/ pos = snd_una /\ pos = snd_edge /\ pos + len + (IF fin THEN 1 ELSE 0) = pos + 1
    BY Zenon DEF Input, MaySend
  <2> QED BY <2>1, Zenon
<1>6. len \in Nat
  BY Sizes
<1>7. sent \in Honest /\ At(sent) = pos /\ Reach(sent) = end
  BY <1>5, <1>6, SentHonest, Zenon
<1> HIDE DEF sent, end
<1>8. seg \in Honest /\ Reach(seg) = end /\ (At(seg) = pos \/ At(seg) = R)
  BY <1>2, <1>7, TrimFrontHonest, Zenon
<1>9. \/ /\ InWindow(seg.seqno)
         /\ \/ seg.seqno = rcv_nxt /\ ReceiveInSequence(seg, fate)
            \/ seg.seqno # rcv_nxt /\ ReceiveOutOfSequence(seg, fate)
      \/ AckAgain(fate) /\ UNCHANGED ooseq
      \/ /\ tcp_output(flags, rcv_nxt, rcv_ann_wnd, Len(received), fate)
         /\ UNCHANGED <<state, rcv_nxt, rcv_wnd, rcv_ann_wnd, ooseq, received, eof,
                        unread>>
  BY Zenon DEF Input, tcp_receive, sent
<1> DEFINE a == At(seg)
<1>10. /\ a \in 0 .. Total /\ seg.seqno = Plus(ISS, a) /\ Reach(seg) \in Int
  BY <1>8, HonestFacts, HonestInt, Zenon
<1> HIDE DEF seg
<1>11. /\ InWindow(seg.seqno) <=> R <= a /\ a < R + rcv_wnd
       /\ seg.seqno = rcv_nxt <=> a = R
  <2> HIDE DEF a
  <2>1. InWindow(Plus(ISS, a)) <=> R <= a /\ a < R + rcv_wnd
    BY <1>2, <1>10, InWindowMeans, Zenon
  <2>2. a \in 0 .. Total + TCP_WND + 1 /\ R \in 0 .. Total + TCP_WND + 1
    BY <1>2, <1>10, Sizes
  <2>3. Plus(ISS, a) = Plus(ISS, R) <=> a = R
    BY <2>2, HonestOrder, Zenon
  <2> QED BY <1>2, <1>10, <2>1, <2>3, Zenon
<1>12. ASSUME InWindow(seg.seqno) PROVE Reach(seg) <= R + rcv_wnd
  <2> HIDE DEF a
  <2>1. R <= a /\ a < R + rcv_wnd /\ Reach(seg) = end /\ (a = pos \/ a = R)
    BY <1>8, <1>11, <1>12, Zenon DEF a
  <2>2. CASE end <= snd_edge
    BY <1>2, <1>4, <1>10, <2>1, <2>2
  <2>3. CASE pos = snd_una /\ end = pos + 1
    BY <1>2, <1>10, <2>1, <2>3
  <2> QED BY <1>5, <2>2, <2>3, Zenon
<1>13. CASE InWindow(seg.seqno) /\ seg.seqno = rcv_nxt /\ ReceiveInSequence(seg, fate)
  <2>1. At(seg) = Len(received) /\ Reach(seg) <= Len(received) + rcv_wnd
    BY <1>11, <1>12, <1>13, Zenon DEF R
  <2> QED BY <1>1, <1>8, <1>13, <2>1, InSequenceKeeps, Zenon
<1>14. CASE InWindow(seg.seqno) /\ seg.seqno # rcv_nxt /\ ReceiveOutOfSequence(seg, fate)
  <2>1. R <= a /\ a # R
    BY <1>11, <1>14, Zenon
  <2>2. R + 1 <= a
    <3> HIDE DEF a
    <3> QED BY <1>2, <1>10, <2>1
  <2>3. Len(received) + 1 <= At(seg) /\ Reach(seg) <= Len(received) + rcv_wnd
    BY <1>12, <1>14, <2>2, Zenon DEF R
  <2> QED BY <1>1, <1>8, <1>14, <2>3, OutOfSequenceKeeps, Zenon
<1>15. CASE AckAgain(fate) /\ UNCHANGED ooseq
  BY <1>1, <1>15, AgainKeeps, Zenon
<1>16. CASE /\ tcp_output(flags, rcv_nxt, rcv_ann_wnd, Len(received), fate)
            /\ UNCHANGED <<state, rcv_nxt, rcv_wnd, rcv_ann_wnd, ooseq, received, eof,
                           unread>>
  BY <1>1, <1>16, EmptyKeeps, Zenon
<1> QED BY <1>9, <1>13, <1>14, <1>15, <1>16, Zenon

\* A sound queue may be said to end later.
LEMMA SoundHigher ==
    ASSUME NEW q, NEW lo, NEW hi \in Int, NEW high \in Int, hi <= high, Sound(q, lo, hi)
    PROVE Sound(q, lo, high)
<1>1. /\ q \in Seq(Honest)
      /\ \A i \in 1 .. Len(q) : q[i] \in Honest /\ lo <= At(q[i]) /\ Reach(q[i]) <= hi
      /\ \A i, j \in 1 .. Len(q) : i < j => Past(q[i]) <= At(q[j]) /\ ~q[i].fin
  BY SoundFacts, Zenon
<1>2. ASSUME NEW i \in 1 .. Len(q) PROVE Reach(q[i]) <= high
  <2>1. Reach(q[i]) <= hi /\ Reach(q[i]) \in Int
    BY <1>1, HonestInt, Zenon
  <2> QED BY <2>1
<1> QED BY <1>1, <1>2, Zenon DEF Sound

\* tcp_recved, with or without a window update
LEMMA RecvedKeeps ==
    ASSUME IndInv, NEW n \in 1 .. TCP_WND, NEW fate \in Fates, tcp_recved(n, fate)
    PROVE StepSound
<1> DEFINE R == Len(received)
           wnd == IF rcv_wnd + n > TCP_WND THEN TCP_WND ELSE rcv_wnd + n
           ann == AnnouncedWindow(rcv_nxt, wnd)
           grown == ann = wnd /\ Minus(Plus(rcv_nxt, wnd), rcv_ann_right_edge)
                                 >= TCP_WND_UPDATE_THRESHOLD
           fl == flags \cup {"ACK_NOW"}
<1>1. ~eof
  BY OpenState, Zenon DEF tcp_recved
<1>2. /\ eof = FALSE /\ received \in Seq(1 .. Total) /\ R \in 0 .. Total
      /\ \A i \in 1 .. R : received[i] = i
      /\ rcv_nxt = Plus(ISS, R) /\ state = "ESTABLISHED"
      /\ rcv_wnd \in 0 .. TCP_WND /\ unread \in 0 .. TCP_WND
      /\ rcv_wnd + unread = TCP_WND /\ rcv_ann_wnd \in 0 .. rcv_wnd
      /\ snd_una \in Nat /\ snd_una <= R /\ snd_edge \in Nat
      /\ flags \subseteq {"ACK_DELAY", "ACK_NOW"}
      /\ Sound(ooseq, R + 1, R + rcv_wnd)
      /\ \E edge \in 0 .. Total + TCP_WND : EdgeInv(edge)
  BY <1>1, OpenFacts, Zenon
<1>3. PICK edge \in 0 .. Total + TCP_WND :
          /\ rcv_ann_right_edge = Plus(ISS, edge)
          /\ snd_edge <= edge /\ edge <= R + rcv_ann_wnd
  BY <1>2, Zenon DEF EdgeInv
<1>4. /\ n <= unread /\ unread' = unread - n /\ rcv_wnd' = wnd /\ rcv_ann_wnd' = ann
      /\ \/ tcp_output(fl, rcv_nxt, ann, Len(received), fate)
         \/ UNCHANGED <<flags, rcv_ann_right_edge, snd_una, snd_edge>>
      /\ state' = state /\ rcv_nxt' = rcv_nxt /\ ooseq' = ooseq /\ received' = received
      /\ eof' = eof
  BY Zenon DEF tcp_recved
<1>5. fl \subseteq {"ACK_DELAY", "ACK_NOW"}
  BY <1>2, Zenon
<1> HIDE DEF fl, R
<1>6. /\ wnd = rcv_wnd + n /\ wnd \in 0 .. TCP_WND /\ unread - n \in 0 .. TCP_WND
      /\ wnd + (unread - n) = TCP_WND /\ edge <= R + wnd /\ R \in 0 .. Total + 1
      /\ R + rcv_wnd \in Int /\ R + wnd \in Int /\ R + rcv_wnd <= R + wnd
  <2>1. /\ rcv_wnd \in 0 .. TCP_WND /\ unread \in 0 .. TCP_WND /\ rcv_wnd + unread = TCP_WND
        /\ rcv_ann_wnd \in 0 .. rcv_wnd /\ R \in 0 .. Total /\ n <= unread
        /\ edge <= R + rcv_ann_wnd
    BY <1>2, <1>3, <1>4, Zenon
  <2> QED BY <2>1, Sizes
<1> HIDE DEF wnd
<1>7. ann \in 0 .. wnd /\ edge <= R + ann
  BY <1>2, <1>3, <1>6, AnnouncedFits, Zenon
<1> HIDE DEF ann
<1>8. ann \in Nat /\ R + ann <= Total + TCP_WND
  <2>1. R \in 0 .. Total /\ wnd \in 0 .. TCP_WND /\ ann \in 0 .. wnd
    BY <1>2, <1>6, <1>7, Zenon
  <2> QED BY <2>1, Sizes
<1>9. \/ tcp_output(fl, Plus(ISS, R), ann, R, fate)
      \/ UNCHANGED <<flags, rcv_ann_right_edge, snd_una, snd_edge>>
  BY <1>2, <1>4, Zenon DEF R
<1>10. EdgeMoves(R, ann, edge)
  <2>1. CASE tcp_output(fl, Plus(ISS, R), ann, R, fate)
    BY <1>2, <1>3, <1>5, <1>6, <1>7, <1>8, <2>1, OutputEdge, Zenon
  <2>2. CASE UNCHANGED <<flags, rcv_ann_right_edge, snd_una, snd_edge>>
    <3>1. edge <= edge
      BY <1>3
    <3> QED BY <1>2, <1>3, <1>7, <2>2, <3>1, Zenon DEF EdgeMoves
  <2> QED BY <1>9, <2>1, <2>2, Zenon
<1>11. Sound(ooseq, R + 1, R + wnd)
  BY <1>2, <1>6, SoundHigher, Zenon
<1>12. /\ received' \in Seq(1 .. Total) /\ Len(received') = R
       /\ (\A i \in 1 .. R : received'[i] = i)
       /\ eof' = FALSE /\ state' = "ESTABLISHED" /\ rcv_nxt' = Plus(ISS, R)
       /\ Sound(ooseq', R + 1, R + wnd)
  BY <1>2, <1>4, <1>11, Zenon DEF R
<1>13. IndInv' /\ ~TCP_SEQ_LT(rcv_ann_right_edge', rcv_ann_right_edge)
  BY <1>2, <1>3, <1>4, <1>6, <1>7, <1>10, <1>12, OpenStep, Zenon
<1> QED BY <1>4, <1>13, Zenon DEF StepSound

\* Every step: the inductive invariant is kept, the announced edge does not
\* retreat, and the step is one of the byte stream or leaves the stream alone.
LEMMA StepKeeps ==
    ASSUME IndInv, Next PROVE StepSound
<1>1. PICK fate \in Fates :
          \/ \E pos \in 0 .. Total, len \in 0 .. mss, fin \in BOOLEAN :
                 Input(pos, len, fin, fate)
          \/ \E n \in 1 .. TCP_WND : tcp_recved(n, fate)
          \/ Piggyback(fate)
  BY Zenon DEF Next
<1>2. ASSUME NEW pos \in 0 .. Total, NEW len \in 0 .. mss, NEW fin \in BOOLEAN,
             Input(pos, len, fin, fate)
      PROVE StepSound
  BY <1>2, InputKeeps, Zenon
<1>3. ASSUME NEW n \in 1 .. TCP_WND, tcp_recved(n, fate) PROVE StepSound
  BY <1>3, RecvedKeeps, Zenon
<1>4. CASE Piggyback(fate)
  <2>1. ~eof
    BY <1>4, OpenState, Zenon DEF Piggyback
  <2>2. AckAgain(fate) /\ UNCHANGED ooseq
    BY <1>4, Zenon DEF Piggyback
  <2> QED BY <2>1, <2>2, AgainKeeps, Zenon
<1> QED BY <1>1, <1>2, <1>3, <1>4, Zenon

\* The inductive invariant holds when the connection has been accepted.
LEMMA InitInv ==
    ASSUME Init PROVE IndInv
<1>1. /\ 0 \in 0 .. TCP_WND /\ TCP_WND \in 0 .. TCP_WND /\ 0 \in 0 .. Total + 1
      /\ TCP_WND \in 0 .. Total + 1 + TCP_WND /\ TCP_WND + 0 = TCP_WND /\ 0 + 0 = 0
      /\ TCP_WND \in 0 .. Total + TCP_WND /\ TCP_WND <= 0 + TCP_WND /\ TCP_WND <= TCP_WND
      /\ 0 <= Total /\ 0 <= 0 + 0 /\ 1 .. 0 = {}
  BY Sizes
<1>2. ISS \in SeqNo /\ Plus(ISS, 0) = ISS /\ Plus(ISS, TCP_WND) \in SeqNo
  <2>1. 0 \in -Modulus .. Modulus /\ TCP_WND \in -Modulus .. Modulus
    BY Sizes
  <2>2. Plus(ISS, 0) \in SeqNo /\ Plus(ISS, TCP_WND) \in SeqNo
    BY <2>1, Positions, Zenon
  <2>3. ISS + 0 = ISS /\ ISS \in 0 .. Modulus - 1
    <3>1. ISS \in 0 .. Modulus - 1 /\ ISS \in Int
      BY ReceiveAssumption, Constants, Zenon
    <3> QED BY <3>1
  <2>4. ISS % Modulus = ISS
    BY <2>3, ModLow, Constants, Zenon
  <2>5. Plus(ISS, 0) = ISS
    BY <2>3, <2>4, Zenon DEF Plus
  <2>6. ISS \in SeqNo
    BY <2>3, Zenon DEF SeqNo
  <2> QED BY <2>2, <2>5, <2>6, Zenon
<1>3. <<>> \in Seq(Segments) /\ <<>> \in Seq(1 .. Total) /\ <<>> \in Seq(Honest)
      /\ Len(<<>>) = 0
  OBVIOUS
<1>4. /\ state = "ESTABLISHED" /\ rcv_nxt = ISS /\ rcv_wnd = TCP_WND
      /\ rcv_ann_wnd = TCP_WND /\ rcv_ann_right_edge = Plus(ISS, TCP_WND)
      /\ ooseq = <<>> /\ flags = {} /\ received = <<>> /\ eof = FALSE /\ unread = 0
      /\ snd_una = 0 /\ snd_edge = TCP_WND
  BY Zenon DEF Init, Plus
<1>5. TypeOK
  BY <1>1, <1>2, <1>3, <1>4, Zenon DEF TypeOK
<1>6. ReceivedInv
  BY <1>1, <1>2, <1>3, <1>4, Zenon DEF ReceivedInv, FinSeen
<1>7. EdgeInv(TCP_WND)
  BY <1>1, <1>3, <1>4, Zenon DEF EdgeInv
<1>8. WindowInv
  BY <1>1, <1>3, <1>4, <1>7, Zenon DEF WindowInv, FinSeen
<1>9. QueueInv
  <2>1. Sound(<<>>, Len(received) + 1, Len(received) + rcv_wnd)
    BY <1>1, <1>3, Zenon DEF Sound
  <2> QED BY <1>4, <2>1, Zenon DEF QueueInv
<1> QED BY <1>5, <1>6, <1>8, <1>9, Zenon DEF IndInv

\* A step that changes nothing keeps the inductive invariant.
LEMMA StutterKeeps ==
    ASSUME IndInv, UNCHANGED vars PROVE IndInv'
<1>1. /\ state' = state /\ rcv_nxt' = rcv_nxt /\ rcv_wnd' = rcv_wnd
      /\ rcv_ann_wnd' = rcv_ann_wnd /\ rcv_ann_right_edge' = rcv_ann_right_edge
      /\ ooseq' = ooseq /\ flags' = flags /\ received' = received /\ eof' = eof
      /\ unread' = unread /\ snd_una' = snd_una /\ snd_edge' = snd_edge
  BY Zenon DEF vars, pcbVars
<1>2. TypeOK' /\ ReceivedInv'
  BY <1>1, Zenon DEF IndInv, TypeOK, ReceivedInv, FinSeen
<1>3. WindowInv'
  BY <1>1, Zenon DEF IndInv, WindowInv, EdgeInv, FinSeen
<1>4. QueueInv'
  BY <1>1, Zenon DEF IndInv, QueueInv
<1> QED BY <1>2, <1>3, <1>4, Zenon DEF IndInv

\* What the walk over the queue relies on follows from the inductive invariant.
LEMMA InvQueue ==
    ASSUME IndInv PROVE QueueSound
<1> DEFINE R == Len(received)
<1>1. CASE eof
  <2>1. ooseq = <<>>
    BY <1>1, Zenon DEF IndInv, ReceivedInv
  <2>2. Len(ooseq) = 0 /\ 1 .. Len(ooseq) = {} /\ 1 .. Len(ooseq) - 1 = {}
    BY <2>1
  <2> QED BY <2>1, <2>2, Zenon DEF QueueSound
<1>2. CASE ~eof
  <2>1. /\ R \in 0 .. Total /\ rcv_nxt = Plus(ISS, R) /\ rcv_wnd \in 0 .. TCP_WND
        /\ Sound(ooseq, R + 1, R + rcv_wnd)
    BY <1>2, OpenFacts, Zenon
  <2>2. /\ \A i \in 1 .. Len(ooseq) :
              ooseq[i] \in Honest /\ R + 1 <= At(ooseq[i]) /\ Reach(ooseq[i]) <= R + rcv_wnd
        /\ \A i, j \in 1 .. Len(ooseq) :
              i < j => Past(ooseq[i]) <= At(ooseq[j]) /\ ~ooseq[i].fin
        /\ Len(ooseq) \in Nat
    BY <2>1, SoundFacts, SeqLen, Zenon
  <2> HIDE DEF R
  <2>3. ASSUME NEW i \in 1 .. Len(ooseq)
        PROVE LET seg == ooseq[i]
                  pos == R + Minus(seg.seqno, rcv_nxt)
              IN  /\ TCP_SEQ_LT(rcv_nxt, seg.seqno)
                  /\ Minus(seg.seqno, rcv_nxt) + TCP_TCPLEN(seg) <= rcv_wnd
                  /\ seg.p = [j \in 1 .. Len(seg.p) |-> pos + j]
                  /\ seg.fin => i = Len(ooseq) /\ pos + Len(seg.p) = Total
    <3> DEFINE seg == ooseq[i]
               a == At(seg)
               n == Len(seg.p)
               t == TCP_TCPLEN(seg)
               d == Minus(seg.seqno, rcv_nxt)
    <3>1. seg \in Honest /\ R + 1 <= a /\ Reach(seg) <= R + rcv_wnd
      BY <2>2, Zenon
    <3>2. /\ a \in 0 .. Total /\ seg.seqno = Plus(ISS, a) /\ Past(seg) = a + n
          /\ (seg.fin => Past(seg) = Total) /\ n \in Nat /\ Reach(seg) = a + t
          /\ Reach(seg) \in Int /\ seg = Sent(a, n, seg.fin)
      BY <3>1, HonestFacts, HonestInt, Zenon DEF Reach
    <3>3. seg.p = [j \in 1 .. n |-> a + j]
      <4> DEFINE f == seg.fin
      <4>1. seg = Sent(a, n, f)
        BY <3>2, Zenon
      <4> HIDE DEF a, n, f
      <4>2. Sent(a, n, f).p = [j \in 1 .. n |-> a + j]
        BY SMT DEF Sent
      <4> QED BY <4>1, <4>2
    <3>4. t \in Int
      <4>1. t = n + (IF seg.fin THEN 1 ELSE 0)
        BY Zenon DEF TCP_TCPLEN
      <4> HIDE DEF t, n
      <4> QED BY <3>2, <4>1
    <3>5. /\ a \in 0 .. Total + TCP_WND + 1 /\ R \in 0 .. Total + TCP_WND + 1
          /\ R < a /\ R <= a
      <4> HIDE DEF a
      <4> QED BY SMTT(30), <2>1, <3>1, <3>2, Sizes
    <3>6. TCP_SEQ_LT(rcv_nxt, seg.seqno) /\ d = a - R
      <4> HIDE DEF a
      <4>1. /\ TCP_SEQ_LT(Plus(ISS, R), Plus(ISS, a)) <=> R < a
            /\ R <= a => Minus(Plus(ISS, a), Plus(ISS, R)) = a - R
        BY <3>5, HonestOrder, Zenon
      <4> QED BY <2>1, <3>2, <3>5, <4>1, Zenon
    <3>7. d + t <= rcv_wnd /\ R + d = a
      <4> HIDE DEF a, d, t
      <4> QED BY SMTT(30), <2>1, <3>1, <3>2, <3>4, <3>6
    <3>8. seg.fin => i = Len(ooseq)
      <4>1. Len(ooseq) \in 1 .. Len(ooseq) /\ (i # Len(ooseq) => i < Len(ooseq))
        BY <2>2
      <4> QED BY <2>2, <4>1, Zenon
    <3>9. seg.fin => (R + d) + n = Total
      BY <3>2, <3>7, Zenon
    <3>10. seg.p = [j \in 1 .. n |-> (R + d) + j]
      <4> HIDE DEF a, d, n
      <4> QED BY <3>3, <3>7, Zenon
    <3> QED BY <3>6, <3>7, <3>8, <3>9, <3>10, Zenon
  <2>4. ASSUME NEW i \in 1 .. Len(ooseq) - 1
        PROVE TCP_SEQ_LEQ(End(ooseq[i]), ooseq[i + 1].seqno)
    <3> DEFINE b == Past(ooseq[i])
               a == At(ooseq[i + 1])
    <3>1. i \in 1 .. Len(ooseq) /\ i + 1 \in 1 .. Len(ooseq) /\ i < i + 1
      BY <2>2
    <3>2. ooseq[i] \in Honest /\ ooseq[i + 1] \in Honest /\ b <= a
      BY <2>2, <3>1, Zenon
    <3>3. /\ b \in 0 .. Total /\ a \in 0 .. Total
          /\ End(ooseq[i]) = Plus(ISS, b) /\ ooseq[i + 1].seqno = Plus(ISS, a)
      BY <3>2, HonestFacts, Zenon
    <3> HIDE DEF a, b
    <3>4. b \in 0 .. Total + TCP_WND + 1 /\ a \in 0 .. Total + TCP_WND + 1
      BY SMTT(30), <3>3, Sizes
    <3>5. TCP_SEQ_LEQ(Plus(ISS, b), Plus(ISS, a)) <=> b <= a
      BY <3>4, HonestOrder, Zenon
    <3> QED BY <3>2, <3>3, <3>5, Zenon
  <2>5. eof => ooseq = <<>>
    BY <1>2, Zenon
  <2> QED BY <2>3, <2>4, <2>5, Zenon DEF QueueSound, R
<1> QED BY <1>1, <1>2, Zenon

\* That no more is promised than is free follows from the inductive invariant.
LEMMA InvWindow ==
    ASSUME IndInv PROVE WindowHonest
<1>1. rcv_wnd + unread = TCP_WND
  BY Zenon DEF IndInv, WindowInv
<1>2. ASSUME ~eof
      PROVE snd_edge <= Len(received) + rcv_wnd /\ rcv_ann_wnd <= rcv_wnd
  <2> DEFINE R == Len(received)
  <2>1. /\ R \in 0 .. Total /\ rcv_wnd \in 0 .. TCP_WND /\ rcv_ann_wnd \in 0 .. rcv_wnd
        /\ snd_edge \in Nat /\ \E edge \in 0 .. Total + TCP_WND : EdgeInv(edge)
    BY <1>2, OpenFacts, Zenon
  <2>2. PICK edge \in 0 .. Total + TCP_WND : snd_edge <= edge /\ edge <= R + rcv_ann_wnd
    BY <2>1, Zenon DEF EdgeInv
  <2> HIDE DEF R
  <2>3. snd_edge <= R + rcv_wnd /\ rcv_ann_wnd <= rcv_wnd
    BY <2>1, <2>2
  <2> QED BY <2>3, Zenon DEF R
<1> QED BY <1>1, <1>2, Zenon DEF WindowHonest

-----------------------------------------------------------------------------
(* The theorems *)

\* The inductive invariant of the receiver holds in every state.
THEOREM ReceiverInvariant == Spec => []IndInv
<1>1. Init => IndInv
  BY InitInv
<1>2. IndInv /\ [Next]_vars => IndInv'
  BY StepKeeps, StutterKeeps, Zenon DEF StepSound
<1> QED BY <1>1, <1>2, PTL DEF Spec

\* tcp_receive's out-of-sequence queue is always sorted, free of overlap and
\* inside the window, and holds the bytes of the stream its numbers say.
THEOREM QueueStaysSound == Spec => []QueueSound
<1>1. IndInv => QueueSound
  BY InvQueue
<1> QED BY <1>1, ReceiverInvariant, PTL

\* rcv_wnd and what the session holds always make up TCP_WND, and the sender is
\* never promised more than is free.
THEOREM WindowStaysHonest == Spec => []WindowHonest
<1>1. IndInv => WindowHonest
  BY InvWindow
<1> QED BY <1>1, ReceiverInvariant, PTL

\* No step moves the right edge of the announced window back.
THEOREM EdgeStands == Spec => EdgeNeverRetreats
<1>1. IndInv /\ [Next]_vars
          => [~TCP_SEQ_LT(rcv_ann_right_edge', rcv_ann_right_edge)]_vars
  BY StepKeeps, Zenon DEF StepSound
<1> QED BY <1>1, ReceiverInvariant, PTL DEF Spec, EdgeNeverRetreats

\* The receiver implements ByteStream: whatever arrives in whatever order,
\* tcp_recv_func is given the stream in order, each byte once, and then its end.
THEOREM ReceiverRefines == Spec => ReceivesStream
<1>1. Init => Stream!Init
  BY Zenon DEF Init, Stream!Init
<1>2. IndInv /\ [Next]_vars => [Stream!Next]_<<received, eof>>
  <2>1. ASSUME IndInv, Next PROVE [Stream!Next]_<<received, eof>>
    BY <2>1, StepKeeps, Zenon DEF StepSound
  <2>2. UNCHANGED vars => UNCHANGED <<received, eof>>
    BY Zenon DEF vars
  <2> QED BY <2>1, <2>2, Zenon
<1> QED BY <1>1, <1>2, ReceiverInvariant, PTL DEF Spec, ReceivesStream, Stream!Spec

=============================================================================
