---------------------------- MODULE Socks5Proofs ----------------------------
(***************************************************************************)
(* Proofs about Socks5Handshake for every target and any number of bytes   *)
(* that follow the server's grant: the inductive invariant and the two     *)
(* safety properties.                                                      *)
(***************************************************************************)
EXTENDS Socks5Handshake, TLAPS

-----------------------------------------------------------------------------
(* The inductive invariant *)

\* What the method reply is, and what may be left of it after one read.
Methods == {<<5, 0>>, <<5, NO_ACCEPTABLE_METHODS>>}
Lefts == {<<>>, <<0>>, <<NO_ACCEPTABLE_METHODS>>}

\* The bytes s are the request; they name the target if the session was in the map
\* when it was built.
IsRequest(s, named) ==
    /\ Len(s) = 10 /\ s[1] = 5 /\ s[2] = 1 /\ s[4] = 1
    /\ named => /\ s[5] = Addr[1] /\ s[6] = Addr[2] /\ s[7] = Addr[3] /\ s[8] = Addr[4]
                /\ s[9] = High(Port) /\ s[10] = Low(Port)

\* All that the server sends after the first read: the rest of the method reply,
\* the reply and n bytes of the target.
Wire(m, r, n) == (m \o r) \o Payload(n)

\* d is what is left of w after its first k bytes.
Rest(d, w, k) ==
    /\ k <= Len(w) /\ Len(d) = Len(w) - k
    /\ \A i \in 1 .. Len(d) : d[i] = w[k + i]

\* The two sequences have the same first k elements.
SameStart(a, b, k) ==
    \A i \in 1 .. k : a[i] = b[i]

\* The first n elements of d are the ones of w that come after its k first.
After(d, w, k, n) ==
    \A i \in 1 .. n : d[i] = w[k + i]

\* The server replies once, and the target's bytes follow the reply.
ServerInv ==
    /\ server # "relay" => reply = NoReply
    /\ reply = NoReply => sent = 0

\* What is on its way to the server is what it waits for.
UpInv ==
    \/ up = <<>>
    \/ server = "method" /\ up = DEFAULT_METHOD_REQUEST
    \/ server = "request" /\ IsRequest(up, mapped)

\* Before the method request is written.
Silent == server = "method" /\ up = <<>> /\ down = <<>>

\* After it, and before any of the method reply is read.
Greeted ==
    \/ server = "method" /\ up = DEFAULT_METHOD_REQUEST /\ down = <<>>
    \/ server = "request" /\ up = <<>> /\ down \in Methods

\* What each operation of the coroutine finds in the buffer and on the wire.
AtMwrite == IF op = "ok" THEN Greeted ELSE Silent
AtMread ==
    IF op = "ok"
    THEN server = "request" /\ up = <<>> /\ remote_recv_buff[1] = 5 /\ down \in Lefts
    ELSE Greeted /\ got = 0
AtRwrite ==
    IF op = "ok"
    THEN server # "method" /\ \E m \in Lefts : Rest(down, Wire(m, reply, sent), 0)
    ELSE /\ server = "request" /\ up = <<>> /\ down \in Lefts
         /\ IsRequest(remote_recv_buff, mapped)
AtRread ==
    /\ server # "method"
    /\ \E m \in Lefts :
          /\ Rest(down, Wire(m, reply, sent), got)
          /\ \A i \in 1 .. got : remote_recv_buff[i] = Wire(m, reply, sent)[i]
AtRead ==
    /\ reply = Grant
    /\ Rest(down, Payload(sent), Len(relayed))
    /\ \A i \in 1 .. Len(relayed) : relayed[i] = Payload(sent)[i]

PhaseInv ==
    /\ pc = "connect" => Silent
    /\ pc = "mwrite" => AtMwrite
    /\ pc = "mread" => AtMread
    /\ pc = "rwrite" => AtRwrite
    /\ pc = "rread" => AtRread
    /\ pc = "read" => AtRead
    /\ pc \notin {"read", "done"} => relayed = <<>>

IndInv == TypeOK /\ ServerInv /\ UpInv /\ PhaseInv

-----------------------------------------------------------------------------
(* Messages *)

\* A sequence of n elements of S.
SeqOf(s, S, n) == s \in Seq(S) /\ Len(s) = n

\* The elements of a function on 1 .. 4, as a sequence.
LEMMA FourBytes ==
    ASSUME NEW S, NEW f \in [1 .. 4 -> S]
    PROVE  f \in Seq(S) /\ Len(f) = 4 /\ f[1] \in S /\ f[2] \in S /\ f[3] \in S /\ f[4] \in S
<1>1. [i \in 1 .. 4 |-> f[i]] \in Seq(S)
  BY SMT
<1>2. f = [i \in 1 .. 4 |-> f[i]]
  BY Zenon
<1>3. Len(f) = 4 /\ f[1] \in S /\ f[2] \in S /\ f[3] \in S /\ f[4] \in S
  BY SMT
<1> QED BY Zenon, <1>1, <1>2, <1>3

\* So for the buffer.
LEMMA TenBytes ==
    ASSUME NEW S, NEW f \in [1 .. 10 -> S]
    PROVE  f \in Seq(S) /\ Len(f) = 10 /\ \A i \in 1 .. 10 : f[i] \in S
<1>1. [i \in 1 .. 10 |-> f[i]] \in Seq(S)
  BY SMT
<1>2. f = [i \in 1 .. 10 |-> f[i]]
  BY Zenon
<1>3. Len(f) = 10
  BY SMT
<1> QED BY Zenon, <1>1, <1>2, <1>3

\* A sequence is a function on its indices.
LEMMA FunctionOf ==
    ASSUME NEW S, NEW s \in Seq(S)
    PROVE  s \in [1 .. Len(s) -> S]
BY SMT

\* The sequence q has the m elements of s, and then the n elements of t.
Joined(q, s, t, m, n) ==
    /\ \A i \in 1 .. m : q[i] = s[i]
    /\ \A i \in 1 .. n : q[m + i] = t[i]

\* Where a concatenation has its elements.
LEMMA Concat ==
    ASSUME NEW S, NEW s, NEW t, NEW m, NEW n, SeqOf(s, S, m), SeqOf(t, S, n)
    PROVE  SeqOf(s \o t, S, m + n) /\ Joined(s \o t, s, t, m, n)
BY SMTT(30) DEF SeqOf, Joined

\* Two sequences with the same elements are the same.
LEMMA SameSeq ==
    ASSUME NEW S, NEW s \in Seq(S), NEW t \in Seq(S), Len(s) = Len(t),
           \A i \in 1 .. Len(s) : s[i] = t[i]
    PROVE  s = t
BY SMT

\* Concatenation is associative.
LEMMA Regroup ==
    ASSUME NEW S, NEW a \in Seq(S), NEW b \in Seq(S), NEW c \in Seq(S)
    PROVE  a \o (b \o c) = (a \o b) \o c
<1> DEFINE p == b \o c
           q == a \o b
           s == a \o p
           t == q \o c
<1>1. /\ p \in Seq(S) /\ Len(p) = Len(b) + Len(c)
      /\ \A i \in 1 .. Len(b) : p[i] = b[i]
      /\ \A i \in Len(b) + 1 .. Len(p) : p[i] = c[i - Len(b)]
  BY SMT
<1>2. /\ q \in Seq(S) /\ Len(q) = Len(a) + Len(b)
      /\ \A i \in 1 .. Len(a) : q[i] = a[i]
      /\ \A i \in Len(a) + 1 .. Len(q) : q[i] = b[i - Len(a)]
  BY SMT
<1> HIDE DEF p, q
<1>0. p \in Seq(S) /\ q \in Seq(S)
  BY Zenon, <1>1, <1>2
<1>3. /\ s \in Seq(S) /\ Len(s) = Len(a) + Len(p)
      /\ \A i \in 1 .. Len(a) : s[i] = a[i]
      /\ \A i \in Len(a) + 1 .. Len(s) : s[i] = p[i - Len(a)]
  BY <1>0, SMT
<1>4. /\ t \in Seq(S) /\ Len(t) = Len(q) + Len(c)
      /\ \A i \in 1 .. Len(q) : t[i] = q[i]
      /\ \A i \in Len(q) + 1 .. Len(t) : t[i] = c[i - Len(q)]
  BY <1>0, SMT
<1> HIDE DEF s, t
<1>5. Len(a) \in Nat /\ Len(b) \in Nat /\ Len(c) \in Nat
  BY SMT
<1>6. ASSUME NEW i \in 1 .. Len(s) PROVE s[i] = t[i]
  <2>1. CASE i <= Len(a)
    <3>1. i \in 1 .. Len(a) /\ i \in 1 .. Len(q)
      BY <1>2, <1>5, <2>1, SMT
    <3> QED BY Zenon, <1>2, <1>3, <1>4, <3>1
  <2>2. CASE Len(a) < i /\ i <= Len(q)
    <3>1. i \in Len(a) + 1 .. Len(s) /\ i \in Len(a) + 1 .. Len(q) /\ i \in 1 .. Len(q)
      BY <1>2, <1>5, <2>2, SMT
    <3>2. i - Len(a) \in 1 .. Len(b)
      BY <1>2, <1>5, <2>2, SMT
    <3> QED BY Zenon, <1>1, <1>2, <1>3, <1>4, <3>1, <3>2
  <2>3. CASE Len(q) < i
    <3>1. i \in Len(a) + 1 .. Len(s) /\ i \in Len(q) + 1 .. Len(t)
      BY <1>1, <1>2, <1>3, <1>4, <1>5, <2>3, SMT
    <3>2. i - Len(a) \in Len(b) + 1 .. Len(p) /\ (i - Len(a)) - Len(b) = i - Len(q)
      BY <1>1, <1>2, <1>3, <1>5, <2>3, SMT
    <3>3. s[i] = p[i - Len(a)] /\ t[i] = c[i - Len(q)]
      BY Zenon, <1>3, <1>4, <3>1
    <3>4. p[i - Len(a)] = c[(i - Len(a)) - Len(b)]
      BY Zenon, <1>1, <3>2
    <3> QED BY Zenon, <3>2, <3>3, <3>4
  <2>4. i <= Len(a) \/ (Len(a) < i /\ i <= Len(q)) \/ Len(q) < i
    BY <1>2, <1>5, SMT
  <2> QED BY Zenon, <2>1, <2>2, <2>3, <2>4
<1>7. Len(s) = Len(t)
  BY <1>1, <1>2, <1>3, <1>4, <1>5, SMT
<1>8. s = t
  BY Zenon, <1>3, <1>4, <1>6, <1>7, SameSeq
<1> QED BY Zenon, <1>8 DEF s, t, p, q

\* And a sequence of ten bytes is a content of the buffer.
LEMMA BufferOf ==
    ASSUME NEW S, NEW s \in Seq(S), Len(s) = 10
    PROVE  s \in [1 .. 10 -> S]
<1>1. s \in [1 .. Len(s) -> S]
  BY Zenon, FunctionOf
<1> QED BY Zenon, <1>1

\* The bytes of the messages are bytes.
LEMMA ByteValues ==
    /\ Byte \subseteq Bytes /\ Uninitialised \in Bytes
    /\ \A n \in 1 .. MaxPayload : Uninitialised + n \in Bytes
    /\ Bytes \subseteq Nat
    /\ 0 \in Byte /\ 1 \in Byte /\ 4 \in Byte /\ 5 \in Byte /\ 9 \in Byte
    /\ NO_ACCEPTABLE_METHODS \in Byte /\ NO_ACCEPTABLE_METHODS # 5
<1>1. Byte \subseteq Bytes
  BY PayloadAssumption, SMT DEF Byte, Bytes, Uninitialised
<1>2. Uninitialised \in Bytes
  BY PayloadAssumption, SMT DEF Bytes, Uninitialised
<1>3. \A n \in 1 .. MaxPayload : Uninitialised + n \in Bytes
  BY PayloadAssumption, SMT DEF Bytes, Uninitialised
<1>4. Bytes \subseteq Nat
  BY PayloadAssumption, SMT DEF Bytes, Uninitialised
<1>5. /\ 0 \in Byte /\ 1 \in Byte /\ 4 \in Byte /\ 5 \in Byte /\ 9 \in Byte
      /\ NO_ACCEPTABLE_METHODS \in Byte /\ NO_ACCEPTABLE_METHODS # 5
  BY SMT DEF Byte, NO_ACCEPTABLE_METHODS
<1> QED BY Zenon, <1>1, <1>2, <1>3, <1>4, <1>5

\* The two bytes of the port.
LEMMA PortBytes ==
    /\ High(Port) \in Byte /\ Low(Port) \in Byte
    /\ High(Port) * 256 + Low(Port) = Port
<1>1. Port \in Nat /\ Port < 256 * 256
  BY PortAssumption
<1>2. High(Port) \in Nat /\ High(Port) <= 255
  BY <1>1, SMT DEF High
<1>3. Low(Port) \in Byte
  BY <1>1, SMT DEF Low, Byte
<1>4. High(Port) * 256 + Low(Port) = Port
  BY <1>1, SMT DEF High, Low
<1>5. High(Port) \in Byte
  BY <1>2, SMT DEF Byte
<1> QED BY <1>3, <1>4, <1>5

\* What ConstructRequest makes of the buffer, byte by byte.
LEMMA RequestBytes ==
    ASSUME NEW b \in [1 .. 10 -> Bytes]
    PROVE  /\ ConstructRequest(b) \in [1 .. 10 -> Bytes]
           /\ ConstructRequest(b)[1] = b[1] /\ ConstructRequest(b)[2] = 1
           /\ ConstructRequest(b)[4] = 1
           /\ b[1] = 5 => IsRequest(ConstructRequest(b), TRUE)
<1> DEFINE h == <<b[1], 1, b[3], 1>>
           p == <<High(Port), Low(Port)>>
<1>1. b[1] \in Bytes /\ b[3] \in Bytes /\ 1 \in Bytes
  <2>1. b[1] \in Bytes /\ b[3] \in Bytes
    BY SMT
  <2> QED BY Zenon, <2>1, ByteValues
<1>2. /\ h \in Seq(Bytes) /\ Len(h) = 4
      /\ h[1] = b[1] /\ h[2] = 1 /\ h[3] = b[3] /\ h[4] = 1
  BY <1>1, SMT
<1>3. High(Port) \in Bytes /\ Low(Port) \in Bytes
  BY Zenon, PortBytes, ByteValues
<1>4. /\ p \in Seq(Bytes) /\ Len(p) = 2
      /\ p[1] = High(Port) /\ p[2] = Low(Port)
  BY <1>3, SMT
<1>5. Addr \in Seq(Bytes) /\ Len(Addr) = 4
  <2>1. Addr \in [1 .. 4 -> Bytes]
    BY AddrAssumption, ByteValues, Zenon
  <2> QED BY Zenon, <2>1, FourBytes
<1> HIDE DEF h, p
<1>6. /\ (h \o Addr) \o p \in Seq(Bytes) /\ Len((h \o Addr) \o p) = 10
      /\ ((h \o Addr) \o p)[1] = h[1] /\ ((h \o Addr) \o p)[2] = h[2]
      /\ ((h \o Addr) \o p)[3] = h[3] /\ ((h \o Addr) \o p)[4] = h[4]
      /\ ((h \o Addr) \o p)[5] = Addr[1] /\ ((h \o Addr) \o p)[6] = Addr[2]
      /\ ((h \o Addr) \o p)[7] = Addr[3] /\ ((h \o Addr) \o p)[8] = Addr[4]
      /\ ((h \o Addr) \o p)[9] = p[1] /\ ((h \o Addr) \o p)[10] = p[2]
  <2> DEFINE four == 4
             two == 2
             c == h \o Addr
             q == c \o p
  <2>1. SeqOf(h, Bytes, four) /\ SeqOf(Addr, Bytes, four) /\ SeqOf(p, Bytes, two)
    BY Zenon, <1>2, <1>4, <1>5 DEF SeqOf
  <2>2. /\ 1 \in 1 .. four /\ 2 \in 1 .. four /\ 3 \in 1 .. four /\ 4 \in 1 .. four
        /\ four + 1 = 5 /\ four + 2 = 6 /\ four + 3 = 7 /\ four + 4 = 8
        /\ 1 \in 1 .. two /\ 2 \in 1 .. two
        /\ (four + four) + 1 = 9 /\ (four + four) + 2 = 10 /\ (four + four) + two = 10
    BY SMT
  <2>3. /\ 1 \in 1 .. four + four /\ 2 \in 1 .. four + four /\ 3 \in 1 .. four + four
        /\ 4 \in 1 .. four + four /\ 5 \in 1 .. four + four /\ 6 \in 1 .. four + four
        /\ 7 \in 1 .. four + four /\ 8 \in 1 .. four + four
    BY SMT
  <2> HIDE DEF four, two
  <2>4. SeqOf(c, Bytes, four + four) /\ Joined(c, h, Addr, four, four)
    BY Zenon, <2>1, Concat
  <2> HIDE DEF c
  <2>5. SeqOf(q, Bytes, (four + four) + two) /\ Joined(q, c, p, four + four, two)
    BY Zenon, <2>1, <2>4, Concat
  <2> HIDE DEF q
  <2>6. /\ c[1] = h[1] /\ c[2] = h[2] /\ c[3] = h[3] /\ c[4] = h[4]
        /\ c[5] = Addr[1] /\ c[6] = Addr[2] /\ c[7] = Addr[3] /\ c[8] = Addr[4]
    BY ZenonT(30), <2>2, <2>4 DEF Joined
  <2>7. q \in Seq(Bytes) /\ Len(q) = 10 /\ q[9] = p[1] /\ q[10] = p[2]
    BY Zenon, <2>2, <2>5 DEF SeqOf, Joined
  <2>8. /\ q[1] = c[1] /\ q[2] = c[2] /\ q[3] = c[3] /\ q[4] = c[4]
        /\ q[5] = c[5] /\ q[6] = c[6] /\ q[7] = c[7] /\ q[8] = c[8]
    BY Zenon, <2>3, <2>5 DEF Joined
  <2> QED BY Zenon, <2>6, <2>7, <2>8 DEF c, q
<1>7. ConstructRequest(b) = (h \o Addr) \o p
  BY Zenon DEF ConstructRequest, h, p
<1>8. ConstructRequest(b) \in [1 .. 10 -> Bytes]
  BY Zenon, <1>6, <1>7, BufferOf
<1>9. b[1] = 5 => IsRequest(ConstructRequest(b), TRUE)
  BY Zenon, <1>2, <1>4, <1>6, <1>7 DEF IsRequest
<1> QED BY Zenon, <1>2, <1>6, <1>7, <1>8, <1>9

\* What the server's replies have in common, and what only the grant has.
LEMMA ReplyBytes ==
    ASSUME NEW r \in {Grant, Refusal, Grant6}
    PROVE  /\ r \in Seq(Bytes) /\ Len(r) >= 10 /\ Len(r) \in Nat /\ r # NoReply
           /\ r[1] = 5
           /\ r[2] = 0 /\ r[4] = 1 => r = Grant
           /\ Len(Grant) = 10
<1>1. 0 \in Bytes /\ 1 \in Bytes /\ 4 \in Bytes /\ 5 \in Bytes /\ 9 \in Bytes
  BY Zenon, ByteValues
<1>2. Len(Grant) = 10 /\ Grant \in Seq(Bytes) /\ Grant[1] = 5
  BY <1>1 DEF Grant
<1>3. Len(Refusal) = 10 /\ Refusal \in Seq(Bytes) /\ Refusal[1] = 5 /\ Refusal[2] = 1
  BY <1>1 DEF Refusal
<1>4. Len(Grant6) = 22 /\ Grant6 \in Seq(Bytes) /\ Grant6[1] = 5 /\ Grant6[4] = 4
  <2> DEFINE a == <<5, 0, 0, 4>>
             z == [i \in 1 .. 18 |-> 9]
             four == 4
             rest == 18
  <2>1. a \in Seq(Bytes) /\ Len(a) = 4 /\ a[1] = 5 /\ a[4] = 4
    BY <1>1, SMT
  <2>2. z \in Seq(Bytes) /\ Len(z) = 18
    BY <1>1, SMT
  <2>3. SeqOf(a, Bytes, four) /\ SeqOf(z, Bytes, rest)
    BY Zenon, <2>1, <2>2 DEF SeqOf
  <2>4. four + rest = 22 /\ 1 \in 1 .. four /\ 4 \in 1 .. four
    BY SMT
  <2> HIDE DEF a, z, four, rest
  <2>5. SeqOf(a \o z, Bytes, four + rest) /\ Joined(a \o z, a, z, four, rest)
    BY Zenon, <2>3, Concat
  <2>6. Grant6 = a \o z
    BY Zenon DEF Grant6, a, z
  <2> QED BY Zenon, <2>1, <2>4, <2>5, <2>6 DEF SeqOf, Joined
<1>5. Len(NoReply) = 0
  BY DEF NoReply
<1>6. /\ r \in Seq(Bytes) /\ r[1] = 5 /\ (Len(r) = 10 \/ Len(r) = 22)
      /\ r = Refusal => r[2] = 1
      /\ r = Grant6 => r[4] = 4
  BY Zenon, <1>2, <1>3, <1>4
<1>7. Len(r) >= 10 /\ Len(r) \in Nat /\ r # NoReply
  <2>1. \A l : l = 10 \/ l = 22 => l >= 10 /\ l \in Nat /\ l # 0
    BY SMT
  <2> QED BY Zenon, <1>5, <1>6, <2>1
<1>8. 1 # 0 /\ 4 # 1
  BY SMT
<1>9. r[2] = 0 /\ r[4] = 1 => r = Grant
  BY Zenon, <1>6, <1>8
<1> QED BY Zenon, <1>2, <1>6, <1>7, <1>9

\* The bytes of the target that have been sent.
LEMMA PayloadBytes ==
    ASSUME NEW n \in 0 .. MaxPayload
    PROVE  /\ Payload(n) \in Seq(Bytes) /\ Len(Payload(n)) = n /\ n \in Nat
           /\ \A i \in 1 .. n : Payload(n)[i] = Uninitialised + i
<1>1. n \in Nat /\ \A i \in 1 .. n : i \in 1 .. MaxPayload
  BY PayloadAssumption, SMT
<1>2. \A i \in 1 .. n : Uninitialised + i \in Bytes
  BY Zenon, <1>1, ByteValues
<1> QED BY <1>1, <1>2, SMT DEF Payload

-----------------------------------------------------------------------------
(* What is on its way to the client *)

\* A read of n bytes takes the next n of the wire.
LEMMA RestRead ==
    ASSUME NEW S, NEW d \in Seq(S), NEW w \in Seq(S), NEW k \in Nat, Rest(d, w, k),
           NEW n \in 1 .. Len(d)
    PROVE  /\ Rest(SubSeq(d, n + 1, Len(d)), w, k + n)
           /\ After(d, w, k, n)
<1> DEFINE e == SubSeq(d, n + 1, Len(d))
<1>1. e \in Seq(S) /\ Len(e) = Len(d) - n
  BY SMT
<1>2. \A i \in 1 .. Len(e) : e[i] = d[n + i]
  BY <1>1, SMT
<1> HIDE DEF e
<1>3. k <= Len(w) /\ Len(d) = Len(w) - k /\ \A i \in 1 .. Len(d) : d[i] = w[k + i]
  BY DEF Rest
<1>4. k + n <= Len(w) /\ Len(e) = Len(w) - (k + n)
  BY <1>1, <1>3, SMT
<1>5. ASSUME NEW i \in 1 .. Len(e) PROVE e[i] = w[(k + n) + i]
  <2>1. n + i \in 1 .. Len(d) /\ k + (n + i) = (k + n) + i
    BY <1>1, SMT
  <2> QED BY Zenon, <1>2, <1>3, <2>1
<1>6. Rest(e, w, k + n)
  BY Zenon, <1>4, <1>5 DEF Rest
<1>7. \A i \in 1 .. n : i \in 1 .. Len(d)
  BY SMT
<1> QED BY Zenon, <1>3, <1>6, <1>7 DEF e, After

\* What the server sends comes after what is there.
LEMMA RestSend ==
    ASSUME NEW S, NEW d \in Seq(S), NEW w \in Seq(S), NEW k \in Nat, Rest(d, w, k),
           NEW e \in Seq(S)
    PROVE  /\ Rest(d \o e, w \o e, k)
           /\ SameStart(w \o e, w, k)
<1> DEFINE a == d \o e
           b == w \o e
<1>1. /\ Len(a) = Len(d) + Len(e) /\ Len(b) = Len(w) + Len(e)
      /\ \A i \in 1 .. Len(d) : a[i] = d[i]
      /\ \A i \in Len(d) + 1 .. Len(a) : a[i] = e[i - Len(d)]
      /\ \A i \in 1 .. Len(w) : b[i] = w[i]
      /\ \A i \in Len(w) + 1 .. Len(b) : b[i] = e[i - Len(w)]
  BY SMT
<1> HIDE DEF a, b
<1>2. k <= Len(w) /\ Len(d) = Len(w) - k /\ \A i \in 1 .. Len(d) : d[i] = w[k + i]
  BY DEF Rest
<1>3. Len(d) \in Nat /\ Len(w) \in Nat /\ Len(e) \in Nat
  BY SMT
<1>4. k <= Len(b) /\ Len(a) = Len(b) - k
  BY <1>1, <1>2, <1>3, SMT
<1>5. ASSUME NEW i \in 1 .. Len(a) PROVE a[i] = b[k + i]
  <2>1. CASE i <= Len(d)
    <3>1. i \in 1 .. Len(d) /\ k + i \in 1 .. Len(w)
      BY <1>2, <1>3, <2>1, SMT
    <3> QED BY Zenon, <1>1, <1>2, <3>1
  <2>2. CASE ~(i <= Len(d))
    <3>1. i \in Len(d) + 1 .. Len(a) /\ k + i \in Len(w) + 1 .. Len(b)
      BY <1>1, <1>2, <1>3, <2>2, SMT
    <3>2. (k + i) - Len(w) = i - Len(d)
      BY <1>2, <1>3, SMT
    <3>3. a[i] = e[i - Len(d)] /\ b[k + i] = e[(k + i) - Len(w)]
      BY Zenon, <1>1, <3>1
    <3> QED BY Zenon, <3>2, <3>3
  <2> QED BY <2>1, <2>2
<1>6. Rest(a, b, k)
  BY Zenon, <1>4, <1>5 DEF Rest
<1>7. \A i \in 1 .. k : i \in 1 .. Len(w)
  BY <1>2, <1>3, SMT
<1>8. SameStart(b, w, k)
  BY Zenon, <1>1, <1>7 DEF SameStart
<1> QED BY Zenon, <1>6, <1>8 DEF a, b

\* All of a sequence is there before any of it is read.
LEMMA RestAll ==
    ASSUME NEW S, NEW d \in Seq(S)
    PROVE  Rest(d, d, 0)
BY SMT DEF Rest

\* What remains of a sequence of which nothing was read is the sequence.
LEMMA RestIs ==
    ASSUME NEW S, NEW d \in Seq(S), NEW w \in Seq(S), Rest(d, w, 0)
    PROVE  d = w
<1>1. Len(d) = Len(w) /\ \A i \in 1 .. Len(d) : d[i] = w[i]
  BY SMT DEF Rest
<1> QED BY <1>1, SMT

\* What follows the first part of a message, once that part was read.
LEMMA RestBehind ==
    ASSUME NEW S, NEW d \in Seq(S), NEW a \in Seq(S), NEW b \in Seq(S),
           Rest(d, a \o b, Len(a))
    PROVE  Rest(d, b, 0)
<1> DEFINE w == a \o b
<1>1. /\ Len(w) = Len(a) + Len(b) /\ Len(a) \in Nat /\ Len(b) \in Nat
      /\ \A i \in 1 .. Len(b) : w[Len(a) + i] = b[i]
  BY SMT
<1>2. Len(d) = Len(w) - Len(a) /\ \A i \in 1 .. Len(d) : d[i] = w[Len(a) + i]
  BY Zenon DEF Rest
<1> HIDE DEF w
<1>3. Len(d) = Len(b) /\ 0 <= Len(b) /\ Len(d) = Len(b) - 0
  BY <1>1, <1>2, SMT
<1>4. \A i \in 1 .. Len(d) : d[i] = b[i]
  BY Zenon, <1>1, <1>2, <1>3
<1>5. \A i \in 1 .. Len(d) : 0 + i = i
  BY SMT
<1> QED BY Zenon, <1>3, <1>4, <1>5 DEF Rest

\* What may be left of the method reply: nothing, or a byte that is not the version.
LEMMA LeftBytes ==
    ASSUME NEW m \in Lefts
    PROVE  /\ m \in Seq(Bytes) /\ Len(m) \in Nat
           /\ m # <<>> => Len(m) = 1 /\ m[1] # 5
<1>1. 0 \in Bytes /\ NO_ACCEPTABLE_METHODS \in Bytes /\ NO_ACCEPTABLE_METHODS # 5
  BY Zenon, ByteValues
<1>2. CASE m = <<>>
  BY <1>2, SMT
<1>3. CASE m = <<0>>
  BY <1>1, <1>3, SMT
<1>4. CASE m = <<NO_ACCEPTABLE_METHODS>>
  <2> DEFINE v == NO_ACCEPTABLE_METHODS
  <2>1. v \in Bytes /\ v # 5
    BY Zenon, <1>1
  <2> HIDE DEF v
  <2>2. <<v>> \in Seq(Bytes) /\ Len(<<v>>) = 1 /\ <<v>>[1] = v
    BY <2>1, SMT
  <2>3. m = <<v>>
    BY Zenon, <1>4 DEF v
  <2>4. 1 \in Nat
    BY SMT
  <2> QED BY Zenon, <2>1, <2>2, <2>3, <2>4
<1> QED BY Zenon, <1>2, <1>3, <1>4 DEF Lefts

\* One more byte of the target.
LEMMA PayloadNext ==
    ASSUME NEW n \in 0 .. MaxPayload, n < MaxPayload
    PROVE  /\ n + 1 \in 0 .. MaxPayload /\ <<Uninitialised + n + 1>> \in Seq(Bytes)
           /\ Payload(n + 1) = Payload(n) \o <<Uninitialised + n + 1>>
<1>1. n \in Nat /\ n + 1 \in 0 .. MaxPayload /\ n + 1 \in 1 .. MaxPayload
  BY PayloadAssumption, SMT
<1> DEFINE u == Uninitialised
           e == u + (n + 1)
<1>2. e \in Bytes /\ u \in Nat
  BY Zenon, <1>1, ByteValues
<1>3. Uninitialised + n + 1 = e
  BY <1>1, SMT DEF Uninitialised
<1>4. /\ Payload(n) \in Seq(Bytes) /\ Len(Payload(n)) = n
      /\ \A i \in 1 .. n : Payload(n)[i] = u + i
  BY Zenon, PayloadBytes
<1>5. /\ Payload(n + 1) \in Seq(Bytes) /\ Len(Payload(n + 1)) = n + 1
      /\ \A i \in 1 .. n + 1 : Payload(n + 1)[i] = u + i
  BY Zenon, <1>1, PayloadBytes
<1> DEFINE a == Payload(n)
           b == Payload(n + 1)
<1>6. /\ a \in Seq(Bytes) /\ Len(a) = n /\ \A i \in 1 .. n : a[i] = u + i
      /\ b \in Seq(Bytes) /\ Len(b) = n + 1 /\ \A i \in 1 .. n + 1 : b[i] = u + i
  BY Zenon, <1>4, <1>5
<1> HIDE DEF a, b, u
<1>7. b[n + 1] = e
  BY <1>1, <1>6, SMT
<1> HIDE DEF e
<1>8. /\ <<e>> \in Seq(Bytes) /\ a \o <<e>> \in Seq(Bytes) /\ Len(a \o <<e>>) = n + 1
      /\ \A i \in 1 .. n : (a \o <<e>>)[i] = a[i]
      /\ (a \o <<e>>)[n + 1] = e
  <2>1. a \in Seq(Bytes) /\ Len(a) = n /\ e \in Bytes
    BY Zenon, <1>2, <1>6 DEF e, u
  <2>2. <<e>> \in Seq(Bytes) /\ a \o <<e>> \in Seq(Bytes)
    BY <2>1, SMT
  <2>3. Len(a \o <<e>>) = Len(a) + 1 /\ (a \o <<e>>)[Len(a) + 1] = e
    BY <2>1, SMT
  <2>4. \A i \in 1 .. Len(a) : (a \o <<e>>)[i] = a[i]
    BY <2>1, SMT
  <2> QED BY Zenon, <2>1, <2>2, <2>3, <2>4
<1>9. \A i \in 1 .. n + 1 : i = n + 1 \/ i \in 1 .. n
  BY <1>1, SMT
<1>10. \A i \in 1 .. n + 1 : b[i] = (a \o <<e>>)[i]
  BY Zenon, <1>6, <1>7, <1>8, <1>9
<1>11. b = a \o <<e>>
  <2>1. b \in Seq(Bytes) /\ Len(b) = n + 1
    BY Zenon, <1>6
  <2>2. Len(b) = Len(a \o <<e>>) /\ \A i \in 1 .. Len(b) : b[i] = (a \o <<e>>)[i]
    BY Zenon, <2>1, <1>8, <1>10
  <2> QED BY Zenon, <1>8, <2>1, <2>2, SameSeq
<1> QED BY Zenon, <1>1, <1>3, <1>8, <1>11 DEF a, b

\* What the server sends is a sequence of bytes; before the reply it is the rest of
\* the method reply; the reply, and each byte of the target, come at its end.
LEMMA WireBytes ==
    ASSUME NEW m \in Lefts, NEW r \in {NoReply, Grant, Refusal, Grant6},
           NEW n \in 0 .. MaxPayload
    PROVE  /\ Wire(m, r, n) \in Seq(Bytes)
           /\ Wire(m, NoReply, 0) = m
           /\ Wire(m, r, 0) = m \o r
           /\ n < MaxPayload =>
                 /\ Wire(m, r, n + 1) = Wire(m, r, n) \o <<Uninitialised + n + 1>>
                 /\ <<Uninitialised + n + 1>> \in Seq(Bytes)
<1>1. m \in Seq(Bytes)
  BY Zenon, LeftBytes
<1>2. r \in Seq(Bytes)
  <2>1. CASE r = NoReply
    BY <2>1, SMT DEF NoReply
  <2>2. CASE r # NoReply
    <3>1. r \in {Grant, Refusal, Grant6}
      BY Zenon, <2>2
    <3> QED BY Zenon, <3>1, ReplyBytes
  <2> QED BY <2>1, <2>2
<1>3. 0 \in 0 .. MaxPayload
  BY PayloadAssumption, SMT
<1>4. Payload(0) \in Seq(Bytes) /\ Len(Payload(0)) = 0 /\ Payload(n) \in Seq(Bytes)
  BY Zenon, <1>3, PayloadBytes
<1>5. Payload(0) = <<>>
  BY <1>4, SMT
<1>6. Wire(m, r, n) \in Seq(Bytes)
  BY <1>1, <1>2, <1>4, SMT DEF Wire
<1>7. m \o <<>> = m /\ (m \o r) \o <<>> = m \o r
  BY <1>1, <1>2, SMT
<1>8. Wire(m, NoReply, 0) = m /\ Wire(m, r, 0) = m \o r
  BY Zenon, <1>5, <1>7 DEF Wire, NoReply
<1>9. ASSUME n < MaxPayload
      PROVE  /\ Wire(m, r, n + 1) = Wire(m, r, n) \o <<Uninitialised + n + 1>>
             /\ <<Uninitialised + n + 1>> \in Seq(Bytes)
  <2> DEFINE e == <<Uninitialised + n + 1>>
  <2>1. e \in Seq(Bytes) /\ Payload(n + 1) = Payload(n) \o e
    BY Zenon, <1>9, PayloadNext
  <2> HIDE DEF e
  <2>2. (m \o r) \o (Payload(n) \o e) = ((m \o r) \o Payload(n)) \o e
    <3> DEFINE a == m \o r
               b == Payload(n)
    <3>1. a \in Seq(Bytes) /\ b \in Seq(Bytes)
      BY <1>1, <1>2, <1>4, SMT
    <3> HIDE DEF a, b
    <3>2. a \o (b \o e) = (a \o b) \o e
      BY <2>1, <3>1, Regroup, SMTT(60)
    <3> QED BY Zenon, <3>2 DEF a, b
  <2> QED BY Zenon, <2>1, <2>2 DEF Wire, e
<1> QED BY Zenon, <1>6, <1>8, <1>9

\* What one read leaves of the method reply.
LEMMA MethodRead ==
    ASSUME NEW d \in Methods, NEW n \in 1 .. Len(d)
    PROVE  d[1] = 5 /\ SubSeq(d, n + 1, Len(d)) \in Lefts
<1>1. ASSUME NEW v \in Bytes, d = <<5, v>>
      PROVE  d[1] = 5 /\ SubSeq(d, n + 1, Len(d)) \in {<<>>, <<v>>}
  <2> DEFINE e == SubSeq(d, n + 1, Len(d))
  <2>1. 5 \in Bytes
    BY Zenon, ByteValues
  <2>2. d \in Seq(Bytes) /\ d[1] = 5 /\ d[2] = v /\ Len(d) = 2
    BY <1>1, <2>1, SMT
  <2>3. e \in Seq(Bytes) /\ Len(e) = Len(d) - n /\ \A i \in 1 .. Len(e) : e[i] = d[n + i]
    <3>1. d \in Seq(Bytes)
      BY <2>2
    <3>2. e \in Seq(Bytes) /\ Len(e) = Len(d) - n
      BY <3>1, SMT
    <3> QED BY <3>1, <3>2, SMT
  <2>4. n = 1 \/ n = 2
    BY <2>2, SMT
  <2> HIDE DEF e
  <2>5. CASE n = 1
    <3>1. Len(e) = 1 /\ 1 \in 1 .. 1 /\ 1 + 1 = 2
      BY <2>2, <2>3, <2>5, SMT
    <3>2. e[1] = v
      BY Zenon, <2>2, <2>3, <2>5, <3>1
    <3>3. <<v>> \in Seq(Bytes) /\ Len(<<v>>) = 1 /\ <<v>>[1] = v
      BY SMT
    <3>4. \A i \in 1 .. 1 : i = 1
      BY SMT
    <3>5. Len(e) = Len(<<v>>) /\ \A i \in 1 .. Len(e) : e[i] = <<v>>[i]
      BY Zenon, <3>1, <3>2, <3>3, <3>4
    <3>6. e = <<v>>
      BY Zenon, <2>3, <3>3, <3>5, SameSeq
    <3> QED BY Zenon, <2>2, <3>6 DEF e
  <2>6. CASE n = 2
    <3>1. Len(e) = 0
      BY <2>2, <2>3, <2>6, SMT
    <3>2. e = <<>>
      BY <2>3, <3>1, SMT
    <3> QED BY Zenon, <2>2, <3>2 DEF e
  <2> QED BY Zenon, <2>4, <2>5, <2>6
<1>2. 0 \in Bytes /\ NO_ACCEPTABLE_METHODS \in Bytes
  BY Zenon, ByteValues
<1> QED BY Zenon, <1>1, <1>2 DEF Methods, Lefts

\* The first four bytes, read as an int on the machine the code is for.
LEMMA GrantedBytes ==
    ASSUME NEW b \in [1 .. 10 -> Bytes], Granted(b)
    PROVE  b[1] = 5 /\ b[2] = 0 /\ b[4] = 1
<1> DEFINE s == SubSeq(b, 1, 4)
<1>1. b \in Seq(Bytes) /\ Len(b) = 10
  BY Zenon, TenBytes
<1>2. s[1] = b[1] /\ s[2] = b[2] /\ s[4] = b[4]
  BY <1>1, SMT
<1>3. s = <<5, 0, 0, 1>>
  BY Zenon DEF Granted
<1> HIDE DEF s
<1>4. s[1] = 5 /\ s[2] = 0 /\ s[4] = 1
  BY <1>3, SMT
<1> QED BY Zenon, <1>2, <1>4

\* When ten bytes have come and they begin like a grant, they are one: nothing was
\* left of the method reply, and the server has granted the request.
LEMMA WireGranted ==
    ASSUME NEW m \in Lefts, NEW r \in {NoReply, Grant, Refusal, Grant6},
           NEW n \in 0 .. MaxPayload, r = NoReply => n = 0,
           10 <= Len(Wire(m, r, n)),
           Wire(m, r, n)[1] = 5, Wire(m, r, n)[2] = 0, Wire(m, r, n)[4] = 1
    PROVE  m = <<>> /\ r = Grant
<1> DEFINE p == Payload(n)
           w == Wire(m, r, n)
<1>1. m \in Seq(Bytes) /\ (m # <<>> => Len(m) = 1 /\ m[1] # 5)
  BY Zenon, LeftBytes
<1>2. r # NoReply
  <2>1. SUFFICES ASSUME r = NoReply PROVE FALSE
    OBVIOUS
  <2>2. Wire(m, r, n) = m
    BY Zenon, <2>1, WireBytes
  <2>3. 10 <= Len(m)
    BY Zenon, <2>2
  <2>4. Len(m) = 1 \/ Len(m) = 0
    <3>1. CASE m = <<>>
      BY <3>1, SMT
    <3> QED BY Zenon, <1>1, <3>1
  <2>5. \A l : l = 1 \/ l = 0 => ~(10 <= l)
    BY SMT
  <2> QED BY Zenon, <2>3, <2>4, <2>5
<1>3. r \in Seq(Bytes) /\ Len(r) >= 10 /\ (r[2] = 0 /\ r[4] = 1 => r = Grant)
  <2>1. r \in {Grant, Refusal, Grant6}
    BY Zenon, <1>2
  <2> QED BY Zenon, <2>1, ReplyBytes
<1>4. p \in Seq(Bytes)
  BY Zenon, PayloadBytes
<1> HIDE DEF p
<1>5. m = <<>>
  <2>1. SUFFICES ASSUME m # <<>> PROVE FALSE
    OBVIOUS
  <2>2. 1 <= Len(m)
    <3>1. \A l : l = 1 => 1 <= l
      BY SMT
    <3> QED BY Zenon, <1>1, <2>1, <3>1
  <2> DEFINE a == m \o r
  <2>3. a \in Seq(Bytes) /\ a[1] = m[1] /\ 1 <= Len(a)
    BY <1>1, <1>3, <2>2, SMT
  <2> HIDE DEF a
  <2>4. (a \o p)[1] = a[1]
    BY <1>4, <2>3, SMT
  <2> QED BY Zenon, <1>1, <2>1, <2>3, <2>4 DEF Wire, p, a
<1>6. Wire(m, r, n) = r \o p
  <2>1. <<>> \o r = r
    BY <1>3, SMT
  <2> QED BY Zenon, <1>5, <2>1 DEF Wire, p
<1>7. 2 \in 1 .. Len(r) /\ 4 \in 1 .. Len(r)
  BY <1>3, SMT
<1>8. \A i \in 1 .. Len(r) : (r \o p)[i] = r[i]
  BY <1>3, <1>4, SMT
<1>9. r[2] = 0 /\ r[4] = 1
  BY Zenon, <1>6, <1>7, <1>8
<1> QED BY Zenon, <1>3, <1>5, <1>9

\* The operations are told apart.
LEMMA Distinct ==
    /\ "connect" # "mwrite" /\ "connect" # "mread" /\ "connect" # "rwrite"
    /\ "connect" # "rread" /\ "connect" # "read" /\ "connect" # "done"
    /\ "mwrite" # "mread" /\ "mwrite" # "rwrite" /\ "mwrite" # "rread"
    /\ "mwrite" # "read" /\ "mwrite" # "done"
    /\ "mread" # "rwrite" /\ "mread" # "rread" /\ "mread" # "read" /\ "mread" # "done"
    /\ "rwrite" # "rread" /\ "rwrite" # "read" /\ "rwrite" # "done"
    /\ "rread" # "read" /\ "rread" # "done" /\ "read" # "done"
    /\ "pending" # "ok" /\ "pending" # "err" /\ "err" # "ok" /\ "none" # "ok"
    /\ "method" # "request" /\ "method" # "relay" /\ "request" # "relay"
OBVIOUS

-----------------------------------------------------------------------------
(* The initial state, and the steps that leave the wire alone *)

\* The invariant holds when Start has spawned the coroutine.
LEMMA InitInv == Init => IndInv
<1> SUFFICES ASSUME Init PROVE IndInv
  OBVIOUS
<1>1. /\ status = "INIT" /\ pc = "connect" /\ op = "pending" /\ got = 0 /\ mapped = TRUE
      /\ relayed = <<>> /\ connected = FALSE /\ up = <<>> /\ down = <<>>
      /\ server = "method" /\ reply = NoReply /\ sent = 0
      /\ remote_recv_buff = [i \in 1 .. 10 |-> Uninitialised]
  BY Zenon DEF Init
<1>2. remote_recv_buff \in [1 .. 10 -> Bytes]
  <2>1. Uninitialised \in Bytes
    BY Zenon, ByteValues
  <2> QED BY Zenon, <1>1, <2>1
<1>3. relayed \in Seq(Bytes) /\ up \in Seq(Bytes) /\ down \in Seq(Bytes)
  BY <1>1, SMT
<1>4. got \in 0 .. 10 /\ sent \in 0 .. MaxPayload
  BY <1>1, PayloadAssumption, SMT
<1>5. TypeOK
  BY Zenon, <1>1, <1>2, <1>3, <1>4 DEF TypeOK, Statuses, Steps
<1>6. ServerInv /\ UpInv /\ Silent
  BY Zenon, <1>1 DEF ServerInv, UpInv, Silent
<1>7. PhaseInv
  BY Zenon, <1>1, <1>6, Distinct DEF PhaseInv
<1> QED BY Zenon, <1>5, <1>6, <1>7 DEF IndInv

\* The connection is there, or it failed.
LEMMA ConnectStep == IndInv /\ CompleteConnect => IndInv'
<1> SUFFICES ASSUME IndInv, CompleteConnect PROVE IndInv'
  OBVIOUS
<1>1. /\ pc = "connect" /\ op' \in {"ok", "err"} /\ connected' \in {connected, TRUE}
      /\ status' = status /\ remote_recv_buff' = remote_recv_buff /\ pc' = pc /\ got' = got
      /\ relayed' = relayed /\ mapped' = mapped /\ up' = up /\ down' = down
      /\ server' = server /\ reply' = reply /\ sent' = sent
  BY Zenon DEF CompleteConnect
<1>2. TypeOK /\ ServerInv /\ UpInv /\ Silent /\ relayed = <<>>
  BY Zenon, <1>1, Distinct DEF IndInv, PhaseInv
<1>3. TypeOK'
  BY Zenon, <1>1, <1>2 DEF TypeOK
<1>4. ServerInv' /\ UpInv' /\ Silent'
  BY Zenon, <1>1, <1>2 DEF ServerInv, UpInv, Silent
<1>5. PhaseInv'
  BY Zenon, <1>1, <1>2, <1>4, Distinct DEF PhaseInv
<1> QED BY Zenon, <1>3, <1>4, <1>5 DEF IndInv

\* A step of the coroutine that awaits the next operation, or returns, changes
\* neither what the server knows nor what is on the wire.
Resumes ==
    /\ status' \in Statuses /\ pc' \in Steps \cup {"done"} /\ op' \in {"none", "pending"}
    /\ got' \in {got, 0} /\ relayed' = relayed /\ mapped' = mapped
    /\ connected' = connected /\ up' = up /\ down' = down
    /\ server' = server /\ reply' = reply /\ sent' = sent

\* So only its phase is to be shown.
LEMMA ResumeInv ==
    ASSUME IndInv, Resumes, remote_recv_buff' \in [1 .. 10 -> Bytes], PhaseInv'
    PROVE  IndInv'
<1>1. TypeOK /\ ServerInv /\ UpInv
  BY Zenon DEF IndInv
<1>2. ServerInv' /\ UpInv'
  BY Zenon, <1>1 DEF Resumes, ServerInv, UpInv
<1>3. got' \in 0 .. 10
  <2>1. got \in 0 .. 10 /\ got' \in {got, 0}
    BY Zenon, <1>1 DEF Resumes, TypeOK
  <2> QED BY <2>1, SMT
<1>4. op' \in {"none", "pending", "ok", "err"}
  BY Zenon DEF Resumes
<1>5. TypeOK'
  BY Zenon, <1>1, <1>3, <1>4 DEF Resumes, TypeOK
<1> QED BY Zenon, <1>2, <1>5 DEF IndInv

\* The connection is there: the method request is written.
LEMMA connectStep == IndInv /\ connectToRemote => IndInv'
<1> SUFFICES ASSUME IndInv, connectToRemote PROVE IndInv'
  OBVIOUS
<1>1. /\ pc = "connect" /\ pc' = "mwrite" /\ op' = "pending" /\ status' = "HANDSHAKING"
      /\ remote_recv_buff' = remote_recv_buff /\ got' = got /\ relayed' = relayed
      /\ mapped' = mapped /\ connected' = connected /\ up' = up /\ down' = down
      /\ server' = server /\ reply' = reply /\ sent' = sent
  BY Zenon DEF connectToRemote, Await, serverVars
<1>2. Silent /\ relayed = <<>> /\ remote_recv_buff \in [1 .. 10 -> Bytes]
  BY Zenon, <1>1, Distinct DEF IndInv, PhaseInv, TypeOK
<1>3. Silent'
  BY Zenon, <1>1, <1>2 DEF Silent
<1>4. PhaseInv'
  BY Zenon, <1>1, <1>2, <1>3, Distinct DEF PhaseInv, AtMwrite
<1>5. Resumes
  BY Zenon, <1>1 DEF Resumes, Statuses, Steps
<1> QED BY Zenon, <1>1, <1>2, <1>4, <1>5, ResumeInv

\* The method request is written: two bytes are read.
LEMMA MethodSelectionStep == IndInv /\ handleMethodSelection => IndInv'
<1> SUFFICES ASSUME IndInv, handleMethodSelection PROVE IndInv'
  OBVIOUS
<1>1. /\ pc = "mwrite" /\ op = "ok" /\ pc' = "mread" /\ op' = "pending" /\ status' = status
      /\ remote_recv_buff' = remote_recv_buff /\ got' = 0 /\ relayed' = relayed
      /\ mapped' = mapped /\ connected' = connected /\ up' = up /\ down' = down
      /\ server' = server /\ reply' = reply /\ sent' = sent
  BY Zenon DEF handleMethodSelection, Await, serverVars
<1>2. /\ Greeted /\ relayed = <<>> /\ remote_recv_buff \in [1 .. 10 -> Bytes]
      /\ status \in Statuses
  BY Zenon, <1>1, Distinct DEF IndInv, PhaseInv, AtMwrite, TypeOK
<1>3. Greeted'
  BY Zenon, <1>1, <1>2 DEF Greeted
<1>4. PhaseInv'
  BY Zenon, <1>1, <1>2, <1>3, Distinct DEF PhaseInv, AtMread
<1>5. Resumes
  BY Zenon, <1>1, <1>2 DEF Resumes, Steps
<1> QED BY Zenon, <1>1, <1>2, <1>4, <1>5, ResumeInv

\* The request is built over the method reply.
LEMMA SendRequestStep == IndInv /\ SendRequest => IndInv'
<1> SUFFICES ASSUME IndInv, SendRequest PROVE IndInv'
  OBVIOUS
<1> DEFINE request == ConstructRequest(remote_recv_buff)
           other == [i \in 1 .. 10 |-> IF i > 4 THEN Uninitialised ELSE request[i]]
<1>1. /\ pc = "mread" /\ op = "ok" /\ pc' = "rwrite" /\ op' = "pending" /\ status' = status
      /\ got' = got /\ relayed' = relayed
      /\ mapped' = mapped /\ connected' = connected /\ up' = up /\ down' = down
      /\ server' = server /\ reply' = reply /\ sent' = sent
      /\ remote_recv_buff' = request \/ (~mapped /\ remote_recv_buff' = other)
  BY Zenon DEF SendRequest, Await, serverVars
<1>2. /\ server = "request" /\ up = <<>> /\ remote_recv_buff[1] = 5 /\ down \in Lefts
      /\ relayed = <<>> /\ remote_recv_buff \in [1 .. 10 -> Bytes] /\ status \in Statuses
      /\ mapped \in BOOLEAN
  BY Zenon, <1>1, Distinct DEF IndInv, PhaseInv, AtMread, TypeOK
<1>3. request \in [1 .. 10 -> Bytes] /\ IsRequest(request, TRUE)
  BY Zenon, <1>2, RequestBytes
<1> HIDE DEF request
<1>4. /\ other \in [1 .. 10 -> Bytes]
      /\ other[1] = request[1] /\ other[2] = request[2] /\ other[4] = request[4]
  <2>1. Uninitialised \in Bytes
    BY Zenon, ByteValues
  <2> DEFINE u == Uninitialised
  <2> HIDE DEF u
  <2>2. \A i \in 1 .. 10 : (IF i > 4 THEN u ELSE request[i]) \in Bytes
    BY Zenon, <1>3, <2>1 DEF u
  <2>3. other \in [1 .. 10 -> Bytes]
    BY Zenon, <2>2 DEF u
  <2>4. ~(1 > 4) /\ ~(2 > 4) /\ ~(4 > 4) /\ 1 \in 1 .. 10 /\ 2 \in 1 .. 10 /\ 4 \in 1 .. 10
    BY SMT
  <2> QED BY Zenon, <2>3, <2>4
<1> HIDE DEF other
<1>5. IsRequest(other, FALSE)
  <2>1. Len(other) = 10
    BY Zenon, <1>4, TenBytes
  <2> QED BY Zenon, <1>3, <1>4, <2>1 DEF IsRequest
<1>6. remote_recv_buff' \in [1 .. 10 -> Bytes] /\ IsRequest(remote_recv_buff', mapped)
  <2>1. CASE remote_recv_buff' = request
    BY Zenon, <1>3, <2>1 DEF IsRequest
  <2>2. CASE ~mapped /\ remote_recv_buff' = other
    BY Zenon, <1>4, <1>5, <2>2 DEF IsRequest
  <2> QED BY Zenon, <1>1, <2>1, <2>2
<1>7. AtRwrite'
  BY Zenon, <1>1, <1>2, <1>6, Distinct DEF AtRwrite
<1>8. PhaseInv'
  BY Zenon, <1>1, <1>2, <1>7, Distinct DEF PhaseInv
<1>9. Resumes
  BY Zenon, <1>1, <1>2 DEF Resumes, Steps
<1> QED BY Zenon, <1>6, <1>8, <1>9, ResumeInv

\* The request is written: ten bytes are read.
LEMMA AwaitReplyStep == IndInv /\ AwaitReply => IndInv'
<1> SUFFICES ASSUME IndInv, AwaitReply PROVE IndInv'
  OBVIOUS
<1>1. /\ pc = "rwrite" /\ op = "ok" /\ pc' = "rread" /\ op' = "pending" /\ status' = status
      /\ remote_recv_buff' = remote_recv_buff /\ got' = 0 /\ relayed' = relayed
      /\ mapped' = mapped /\ connected' = connected /\ up' = up /\ down' = down
      /\ server' = server /\ reply' = reply /\ sent' = sent
  BY Zenon DEF AwaitReply, Await, serverVars
<1>2. AtRwrite /\ relayed = <<>> /\ remote_recv_buff \in [1 .. 10 -> Bytes] /\ status \in Statuses
  BY Zenon, <1>1, Distinct DEF IndInv, PhaseInv, TypeOK
<1>3. server # "method" /\ \E m \in Lefts : Rest(down, Wire(m, reply, sent), 0)
  BY Zenon, <1>1, <1>2 DEF AtRwrite
<1>4. \A i \in 1 .. 0 : FALSE
  BY SMT
<1>5. AtRread'
  BY Zenon, <1>1, <1>3, <1>4 DEF AtRread
<1>6. PhaseInv'
  BY Zenon, <1>1, <1>2, <1>5, Distinct DEF PhaseInv
<1>7. Resumes
  BY Zenon, <1>1, <1>2 DEF Resumes, Steps
<1> QED BY Zenon, <1>1, <1>2, <1>6, <1>7, ResumeInv

\* async_read goes on.
LEMMA ReadMoreStep == IndInv /\ ReadMore => IndInv'
<1> SUFFICES ASSUME IndInv, ReadMore PROVE IndInv'
  OBVIOUS
<1>1. /\ pc = "rread" /\ pc' = "rread" /\ op' = "pending" /\ status' = status
      /\ remote_recv_buff' = remote_recv_buff /\ got' = got /\ relayed' = relayed
      /\ mapped' = mapped /\ connected' = connected /\ up' = up /\ down' = down
      /\ server' = server /\ reply' = reply /\ sent' = sent
  BY Zenon DEF ReadMore, Await, serverVars
<1>2. AtRread /\ relayed = <<>> /\ remote_recv_buff \in [1 .. 10 -> Bytes] /\ status \in Statuses
  BY Zenon, <1>1, Distinct DEF IndInv, PhaseInv, TypeOK
<1>3. AtRread'
  BY Zenon, <1>1, <1>2 DEF AtRread
<1>4. PhaseInv'
  BY Zenon, <1>1, <1>2, <1>3, Distinct DEF PhaseInv
<1>5. Resumes
  BY Zenon, <1>1, <1>2 DEF Resumes, Steps
<1> QED BY Zenon, <1>1, <1>2, <1>4, <1>5, ResumeInv

\* The ten bytes are compared with a grant.
LEMMA CheckReplyStep == IndInv /\ CheckReply => IndInv'
<1> SUFFICES ASSUME IndInv, CheckReply PROVE IndInv'
  OBVIOUS
<1>1. /\ pc = "rread" /\ got = 10
      /\ \/ /\ Granted(remote_recv_buff) /\ pc' = "read" /\ op' = "pending"
            /\ status' = "RELAYING"
         \/ pc' = "done" /\ op' = "none" /\ status' = "CLOSE"
      /\ remote_recv_buff' = remote_recv_buff /\ got' = got /\ relayed' = relayed
      /\ mapped' = mapped /\ connected' = connected /\ up' = up /\ down' = down
      /\ server' = server /\ reply' = reply /\ sent' = sent
  BY Zenon DEF CheckReply, Await, Return, serverVars
<1>2. /\ AtRread /\ relayed = <<>> /\ remote_recv_buff \in [1 .. 10 -> Bytes]
      /\ reply \in {NoReply, Grant, Refusal, Grant6} /\ sent \in 0 .. MaxPayload
      /\ down \in Seq(Bytes) /\ (reply = NoReply => sent = 0)
  BY Zenon, <1>1, Distinct DEF IndInv, PhaseInv, TypeOK, ServerInv
<1>3. Resumes
  BY Zenon, <1>1 DEF Resumes, Steps, Statuses
<1>4. CASE pc' = "done"
  <2>1. PhaseInv'
    BY Zenon, <1>4, Distinct DEF PhaseInv
  <2> QED BY Zenon, <1>1, <1>2, <1>3, <2>1, ResumeInv
<1>5. CASE Granted(remote_recv_buff) /\ pc' = "read"
  <2>1. PICK m \in Lefts :
           /\ Rest(down, Wire(m, reply, sent), 10)
           /\ \A i \in 1 .. 10 : remote_recv_buff[i] = Wire(m, reply, sent)[i]
    BY Zenon, <1>1, <1>2 DEF AtRread
  <2>2. remote_recv_buff[1] = 5 /\ remote_recv_buff[2] = 0 /\ remote_recv_buff[4] = 1
    BY Zenon, <1>2, <1>5, GrantedBytes
  <2>3. 1 \in 1 .. 10 /\ 2 \in 1 .. 10 /\ 4 \in 1 .. 10
    BY SMT
  <2>4. /\ Wire(m, reply, sent)[1] = 5 /\ Wire(m, reply, sent)[2] = 0
        /\ Wire(m, reply, sent)[4] = 1 /\ 10 <= Len(Wire(m, reply, sent))
    BY Zenon, <2>1, <2>2, <2>3 DEF Rest
  <2>5. m = <<>> /\ reply = Grant
    BY Zenon, <1>2, <2>4, WireGranted
  <2>6. Grant \in Seq(Bytes) /\ Len(Grant) = 10
    BY Zenon, ReplyBytes
  <2>7. Payload(sent) \in Seq(Bytes)
    BY Zenon, <1>2, PayloadBytes
  <2>8. <<>> \o Grant = Grant
    BY <2>6, SMT
  <2>9. Rest(down, Grant \o Payload(sent), Len(Grant))
    BY Zenon, <2>1, <2>5, <2>6, <2>8 DEF Wire
  <2>10. Rest(down, Payload(sent), 0)
    BY Zenon, <1>2, <2>6, <2>7, <2>9, RestBehind
  <2>11. Len(<<>>) = 0 /\ \A i \in 1 .. 0 : FALSE
    BY SMT
  <2>12. AtRead'
    BY Zenon, <1>1, <1>2, <2>5, <2>10, <2>11 DEF AtRead
  <2>13. PhaseInv'
    BY Zenon, <1>5, <2>12, Distinct DEF PhaseInv
  <2> QED BY Zenon, <1>1, <1>2, <1>3, <2>13, ResumeInv
<1> QED BY Zenon, <1>1, <1>4, <1>5

\* The downstream loop awaits the next read, or ends.
LEMMA RemoteReadStep == IndInv /\ handleRemoteRead => IndInv'
<1> SUFFICES ASSUME IndInv, handleRemoteRead PROVE IndInv'
  OBVIOUS
<1>1. /\ pc = "read"
      /\ \/ pc' = "done" /\ op' = "none" /\ status' = "CLOSE"
         \/ pc' = "read" /\ op' = "pending" /\ status' = status
      /\ remote_recv_buff' = remote_recv_buff /\ got' = got /\ relayed' = relayed
      /\ mapped' = mapped /\ connected' = connected /\ up' = up /\ down' = down
      /\ server' = server /\ reply' = reply /\ sent' = sent
  BY Zenon DEF handleRemoteRead, Await, Return, serverVars
<1>2. AtRead /\ remote_recv_buff \in [1 .. 10 -> Bytes] /\ status \in Statuses
  BY Zenon, <1>1, Distinct DEF IndInv, PhaseInv, TypeOK
<1>3. AtRead'
  BY Zenon, <1>1, <1>2 DEF AtRead
<1>4. PhaseInv'
  BY Zenon, <1>1, <1>3, Distinct DEF PhaseInv
<1>5. Resumes
  BY Zenon, <1>1, <1>2 DEF Resumes, Steps, Statuses
<1> QED BY Zenon, <1>1, <1>2, <1>4, <1>5, ResumeInv

\* A failed operation ends the coroutine.
LEMMA FailStep == IndInv /\ Fail => IndInv'
<1> SUFFICES ASSUME IndInv, Fail PROVE IndInv'
  OBVIOUS
<1>1. /\ pc' = "done" /\ op' = "none" /\ status' = "CLOSE"
      /\ remote_recv_buff' = remote_recv_buff /\ got' = got /\ relayed' = relayed
      /\ mapped' = mapped /\ connected' = connected /\ up' = up /\ down' = down
      /\ server' = server /\ reply' = reply /\ sent' = sent
  BY Zenon DEF Fail, Return, serverVars
<1>2. remote_recv_buff \in [1 .. 10 -> Bytes]
  BY Zenon DEF IndInv, TypeOK
<1>3. PhaseInv'
  BY Zenon, <1>1, Distinct DEF PhaseInv
<1>4. Resumes
  BY Zenon, <1>1 DEF Resumes, Steps, Statuses
<1> QED BY Zenon, <1>1, <1>2, <1>3, <1>4, ResumeInv

\* Stop() takes the session out of the map, from where on the request need not name
\* the target, and cancels what is pending.
LEMMA StopStep == IndInv /\ Stop => IndInv'
<1> SUFFICES ASSUME IndInv, Stop PROVE IndInv'
  OBVIOUS
<1>1. /\ mapped' = FALSE /\ status' = "CLOSE"
      /\ op' = IF status # "CLOSE" /\ op = "pending" THEN "err" ELSE op
      /\ remote_recv_buff' = remote_recv_buff /\ pc' = pc /\ got' = got /\ relayed' = relayed
      /\ connected' = connected /\ up' = up /\ down' = down
      /\ server' = server /\ reply' = reply /\ sent' = sent
  BY Zenon DEF Stop, serverVars
<1>2. TypeOK /\ ServerInv /\ UpInv /\ PhaseInv
  BY Zenon DEF IndInv
<1>3. op' \in {"none", "pending", "ok", "err"} /\ (op' = "ok" <=> op = "ok")
  BY Zenon, <1>1, <1>2, Distinct DEF TypeOK
<1>4. TypeOK'
  BY Zenon, <1>1, <1>2, <1>3 DEF TypeOK, Statuses
<1>5. ServerInv'
  BY Zenon, <1>1, <1>2 DEF ServerInv
<1>6. UpInv'
  BY Zenon, <1>1, <1>2 DEF UpInv, IsRequest
<1>7. (Silent => Silent') /\ (Greeted => Greeted')
  BY Zenon, <1>1 DEF Silent, Greeted
<1>8. (AtMwrite => AtMwrite') /\ (AtMread => AtMread')
  BY Zenon, <1>1, <1>3, <1>7 DEF AtMwrite, AtMread
<1>9. AtRwrite => AtRwrite'
  <2>1. IsRequest(remote_recv_buff, mapped) => IsRequest(remote_recv_buff', mapped')
    BY Zenon, <1>1 DEF IsRequest
  <2> QED BY Zenon, <1>1, <1>3, <2>1 DEF AtRwrite
<1>10. (AtRread => AtRread') /\ (AtRead => AtRead')
  BY Zenon, <1>1 DEF AtRread, AtRead
<1>11. PhaseInv'
  BY Zenon, <1>1, <1>2, <1>7, <1>8, <1>9, <1>10 DEF PhaseInv
<1> QED BY Zenon, <1>4, <1>5, <1>6, <1>11 DEF IndInv

\* The server closes.
LEMMA ClosesStep == IndInv /\ ServerCloses => IndInv'
<1> SUFFICES ASSUME IndInv, ServerCloses PROVE IndInv'
  OBVIOUS
<1>1. /\ status' = status /\ op' = op /\ mapped' = mapped /\ connected' = FALSE
      /\ remote_recv_buff' = remote_recv_buff /\ pc' = pc /\ got' = got /\ relayed' = relayed
      /\ up' = up /\ down' = down /\ server' = server /\ reply' = reply /\ sent' = sent
  BY Zenon DEF ServerCloses, clientVars
<1>2. TypeOK /\ ServerInv /\ UpInv /\ PhaseInv
  BY Zenon DEF IndInv
<1>3. TypeOK'
  BY Zenon, <1>1, <1>2 DEF TypeOK
<1>4. ServerInv' /\ UpInv'
  BY Zenon, <1>1, <1>2 DEF ServerInv, UpInv
<1>5. (Silent => Silent') /\ (Greeted => Greeted')
  BY Zenon, <1>1 DEF Silent, Greeted
<1>6. (AtMwrite => AtMwrite') /\ (AtMread => AtMread') /\ (AtRwrite => AtRwrite')
  BY Zenon, <1>1, <1>5 DEF AtMwrite, AtMread, AtRwrite
<1>7. (AtRread => AtRread') /\ (AtRead => AtRead')
  BY Zenon, <1>1 DEF AtRread, AtRead
<1>8. PhaseInv'
  BY Zenon, <1>1, <1>2, <1>5, <1>6, <1>7 DEF PhaseInv
<1> QED BY Zenon, <1>3, <1>4, <1>8 DEF IndInv

-----------------------------------------------------------------------------
(* The steps that move bytes *)

\* The socket takes a message.
LEMMA WriteStep == IndInv /\ CompleteWrite => IndInv'
<1> SUFFICES ASSUME IndInv, CompleteWrite PROVE IndInv'
  OBVIOUS
<1>1. /\ pc \in {"mwrite", "rwrite"} /\ op = "pending"
      /\ \/ /\ op' = "ok"
            /\ up' = up \o (IF pc = "mwrite" THEN DEFAULT_METHOD_REQUEST
                                            ELSE remote_recv_buff)
         \/ op' = "err" /\ up' = up
      /\ status' = status /\ remote_recv_buff' = remote_recv_buff /\ pc' = pc /\ got' = got
      /\ relayed' = relayed /\ mapped' = mapped /\ connected' = connected /\ down' = down
      /\ server' = server /\ reply' = reply /\ sent' = sent
  BY Zenon DEF CompleteWrite
<1>2. TypeOK /\ ServerInv /\ UpInv /\ PhaseInv /\ relayed = <<>>
  BY Zenon, <1>1, Distinct DEF IndInv, PhaseInv
<1>3. ServerInv'
  BY Zenon, <1>1, <1>2 DEF ServerInv
<1>4. ASSUME up' \in Seq(Bytes) PROVE TypeOK'
  BY Zenon, <1>1, <1>2, <1>4 DEF TypeOK
<1>5. up \in Seq(Bytes) /\ remote_recv_buff \in [1 .. 10 -> Bytes] /\ down \in Seq(Bytes)
  BY Zenon, <1>2 DEF TypeOK
<1>6. \A s \in Seq(Bytes) : <<>> \o s = s
  BY SMT
<1>7. CASE op' = "err" /\ up' = up
  <2>1. UpInv' /\ TypeOK'
    BY Zenon, <1>1, <1>2, <1>4, <1>5, <1>7 DEF UpInv
  <2>2. (Silent => Silent') /\ (AtMwrite => AtMwrite') /\ (AtRwrite => AtRwrite')
    BY Zenon, <1>1, <1>7, Distinct DEF Silent, AtMwrite, AtRwrite
  <2>3. PhaseInv'
    BY Zenon, <1>1, <1>2, <2>2, Distinct DEF PhaseInv
  <2> QED BY Zenon, <1>3, <2>1, <2>3 DEF IndInv
<1>8. CASE pc = "mwrite" /\ op' = "ok" /\ up' = up \o DEFAULT_METHOD_REQUEST
  <2>1. server = "method" /\ up = <<>> /\ down = <<>>
    BY Zenon, <1>1, <1>2, <1>8, Distinct DEF PhaseInv, AtMwrite, Silent
  <2>2. DEFAULT_METHOD_REQUEST \in Seq(Bytes)
    <3>1. 5 \in Bytes /\ 1 \in Bytes /\ 0 \in Bytes
      BY Zenon, ByteValues
    <3> QED BY <3>1, SMT DEF DEFAULT_METHOD_REQUEST
  <2>3. up' = DEFAULT_METHOD_REQUEST
    BY Zenon, <1>6, <1>8, <2>1, <2>2
  <2>4. UpInv' /\ Greeted'
    BY Zenon, <1>1, <2>1, <2>3 DEF UpInv, Greeted
  <2>5. PhaseInv'
    BY Zenon, <1>1, <1>2, <1>8, <2>4, Distinct DEF PhaseInv, AtMwrite
  <2> QED BY Zenon, <1>3, <1>4, <2>2, <2>3, <2>4, <2>5 DEF IndInv
<1>9. CASE pc = "rwrite" /\ op' = "ok" /\ up' = up \o remote_recv_buff
  <2>1. /\ server = "request" /\ up = <<>> /\ down \in Lefts
        /\ IsRequest(remote_recv_buff, mapped)
    BY Zenon, <1>1, <1>2, <1>9, Distinct DEF PhaseInv, AtRwrite
  <2>2. remote_recv_buff \in Seq(Bytes)
    BY Zenon, <1>5, TenBytes
  <2>3. up' = remote_recv_buff
    BY Zenon, <1>6, <1>9, <2>1, <2>2
  <2>4. UpInv'
    BY Zenon, <1>1, <2>1, <2>3 DEF UpInv
  <2>5. reply = NoReply /\ sent = 0
    BY Zenon, <1>2, <2>1, Distinct DEF ServerInv
  <2>6. 0 \in 0 .. MaxPayload
    BY PayloadAssumption, SMT
  <2>7. Wire(down, reply, sent) = down
    BY Zenon, <2>1, <2>5, <2>6, WireBytes
  <2>8. Rest(down, Wire(down, reply, sent), 0)
    BY Zenon, <1>5, <2>7, RestAll
  <2>9. AtRwrite'
    BY Zenon, <1>1, <1>9, <2>1, <2>8, Distinct DEF AtRwrite
  <2>10. PhaseInv'
    BY Zenon, <1>1, <1>2, <1>9, <2>9, Distinct DEF PhaseInv
  <2> QED BY Zenon, <1>3, <1>4, <2>2, <2>3, <2>4, <2>10 DEF IndInv
<1> QED BY Zenon, <1>1, <1>7, <1>8, <1>9, Distinct

\* A read takes some of the bytes that are there, or finds the connection closed.
LEMMA ReadStep == IndInv /\ CompleteRead => IndInv'
<1> SUFFICES ASSUME IndInv, CompleteRead PROVE IndInv'
  OBVIOUS
<1>1. /\ pc \in {"mread", "rread", "read"} /\ op = "pending"
      /\ status' = status /\ pc' = pc /\ mapped' = mapped /\ connected' = connected
      /\ up' = up /\ server' = server /\ reply' = reply /\ sent' = sent
  BY Zenon DEF CompleteRead
<1>2. TypeOK /\ ServerInv /\ UpInv /\ PhaseInv
  BY Zenon DEF IndInv
<1>3. /\ remote_recv_buff \in [1 .. 10 -> Bytes] /\ got \in 0 .. 10 /\ relayed \in Seq(Bytes)
      /\ down \in Seq(Bytes) /\ reply \in {NoReply, Grant, Refusal, Grant6}
      /\ sent \in 0 .. MaxPayload
  BY Zenon, <1>2 DEF TypeOK
<1>4. ServerInv' /\ UpInv'
  BY Zenon, <1>1, <1>2 DEF ServerInv, UpInv
<1>5. ASSUME op' \in {"ok", "err"}, down' \in Seq(Bytes), relayed' \in Seq(Bytes),
             remote_recv_buff' \in [1 .. 10 -> Bytes], got' \in 0 .. 10, PhaseInv'
      PROVE  IndInv'
  <2>1. TypeOK'
    BY Zenon, <1>1, <1>2, <1>5 DEF TypeOK
  <2> QED BY Zenon, <1>4, <1>5, <2>1 DEF IndInv
<1>6. CASE /\ op' = "err" /\ down' = down /\ remote_recv_buff' = remote_recv_buff
           /\ got' = got /\ relayed' = relayed
  <2>1. (Greeted => Greeted') /\ (AtRread => AtRread') /\ (AtRead => AtRead')
    BY Zenon, <1>1, <1>6 DEF Greeted, AtRread, AtRead
  <2>2. AtMread => AtMread'
    BY Zenon, <1>1, <1>6, <2>1, Distinct DEF AtMread
  <2>3. PhaseInv'
    BY Zenon, <1>1, <1>2, <1>6, <2>1, <2>2, Distinct DEF PhaseInv
  <2> QED BY Zenon, <1>3, <1>5, <1>6, <2>3
<1>7. ASSUME NEW n \in 1 .. Len(down), n <= Wanted, op' = "ok",
             down' = SubSeq(down, n + 1, Len(down)), pc # "read", relayed' = relayed,
             remote_recv_buff' = [i \in 1 .. 10 |->
                 IF i \in got + 1 .. got + n THEN down[i - got] ELSE remote_recv_buff[i]],
             got' = got + n
      PROVE  IndInv'
  <2>1. down' \in Seq(Bytes) /\ n \in Nat /\ got \in Nat
    BY <1>3, <1>7, SMTT(30)
  <2>2. relayed = <<>>
    BY Zenon, <1>1, <1>2, <1>7, Distinct DEF PhaseInv
  <2>3. remote_recv_buff' \in [1 .. 10 -> Bytes]
    <3>1. ASSUME NEW i \in 1 .. 10
          PROVE  (IF i \in got + 1 .. got + n THEN down[i - got] ELSE remote_recv_buff[i]) \in Bytes
      <4>1. CASE i \in got + 1 .. got + n
        <5>1. i - got \in 1 .. Len(down)
          BY <2>1, <4>1, SMT
        <5>2. \A j \in 1 .. Len(down) : down[j] \in Bytes
          BY <1>3, SMTT(30)
        <5> QED BY Zenon, <4>1, <5>1, <5>2
      <4>2. CASE ~(i \in got + 1 .. got + n)
        BY Zenon, <1>3, <4>2
      <4> QED BY <4>1, <4>2
    <3> QED BY Zenon, <1>7, <3>1
  <2>4. CASE pc = "mread"
    <3>1. Greeted /\ got = 0
      BY Zenon, <1>1, <1>2, <2>4, Distinct DEF PhaseInv, AtMread
    <3>2. down # <<>>
      BY <1>7, SMT
    <3>3. server = "request" /\ up = <<>> /\ down \in Methods
      BY Zenon, <3>1, <3>2 DEF Greeted
    <3>4. down[1] = 5 /\ down' \in Lefts
      BY Zenon, <1>7, <3>3, MethodRead
    <3>5. n <= 2
      BY Zenon, <1>7, <2>4 DEF Wanted
    <3>6. got' \in 0 .. 10 /\ 1 \in got + 1 .. got + n /\ 1 - got = 1 /\ 1 \in 1 .. 10
      BY <1>7, <2>1, <3>1, <3>5, SMT
    <3>7. remote_recv_buff'[1] = 5
      BY Zenon, <1>7, <3>4, <3>6
    <3>8. AtMread'
      BY Zenon, <1>1, <1>7, <3>3, <3>4, <3>7 DEF AtMread
    <3>9. PhaseInv'
      BY Zenon, <1>1, <1>7, <2>2, <2>4, <3>8, Distinct DEF PhaseInv
    <3> QED BY Zenon, <1>3, <1>5, <1>7, <2>1, <2>3, <3>6, <3>9
  <2>5. CASE pc = "rread"
    <3>1. n <= 10 - got
      BY Zenon, <1>7, <2>5, Distinct DEF Wanted
    <3>2. got' \in 0 .. 10
      BY <1>3, <1>7, <2>1, <3>1, SMT
    <3>3. AtRread
      BY Zenon, <1>2, <2>5 DEF PhaseInv
    <3>4. PICK m \in Lefts :
             /\ Rest(down, Wire(m, reply, sent), got)
             /\ \A i \in 1 .. got : remote_recv_buff[i] = Wire(m, reply, sent)[i]
      BY Zenon, <3>3 DEF AtRread
    <3> DEFINE w == Wire(m, reply, sent)
    <3>5. w \in Seq(Bytes)
      BY Zenon, <1>3, WireBytes
    <3> HIDE DEF w
    <3>6. Rest(down, w, got) /\ \A i \in 1 .. got : remote_recv_buff[i] = w[i]
      BY Zenon, <3>4 DEF w
    <3>7. Rest(down', w, got') /\ \A i \in 1 .. n : down[i] = w[got + i]
      <4>1. Rest(down', w, got') /\ After(down, w, got, n)
        BY Zenon, <1>3, <1>7, <2>1, <3>5, <3>6, RestRead
      <4> QED BY Zenon, <4>1 DEF After
    <3>8. ASSUME NEW i \in 1 .. got' PROVE remote_recv_buff'[i] = w[i]
      <4>1. i \in 1 .. 10
        BY <3>2, SMT
      <4>2. CASE i \in got + 1 .. got + n
        <5>1. i - got \in 1 .. n /\ got + (i - got) = i
          BY <2>1, <4>2, SMT
        <5> QED BY Zenon, <1>7, <3>7, <4>1, <4>2, <5>1
      <4>3. CASE ~(i \in got + 1 .. got + n)
        <5>1. i \in 1 .. got
          BY <1>7, <2>1, <4>3, SMT
        <5> QED BY Zenon, <1>7, <3>6, <4>1, <4>3, <5>1
      <4> QED BY <4>2, <4>3
    <3>9. server # "method"
      BY Zenon, <3>3 DEF AtRread
    <3>10. AtRread'
      BY Zenon, <1>1, <3>7, <3>8, <3>9 DEF AtRread, w
    <3>11. PhaseInv'
      BY Zenon, <1>1, <1>7, <2>2, <2>5, <3>10, Distinct DEF PhaseInv
    <3> QED BY Zenon, <1>3, <1>5, <1>7, <2>1, <2>3, <3>2, <3>11
  <2> QED BY Zenon, <1>1, <1>7, <2>4, <2>5
<1>8. ASSUME NEW n \in 1 .. Len(down), op' = "ok", pc = "read",
             down' = SubSeq(down, n + 1, Len(down)),
             relayed' = relayed \o SubSeq(down, 1, n),
             remote_recv_buff' = remote_recv_buff, got' = got
      PROVE  IndInv'
  <2> DEFINE w == Payload(sent)
             k == Len(relayed)
             s == SubSeq(down, 1, n)
  <2>1. AtRead
    BY Zenon, <1>2, <1>8 DEF PhaseInv
  <2>2. Rest(down, w, k) /\ \A i \in 1 .. k : relayed[i] = w[i]
    BY Zenon, <2>1 DEF AtRead
  <2>3. w \in Seq(Bytes) /\ reply = Grant
    BY Zenon, <1>3, <2>1, PayloadBytes DEF AtRead
  <2>4. s \in Seq(Bytes) /\ Len(s) = n /\ n \in Nat /\ k \in Nat /\ down' \in Seq(Bytes)
    BY <1>3, <1>8, SMTT(60)
  <2>5. \A i \in 1 .. n : s[i] = down[i]
    BY <1>3, <2>4, SMT
  <2>6. /\ relayed' \in Seq(Bytes) /\ Len(relayed') = k + n
        /\ \A i \in 1 .. k : relayed'[i] = relayed[i]
        /\ \A i \in 1 .. n : relayed'[k + i] = s[i]
    <3>1. SeqOf(relayed, Bytes, k) /\ SeqOf(s, Bytes, n)
      BY Zenon, <1>3, <2>4 DEF SeqOf
    <3>2. relayed' = relayed \o s
      BY Zenon, <1>8
    <3> HIDE DEF s, k
    <3>3. SeqOf(relayed', Bytes, k + n) /\ Joined(relayed', relayed, s, k, n)
      BY Zenon, <3>1, <3>2, Concat
    <3> QED BY Zenon, <3>3 DEF SeqOf, Joined
  <2> HIDE DEF w, k, s
  <2>7. Rest(down', w, k + n) /\ \A i \in 1 .. n : down[i] = w[k + i]
    <3>1. /\ w \in Seq(Bytes) /\ k \in Nat /\ Rest(down, w, k) /\ down \in Seq(Bytes)
          /\ down' = SubSeq(down, n + 1, Len(down))
      BY Zenon, <1>3, <1>8, <2>2, <2>3, <2>4
    <3>2. Rest(down', w, k + n) /\ After(down, w, k, n)
      BY Zenon, <3>1, RestRead
    <3> QED BY Zenon, <3>2 DEF After
  <2>8. ASSUME NEW i \in 1 .. k + n PROVE relayed'[i] = w[i]
    <3>1. CASE i \in 1 .. k
      BY Zenon, <2>2, <2>6, <3>1
    <3>2. CASE ~(i \in 1 .. k)
      <4>1. i - k \in 1 .. n /\ k + (i - k) = i
        BY <2>4, <3>2, SMT
      <4>2. relayed'[i] = s[i - k] /\ s[i - k] = down[i - k] /\ down[i - k] = w[k + (i - k)]
        BY Zenon, <2>5, <2>6, <2>7, <4>1
      <4> QED BY Zenon, <4>1, <4>2
    <3> QED BY <3>1, <3>2
  <2>9. AtRead'
    BY Zenon, <1>1, <2>3, <2>6, <2>7, <2>8 DEF AtRead, w
  <2>10. PhaseInv'
    BY Zenon, <1>1, <1>8, <2>9, Distinct DEF PhaseInv
  <2> QED BY Zenon, <1>3, <1>5, <1>8, <2>4, <2>6, <2>10
<1> QED BY Zenon, <1>6, <1>7, <1>8 DEF CompleteRead

\* What a step of the server leaves alone.
ServerMoves ==
    /\ status' = status /\ remote_recv_buff' = remote_recv_buff /\ pc' = pc /\ op' = op
    /\ got' = got /\ relayed' = relayed /\ mapped' = mapped

\* The server answers the method request.
LEMMA AnswerMethodStep == IndInv /\ AnswerMethod => IndInv'
<1> SUFFICES ASSUME IndInv, AnswerMethod PROVE IndInv'
  OBVIOUS
<1>1. /\ server = "method" /\ Len(up) >= 3 /\ up' = SubSeq(up, 4, Len(up))
      /\ server' = "request" /\ connected' \in {connected, FALSE}
      /\ down' \in {down \o <<5, 0>>, down \o <<5, NO_ACCEPTABLE_METHODS>>}
      /\ reply' = reply /\ sent' = sent
  BY Zenon DEF AnswerMethod
<1>2. ServerMoves
  BY Zenon DEF AnswerMethod, ServerMoves, clientVars
<1>3. TypeOK /\ ServerInv /\ UpInv /\ PhaseInv
  BY Zenon DEF IndInv
<1>4. up # <<>>
  BY <1>1, SMT
<1>5. up = DEFAULT_METHOD_REQUEST
  BY Zenon, <1>1, <1>3, <1>4, Distinct DEF UpInv
<1>6. up' = <<>>
  <2>1. DEFAULT_METHOD_REQUEST \in Seq(Nat) /\ Len(DEFAULT_METHOD_REQUEST) = 3
    BY SMT DEF DEFAULT_METHOD_REQUEST
  <2>2. up \in Seq(Nat) /\ Len(up) = 3
    BY Zenon, <1>5, <2>1
  <2>3. Len(SubSeq(up, 4, 3)) = 0 /\ SubSeq(up, 4, 3) \in Seq(Nat)
    BY <2>2, SMT
  <2> DEFINE s == SubSeq(up, 4, 3)
  <2> HIDE DEF s
  <2>4. s = <<>>
    <3>1. Len(s) = 0 /\ s \in Seq(Nat)
      BY Zenon, <2>3 DEF s
    <3> QED BY <3>1, SMT
  <2> QED BY Zenon, <1>1, <2>2, <2>4 DEF s
<1>7. ServerInv' /\ UpInv'
  BY Zenon, <1>1, <1>3, <1>6, Distinct DEF ServerInv, UpInv
<1>8. ASSUME Greeted PROVE Greeted'
  <2>1. down = <<>>
    BY Zenon, <1>1, <1>8, Distinct DEF Greeted
  <2>2. <<>> \o <<5, 0>> = <<5, 0>>
    BY SMT
  <2>3. <<>> \o <<5, NO_ACCEPTABLE_METHODS>> = <<5, NO_ACCEPTABLE_METHODS>>
    <3> DEFINE v == NO_ACCEPTABLE_METHODS
    <3> HIDE DEF v
    <3>1. <<>> \o <<5, v>> = <<5, v>>
      BY SMT
    <3> QED BY Zenon, <3>1 DEF v
  <2>4. down' \in Methods
    BY Zenon, <1>1, <2>1, <2>2, <2>3 DEF Methods
  <2> QED BY Zenon, <1>1, <1>6, <2>4 DEF Greeted
<1>9. ~Silent /\ reply = NoReply
  BY Zenon, <1>1, <1>3, <1>4, Distinct DEF Silent, ServerInv
<1>10. AtMwrite => AtMwrite'
  BY Zenon, <1>2, <1>8, <1>9 DEF AtMwrite, ServerMoves
<1>11. AtMread => AtMread'
  BY Zenon, <1>1, <1>2, <1>8, Distinct DEF AtMread, ServerMoves
<1>12. ~AtRwrite /\ ~AtRread
  BY Zenon, <1>1, Distinct DEF AtRwrite, AtRread
<1>13. ~AtRead
  <2>1. Grant # NoReply
    BY Zenon, ReplyBytes
  <2> QED BY Zenon, <1>9, <2>1 DEF AtRead
<1>14. PhaseInv'
  BY Zenon, <1>2, <1>3, <1>9, <1>10, <1>11, <1>12, <1>13 DEF PhaseInv, ServerMoves
<1>15. down' \in Seq(Bytes) /\ up' \in Seq(Bytes)
  <2>1. 5 \in Bytes /\ 0 \in Bytes /\ NO_ACCEPTABLE_METHODS \in Bytes
    BY Zenon, ByteValues
  <2> DEFINE v == NO_ACCEPTABLE_METHODS
  <2>2. down \in Seq(Bytes) /\ v \in Bytes
    BY Zenon, <1>3, <2>1 DEF TypeOK
  <2> HIDE DEF v
  <2>3. down \o <<5, 0>> \in Seq(Bytes) /\ down \o <<5, v>> \in Seq(Bytes)
    BY <2>1, <2>2, SMT
  <2>4. <<>> \in Seq(Bytes)
    BY SMT
  <2> QED BY Zenon, <1>1, <1>6, <2>3, <2>4 DEF v
<1>16. TypeOK'
  BY Zenon, <1>1, <1>2, <1>3, <1>15 DEF TypeOK, ServerMoves
<1> QED BY Zenon, <1>7, <1>14, <1>16 DEF IndInv

\* The server answers the request.
LEMMA AnswerRequestStep == IndInv /\ AnswerRequest => IndInv'
<1> SUFFICES ASSUME IndInv, AnswerRequest PROVE IndInv'
  OBVIOUS
<1>1. /\ server = "request" /\ Len(up) >= 10 /\ up' = SubSeq(up, 11, Len(up))
      /\ server' = "relay" /\ sent' = sent
      /\ \/ /\ \E r \in {Grant, Refusal, Grant6} : reply' = r /\ down' = down \o r
            /\ connected' = connected
         \/ up[1] # 5
  BY Zenon DEF AnswerRequest
<1>2. ServerMoves
  BY Zenon DEF AnswerRequest, ServerMoves, clientVars
<1>3. TypeOK /\ ServerInv /\ UpInv /\ PhaseInv
  BY Zenon DEF IndInv
<1>4. up # <<>>
  BY <1>1, SMT
<1>5. up \in Seq(Bytes) /\ Len(up) = 10 /\ up[1] = 5
  BY Zenon, <1>1, <1>3, <1>4, Distinct DEF UpInv, IsRequest, TypeOK
<1>6. up' = <<>>
  <2> DEFINE s == SubSeq(up, 11, 10)
  <2>1. Len(s) = 0 /\ s \in Seq(Bytes)
    BY <1>5, SMT
  <2> HIDE DEF s
  <2>2. s = <<>>
    BY <2>1, SMT
  <2> QED BY Zenon, <1>1, <1>5, <2>2 DEF s
<1>7. reply = NoReply /\ sent = 0 /\ down \in Seq(Bytes)
  BY Zenon, <1>1, <1>3, Distinct DEF ServerInv, TypeOK
<1>8. PICK r \in {Grant, Refusal, Grant6} : reply' = r /\ down' = down \o r
  BY Zenon, <1>1, <1>5
<1>9. r \in Seq(Bytes) /\ r # NoReply
  BY Zenon, ReplyBytes
<1>10. connected' = connected
  BY Zenon, <1>1, <1>5
<1>11. ServerInv' /\ UpInv'
  BY Zenon, <1>1, <1>6, <1>8, <1>9 DEF ServerInv, UpInv
<1>12. ASSUME NEW m \in Lefts, NEW k \in Nat, Rest(down, Wire(m, reply, sent), k)
       PROVE  /\ Rest(down', Wire(m, reply', sent'), k)
              /\ \A i \in 1 .. k : Wire(m, reply', sent')[i] = Wire(m, reply, sent)[i]
  <2>1. 0 \in 0 .. MaxPayload
    BY PayloadAssumption, SMT
  <2>2. Wire(m, reply, sent) = m /\ Wire(m, reply', sent') = m \o r
    BY Zenon, <1>1, <1>7, <1>8, <2>1, WireBytes
  <2>3. m \in Seq(Bytes) /\ Rest(down, m, k)
    BY Zenon, <1>12, <2>2, LeftBytes
  <2>4. Rest(down \o r, m \o r, k) /\ SameStart(m \o r, m, k)
    BY Zenon, <1>7, <1>9, <2>3, RestSend
  <2> QED BY Zenon, <1>8, <2>2, <2>4 DEF SameStart
<1>13. ~Silent /\ ~Greeted
  BY Zenon, <1>1, <1>4, Distinct DEF Silent, Greeted
<1>14. ~AtMwrite /\ ~AtMread
  BY Zenon, <1>4, <1>13 DEF AtMwrite, AtMread
<1>15. ~AtRead
  BY Zenon, <1>7, ReplyBytes DEF AtRead
<1>16. ASSUME AtRwrite PROVE AtRwrite'
  <2>1. op = "ok"
    BY Zenon, <1>4, <1>16 DEF AtRwrite
  <2>2. PICK m \in Lefts : Rest(down, Wire(m, reply, sent), 0)
    BY Zenon, <1>16, <2>1 DEF AtRwrite
  <2>3. 0 \in Nat
    BY SMT
  <2>4. Rest(down', Wire(m, reply', sent'), 0)
    BY Zenon, <1>12, <2>2, <2>3
  <2> QED BY Zenon, <1>1, <1>2, <2>1, <2>4, Distinct DEF AtRwrite, ServerMoves
<1>17. ASSUME AtRread PROVE AtRread'
  <2>1. got \in Nat
    <3>1. got \in 0 .. 10
      BY Zenon, <1>3 DEF TypeOK
    <3> QED BY <3>1, SMT
  <2>2. PICK m \in Lefts :
           /\ Rest(down, Wire(m, reply, sent), got)
           /\ \A i \in 1 .. got : remote_recv_buff[i] = Wire(m, reply, sent)[i]
    BY Zenon, <1>17 DEF AtRread
  <2>3. /\ Rest(down', Wire(m, reply', sent'), got)
        /\ \A i \in 1 .. got : Wire(m, reply', sent')[i] = Wire(m, reply, sent)[i]
    BY Zenon, <1>12, <2>1, <2>2
  <2>4. \A i \in 1 .. got : remote_recv_buff[i] = Wire(m, reply', sent')[i]
    BY Zenon, <2>2, <2>3
  <2> QED BY Zenon, <1>1, <1>2, <2>3, <2>4, Distinct DEF AtRread, ServerMoves
<1>18. PhaseInv'
  BY Zenon, <1>2, <1>3, <1>13, <1>14, <1>15, <1>16, <1>17 DEF PhaseInv, ServerMoves
<1>19. down' \in Seq(Bytes) /\ up' \in Seq(Bytes)
  BY <1>6, <1>7, <1>8, <1>9, SMT
<1>20. TypeOK'
  BY Zenon, <1>1, <1>2, <1>3, <1>8, <1>10, <1>19 DEF TypeOK, ServerMoves
<1> QED BY Zenon, <1>11, <1>18, <1>20 DEF IndInv

\* The target's next byte comes through the server.
LEMMA SendPayloadStep == IndInv /\ SendPayload => IndInv'
<1> SUFFICES ASSUME IndInv, SendPayload PROVE IndInv'
  OBVIOUS
<1> DEFINE e == <<Uninitialised + sent + 1>>
<1>1. /\ server = "relay" /\ reply \in {Grant, Grant6} /\ sent < MaxPayload
      /\ sent' = sent + 1 /\ down' = Append(down, Uninitialised + sent + 1)
      /\ connected' = connected /\ up' = up /\ server' = server /\ reply' = reply
  BY Zenon DEF SendPayload
<1>2. ServerMoves
  BY Zenon DEF SendPayload, ServerMoves, clientVars
<1>3. TypeOK /\ ServerInv /\ UpInv /\ PhaseInv
  BY Zenon DEF IndInv
<1>4. /\ down \in Seq(Bytes) /\ sent \in 0 .. MaxPayload /\ relayed \in Seq(Bytes)
      /\ reply \in {NoReply, Grant, Refusal, Grant6}
  BY Zenon, <1>3 DEF TypeOK
<1>5. /\ sent' \in 0 .. MaxPayload /\ e \in Seq(Bytes)
      /\ Payload(sent') = Payload(sent) \o e
  BY Zenon, <1>1, <1>4, PayloadNext
<1>6. down' = down \o e
  <2> DEFINE u == Uninitialised + sent + 1
  <2> HIDE DEF u
  <2>1. Append(down, u) = down \o <<u>>
    BY <1>4, SMT
  <2> QED BY Zenon, <1>1, <2>1 DEF u
<1> HIDE DEF e
<1>7. reply # NoReply
  BY Zenon, <1>1, ReplyBytes
<1>8. ServerInv' /\ UpInv'
  BY Zenon, <1>1, <1>2, <1>3, <1>7 DEF ServerInv, UpInv, ServerMoves
<1>9. ASSUME NEW m \in Lefts, NEW k \in Nat, Rest(down, Wire(m, reply, sent), k)
      PROVE  /\ Rest(down', Wire(m, reply', sent'), k)
             /\ \A i \in 1 .. k : Wire(m, reply', sent')[i] = Wire(m, reply, sent)[i]
  <2> DEFINE w == Wire(m, reply, sent)
  <2>1. w \in Seq(Bytes) /\ Wire(m, reply', sent') = w \o e
    BY ZenonT(30), <1>1, <1>4, WireBytes DEF e
  <2>2. Rest(down, w, k)
    BY Zenon, <1>9
  <2> HIDE DEF w
  <2>3. Rest(down \o e, w \o e, k) /\ SameStart(w \o e, w, k)
    BY Zenon, <1>4, <1>5, <2>1, <2>2, RestSend
  <2> QED BY Zenon, <1>6, <2>1, <2>3 DEF w, SameStart
<1>10. ~Silent /\ ~Greeted
  BY Zenon, <1>1, Distinct DEF Silent, Greeted
<1>11. ~AtMwrite /\ ~AtMread
  BY Zenon, <1>1, <1>10, Distinct DEF AtMwrite, AtMread
<1>12. ASSUME AtRwrite PROVE AtRwrite'
  <2>1. op = "ok"
    BY Zenon, <1>1, <1>12, Distinct DEF AtRwrite
  <2>2. PICK m \in Lefts : Rest(down, Wire(m, reply, sent), 0)
    BY Zenon, <1>12, <2>1 DEF AtRwrite
  <2>3. 0 \in Nat
    BY SMT
  <2>4. Rest(down', Wire(m, reply', sent'), 0)
    BY Zenon, <1>9, <2>2, <2>3
  <2> QED BY Zenon, <1>1, <1>2, <2>1, <2>4, Distinct DEF AtRwrite, ServerMoves
<1>13. ASSUME AtRread PROVE AtRread'
  <2>1. got \in Nat
    <3>1. got \in 0 .. 10
      BY Zenon, <1>3 DEF TypeOK
    <3> QED BY <3>1, SMT
  <2>2. PICK m \in Lefts :
           /\ Rest(down, Wire(m, reply, sent), got)
           /\ \A i \in 1 .. got : remote_recv_buff[i] = Wire(m, reply, sent)[i]
    BY Zenon, <1>13 DEF AtRread
  <2>3. /\ Rest(down', Wire(m, reply', sent'), got)
        /\ \A i \in 1 .. got : Wire(m, reply', sent')[i] = Wire(m, reply, sent)[i]
    BY Zenon, <1>9, <2>1, <2>2
  <2>4. \A i \in 1 .. got : remote_recv_buff[i] = Wire(m, reply', sent')[i]
    BY Zenon, <2>2, <2>3
  <2> QED BY Zenon, <1>1, <1>2, <2>3, <2>4, Distinct DEF AtRread, ServerMoves
<1>14. ASSUME AtRead PROVE AtRead'
  <2> DEFINE w == Payload(sent)
             k == Len(relayed)
  <2>1. w \in Seq(Bytes) /\ k \in Nat
    <3>1. w \in Seq(Bytes)
      BY Zenon, <1>4, PayloadBytes
    <3>2. k \in Nat
      BY <1>4, SMT
    <3> QED BY <3>1, <3>2
  <2>2. Rest(down, w, k) /\ \A i \in 1 .. k : relayed[i] = w[i]
    BY Zenon, <1>14 DEF AtRead
  <2> HIDE DEF w, k
  <2>3. Rest(down \o e, w \o e, k) /\ SameStart(w \o e, w, k)
    BY Zenon, <1>4, <1>5, <2>1, <2>2, RestSend
  <2>4. Rest(down', Payload(sent'), k) /\ \A i \in 1 .. k : relayed[i] = Payload(sent')[i]
    BY Zenon, <1>5, <1>6, <2>2, <2>3 DEF w, SameStart
  <2> QED BY Zenon, <1>1, <1>2, <1>14, <2>4 DEF AtRead, ServerMoves, k
<1>15. PhaseInv'
  BY Zenon, <1>2, <1>3, <1>10, <1>11, <1>12, <1>13, <1>14 DEF PhaseInv, ServerMoves
<1>16. down' \in Seq(Bytes)
  BY <1>4, <1>5, <1>6, SMT
<1>17. TypeOK'
  BY Zenon, <1>1, <1>2, <1>3, <1>5, <1>16 DEF TypeOK, ServerMoves
<1> QED BY Zenon, <1>8, <1>15, <1>17 DEF IndInv

-----------------------------------------------------------------------------
(* The theorems *)

\* A step that changes nothing.
LEMMA StutterInv == IndInv /\ UNCHANGED vars => IndInv'
<1> SUFFICES ASSUME IndInv, UNCHANGED vars PROVE IndInv'
  OBVIOUS
<1>1. /\ ServerMoves /\ connected' = connected /\ up' = up /\ down' = down
      /\ server' = server /\ reply' = reply /\ sent' = sent
  BY Zenon DEF vars, clientVars, serverVars, ServerMoves
<1>2. TypeOK' /\ ServerInv' /\ UpInv'
  BY ZenonT(30), <1>1 DEF IndInv, TypeOK, ServerInv, UpInv, ServerMoves
<1>3. (Silent => Silent') /\ (Greeted => Greeted')
  BY Zenon, <1>1 DEF Silent, Greeted
<1>4. (AtMwrite => AtMwrite') /\ (AtMread => AtMread') /\ (AtRwrite => AtRwrite')
  BY Zenon, <1>1, <1>3 DEF AtMwrite, AtMread, AtRwrite, ServerMoves
<1>5. (AtRread => AtRread') /\ (AtRead => AtRead')
  BY Zenon, <1>1 DEF AtRread, AtRead, ServerMoves
<1>6. PhaseInv'
  BY Zenon, <1>1, <1>3, <1>4, <1>5 DEF IndInv, PhaseInv, ServerMoves
<1> QED BY Zenon, <1>2, <1>6 DEF IndInv

\* The inductive invariant holds in every state of the negotiation, however the
\* operations, the server's answers, Stop() and the end of the connection
\* interleave, and however the bytes are cut into reads.
THEOREM Invariance == Spec => []IndInv
<1>1. IndInv /\ [Next]_vars => IndInv'
  <2> SUFFICES ASSUME IndInv, [Next]_vars PROVE IndInv'
    OBVIOUS
  <2>1. CASE Complete
    BY Zenon, <2>1, ConnectStep, WriteStep, ReadStep DEF Complete
  <2>2. CASE Client
    BY Zenon, <2>2, connectStep, MethodSelectionStep, SendRequestStep, AwaitReplyStep,
       ReadMoreStep, CheckReplyStep, RemoteReadStep, FailStep DEF Client
  <2>3. CASE Server
    BY Zenon, <2>3, AnswerMethodStep, AnswerRequestStep DEF Server
  <2>4. CASE Stop \/ SendPayload \/ ServerCloses
    BY Zenon, <2>4, StopStep, SendPayloadStep, ClosesStep
  <2>5. CASE UNCHANGED vars
    BY Zenon, <2>5, StutterInv
  <2> QED BY Zenon, <2>1, <2>2, <2>3, <2>4, <2>5 DEF Next
<1> QED BY <1>1, InitInv, PTL DEF Spec

\* For every target: while the session is in the map, what handleSocks5Request has
\* sent is a version 5 CONNECT to the application's address and port, in network
\* byte order, although it writes no version into the buffer.
THEOREM Socks5RequestNamesTarget == Spec => []RequestNamesTarget
<1>1. IndInv => RequestNamesTarget
  <2> SUFFICES ASSUME IndInv, mapped, server = "request", Len(up) >= 10
               PROVE  /\ up[1] = 5 /\ up[2] = 1 /\ up[4] = 1
                      /\ SubSeq(up, 5, 8) = Addr
                      /\ up[9] * 256 + up[10] = Port
    BY Zenon DEF RequestNamesTarget
  <2>1. up # <<>>
    BY SMT
  <2>2. IsRequest(up, mapped) /\ up \in Seq(Bytes)
    BY Zenon, <2>1, Distinct DEF IndInv, UpInv, TypeOK
  <2>3. /\ Len(up) = 10 /\ up[1] = 5 /\ up[2] = 1 /\ up[4] = 1
        /\ up[5] = Addr[1] /\ up[6] = Addr[2] /\ up[7] = Addr[3] /\ up[8] = Addr[4]
        /\ up[9] = High(Port) /\ up[10] = Low(Port)
    BY Zenon, <2>2 DEF IsRequest
  <2>4. up[9] * 256 + up[10] = Port
    <3>1. up[9] = High(Port) /\ up[10] = Low(Port)
      BY Zenon, <2>3
    <3>2. High(Port) * 256 + Low(Port) = Port
      BY PortBytes, SMT
    <3> QED BY <3>1, <3>2, SMT
  <2> DEFINE s == SubSeq(up, 5, 8)
  <2>5. s \in Seq(Bytes) /\ Len(s) = 4
    <3>1. up \in Seq(Bytes) /\ 5 \in 1 .. Len(up) /\ 8 \in 1 .. Len(up)
      BY <2>2, <2>3, SMT
    <3>2. s \in Seq(Bytes)
      BY <3>1, SMT
    <3>3. Len(s) = 8 - 5 + 1
      BY <3>1, SMT
    <3> QED BY <3>2, <3>3, SMT
  <2>6. s[1] = up[5] /\ s[2] = up[6] /\ s[3] = up[7] /\ s[4] = up[8]
    BY <2>2, <2>3, SMT
  <2> HIDE DEF s
  <2>7. Addr \in Seq(Bytes) /\ Len(Addr) = 4
    <3>1. Addr \in [1 .. 4 -> Bytes]
      BY AddrAssumption, ByteValues, Zenon
    <3> QED BY Zenon, <3>1, FourBytes
  <2>8. \A i \in 1 .. 4 : i = 1 \/ i = 2 \/ i = 3 \/ i = 4
    BY SMT
  <2>9. Len(s) = Len(Addr) /\ \A i \in 1 .. Len(s) : s[i] = Addr[i]
    BY Zenon, <2>3, <2>5, <2>6, <2>7, <2>8
  <2>10. s = Addr
    BY Zenon, <2>5, <2>7, <2>9, SameSeq
  <2> QED BY Zenon, <2>3, <2>4, <2>10 DEF s
<1> QED BY <1>1, Invariance, PTL

\* For every number of bytes that follow the grant: a session relays only after the
\* server has granted its request, and what it has relayed are the target's bytes
\* from the first one on.
THEOREM Socks5RelayAligned == Spec => []RelayAligned
<1>1. IndInv => RelayAligned
  <2> SUFFICES ASSUME IndInv, pc = "read"
               PROVE  reply = Grant /\ relayed = Payload(Len(relayed))
    BY Zenon DEF RelayAligned
  <2> DEFINE k == Len(relayed)
             w == Payload(sent)
             p == Payload(k)
  <2>1. /\ AtRead /\ relayed \in Seq(Bytes) /\ sent \in 0 .. MaxPayload
    BY Zenon DEF IndInv, PhaseInv, TypeOK
  <2>2. reply = Grant /\ k <= Len(w) /\ \A i \in 1 .. k : relayed[i] = w[i]
    BY Zenon, <2>1 DEF AtRead, Rest
  <2>3. Len(w) = sent /\ \A i \in 1 .. sent : w[i] = Uninitialised + i
    BY Zenon, <2>1, PayloadBytes
  <2>4. k \in Nat
    BY <2>1, SMT
  <2> HIDE DEF k, w
  <2>5. k \in 0 .. MaxPayload /\ \A i \in 1 .. k : i \in 1 .. sent
    BY <2>1, <2>2, <2>3, <2>4, PayloadAssumption, SMT
  <2>6. p \in Seq(Bytes) /\ Len(p) = k /\ \A i \in 1 .. k : p[i] = Uninitialised + i
    BY Zenon, <2>5, PayloadBytes
  <2> HIDE DEF p
  <2>7. \A i \in 1 .. k : relayed[i] = p[i]
    BY Zenon, <2>2, <2>3, <2>5, <2>6
  <2>8. Len(relayed) = Len(p) /\ \A i \in 1 .. Len(relayed) : relayed[i] = p[i]
    BY Zenon, <2>6, <2>7 DEF k
  <2>9. relayed = p
    BY Zenon, <2>1, <2>6, <2>8, SameSeq
  <2> QED BY Zenon, <2>2, <2>9 DEF p, k
<1> QED BY <1>1, Invariance, PTL
=============================================================================
