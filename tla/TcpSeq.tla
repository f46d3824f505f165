------------------------------- MODULE TcpSeq -------------------------------
(***************************************************************************)
(* Sequence numbers of TCP: unsigned numbers that wrap, compared by the    *)
(* sign of their difference (lwip/priv/tcp_priv.h).                        *)
(***************************************************************************)
EXTENDS Integers

CONSTANT Modulus  \* 2^32 in the code

ASSUME ModulusAssumption == Modulus \in Nat \ {0} /\ Modulus % 2 = 0

SeqNo == 0 .. Modulus - 1

Plus(a, n) == (a + n) % Modulus
Minus(a, b) == (a - b) % Modulus

\* Mutant of TCP_SEQ_LT: numbers are compared as they are.
SeqLessUnsigned(a, b) == a < b

\* The difference as a signed number is negative.
TCP_SEQ_LT(a, b) == Minus(a, b) >= Modulus \div 2
TCP_SEQ_LEQ(a, b) == a = b \/ TCP_SEQ_LT(a, b)
TCP_SEQ_BETWEEN(a, b, c) == TCP_SEQ_LEQ(b, a) /\ TCP_SEQ_LEQ(a, c)
=============================================================================
