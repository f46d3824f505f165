----------------------------- MODULE MCTcpRelay -----------------------------
(***************************************************************************)
(* Instances of TcpRelay for TLC.  All connections use one 4-tuple, so     *)
(* that with two of them the second reuses the address and port of the     *)
(* first while coroutines of the first may still run.                      *)
(***************************************************************************)
EXTENDS TcpRelay

CONSTANTS c1, c2, t1

OneTuple == [c \in Conns |-> t1]
=============================================================================
