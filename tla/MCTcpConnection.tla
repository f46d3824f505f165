-------------------------- MODULE MCTcpConnection --------------------------
(* Two incarnations of a pair; the numbers of the first wrap. *)
EXTENDS TcpConnection

MCPeerISS == <<29, 14>>
============================================================================
