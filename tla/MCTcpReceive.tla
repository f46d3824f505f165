---------------------------- MODULE MCTcpReceive ----------------------------
EXTENDS TcpReceive
=============================================================================
