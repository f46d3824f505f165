------------------------------ MODULE MCTcpSend ------------------------------
EXTENDS TcpSend
=============================================================================
