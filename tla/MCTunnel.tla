------------------------------ MODULE MCTunnel ------------------------------
(* Tunnel for TLC: three kinds of packet. *)
EXTENDS Tunnel

MCPackets ==
    {[version |-> 4, proto |-> PROTO_TCP, dest |-> 10],
     [version |-> 4, proto |-> PROTO_UDP, dest |-> 8],
     [version |-> 4, proto |-> PROTO_UDP, dest |-> 239]}

=============================================================================
