--------------------------- MODULE DatagramRelay ---------------------------
(***************************************************************************)
(* What the UDP side promises an application.  A datagram it sends is      *)
(* given to the SOCKS5 server at most once and unchanged.  For an answer   *)
(* it gets at most one packet: that answer or another one to the same      *)
(* port, whole, to the port that asked and from the address that was       *)
(* asked, or a mixture.  So an answer may be lost, and may come twice only *)
(* where another is lost.  Datagrams and answers may overtake each other.  *)
(***************************************************************************)
EXTENDS Naturals, Sequences, Functions

CONSTANTS Ports, Dests

VARIABLES asked, forwarded, answered, returned,
    mixed       \* the answers for which a mixture was returned

vars == <<asked, forwarded, answered, returned, mixed>>

Datagrams == [id : Nat, port : Ports, dest : Dests]

\* What the application sees of the answer r, which it gets instead of q
Returned(r, q) ==
    [id |-> r.id, port |-> r.req.port, from |-> r.req.dest, instead |-> q.id]

\* The application has got its packet for the answer q.
Served(q) == q.id \in mixed \/ \E p \in Range(returned) : p.instead = q.id

Init ==
    /\ asked = {} /\ answered = {} /\ mixed = {}
    /\ forwarded = <<>> /\ returned = <<>>

Ask(m) ==
    /\ m \in Datagrams /\ \A a \in asked : a.id # m.id
    /\ asked' = asked \cup {m}
    /\ UNCHANGED <<forwarded, answered, returned, mixed>>

Forward(m) ==
    /\ m \notin Range(forwarded)
    /\ forwarded' = Append(forwarded, m)
    /\ UNCHANGED <<asked, answered, returned, mixed>>

\* A request may be answered any number of times.
Answer(r) ==
    /\ r.req \in Range(forwarded) /\ \A a \in answered : a.id # r.id
    /\ answered' = answered \cup {r}
    /\ UNCHANGED <<asked, forwarded, returned, mixed>>

\* For q the application gets r, which is q itself unless q is lost.
Return(r, q) ==
    /\ r.req.port = q.req.port /\ ~Served(q)
    /\ returned' = Append(returned, Returned(r, q))
    /\ UNCHANGED <<asked, forwarded, answered, mixed>>

\* For q the application gets a mixture.
Garble(q) ==
    /\ ~Served(q)
    /\ mixed' = mixed \cup {q.id}
    /\ UNCHANGED <<asked, forwarded, answered, returned>>

Next ==
    \/ \E m \in asked' : Ask(m)
    \/ \E m \in asked : Forward(m)
    \/ \E r \in answered' : Answer(r)
    \/ \E q \in answered : Garble(q) \/ \E r \in answered : Return(r, q)

Spec == Init /\ [][Next]_vars
=============================================================================
