----------------------------- MODULE ByteStream -----------------------------
(***************************************************************************)
(* What a TCP receiver promises its user: the bytes 1 .. Total, in order   *)
(* and each once, in pieces of any size, and then the end of the stream.   *)
(***************************************************************************)
EXTENDS Integers, Sequences

CONSTANT Total

VARIABLES
    out,    \* the bytes handed over
    closed  \* the end has been signalled

Init == out = <<>> /\ closed = FALSE

\* The last bytes and the end may come in one step.
Deliver(n) ==
    /\ ~closed /\ Len(out) + n <= Total
    /\ out' = out \o [i \in 1 .. n |-> Len(out) + i]
    /\ closed' \in IF Len(out) + n = Total THEN BOOLEAN ELSE {FALSE}

Next == \E n \in 0 .. Total : Deliver(n)

Spec == Init /\ [][Next]_<<out, closed>>
=============================================================================
