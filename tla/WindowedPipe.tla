---------------------------- MODULE WindowedPipe ----------------------------
(***************************************************************************)
(* What either direction of a relayed connection promises: bytes are       *)
(* accepted, later delivered and later still credited back, never more     *)
(* than a window of them is between acceptance and credit, and none of the *)
(* three counts ever goes back.                                            *)
(***************************************************************************)
EXTENDS Integers

CONSTANTS Pipes, Window

VARIABLES accepted, delivered, credit

Init ==
    /\ accepted = [p \in Pipes |-> 0]
    /\ delivered = [p \in Pipes |-> 0]
    /\ credit = [p \in Pipes |-> 0]

\* Only bytes delivered before may be credited, and only window credited
\* before may be used to accept.
Move(p) ==
    \E a \in accepted[p] .. credit[p] + Window, k \in credit[p] .. delivered[p] :
        \E d \in delivered[p] .. a :
            /\ accepted' = [accepted EXCEPT ![p] = a]
            /\ delivered' = [delivered EXCEPT ![p] = d]
            /\ credit' = [credit EXCEPT ![p] = k]

Next == \E p \in Pipes : Move(p)

Spec == Init /\ [][Next]_<<accepted, delivered, credit>>
=============================================================================
