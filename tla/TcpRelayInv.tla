---------------------------- MODULE TcpRelayInv ----------------------------
(***************************************************************************)
(* The inductive invariant of TcpRelay: what has to be known of every      *)
(* reachable state for one more step to keep the safety properties.        *)
(***************************************************************************)
EXTENDS TcpRelay

\* Map and pcbs: a 4-tuple has at most one active pcb, so a tuple that is
\* found in the map can only be that of the pcb in hand.  Nothing runs for a
\* connection that was not accepted.
MapInv ==
    /\ MapMatchesPcbs
    /\ \A c, d \in Conns :
           Active(c) /\ Active(d) /\ TupleOf[c] = TupleOf[d] => c = d
    /\ \A c \in Conns :
           state[c] \in {"NONE", "SYN_RCVD"} =>
               pc[c]["start"] = "idle" /\ pc[c]["down"] = "idle"

\* Reading: the reader of ReadFromRemote exists only after the one of
\* handleRemoteRead has ended, and until then there is room for a read.  A read
\* that has completed returned at least one byte.
ReadInvOf(c) ==
    /\ pc[c]["down"] \in {"idle", "read"}
    /\ pc[c]["down"] = "read" => should_read_from_remote[c]
    /\ pc[c]["start"] # "done" =>
           /\ should_read_from_remote[c] /\ pc[c]["down"] = "idle"
           /\ snd_buf[c] >= ReadMax
    /\ pc[c]["down"] = "read" => snd_buf[c] >= ReadMax
    /\ \A r \in Readers :
           pc[c][r] = "read" /\ op[c][r] = "ok" => nread[c][r] > 0

ReadInv == \A c \in Conns : ReadInvOf(c)

\* Queues of adjacent intervals of a byte stream, as unsent, unacked and
\* pbuf_queue are: q covers exactly the offsets from lo to hi, in order, without empty elements
\* and with none longer than max.
Chain(q, lo, hi, max) ==
    /\ lo <= hi
    /\ \A i \in 1 .. Len(q) :
           /\ lo <= q[i][1] /\ q[i][1] < q[i][2] /\ q[i][2] <= hi
           /\ q[i][2] - q[i][1] <= max
    /\ \A i, j \in 1 .. Len(q) : i < j => q[i][2] <= q[j][1]
    /\ \A i \in 1 .. Len(q) - 1 : q[i][2] = q[i + 1][1]
    /\ IF Len(q) = 0 THEN lo = hi ELSE q[1][1] = lo /\ q[Len(q)][2] = hi

\* Sending: unacked and unsent are adjacent runs of the write stream.
SendInv ==
    \A c \in Conns :
        state[c] # "FREED" =>
            /\ Chain(unacked[c], acked[c], snd_nxt[c], ReadMax)
            /\ Chain(unsent[c], snd_nxt[c], WriteEnd(c), ReadMax)

\* The packets in a queue, r bytes having come, are one run of those bytes.
Front(q, r) == IF q = <<>> THEN r ELSE q[1][1]
Back(q, r) == IF q = <<>> THEN r ELSE q[Len(q)][2]
QueueOK(q, r) ==
    /\ Chain(q, Front(q, r), Back(q, r), SegMax) /\ Back(q, r) <= r
    /\ \A i \in 1 .. Len(q) : Len(q) - i <= Back(q, r) - q[i][2]

\* The bytes that are queued: all after those the writers took, up to rcvd,
\* except that the packet which finds its session closed is dropped with the pcb
Taken(c) == Front(pbuf_queue[c], rcvd[c])
QueueEnd(c) == Back(pbuf_queue[c], rcvd[c])

\* What a writer has in hand, and how much of it the server was given
Sent(c, w) == wr[c][w].pos - wr[c][w].lo
Unsent(c, w) == wr[c][w].hi - wr[c][w].pos

\* Receiving: every byte is credited, in the hands of a writer or queued, and
\* a writer that is not writing has nothing in hand.
UpInvOf(c) ==
    /\ rcv_wnd[c] + rcvd[c] - credited[c] = TCP_WND
    /\ QueueOK(pbuf_queue[c], rcvd[c])
    /\ state[c] # "FREED" => QueueEnd(c) = rcvd[c]
    /\ \A w \in Writers :
           /\ wr[c][w].lo <= wr[c][w].pos /\ wr[c][w].pos <= wr[c][w].hi
           /\ pc[c][w] # "write" => wr[c][w] = NoWrite
    /\ ~remote_sending[c] => pc[c]["up"] = "idle"
    /\ credited[c] + Sent(c, "start") + Sent(c, "up") <= Len(upstream[c])
    /\ Len(upstream[c]) + Unsent(c, "start") + Unsent(c, "up") <= Taken(c)

UpInv == \A c \in Conns : UpInvOf(c)

\* Forwarding: u went to the server, g is what the writers have in hand and f is
\* where the queue begins.  The writers hold disjoint packets from before the queue,
\* and no byte of u comes again, is still to be written or is in the queue.
Once(u, g, f) ==
    /\ \A i \in 1 .. Len(u) :
           /\ u[i] <= f
           /\ \A w \in Writers : u[i] <= g[w].pos \/ g[w].hi < u[i]
    /\ \A w \in Writers : g[w].hi <= f
    /\ \A w, v \in Writers : w # v => g[w].hi <= g[v].lo \/ g[v].hi <= g[w].lo
    /\ \A i, j \in 1 .. Len(u) : i # j => u[i] # u[j]

OnceInvOf(c) == Once(upstream[c], wr[c], Taken(c))

OnceInv == \A c \in Conns : OnceInvOf(c)

IndInv == TypeOK /\ MapInv /\ ReadInv /\ SendInv /\ UpInv /\ OnceInv
=============================================================================
