# TLA+ models of libtunosocks

libtunosocks turns the IP packets of a tun device into SOCKS5 connections. This
directory models the program in TLA+, checks the models with TLC on small
instances and proves the main safety properties with TLAPS for every instance.
Line references are to the sources under `src/`.

## 1. The system

| part | source | state | operations |
|---|---|---|---|
| TCP session | `net/tcp/tcp_session.h` | status, `pbuf_queue`, `remote_sending`, `should_read_from_remote`, `remote_recv_buff_`, three coroutines | `Start`, `Stop`, `ProxyTcpPacket`, `ReadFromRemote`, the handshake and relay steps |
| TCP handler | `net/tcp/tcphandler.cpp`, `tcp_session_map_def.h` | `session_map`, keyed by the 4-tuple of a pcb | `Handle`, `Clear` |
| lwIP callbacks | `net/lwip_tcp_callback.cpp` | none | accept, recv, sent, err |
| lwIP TCP | `lwip/core/tcp*.c` (vendored, modified 2.1.2) | the pcb: state, windows, `unsent`, `unacked` | `tcp_input`, `tcp_write`, `tcp_output`, `tcp_recved`, `tcp_close`, `tcp_abort` |
| UDP sessions | `net/udp/` | session map by source port; per session a socket, an endpoint, a saved header and a buffer | `Handle`, `SendPacketToRemote`, `Run`, `readFromRemote`, `handlerOnRemoteSent` |
| SOCKS5 messages | `net/protocol/` | none | builders and parsers of requests, replies and UDP headers |
| Packet dispatch | `net/packethandler.cpp`, `net/filter/udp_filter.h` | none | `Input`, `UdpFilter::Pass` |
| Tun injection | `tuntap/tuntaphelper.h`, `net/lwip_callback.h` | pending writes and their pbufs | `Inject`, the netif output function |
| Tun devices | `tuntap/tuntap_macos.cpp`, `tuntap_windows.cpp` | `tun_handle`, `need_restart` | `Open`, `Close` |
| Life cycle | `net/socksifier.cpp`, `lib/tunosocks.cpp` | tun reader, `tun_recv_buff_`, the descriptor, two io_contexts and threads | `Init`, `AsyncRun`, `Stop`, `Restart` |
| Single instance, watcher | `utils/app/` | bound UDP ports | exit when another instance runs, or when no watcher does |
| Installer, logging, file helpers | `tuntap/tuntapinstaller.*`, `utils/` | none that matters here | |

How they interact: the tun reader hands every packet to `PacketHandler::Input`,
which gives TCP (and ICMP) to lwIP and UDP to `UdpHandler`. lwIP reports TCP
events by callbacks; the callbacks look the session up in `TcpHandler` by the
4-tuple of the pcb. A session talks to the SOCKS5 server with coroutines and
hands data back to lwIP with `tcp_write`; lwIP sends segments through the netif,
which injects them into the tun device. Everything on the TCP side runs on the
one thread of `Socksifier`'s io_context; so does `UdpHandler::Handle`, while the
UDP completion handlers and readers run on a second thread.

What is hard about it:

- coroutines of one session that interleave at every `async_*` call, and two of
  them that write to one socket (`tcp_session.h:115` and `:376`);
- operations that completed before `Stop()` and whose handler runs after it, so
  that cancelling them has no effect;
- raw pointers between lwIP and the session in both directions: `original_pcb`
  in the session, `callback_arg` in the pcb, with lives that end independently;
- `tcp_write` without copy: lwIP keeps a pointer into `remote_recv_buff_`;
- flow control by hand: `tcp_recved` after the server took the bytes, reading
  from the server stopped and resumed by the send buffer's room;
- 4-tuples that come back while a session of an earlier connection still runs;
- a UDP session used by two threads, tun writes from two threads;
- `Stop` and `Restart` on the caller's thread while the tun reader runs on
  another, and a descriptor that is closed twice;
- SOCKS5 answers that arrive in pieces of any size;
- lwIP without its timers: `lwip_init` is called but `sys_check_timeouts` never
  is, so lwIP acknowledges, announces window and retransmits only in answer to
  a call or a segment.

What has to be true: no byte is lost, duplicated or reordered while both ends
stay open; window is given back once per byte and only after delivery; memory
in use is bounded by the windows; the session map and the pcbs agree; no
handler uses a pcb or a session that is gone; no connection disturbs another;
whatever was taken from the application is eventually written.

## 2. The modules

| module | about |
|---|---|
| `TcpRelay` | TCP session, handler, callbacks and the lwIP pcb, composed; properties |
| `WindowedPipe` | abstract specification of one direction of a relayed connection |
| `MCTcpRelay` | instances of `TcpRelay` for TLC |
| `TcpRelayInv` | the inductive invariant of `TcpRelay` |
| `TcpRelayDown` | sequences of adjacent intervals, effects of the shared operators, `TypeOK`; isolation of connections, session map, send queues and readers |
| `TcpRelayUp` | packet queue, writers and receive window |
| `TcpRelayProofs` | the theorems about `TcpRelay`, with the two refinements |
| `TcpSeq` | sequence numbers and their comparison |
| `TcpConnection`, `MCTcpConnection` | lwIP's pcb of one pair of addresses and ports through opening, reset, closing and reuse, over a tun that loses segments |
| `TcpConnectionInv`, `TcpConnectionProofs` | inductive invariant and theorems of `TcpConnection` |
| `TcpReceive`, `MCTcpReceive` | lwIP's reassembly and receive window |
| `TcpReceiveInv`, `TcpReceiveProofs` | inductive invariant and theorems of `TcpReceive`, with the refinement |
| `ByteStream` | abstract specification of what a TCP receiver delivers |
| `TcpSend`, `MCTcpSend` | lwIP's send queues, windows, congestion control and fast retransmit |
| `Socks5Handshake`, `MCSocks5Handshake` | the handshake with the server, byte by byte |
| `Socks5Proofs` | inductive invariant and theorems of `Socks5Handshake` |
| `Tunnel`, `MCTunnel` | life cycle, tun reader, packet dispatch, tun devices and lwIP's writes to the device |
| `TunnelProofs` | inductive invariant and theorems of `Tunnel` |
| `UdpRelay` | UDP handler, sessions and their writes to the tun device; properties |
| `DatagramRelay` | abstract specification of the UDP side |
| `MCUdpRelay` | instances of `UdpRelay` for TLC |
| `UdpRelayProofs` | inductive invariant and theorems of `UdpRelay`, with the refinement |

### TcpRelay and the code

A **step** is one handler as the io_context runs it: an input segment with all
the callbacks it triggers, or a coroutine from one suspension point to the next.
Between handlers the kernel completes asynchronous operations.

| variables | code |
|---|---|
| `state`, `callback_arg`, `rcv_wnd`, `snd_buf`, `snd_nxt`, `unsent`, `unacked`, `fin` | `struct tcp_pcb`; `callback_arg` is TRUE while the argument points to the session, `fin` is the FIN segment of `tcp_close` |
| `wnd` | `min(snd_wnd, cwnd)`, any value of `Windows` after each ACK |
| `session_map` | `TcpHandler::session_map`; the entry of a tuple, or `NoConn` |
| `status`, `pbuf_queue`, `remote_sending`, `should_read_from_remote`, `remote_recv_buff` | members of `TcpSession` |
| `pc[c][r]` | where coroutine `r` is suspended: `start` is that of `Start`, `up` that of `ProxyTcpPacket`, `down` that of `ReadFromRemote` |
| `op[c][r]` | its operation: pending, completed (`ok`, `bad`, `err`) with the handler queued |
| `wr`, `nread`, `write_ops` | the interval a writer has in hand and how far it got; the result of a read; the order in which pending `write_some`s reach the socket |
| `rcvd`, `credited`, `upstream`, `bytes_read`, `downstream`, `acked`, `remote` | the two ends: what the application sent, what `tcp_recved` was told, what the server was given and gave, what the application was sent and acknowledged, and the server's socket |
| `fault` | the first use of freed memory, or a failed assert; it ends the behaviour |

Actions `Recv*` are segments from the application: SYN, the handshake's ACK,
data, ACK, window update, FIN, ACK of our FIN, RST. A segment that carries
several of these is handled by `tcp_input` as the parts in this order, so each
part is an action. `Complete*`, `Fail*` and `RemoteClose` are the kernel and the
server. `HandshakeStep`, `StartFails`, `EnterRelaying`, `DrainStep`, `WriteMore`,
`UpStep`, `UpFails`, `ReadStep`, `ReadFails` are the coroutines.

Abstractions:

- bytes are their offsets in the stream and a pbuf or a segment is an interval
  of offsets; the content of `remote_recv_buff` and of segments sent from it is
  kept byte by byte, because `DownstreamIntact` is about it;
- each SOCKS5 message is sent or received as a whole and the reply is accepted
  or refused (`Socks5Handshake` has the bytes);
- `min(snd_wnd, cwnd)` is arbitrary; one `tcp_write` makes one segment of two pbufs,
  and is refused when the send buffer has no room for its bytes or
  `TCP_SND_QUEUELEN` pbufs would be exceeded (`TcpWriteOk`); a
  cumulative ACK is several ACKs of one segment; fast retransmit is left out
  (`TcpSend` has all of these);
- segments from the application arrive once and in order (`TcpReceive` shows
  what lwIP makes of others);
- a freed session's memory holds its old bytes or anything else (`Buffers`);
- every connection gets a pcb of its own; reuse of a freed pcb's memory by a
  later pcb is a use of freed memory and ends the behaviour like any other.

External code, modelled from how it is used: boost::asio's sockets.
`cancel()` aborts only operations still pending; `async_write` is repeated
`write_some`, each queued behind those already waiting on the socket.

### TcpConnection, TcpReceive, TcpSend and the code

lwIP's TCP is vendored and changed, and the relay rests on it in a configuration
its authors did not plan for, without timers. Three modules look at one aspect
each, with the rest held still, so that each can be detailed. All three keep the
names of `struct tcp_pcb`. The other end, the TCP of the local machine behind
the tun device, is external code and modelled as an RFC 793 endpoint with timers.

- **TcpConnection** (`tcp_listen_input`, `tcp_process`, `tcp_close`,
  `tcp_pcb_remove`, `tcp_recv_func`, `TcpHandler::Clear`). `pcb` is the active pcb
  of one pair of addresses and ports, `session` its session, `up` and `down` the
  segments in the tun device, which keeps their order and may lose some. An
  opening by the local machine is an *incarnation*; the field `inc` of a segment
  or pcb records which one it belongs to and guides no step. A segment carries at
  most one byte, but an incarnation may send more bytes than the window holds, so
  the window fills and `tcp_recved` opens it again. A session may end before it
  was accepted (`openRemoteSocket` fails) or at any later time. `infr` is `TF_INFR`:
  the FIN is retransmitted once for three duplicate acknowledgements. lwIP sends no
  data; allocation succeeds.
- **TcpReceive** (`tcp_receive`, `tcp_oos_insert_segment`, `tcp_recved`,
  `tcp_update_rcv_ann_wnd`). The sender may send any piece of its stream that its
  window allows at any time, again and in any order. `fate` says whether lwIP's
  answer is seen by the sender or lost. Bytes are their positions, so a wrong
  cut shows.
- **TcpSend** (`tcp_write` without copy, `tcp_output`, the ACK half of
  `tcp_receive`, `tcp_free_acked_segments`, `tcp_rexmit_fast`). Nagle is off
  (`lwip_tcp_callback.cpp:95`). `fault` is the one thing that may go wrong: a lost
  packet, or an old segment of the local machine that is repeated.

### Socks5Handshake and the code

`pc` is the operation that `Start`'s coroutine waits for, `op` how far it is, and
`remote_recv_buff` the ten bytes of the buffer that the method reply, the request
and the reply share. It starts uninitialised: the request's version byte is
what the method reply left there. `CompleteRead` takes any non-empty part of what
the server has sent; `ReadMore` is the loop inside `async_read`. A write may succeed
or fail after the server has closed. `Stop` cancels nothing when the status is
already CLOSE. The server is
external and follows RFC 1928. The bytes that follow its grant are numbered
(`Payload`), outside the range of a byte, so that one taken for the other shows.

### Tunnel and the code

Two threads: the caller's (`api`: `tunosocks_start`, `Stop` in two steps because
the io thread runs between the close of the socket and that of the device, and
`Restart`) and the io thread (`io`, the coroutine it runs). `coro` says where each
tun reader stands; `device` and `buff` are the packets in the device and in
`tun_recv_buff_`; `fds` says what each descriptor number refers to, because
`TuntapMacOS::Close` closes by number; a new descriptor gets the lowest free
number, as POSIX asks. TCP and UDP sessions take descriptors, and a session may
close its own at any time (a UDP session of the program never does; the model allows
more). `Init` picks the platform, and `Open` and `Close` are those of the macOS or
the Windows device. The Windows driver is assumed to accept the media disconnect.
`Open` and `assign` may fail; after a failed `assign` the device stays open and
`tun_socket` closed. A read may fail whenever the device likes (`FailRead`, and the
first disjunct of `async_read_some`): the coroutine returns at the first error, and
nothing but `Restart` starts another one; `broken` records that a read of the open
device failed. Writes fail only when they are cancelled or the socket is closed. `missed` and `overtaken` are history: a
coroutine that had a packet in hand at `Stop` cannot be cancelled, and a
`Restart` may overtake it.

### UdpRelay and the code

A **step** is what one of the two threads does up to the next point where the
other can see or change what it uses. `UdpHandler::Handle` is therefore three
steps of the tun thread: `Handle` finds the session or creates it, inserts it and
saves its header (the other thread does not know the session yet),
`SendPacketToRemote` copies the packet and starts the send, and `Run`, for a new
session, hands the coroutine over. The UDP thread runs `handlerOnRemoteSent`,
`StartReader` (the coroutine's first receive) and `readFromRemote` (from a
completed receive to the next one).

| variables | code |
|---|---|
| `tun_pc`, `cur`, `tun_recv_buff_` | where the tun thread is in `Handle`, its session, the packet in its buffer |
| `udp_session_map_` | `UdpHandler::udp_session_map_`, by source port |
| `recv_ep_`, `ip_udp_header_`, `session_status_`, `remote_recv_buff_` | members of `UdpSession`; the buffer holds a reply with its SOCKS5 header (`socks`) or the packet built from it (`ip`) |
| `bound`, `reader` | whether the socket has a port; the coroutine of `Run` |
| `pbufs`, `sends`, `tun_writes` | pbufs of `SendPacketToRemote`, its unfinished sends, unfinished writes to the tun device |
| `asked`, `forwarded`, `answered`, `inbox`, `returned`, `mixed` | datagrams of the applications, those the server got, its replies, the replies waiting in a socket, packets the applications got, each with the reply whose write it was taken for (`instead`), and the replies for which they got a mixture |

Abstractions: a datagram is its number, source port and destination; payloads and
checksums are left out. A reply has a length, because `Inject` is given a size: a
write that is pending when the next reply is received takes what the buffer holds
when the device gets to it. If that is the packet of a later reply no longer than
the size, the application gets that packet, perhaps for the second time; if the
packet is longer, or the buffer still holds the reply as it was received, it gets a
mixture (`Written`). A datagram whose `pbuf_take` fails is not sent. The server replies any number of times to a datagram
it got, in any order, from any of its endpoints; a datagram that never arrives
is one that is never sent or answered. `async_receive_from` may fail at any
time: on Windows an unreachable port and a reply longer than the buffer are such
errors. On macOS a reply longer than the buffer is cut, which the model does not
tell apart from a whole one. Applications have one address, that
of the tun device, so the source port identifies them. `handlerOnTimeUp` and the
timers are never started by the code.

## 3. What TLC checks

Each run uses the MC module of its component. `CHECK_DEADLOCK FALSE` everywhere,
because connections end and the bounds are reached: the system may stop.

| run | instance | checks |
|---|---|---|
| `tcp_relay` | window 3, send buffer 5, at most 4 queued pbufs (two per write), segments up to 2, reads up to 3, send windows 1 and 3, 4 bytes each way | `TypeOK`, `WindowConserved`, `QueueWithinWindow`, `ForwardedOnce`, `SingleReader`, `ReadFitsSendBuffer`, refinements `UpstreamIsPipe` and `DownstreamIsPipe`, liveness `UpstreamDrains` |
| `tcp_reuse` | two connections with one 4-tuple | `MapMatchesPcbs`, action property `Isolation` |
| `tcp_connection` | two incarnations, numbers modulo 32 that wrap, window 2, up to three bytes each, one loss | `AcceptedIsOpen`, `OwnBytes`, `EstablishedHasPcb`, action property `OrderlyClose`, liveness `OpenCompletes`, `CloseCompletes` |
| `tcp_receive` | 9 bytes and a FIN, window 6, mss 3, numbers modulo 64 that wrap | `QueueSound`, `WindowHonest`, refinement `ReceivesStream`, action property `EdgeNeverRetreats`, liveness `StreamEnds` |
| `tcp_send` | 7 bytes in writes of 1 and 3, send buffer 5, mss 2, peer's buffer 4 | `QueuesCover`, `RoomAccounted`, `WithinOffer`, `FastRetransmitRecovers`, liveness `AllAcknowledged` |
| `socks5_handshake` | one target, two bytes of payload, every cut of the answers | `RequestNamesTarget`, `RelayAligned`, liveness `HandshakeEnds`, `GrantHonoured` |
| `tunnel` | both platforms, two descriptors, two arriving packets of three kinds and two injected ones, one restart, reads that fail | `InputIntact`, `OperationsHeld`, liveness `PacketsRead`, `StopEndsReader` |
| `udp_relay` | two ports, two destinations (one of them 255.255.255.255), one server endpoint, two datagrams, two replies of two lengths | `ConeNat`, `ReaderReady`, `SendBufferHeld`, refinement `IsDatagramRelay`, liveness `RepliesAreRead` |

Why the bounds are enough:

- `MaxUp`, the bytes of the application, is larger than the window, which fills,
  empties and fills again; `MaxDown`, those of the server, bring the send
  buffer below the mark at which reading stops or, read one at a time, first reach
  the limit on pbufs (`TCP_SND_QUEUELEN`);
  segments of more than one byte make writes partial; two send windows, one
  smaller than what is unsent, hold segments back. Two connections are enough for
  reuse: a third meets the same map entry as the second. Symmetry is not used.
- `MaxInc`, `MaxBytes`, `MaxLoss`: two incarnations are an old pcb and a new SYN;
  three bytes are more than the window, so it fills and opens;
  one loss separates the two ends at any point of opening or closing.
  `MaxQueue` limits only what the local machine sends of its own accord. The
  initial numbers of two incarnations are further apart than a window, as
  RFC 793 asks.
- `Total` is larger than the window, and the window holds two segments of `mss`
  bytes with a gap of any size between pieces. `Modulus` is more than twice what
  is in flight, as 2^32 is, and the stream starts just before it wraps.
- `MaxData` is larger than the send buffer and than the peer's, so the
  window closes and opens; `MaxSaid` allows one data segment from the peer and,
  with it, one that is repeated.
- `MaxPayload`: two bytes follow a grant, so the ten-byte read could take one
  and the relay still read another.
- `MaxArrivals`, `MaxInjects`, `MaxRestarts`: one packet in hand and one in
  the device; two writes in order; one coroutine that `Stop` missed and
  one that `Restart` spawned.
- `MaxAsk` and `MaxAnswer`: two datagrams are a first and a later packet of one
  session, or the first packets of two; two replies are received one after the
  other into one buffer, the second longer, shorter or as long as the first. One
  endpoint is enough for the properties: none of them speaks of `recv_ep_`, and the
  proofs are for any number.

Some properties are conditional, and the condition is what the runs found:

- `QueuesCover` and `WithinOffer` exclude a repeated old segment. Its
  acknowledgement moves `lastack`, from which `tcp_output` measures the send
  window, but its window is ignored because its number is old
  (`tcp_in.c:1131`), so lwIP may send past the offer; a segment
  retransmitted then can stay in `unsent`, and `tcp_write` appends to it.
- `AllAcknowledged` assumes no loss. After a loss fast
  retransmit needs three duplicate acknowledgements
  (`FastRetransmitRecovers`); a lost last segment or window update is never
  repaired, as no timer runs.
- `OpenCompletes` excludes an old pcb in SYN_RCVD, which ignores a SYN with
  another number (`tcp_in.c:945`) and which no timer frees.
- `CloseCompletes` excludes the loss of lwIP's FIN or RST and of the last ACK:
  each is sent once. It also excludes a session that ended while the window was full
  (`Stuck`): its bytes are given back no more, no later byte and no FIN is taken, and
  `tcp_recv_func`, which would close the pcb, is not called again. `OrderlyClose` asks that all bytes have been given back to
  the window: otherwise `tcp_close` sends a reset.
- `ReadFitsSendBuffer` is about the room for bytes, the limit that
  `IsRemoteReadable` looks at. `tcp_write` also refuses bytes when too many pbufs are
  queued (65532 in this build, two for each read that is not acknowledged); nothing
  looks at that limit, the result of `tcp_write` is ignored, and the bytes are lost.
  The model loses them too; `DownstreamIsPipe` starts with what `tcp_write` took.
- `RequestNamesTarget` asks for the version, command, address and port. The reserved
  byte is sent as the uninitialised buffer had it.
- `GrantHonoured` asks that the method reply came in one piece: it is read with
  `async_read_some`, and the second byte of a divided one shifts the framing, so
  that a grant is taken for a refusal. `RelayAligned` holds without condition.
- `InputIntact` excludes a `Restart` that overtakes a coroutine `Stop` missed;
  `OperationsHeld` a second close that hit a session's socket;
  `StopEndsReader` is about macOS, as on Windows such a coroutine reads on.
- `PacketsRead` holds until a read of the device fails: the first error ends the
  reader. `RepliesAreRead` holds until a receive fails: after that the session goes
  on sending and reads no more.
- `IsDatagramRelay` does not promise that every answer comes once and whole: a
  pending write to the tun device refers to the buffer the next reply is received
  into. What it promises is that an application gets at most one packet for each
  answer, and a repeated or mixed one only in place of another answer to its port.

Every module states the types of its variables as `TypeOK`. Only that of
`TcpRelay` is among the properties of a run; that of `TcpSend`
holds on the instance above and becomes part of a run by one line in its cfg, and
those of the others are part of the inductive invariants that are proved. `CreditAfterDelivery` is proved, and on the instance it is part of
`UpstreamIsPipe`.

`ReceivesStream` maps `received` and `eof` to the output of `ByteStream`.
Both directions of a TCP connection refine `WindowedPipe`: upstream with *accepted* = received by
lwIP, *delivered* = written to the server, *credited* = told to `tcp_recved`;
downstream with *accepted* = taken by `tcp_write`, *delivered* = sent,
*credited* = acknowledged.

Fairness (`FairSpec`): the io_context runs every handler that is ready, so each
coroutine is weakly fair. The others are assumptions about the peers that the
liveness properties are stated under: the server answers the handshake, takes
bytes, sends bytes up to the bound, the kernel reports a failed or closed
socket, and the application's stack acknowledges what it got. Nothing is assumed
about segments the application sends, about FIN and RST, nor about when the
server closes. For UDP: the tun thread finishes `Handle`, the UDP thread runs
its handlers in turn, and a receive with a datagram waiting completes.
For lwIP (`TcpConnection`, `TcpReceive`, `TcpSend`): the read coroutine handles
what arrives, the session goes on writing and, while it is open, the server takes
what was written, and the local machine's TCP answers
and retransmits; nothing is assumed of lwIP beyond that, as it has no timers.
For the handshake: handlers run, the kernel completes what it can and the server
answers. For the tunnel: a read completes, or fails, when the device has a packet,
the io thread runs what is ready, and `Stop` returns once called.

Four runs show where the code does not do what a comment or document of the
repository says; each has its finding in `PROJECT.json`.

| run | property violated | what happens |
|---|---|---|
| `tcp_upstream_order` | `UpstreamInOrder` | two writers on one socket and a partial write interleave the stream |
| `tcp_downstream_content` | `DownstreamIntact` | an unsent segment's bytes are overwritten by the next read |
| `tcp_freed_use` | `NoFreedUse` | `Stop()` returns early on a closed session and leaves `callback_arg` set; a completion that `Stop()` could not cancel goes on with a freed pcb |
| `tcp_back_pressure` | `DownstreamResumes` | pausing the reader closes the session |

## 4. What is proved

Each component has one inductive invariant `IndInv`, a lemma for each action
(or kind of action) that it is preserved, a theorem `Spec => []IndInv`, and
the properties as consequences. TLC finds each `IndInv` true on the instance of
its component's run. The proofs use the constants' assumptions and nothing else
about their values.

### The TCP relay

`TcpRelayProofs`, for every set of connections and tuples and all sizes that
satisfy `ConnAssumption`, `SizeAssumption` and `QueueLenAssumption` (the pbuf limit
is any number):

| theorem | statement |
|---|---|
| `Invariance` | `Spec => []IndInv` |
| `TypeCorrect` | `Spec => []TypeOK` |
| `WindowIsConserved` | `Spec => []WindowConserved` |
| `CreditFollowsDelivery` | `Spec => []CreditAfterDelivery` |
| `QueueIsBounded` | `Spec => []QueueWithinWindow` |
| `NoByteTwice` | `Spec => []ForwardedOnce` |
| `MapIsExact` | `Spec => []MapMatchesPcbs` |
| `ConnectionsIsolated` | `Spec => Isolation` |
| `OneReader` | `Spec => []SingleReader` |
| `ReadsFit` | `Spec => []ReadFitsSendBuffer` |
| `UpstreamRefines` | `Spec => UpstreamIsPipe` |
| `DownstreamRefines` | `Spec => DownstreamIsPipe` |

`SizeAssumption` asks that sizes are positive and
`ReadMax <= LowWater <= TCP_SND_BUF`; the code has 1436, 2936 (the macro
`1500 - 60 - 4` is not in parentheses when it is doubled) and 65535.

None of the properties is inductive. `IndInv` (module `TcpRelayInv`) adds:

- **MapInv.** A 4-tuple has at most one active pcb, and nothing runs for a
  connection that was not accepted. Without it `Clear`, which looks a session up
  by 4-tuple, could find that of another connection; from it follow
  `MapMatchesPcbs` and `Isolation`.
- **ReadInv.** The reader of `ReadFromRemote` exists only after that of
  `handleRemoteRead` has ended, a reader at work implies
  `should_read_from_remote`, and until `Start`'s coroutine is done there is room
  for a whole read. It gives `SingleReader` and `ReadFitsSendBuffer`.
- **SendInv.** `unacked` and `unsent` are adjacent chains of intervals from the
  last acknowledgement to the end of what `tcp_write` took. It bounds `snd_buf`
  when an ACK gives room back, and with that `TypeOK`.
- **UpInv.** The queue is a chain that ends at the last byte received; what the
  two writers have in hand and what is written fills the stream before it, and
  credit is behind what was written. It is what makes `tcp_recved` add up
  (`WindowConserved`): the clamp is never reached because the bytes of a written
  packet are still missing from the window. `QueueOK` also says that behind each
  packet there are at least as many bytes as packets: with it the number of
  packets is bounded without a sum over the queue, which gives
  `QueueWithinWindow`.
- **OnceInv.** The two writers hold disjoint packets from before the queue, and
  nothing that was written is still in their hands or in the queue. Although two
  writers may put bytes out of order (`tcp_upstream_order`), neither repeats one.

Each part has one lemma per kind of step, and a frame lemma for the connections
that the step does not touch, which rests on `Isolation`. The refinements show
that every step of the relay is a step of `WindowedPipe` or leaves its variables
alone, connection by connection, from the same invariant.

### The TCP connection

`TcpConnectionProofs`, for any receive window, any number of incarnations, bytes and
losses and any initial sequence numbers that satisfy `ConnectionAssumption`:

| theorem | statement |
|---|---|
| `Invariance` | `Spec => []IndInv` |
| `TypeCorrect` | `Spec => []TypeOK` |
| `AcceptsOpenOnly` | `Spec => []AcceptedIsOpen` |
| `GivesOwnBytes` | `Spec => []OwnBytes` |
| `KeepsEstablished` | `Spec => []EstablishedHasPcb` |
| `ClosesInOrder` | `Spec => OrderlyClose` |

The assumption asks that the numbers two incarnations use are apart and that those
of one, with a window beyond them, are fewer than `Modulus`. It does not limit the
bytes to a window: the window may fill and open again. The code has 32-bit numbers,
and a machine that opens a pair again picks its initial number beyond the old ones
(RFC 793).

The properties are about one pcb, but what could break them is a segment that an
earlier incarnation left in a queue. `IndInv` (module `TcpConnectionInv`) therefore
speaks of every segment on its way:

- **Reached.** lwIP has reached incarnation `i` when neither its pcb nor a segment
  on its way to it is of an earlier one. The device keeps the order of segments, so
  this never becomes false, and an incarnation is seen established only when it is
  true (`PeerInv`): an old SYN cannot take the pcb's place afterwards.
- **UpInv.** A reset carries a number of an incarnation that was given up. The
  numbers of two incarnations are apart, so `tcp_process` takes it only for a pcb
  of that one, which gives `EstablishedHasPcb` and `OrderlyClose`; an
  acknowledgement is of an incarnation the local machine has seen established,
  which gives `AcceptedIsOpen`.
- **DownInv.** What lwIP says acknowledges a number of an incarnation it reached,
  and for the one being opened only the SYN, with the pcb still there: a late answer
  to an earlier incarnation does not open a new one.
- **PcbInv.** The pcb waits for the number after the bytes the session was given,
  so a byte that is in sequence is the next one (`OwnBytes`); what is missing from
  the window is at most what the session was given, so a connection that was given
  nothing has it whole.

One lemma says what `tcp_input` can do to the pcb (`InputEffect`), and one for each
step of the local machine what it sends; the invariant's parts are then kept step by
step from these.

### The TCP receiver

`TcpReceiveProofs`, for a stream of any length and for every window, segment size,
update threshold and initial sequence number (`ReceiveAssumption`):

| theorem | statement |
|---|---|
| `ReceiverInvariant` | `Spec => []IndInv` |
| `QueueStaysSound` | `Spec => []QueueSound` |
| `WindowStaysHonest` | `Spec => []WindowHonest` |
| `EdgeStands` | `Spec => EdgeNeverRetreats` |
| `ReceiverRefines` | `Spec => ReceivesStream` |

The assumption that carries the proof is `Total + TCP_WND + 1 < Modulus \div 2`: a
segment of the stream does not stay in the tun device until the numbers have come
half around. RFC 793 asks the same of the life time of a segment, and without it
an old segment would be taken for a new one whatever the code did. It makes all
numbers the receiver compares less than half of `Modulus` apart, and then
`TCP_SEQ_LT` orders positions in the stream (`HonestOrder`).

`IndInv` (module `TcpReceiveInv`) is therefore written with positions:

- **ReceivedInv.** What has been received is the front of the stream, and `rcv_nxt`
  is the number of the position after it.
- **QueueInv.** The queue is `Sound`: each segment holds what the stream has at its
  position (`Honest`), lies beyond `rcv_nxt` and inside the window, ends before the
  next one begins, and has no FIN unless it is the last. `QueueSound` says the same
  of neighbours and numbers; of any two segments and of positions it can be kept
  when segments are cut, removed and put in between.
- **WindowInv.** There is a position, the edge of the window last announced, that
  covers what the sender knows and that `rcv_ann_wnd` still reaches. It is what
  makes each new announcement at least as far, although `AnnouncedWindow` looks at
  wrapped numbers, and it bounds what arrives: an honest segment fits into the
  window, so the trimming of `FitWindow` is never needed, `rcv_wnd` never falls
  below zero (the assertion at `tcp_in.c:1556`), and what the queue gives up
  when the gap fills is delivered whole.

Three lemmas say what the loops of `tcp_receive` do. `WalkStops`: a walk over the
queue stops where its condition first fails. `QueueKeepsSound`: whichever way a
segment is put into a sound queue, the queue stays sound. `ChainedRun`: honest
segments that follow each other chain to a run of the stream. The first and the
last are inductions over a sequence; both go through the least counterexample
(`LeastNat`, from the well-foundedness of the natural numbers), for which no
theorem with an operator parameter is needed.

### The UDP relay

`UdpRelayProofs`, for all ports, destinations, endpoints, reply lengths and numbers
of datagrams and replies (`UdpAssumption`), with the two threads interleaved at will:

| theorem | statement |
|---|---|
| `Invariance` | `Spec => []IndInv` |
| `UdpIsConeNat` | `Spec => []ConeNat` |
| `UdpReaderReady` | `Spec => []ReaderReady` |
| `UdpSendBufferHeld` | `Spec => []SendBufferHeld` |
| `UdpIsDatagramRelay` | `Spec => IsDatagramRelay` |

`SessionInv` and `HandleInv` tie the session in the tun thread's hands to the map
entry of the packet in its buffer, which the other thread cannot change;
`SendsInv` gives every unfinished send a pbuf of its own; `ForwardInv` and `ReplyInv`
follow a datagram and its replies from place to place: a reply is found only in the
socket and the buffer of the session of the port that asked. `WriteInv` ties each
pending write to the reply it was started for, and `OnceInv` says that this reply is
nowhere else and that its write is taken once. Whatever the write then finds in the
buffer is a reply to the same port, or a mixture, which is what the refinement needs.

### The tunnel

`TunnelProofs`, for any packets, any set of descriptors and any number of
arrivals, failing reads, restarts and injected packets (`BoundsAssumption`), on both
platforms:

| theorem | statement |
|---|---|
| `Invariance` | `Spec => []IndInv` |
| `TunnelOperationsHeld` | `Spec => []OperationsHeld` |
| `TunnelInputIntact` | `Spec => []InputIntact` |

`LifeInv`, `DescriptorInv` and `OpenInv` say which of the device, the sessions and
the outstanding operations has which descriptor at each point of `Stop` and
`Restart`; `WriteInv` that pbufs are injected, written and freed in order;
`ReaderInv` that the outstanding reads are those of the waiting coroutines;
`NumberInv` that the buffer is older than what waits in the device and not older
than what `Input` saw. `IntactInv` then keeps one reader while no `Restart`
overtook a coroutine: between `Stop` and `Restart` every coroutine alive is one
that `Stop` missed.

### The SOCKS5 handshake

`Socks5Proofs`, for every address (`AddrAssumption`), every 16-bit port
(`PortAssumption`) and any number of bytes after the grant (`PayloadAssumption`):

| theorem | statement |
|---|---|
| `Invariance` | `Spec => []IndInv` |
| `Socks5RequestNamesTarget` | `Spec => []RequestNamesTarget` |
| `Socks5RelayAligned` | `Spec => []RelayAligned` |

`PhaseInv` says, for each operation of the coroutine, what is in the buffer and on
the wire. From the first read on, all that the server sends is one sequence
(`Wire`): what was left of the method reply, the reply, and the target's bytes.
What is still to be read is its rest after `got` bytes, and the buffer holds those
`got` bytes. Ten bytes that begin like a grant are then a grant and nothing else
(`WireGranted`): a byte left of the method reply is never 5. A method reply
that was read in two pieces can thus turn a grant into a refusal, but never
anything into a grant. `UpInv` says that the server
never has more than one message to read, and that the request in it names the
target unless `Stop()` came first.

### Only model-checked

- Liveness, in every component: it is out of the prover's reach, as are fairness
  and `ENABLED`.
- `TcpSend`: `QueuesCover`, `RoomAccounted`, `WithinOffer`,
  `FastRetransmitRecovers`. `tcp_write` cuts its bytes into segments and fills the
  last one up, and the acknowledgements that are on their way, with the windows they
  carry, decide what may be sent next; the inductive invariant has to speak of all
  of them at once and has not been found.
- The four properties that the code violates.

## 5. Not modelled, and the plan

Next is the inductive invariant of `TcpSend`: its queues stated element by element,
as `Sound` does for the receiver's, and the order of the windows on their way.

Not modelled, with the reason:

- **Most of `src/lwip`.** The directory is a full lwIP and by far the largest
  part of the sources. The program uses TCP over IPv4 on one netif, raw ICMP and
  pbufs, with `NO_SYS`; the application protocols, IPv6, PPP, DNS, DHCP, ARP,
  sockets and netconn code is compiled at most and never entered. IP reassembly
  is switched off. Of TCP, the timers (`tcp_tmr` and what it calls) never run,
  and active open and active close (SYN_SENT, FIN_WAIT_1, FIN_WAIT_2, CLOSING,
  TIME_WAIT) cannot be entered: the program only listens, and closes only after
  the peer's FIN.
- TCP options, checksums and failed allocations in lwIP; length fields and
  checksums of UDP packets; IP options.
- The content of ICMP replies, which lwIP makes itself.
- A second `tunosocks_start`: `netif_add` asserts that the loop interface is not
  yet there.
- The Linux device: it includes macOS headers, so there is no Linux build to model.
- Two threads that start writes on the tun descriptor at the same moment: the
  outcome is inside boost::asio and not defined.
- The single-instance and watcher classes: the call of `App::Init` in `main.cpp`
  is commented out.
- The tap driver installer, logging, file helpers and process start (shell
  commands, registry reads and I/O with no state a property is about), the stubs
  of the old library interface, and the SOCKS5 builders and parsers that
  nothing calls.
