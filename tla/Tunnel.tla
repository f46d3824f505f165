------------------------------- MODULE Tunnel -------------------------------
(***************************************************************************)
(* The life cycle of the tunnel (net/socksifier.cpp), the coroutine that   *)
(* reads the tun device into the one shared buffer tun_recv_buff_, what    *)
(* PacketHandler::Input does with a packet, and the packets written to the *)
(* device by TuntapHelper::Inject.                                         *)
(*                                                                         *)
(* Two threads take turns: the caller of the library (api), which runs     *)
(* tunosocks_start, Socksifier::Stop and Socksifier::Restart, and the one  *)
(* thread of the io_context (io), which runs the completion handlers.      *)
(* boost::asio::spawn is called without an executor, so a new coroutine    *)
(* runs on the caller's thread up to its first read.                       *)
(*                                                                         *)
(* platform is fixed by Init: the macOS and the Windows build differ in    *)
(* Stop, Restart, Open and Close.                                          *)
(***************************************************************************)
EXTENDS Naturals, Sequences

CONSTANTS
    Packets,      \* the packets the local machine may send, records below
    Handles,      \* descriptor numbers, an interval 1..n; 0 is no descriptor
    MaxArrivals,  \* bound on the packets that arrive at the device
    MaxRestarts,  \* bound on calls of Restart
    MaxInjects    \* bound on packets written to the device

(* A packet: IP version, protocol, first byte of the destination.          *)
ASSUME PacketFields ==
    \A p \in Packets : DOMAIN p = {"version", "proto", "dest"}

ASSUME BoundsAssumption ==
    /\ Handles \subseteq Nat \ {0}
    /\ MaxArrivals \in Nat /\ MaxRestarts \in Nat /\ MaxInjects \in Nat

PROTO_ICMP == 1
PROTO_TCP == 6
PROTO_UDP == 17

Coroutines == 1 .. (MaxRestarts + 1)

VARIABLES
    platform,    \* "macos" or "windows"
    api,         \* the caller's thread: "new", "up", "stopping", "down", "failed"
    tun_handle,  \* ITuntap::tun_handle
    tun_socket,  \* the descriptor tun_socket_ owns, 0 when closed
    need_restart,\* TuntapWindows::need_restart
    fds,         \* what each descriptor number refers to
    sessions,    \* descriptor numbers the sockets of sessions hold
    device,      \* packets waiting in the tun device, each [id, packet]
    arrived,     \* number of packets that have arrived
    buff,        \* tun_recv_buff_
    pending,     \* coroutines with an outstanding read, in order
    coro,        \* where each coroutine stands
    got,         \* id of the packet whose length each coroutine's read returned
    io,          \* the coroutine the io thread is running, 0 when it polls
    seen,        \* tun_recv_buff_ as Input first looked at it
    handled,     \* history: what each call of Input was given and did
    missed,      \* coroutines the last Stop found with a packet in hand
    overtaken,   \* a Restart found a missed coroutine still running
    stolen,      \* Close has closed the descriptor of a session
    broken,      \* a read of the open device has failed since the last Stop
    writes,      \* outstanding writes to the device, in order
    pbufs,       \* state of the pbuf of each injected packet
    written      \* ids of the packets the device took, in order

lifeVars == <<platform, api, tun_handle, tun_socket, need_restart, fds, sessions>>
readVars == <<device, arrived, buff, pending, coro, got, io, seen>>
histVars == <<handled, missed, overtaken, stolen, broken>>
writeVars == <<writes, pbufs, written>>
vars == <<lifeVars, readVars, histVars, writeVars>>

NoPacket == [version |-> 0, proto |-> 0, dest |-> 0]
Nothing == [id |-> 0, packet |-> NoPacket]
Received == [id : 1 .. MaxArrivals, packet : Packets]

Init ==
    /\ platform \in {"macos", "windows"}
    /\ api = "new"
    /\ tun_handle = 0
    /\ tun_socket = 0
    /\ need_restart = FALSE
    /\ fds = [h \in Handles |-> "free"]
    /\ sessions = {}
    /\ device = <<>>
    /\ arrived = 0
    /\ buff = Nothing
    /\ pending = <<>>
    /\ coro = [c \in Coroutines |-> "none"]
    /\ got = [c \in Coroutines |-> 0]
    /\ io = 0
    /\ seen = Nothing
    /\ handled = <<>>
    /\ missed = {}
    /\ overtaken = FALSE
    /\ stolen = FALSE
    /\ broken = FALSE
    /\ writes = <<>>
    /\ pbufs = [i \in 1 .. MaxInjects |-> "none"]
    /\ written = <<>>

-----------------------------------------------------------------------------
(* The tun device of each platform.                                        *)

(* A new descriptor gets the lowest free number.                           *)
LowestFree(h) ==
    /\ h \in Handles /\ fds[h] = "free"
    /\ \A k \in Handles : fds[k] = "free" => h <= k

(* TuntapMacOS::Open creates a descriptor, and closes it again when the    *)
(* ioctl or the connect that follows fails.                                *)
OpenMacOS(ok) ==
    \E h \in Handles :
        /\ LowestFree(h)
        /\ tun_handle' = h
        /\ fds' = [fds EXCEPT ![h] = IF ok THEN "tun" ELSE "free"]

(* TuntapWindows::Open creates a handle unless an earlier Close has set    *)
(* need_restart.  It stays open when a DeviceIoControl that follows fails. *)
OpenWindows ==
    \/ need_restart /\ UNCHANGED <<tun_handle, fds>>
    \/ /\ ~need_restart
       /\ \E h \in Handles :
             /\ LowestFree(h)
             /\ tun_handle' = h
             /\ fds' = [fds EXCEPT ![h] = "tun"]

(* TuntapDevice::Open, which returns ok.                                   *)
Open(ok) ==
    \/ platform = "macos" /\ OpenMacOS(ok)
    \/ platform = "windows" /\ OpenWindows

(* TuntapMacOS::Close closes the descriptor number it remembers, whatever  *)
(* that number refers to by now.                                           *)
CloseMacOS ==
    /\ fds' = [fds EXCEPT ![tun_handle] = "free"]
    /\ stolen' = (stolen \/ fds[tun_handle] = "session")
    /\ UNCHANGED need_restart

(* TuntapWindows::Close disconnects the media, which the driver is assumed *)
(* to accept, and keeps the handle.                                        *)
CloseWindows == need_restart' = TRUE /\ UNCHANGED <<fds, stolen>>

(* TuntapDevice::Close                                                     *)
Close ==
    \/ platform = "macos" /\ CloseMacOS
    \/ platform = "windows" /\ CloseWindows

-----------------------------------------------------------------------------
(* Reading the device.                                                     *)

(* tun_socket_.async_read_some into tun_recv_buff_.  It fails if the       *)
(* descriptor is closed, and the device may fail it; on macOS the          *)
(* operation is tried at once when no other waits; otherwise it waits.     *)
async_read_some(c) ==
    \/ /\ coro' = [coro EXCEPT ![c] = "error"]
       /\ broken' = (broken \/ tun_socket' # 0)
       /\ UNCHANGED <<device, buff, pending, got>>
    \/ /\ tun_socket' # 0 /\ UNCHANGED broken
       /\ IF platform = "macos" /\ pending = <<>> /\ device # <<>>
          THEN /\ coro' = [coro EXCEPT ![c] = "read"]
               /\ buff' = Head(device)
               /\ got' = [got EXCEPT ![c] = Head(device).id]
               /\ device' = Tail(device)
               /\ UNCHANGED pending
          ELSE /\ coro' = [coro EXCEPT ![c] = "waiting"]
               /\ pending' = Append(pending, c)
               /\ UNCHANGED <<device, buff, got>>

(* The oldest outstanding read takes the next packet: in the io thread's   *)
(* poll on macOS, in the kernel at any time on Windows.                    *)
CompleteRead ==
    /\ pending # <<>>
    /\ device # <<>>
    /\ platform = "windows" \/ io = 0
    /\ LET c == Head(pending)
       IN  /\ coro' = [coro EXCEPT ![c] = "read"]
           /\ got' = [got EXCEPT ![c] = Head(device).id]
    /\ buff' = Head(device)
    /\ device' = Tail(device)
    /\ pending' = Tail(pending)
    /\ UNCHANGED <<lifeVars, arrived, io, seen, histVars, writeVars>>

(* The device fails the oldest outstanding read.                           *)
FailRead ==
    /\ pending # <<>>
    /\ platform = "windows" \/ io = 0
    /\ coro' = [coro EXCEPT ![Head(pending)] = "error"]
    /\ pending' = Tail(pending)
    /\ broken' = TRUE
    /\ UNCHANGED <<lifeVars, device, arrived, buff, got, io, seen, handled, missed,
                   overtaken, stolen, writeVars>>

(* The io thread resumes a coroutine, whose read has failed or succeeded.  *)
Resume(c) ==
    /\ io = 0
    /\ \/ /\ coro[c] = "error"
          /\ coro' = [coro EXCEPT ![c] = "returned"]
          /\ UNCHANGED <<io, seen>>
       \/ /\ coro[c] = "read"
          /\ coro' = [coro EXCEPT ![c] = "input"]
          /\ io' = c
          /\ seen' = buff
    /\ UNCHANGED <<lifeVars, device, arrived, buff, pending, got, histVars,
                   writeVars>>

(* UdpFilter: the first byte of the destination, as an unsigned number.    *)
isMulticast(ip) == ip \in 224 .. 239
isReservedAddress(ip) == ip \in {10, 127}
Pass(ip) == ~isMulticast(ip) /\ ~isReservedAddress(ip)

(* Where PacketHandler::Input sends a packet.                              *)
Destination(p) ==
    CASE p.version # 4 -> "dropped"
      [] p.version = 4 /\ p.proto = PROTO_UDP ->
            IF Pass(p.dest) THEN "udp" ELSE "dropped"
      [] p.version = 4 /\ p.proto \in {PROTO_TCP, PROTO_ICMP} -> "lwip"
      [] OTHER -> "dropped"

(* PacketHandler::Input on the buffer.  Another thread may have written    *)
(* the buffer since Input started: it may see either packet.  A connection *)
(* request or the first datagram of a port makes a session, whose socket   *)
(* gets the lowest free descriptor.                                        *)
Input(c) ==
    /\ io = c
    /\ coro[c] = "input"
    /\ \E b \in {seen, buff} :
         LET where == Destination(b.packet)
         IN  /\ handled' = Append(handled,
                    [id |-> b.id, size |-> got[c], packet |-> b.packet, to |-> where])
             /\ \/ UNCHANGED <<fds, sessions>>
                \/ /\ where # "dropped" /\ b.packet.proto # PROTO_ICMP
                   /\ \E h \in Handles :
                         /\ LowestFree(h)
                         /\ fds' = [fds EXCEPT ![h] = "session"]
                         /\ sessions' = sessions \union {h}
    /\ coro' = [coro EXCEPT ![c] = "again"]
    /\ seen' = Nothing
    /\ UNCHANGED <<platform, api, tun_handle, tun_socket, need_restart, device,
                   arrived, buff, pending, got, io, missed, overtaken, stolen,
                   broken, writeVars>>

(* The loop of the coroutine: read again.                                  *)
ReadUnlessDropped(c) ==
    /\ io = c
    /\ coro[c] = "again"
    /\ io' = 0
    /\ UNCHANGED tun_socket
    /\ IF handled[Len(handled)].to = "dropped"
       THEN /\ coro' = [coro EXCEPT ![c] = "returned"]
            /\ UNCHANGED <<device, buff, pending, got, broken>>
       ELSE async_read_some(c)
    /\ UNCHANGED <<platform, api, tun_handle, need_restart, fds, sessions,
                   arrived, seen, handled, missed, overtaken, stolen, writeVars>>
ReadAgain(c) ==
    /\ io = c
    /\ coro[c] = "again"
    /\ io' = 0
    /\ UNCHANGED tun_socket
    /\ async_read_some(c)
    /\ UNCHANGED <<platform, api, tun_handle, need_restart, fds, sessions,
                   arrived, seen, handled, missed, overtaken, stolen, writeVars>>

(* A session ends and closes the descriptor its socket holds.              *)
CloseSession(h) ==
    /\ io = 0
    /\ h \in sessions
    /\ sessions' = sessions \ {h}
    /\ fds' = [fds EXCEPT ![h] = "free"]
    /\ UNCHANGED <<platform, api, tun_handle, tun_socket, need_restart,
                   readVars, histVars, writeVars>>

-----------------------------------------------------------------------------
(* Writing to the device.                                                  *)

(* netif_output_func copies the packet to a new pbuf and TuntapHelper      *)
(* ::Inject starts a write of it, from the io thread.  Writes wait in the  *)
(* order in which they were started.                                       *)
InjectAndFree ==
    \E i \in 1 .. MaxInjects :
        /\ api \notin {"new", "failed"}
        /\ pbufs[i] = "none"
        /\ \A j \in 1 .. i - 1 : pbufs[j] # "none"
        /\ pbufs' = [pbufs EXCEPT ![i] = "freed"]
        /\ writes' = Append(writes, i)
        /\ UNCHANGED <<lifeVars, readVars, histVars, written>>
Inject ==
    \E i \in 1 .. MaxInjects :
        /\ api \notin {"new", "failed"}
        /\ pbufs[i] = "none"
        /\ \A j \in 1 .. i - 1 : pbufs[j] # "none"
        /\ IF tun_socket = 0
           THEN pbufs' = [pbufs EXCEPT ![i] = "error"] /\ UNCHANGED writes
           ELSE /\ pbufs' = [pbufs EXCEPT ![i] = "writing"]
                /\ writes' = Append(writes, i)
        /\ UNCHANGED <<lifeVars, readVars, histVars, written>>

(* The device takes the oldest packet.                                     *)
CompleteWrite ==
    /\ writes # <<>>
    /\ pbufs' = [pbufs EXCEPT ![Head(writes)] = "written"]
    /\ written' = Append(written, Head(writes))
    /\ writes' = Tail(writes)
    /\ UNCHANGED <<lifeVars, readVars, histVars>>

(* The write's handler frees the pbuf unless the write failed.             *)
handlerOnTunInjectWithPbuf(i) ==
    /\ io = 0
    /\ \/ pbufs[i] = "written" /\ pbufs' = [pbufs EXCEPT ![i] = "freed"]
       \/ pbufs[i] = "error" /\ pbufs' = [pbufs EXCEPT ![i] = "leaked"]
    /\ UNCHANGED <<lifeVars, readVars, histVars, writes, written>>

-----------------------------------------------------------------------------
(* The caller of the library.                                              *)

(* TUN_RECV_COROUTINE: spawn the next coroutine, which starts its first    *)
(* read on the caller's thread.                                            *)
Spawn ==
    \E c \in Coroutines :
        /\ coro[c] = "none"
        /\ \A d \in 1 .. c - 1 : coro[d] # "none"
        /\ async_read_some(c)

(* tunosocks_start: Init, then AsyncRun.  A second call never returns, as  *)
(* lwip_init asserts that its netif is not yet added, so it is made once.  *)
(* When assign fails the device stays open and tun_socket_ closed.         *)
tunosocks_start ==
    /\ api = "new"
    /\ \E ok, assigned \in BOOLEAN :
         /\ Open(ok)
         /\ IF ok /\ assigned
            THEN api' = "up" /\ tun_socket' = tun_handle' /\ Spawn
            ELSE /\ api' = "failed"
                 /\ UNCHANGED <<tun_socket, device, buff, pending, coro, got,
                                broken>>
    /\ UNCHANGED <<platform, need_restart, sessions, arrived, io, seen,
                   handled, missed, overtaken, stolen, writeVars>>

(* tun_socket_.cancel: every outstanding operation fails.                  *)
CancelNothing == UNCHANGED <<coro, pending, pbufs, writes>>
CancelOperations ==
    /\ coro' = [c \in Coroutines |->
           IF \E k \in DOMAIN pending : pending[k] = c THEN "error" ELSE coro[c]]
    /\ pending' = <<>>
    /\ pbufs' = [i \in 1 .. MaxInjects |->
           IF \E k \in DOMAIN writes : writes[k] = i THEN "error" ELSE pbufs[i]]
    /\ writes' = <<>>

InHand == {c \in Coroutines : coro[c] \in {"read", "input", "again"}}

(* tun_socket_.close, which only the macOS build calls.                    *)
KeepSocket == UNCHANGED <<tun_socket, fds, device>>
CloseSocket ==
    IF platform = "macos"
    THEN /\ tun_socket' = 0
         /\ fds' = [fds EXCEPT ![tun_socket] = "free"]
         /\ device' = <<>>
    ELSE UNCHANGED <<tun_socket, fds, device>>

(* Socksifier::Stop up to TuntapDevice::Close.                             *)
Stop ==
    /\ api = "up"
    /\ api' = "stopping"
    /\ CancelOperations
    /\ missed' = missed \union InHand /\ broken' = FALSE
    /\ CloseSocket
    /\ UNCHANGED <<platform, tun_handle, need_restart, sessions, arrived, buff,
                   got, io, seen, handled, overtaken, stolen, written>>

(* The rest of Stop.  On macOS the descriptor is closed a second time.  On *)
(* Windows the media is disconnected, and what waited in it is lost.       *)
StopDevice ==
    /\ api = "stopping"
    /\ api' = "down"
    /\ Close
    /\ device' = <<>>
    /\ UNCHANGED <<platform, tun_handle, tun_socket, sessions, arrived, buff,
                   pending, coro, got, io, seen, handled, missed, overtaken,
                   broken, writeVars>>

(* Socksifier::Restart.  Windows keeps its handle and assigns nothing.     *)
Restart ==
    /\ api = "down"
    /\ \E c \in Coroutines : coro[c] = "none"
    /\ \E ok, assigned \in BOOLEAN :
         /\ Open(ok)
         /\ IF ok /\ (assigned \/ platform = "windows")
            THEN /\ api' = "up"
                 /\ tun_socket' = tun_handle'
                 /\ Spawn
                 /\ overtaken' = (overtaken \/ \E c \in missed :
                                     coro[c] \notin {"error", "returned"})
            ELSE UNCHANGED <<api, tun_socket, device, buff, pending, coro, got,
                             overtaken, broken>>
    /\ UNCHANGED <<platform, need_restart, sessions, arrived, io, seen, handled,
                   missed, stolen, writeVars>>

(* The local machine sends a packet.                                       *)
Arrive ==
    /\ api = "up" \/ (api = "stopping" /\ platform = "windows")
    /\ arrived < MaxArrivals
    /\ arrived' = arrived + 1
    /\ \E p \in Packets :
         device' = Append(device, [id |-> arrived + 1, packet |-> p])
    /\ UNCHANGED <<lifeVars, buff, pending, coro, got, io, seen, histVars,
                   writeVars>>

Next ==
    \/ tunosocks_start
    \/ Stop
    \/ StopDevice
    \/ Restart
    \/ Arrive
    \/ CompleteRead
    \/ FailRead
    \/ \E c \in Coroutines : Resume(c) \/ Input(c) \/ ReadAgain(c)
    \/ \E h \in Handles : CloseSession(h)
    \/ Inject
    \/ CompleteWrite
    \/ \E i \in 1 .. MaxInjects : handlerOnTunInjectWithPbuf(i)

Spec == Init /\ [][Next]_vars

(* The device completes the oldest read once it has a packet, the io       *)
(* thread goes on while a coroutine is ready to run, and Stop, once        *)
(* called, returns.  Nothing makes a caller call, a packet arrive or the   *)
(* device take a packet.                                                   *)
FairSpec ==
    /\ Spec
    /\ WF_vars(CompleteRead)
    /\ WF_vars(StopDevice)
    /\ WF_vars(\E c \in Coroutines : Resume(c) \/ Input(c) \/ ReadAgain(c))

-----------------------------------------------------------------------------
(* Type correctness of the state of Socksifier, the device and the writes. *)
TypeOK ==
    /\ platform \in {"macos", "windows"}
    /\ api \in {"new", "up", "stopping", "down", "failed"}
    /\ tun_handle \in Handles \union {0} /\ tun_socket \in Handles \union {0}
    /\ need_restart \in BOOLEAN
    /\ fds \in [Handles -> {"free", "tun", "session"}]
    /\ sessions \subseteq Handles
    /\ device \in Seq(Received)
    /\ arrived \in 0 .. MaxArrivals
    /\ buff \in Received \union {Nothing}
    /\ seen \in Received \union {Nothing}
    /\ pending \in Seq(Coroutines)
    /\ coro \in [Coroutines -> {"none", "waiting", "read", "error", "input",
                               "again", "returned"}]
    /\ got \in [Coroutines -> 0 .. MaxArrivals]
    /\ io \in Coroutines \union {0}
    /\ missed \subseteq Coroutines
    /\ overtaken \in BOOLEAN /\ stolen \in BOOLEAN /\ broken \in BOOLEAN
    /\ writes \in Seq(1 .. MaxInjects) /\ written \in Seq(1 .. MaxInjects)
    /\ pbufs \in [1 .. MaxInjects ->
                    {"none", "writing", "written", "error", "freed", "leaked"}]

Live(c) == coro[c] \in {"waiting", "read", "input", "again"}

OneReader == \A c, d \in Coroutines : Live(c) /\ Live(d) => c = d

Unicast(p) == p.dest \notin {10, 127} \union 224 .. 239

(* Unless a Restart overtook a coroutine that Stop had missed because it   *)
(* had a packet in hand, at most one coroutine reads or holds a packet, so *)
(* that tun_recv_buff_ serves one: every call of PacketHandler::Input is   *)
(* given one packet whole, with the length of that packet, in the order in *)
(* which the device received them and none twice; a UDP packet reaches the *)
(* UDP relay when its destination is neither multicast nor reserved, and   *)
(* never lwIP.                                                             *)
InputIntact ==
    overtaken \/
        /\ OneReader
        /\ \A k \in DOMAIN handled :
              LET h == handled[k]
              IN  /\ h.id = h.size
                  /\ h.to = "udp" <=> h.packet.version = 4
                         /\ h.packet.proto = PROTO_UDP /\ Unicast(h.packet)
                  /\ h.to = "lwip" <=> h.packet.version = 4
                         /\ h.packet.proto \in {PROTO_TCP, PROTO_ICMP}
        /\ \A j, k \in DOMAIN handled :
              j < k => handled[j].id < handled[k].id

(* What an outstanding operation refers to stays.  Reads and writes are    *)
(* outstanding only on an open tun_socket_, and that descriptor is the     *)
(* device, unless the second close of it by TuntapMacOS::Close had hit a   *)
(* session that had taken its number: that session's own close may then    *)
(* hit the device.  A pbuf given to Inject stays allocated until the       *)
(* device has taken it and its handler has run, and the device takes       *)
(* packets in the order of their injection.                                *)
OperationsHeld ==
    /\ pending # <<>> \/ writes # <<>> => tun_socket # 0
    /\ tun_socket # 0 /\ ~stolen => fds[tun_socket] = "tun"
    /\ \A k \in DOMAIN writes : pbufs[writes[k]] = "writing"
    /\ \A i \in 1 .. MaxInjects :
          pbufs[i] = "freed" => \E k \in DOMAIN written : written[k] = i
    /\ \A j, k \in DOMAIN (written \o writes) :
          j < k => (written \o writes)[j] < (written \o writes)[k]

(* What waits in the device is read, or lost when the device is stopped:   *)
(* while the tunnel is up some coroutine always reads, as long as the      *)
(* device fails no read.  The first error ends the coroutine, and nothing  *)
(* but Restart starts another.                                             *)
PacketsRead == device # <<>> ~> device = <<>> \/ broken

(* On macOS, which closes the descriptor, every coroutine returns after    *)
(* Stop unless Restart opens the device first.                             *)
StopEndsReader ==
    (platform = "macos" /\ api = "down")
        ~> (api = "up" \/ \A c \in Coroutines : coro[c] \in {"none", "returned"})

=============================================================================
