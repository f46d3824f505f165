---------------------------- MODULE TunnelProofs ----------------------------
(***************************************************************************)
(* Proofs about Tunnel for any set of packets and of descriptors and any   *)
(* number of arrivals, restarts and injected packets: the inductive        *)
(* invariant and the two safety properties.                                *)
(***************************************************************************)
EXTENDS Tunnel, TLAPS

-----------------------------------------------------------------------------
(* The inductive invariant *)

Handled == [id : 0 .. MaxArrivals, size : 0 .. MaxArrivals,
            packet : Packets \union {NoPacket}, to : {"udp", "lwip", "dropped"}]

\* The device and the flags of each platform follow the caller.
LifeInv ==
    /\ api \in {"new", "failed"} => tun_socket = 0 /\ ~need_restart
    /\ platform = "macos" => ~need_restart /\ (api # "up" => tun_socket = 0)
    /\ platform = "windows" =>
           /\ api \in {"up", "stopping", "down"} =>
                  tun_socket = tun_handle /\ tun_handle # 0
           /\ api = "down" => need_restart

\* Until a session has lost its descriptor, the device and the sessions hold
\* different ones.
DescriptorInv ==
    ~stolen =>
        /\ tun_socket # 0 => fds[tun_socket] = "tun"
        /\ \A h \in sessions : fds[h] = "session"

\* An operation is outstanding only on an open descriptor.
OpenInv == pending # <<>> \/ writes # <<>> => tun_socket # 0

Rising(s) == \A j, k \in DOMAIN s : j < k => s[j] < s[k]

\* Packets are injected, written and freed in order: w are the outstanding writes,
\* d the packets written and p the states of the pbufs.
InOrder(w, d, p) ==
    /\ \A k \in DOMAIN w : p[w[k]] = "writing"
    /\ \A k \in DOMAIN d : p[d[k]] \in {"written", "freed"}
    /\ \A i \in 1 .. MaxInjects :
          p[i] \in {"written", "freed"} => \E k \in DOMAIN d : d[k] = i
    /\ \A i, j \in 1 .. MaxInjects : i < j /\ p[i] = "none" => p[j] = "none"
    /\ Rising(d) /\ Rising(w)
    /\ \A j \in DOMAIN d, k \in DOMAIN w : d[j] < w[k]

WriteInv == InOrder(writes, written, pbufs)

\* The outstanding reads p are those of the waiting coroutines, once each.
Waits(p, r) ==
    /\ \A k \in DOMAIN p : r[p[k]] = "waiting"
    /\ \A j, k \in DOMAIN p : p[j] = p[k] => j = k
    /\ \A c \in Coroutines : r[c] = "waiting" => \E k \in DOMAIN p : p[k] = c

\* The io thread runs at most one coroutine, and there is none before the start.
ReaderInv ==
    /\ Waits(pending, coro)
    /\ \A c \in Coroutines : coro[c] \in {"input", "again"} => io = c
    /\ api \in {"new", "failed"} => \A c \in Coroutines : coro[c] = "none"

\* The packets s waiting in the device are numbered as they arrived, up to n, and
\* are younger than the one in the buffer b.
Numbered(s, b, n) ==
    /\ \A j, k \in DOMAIN s : j < k => s[j].id < s[k].id
    /\ \A k \in DOMAIN s : b.id < s[k].id /\ s[k].id <= n
    /\ b.id <= n

\* The buffer is not older than what Input has seen.
NumberInv ==
    /\ Numbered(device, buff, arrived)
    /\ seen.id <= buff.id
    /\ \A k \in DOMAIN handled : handled[k].id <= buff.id

\* Input was called with one packet, and sent it where the filter says.
Intact(h) == h.id = h.size /\ h.to = Destination(h.packet)

\* One reader, unless a Restart overtook a coroutine; between Stop and Restart it
\* is one that Stop has missed.
IntactInv ==
    ~overtaken =>
        /\ OneReader
        /\ api \in {"stopping", "down"} => \A c \in Coroutines : Live(c) => c \in missed
        /\ \A c \in Coroutines : coro[c] \in {"read", "input"} =>
               /\ buff.id = got[c]
               /\ \A k \in DOMAIN handled : handled[k].id < got[c]
        /\ \A c \in Coroutines : coro[c] = "input" => seen = buff
        /\ \A k \in DOMAIN handled : Intact(handled[k])
        /\ \A j, k \in DOMAIN handled : j < k => handled[j].id < handled[k].id

IndInv ==
    /\ TypeOK /\ handled \in Seq(Handled)
    /\ LifeInv /\ DescriptorInv /\ OpenInv /\ WriteInv
    /\ ReaderInv /\ NumberInv /\ IntactInv

-----------------------------------------------------------------------------
(* Sequences *)

\* What is in a sequence.
LEMMA SeqElement ==
    ASSUME NEW S, NEW s \in Seq(S)
    PROVE  \A k \in DOMAIN s : s[k] \in S
OBVIOUS

\* Nothing is in the empty sequence.
LEMMA SeqEmpty ==
    ASSUME NEW S
    PROVE  <<>> \in Seq(S) /\ DOMAIN <<>> = {}
OBVIOUS

\* Append adds the element behind all others.
LEMMA SeqAppend ==
    ASSUME NEW S, NEW s \in Seq(S), NEW e \in S
    PROVE  /\ Append(s, e) \in Seq(S)
           /\ \A k \in DOMAIN Append(s, e) :
                 \/ k \in DOMAIN s /\ Append(s, e)[k] = s[k]
                 \/ k = Len(s) + 1 /\ Append(s, e)[k] = e
           /\ \A k \in DOMAIN s : k \in DOMAIN Append(s, e) /\ Append(s, e)[k] = s[k]
           /\ \A k \in DOMAIN s : k < Len(s) + 1 /\ ~(Len(s) + 1 < k) /\ k # Len(s) + 1
           /\ ~(Len(s) + 1 < Len(s) + 1)
           /\ Len(s) + 1 \in DOMAIN Append(s, e) /\ Append(s, e)[Len(s) + 1] = e
           /\ Append(s, e) # <<>>
OBVIOUS

\* Tail moves every element but the first one place forward.
LEMMA SeqTail ==
    ASSUME NEW S, NEW s \in Seq(S), s # <<>>
    PROVE  /\ Head(s) \in S /\ Head(s) = s[1] /\ 1 \in DOMAIN s
           /\ Tail(s) \in Seq(S)
           /\ \A k \in DOMAIN Tail(s) :
                 k + 1 \in DOMAIN s /\ Tail(s)[k] = s[k + 1] /\ 1 < k + 1 /\ 1 # k + 1
           /\ \A j, k \in DOMAIN Tail(s) : j < k => j + 1 < k + 1
           /\ \A j, k \in DOMAIN Tail(s) : j + 1 = k + 1 => j = k
           /\ \A k \in DOMAIN s : k = 1 \/ \E j \in DOMAIN Tail(s) : k = j + 1
<1>1. /\ Head(s) \in S /\ Head(s) = s[1] /\ 1 \in DOMAIN s
      /\ Tail(s) \in Seq(S)
      /\ \A k \in DOMAIN Tail(s) :
            k + 1 \in DOMAIN s /\ Tail(s)[k] = s[k + 1] /\ 1 < k + 1 /\ 1 # k + 1
      /\ \A j, k \in DOMAIN Tail(s) : j < k => j + 1 < k + 1
      /\ \A j, k \in DOMAIN Tail(s) : j + 1 = k + 1 => j = k
  OBVIOUS
<1>2. ASSUME NEW k \in DOMAIN s, k # 1
      PROVE  \E j \in DOMAIN Tail(s) : k = j + 1
  <2>1. k - 1 \in DOMAIN Tail(s) /\ k = k - 1 + 1
    BY <1>2
  <2> QED BY Zenon, <2>1
<1> QED BY Zenon, <1>1, <1>2

-----------------------------------------------------------------------------
(* Types *)

\* What the bounds give: coroutines and injected packets are numbers, and no
\* descriptor is 0.
LEMMA Constants ==
    /\ Coroutines \subseteq Nat \ {0} /\ 0 \notin Coroutines
    /\ 1 .. MaxInjects \subseteq Nat
    /\ 0 \notin Handles /\ Handles \subseteq Nat
    /\ 0 \in 0 .. MaxArrivals
BY BoundsAssumption DEF Coroutines

\* Opening the device leaves the descriptors typed and gives tun_handle one.
LEMMA OpenTypes ==
    ASSUME TypeOK, NEW ok \in BOOLEAN, Open(ok)
    PROVE  /\ tun_handle' \in Handles \union {0}
           /\ fds' \in [Handles -> {"free", "tun", "session"}]
<1>1. CASE platform = "macos" /\ OpenMacOS(ok)
  <2>1. PICK h \in Handles :
           tun_handle' = h /\ fds' = [fds EXCEPT ![h] = IF ok THEN "tun" ELSE "free"]
    BY Zenon, <1>1 DEF OpenMacOS
  <2> QED BY <2>1 DEF TypeOK
<1>2. CASE platform = "windows" /\ OpenWindows
  <2>1. CASE UNCHANGED <<tun_handle, fds>>
    BY Zenon, <2>1 DEF TypeOK
  <2>2. CASE \E h \in Handles : tun_handle' = h /\ fds' = [fds EXCEPT ![h] = "tun"]
    BY <2>2 DEF TypeOK
  <2> QED BY Zenon, <1>2, <2>1, <2>2 DEF OpenWindows
<1> QED BY Zenon, <1>1, <1>2 DEF Open

\* A read that is started leaves the reader's state typed.
LEMMA ReadTypes ==
    ASSUME TypeOK, NEW c \in Coroutines, async_read_some(c)
    PROVE  /\ device' \in Seq(Received)
           /\ buff' \in Received \union {Nothing}
           /\ pending' \in Seq(Coroutines)
           /\ coro' \in [Coroutines -> {"none", "waiting", "read", "error", "input",
                                       "again", "returned"}]
           /\ got' \in [Coroutines -> 0 .. MaxArrivals]
<1>1. CASE coro' = [coro EXCEPT ![c] = "error"] /\ UNCHANGED <<device, buff, pending, got>>
  BY Zenon, <1>1 DEF TypeOK
<1>2. CASE /\ device # <<>>
           /\ coro' = [coro EXCEPT ![c] = "read"]
           /\ buff' = Head(device)
           /\ got' = [got EXCEPT ![c] = Head(device).id]
           /\ device' = Tail(device)
           /\ UNCHANGED pending
  <2>1. Head(device) \in Received /\ Tail(device) \in Seq(Received)
    BY <1>2 DEF TypeOK
  <2>2. Head(device).id \in 0 .. MaxArrivals
    BY <2>1, BoundsAssumption DEF Received
  <2> QED BY <1>2, <2>1, <2>2 DEF TypeOK
<1>3. CASE /\ coro' = [coro EXCEPT ![c] = "waiting"]
           /\ pending' = Append(pending, c)
           /\ UNCHANGED <<device, buff, got>>
  BY <1>3 DEF TypeOK
<1> QED BY Zenon, <1>1, <1>2, <1>3 DEF async_read_some

\* Every step keeps the types of the descriptors and the caller.
LifeTypes ==
    /\ platform \in {"macos", "windows"}
    /\ api \in {"new", "up", "stopping", "down", "failed"}
    /\ tun_handle \in Handles \union {0} /\ tun_socket \in Handles \union {0}
    /\ need_restart \in BOOLEAN
    /\ fds \in [Handles -> {"free", "tun", "session"}]
    /\ sessions \subseteq Handles
    /\ missed \subseteq Coroutines
    /\ overtaken \in BOOLEAN /\ stolen \in BOOLEAN /\ broken \in BOOLEAN

\* Each action of the caller, the reader and the sessions keeps LifeTypes.
LEMMA LifeTypeStep ==
    ASSUME TypeOK, Next
    PROVE  LifeTypes'
<1>0. LifeTypes
  BY Zenon DEF TypeOK, LifeTypes
<1>a. ASSUME NEW c \in Coroutines, async_read_some(c)
      PROVE  broken' \in BOOLEAN
  BY Zenon, <1>0, <1>a DEF async_read_some, LifeTypes
<1>1. CASE tunosocks_start
  <2>1. PICK ok \in BOOLEAN :
           /\ Open(ok)
           /\ \/ api' = "up" /\ tun_socket' = tun_handle' /\ Spawn
              \/ api' = "failed" /\ UNCHANGED <<tun_socket, broken>>
    BY Zenon, <1>1 DEF tunosocks_start
  <2>2. UNCHANGED <<platform, need_restart, sessions, missed, overtaken, stolen>>
    BY Zenon, <1>1 DEF tunosocks_start
  <2>3. broken' \in BOOLEAN
    BY Zenon, <1>0, <1>a, <2>1 DEF Spawn, LifeTypes
  <2> QED BY <1>0, <2>1, <2>2, <2>3, OpenTypes DEF LifeTypes
<1>2. CASE Stop
  <2>1. api' = "stopping" /\ broken' = FALSE /\ missed' = missed \union InHand /\ InHand \subseteq Coroutines
    BY Zenon, <1>2 DEF Stop, InHand
  <2>2. UNCHANGED <<platform, tun_handle, need_restart, sessions, overtaken, stolen>>
    BY Zenon, <1>2 DEF Stop
  <2>3. tun_socket' \in Handles \union {0} /\ fds' \in [Handles -> {"free", "tun", "session"}]
    BY <1>0, <1>2 DEF Stop, CloseSocket, LifeTypes
  <2> QED BY Zenon, <1>0, <2>1, <2>2, <2>3 DEF LifeTypes
<1>3. CASE StopDevice
  <2>1. UNCHANGED <<platform, tun_handle, tun_socket, sessions, missed, overtaken, broken>>
        /\ api' = "down"
    BY Zenon, <1>3 DEF StopDevice
  <2>2. /\ need_restart' \in BOOLEAN /\ stolen' \in BOOLEAN
        /\ fds' \in [Handles -> {"free", "tun", "session"}]
    <3>1. CASE CloseMacOS
      BY Zenon, <1>0, <3>1 DEF CloseMacOS, LifeTypes
    <3>2. CASE CloseWindows
      BY <1>0, <3>2 DEF CloseWindows, LifeTypes
    <3> QED BY Zenon, <1>3, <3>1, <3>2 DEF StopDevice, Close
  <2> QED BY Zenon, <1>0, <2>1, <2>2 DEF LifeTypes
<1>4. CASE Restart
  <2>1. PICK ok \in BOOLEAN :
           /\ Open(ok)
           /\ \/ /\ api' = "up" /\ tun_socket' = tun_handle' /\ Spawn
                 /\ overtaken' = (overtaken \/ \E c \in missed :
                                     coro[c] \notin {"error", "returned"})
              \/ UNCHANGED <<api, tun_socket, overtaken, broken>>
    BY Zenon, <1>4 DEF Restart
  <2>2. UNCHANGED <<platform, need_restart, sessions, missed, stolen>>
    BY Zenon, <1>4 DEF Restart
  <2>3. overtaken' \in BOOLEAN
    BY Zenon, <1>0, <2>1 DEF LifeTypes
  <2>4. broken' \in BOOLEAN
    BY Zenon, <1>0, <1>a, <2>1 DEF Spawn, LifeTypes
  <2> QED BY <1>0, <2>1, <2>2, <2>3, <2>4, OpenTypes DEF LifeTypes
<1>5. ASSUME NEW c \in Coroutines, Input(c)
      PROVE  LifeTypes'
  <2>1. \/ UNCHANGED <<fds, sessions>>
        \/ \E h \in Handles : /\ fds' = [fds EXCEPT ![h] = "session"]
                              /\ sessions' = sessions \union {h}
    BY Zenon, <1>5 DEF Input
  <2>2. UNCHANGED <<platform, api, tun_handle, tun_socket, need_restart, missed,
                    overtaken, stolen, broken>>
    BY Zenon, <1>5 DEF Input
  <2> QED BY <1>0, <2>1, <2>2 DEF LifeTypes
<1>6. ASSUME NEW h \in Handles, CloseSession(h)
      PROVE  LifeTypes'
  <2>1. sessions' = sessions \ {h} /\ fds' = [fds EXCEPT ![h] = "free"]
    BY Zenon, <1>6 DEF CloseSession
  <2>2. UNCHANGED <<platform, api, tun_handle, tun_socket, need_restart, missed,
                    overtaken, stolen, broken>>
    BY Zenon, <1>6 DEF CloseSession, histVars
  <2> QED BY <1>0, <2>1, <2>2 DEF LifeTypes
<1>7. CASE UNCHANGED <<platform, api, tun_handle, tun_socket, need_restart, fds,
                       sessions, missed, overtaken, stolen>> /\ broken' \in BOOLEAN
  BY Zenon, <1>0, <1>7 DEF LifeTypes
<1>b. UNCHANGED broken => broken' \in BOOLEAN
  BY Zenon, <1>0 DEF LifeTypes
<1>8. CASE Arrive \/ CompleteRead \/ Inject \/ CompleteWrite
  BY Zenon, <1>7, <1>8, <1>b DEF Arrive, CompleteRead, Inject, CompleteWrite, lifeVars, histVars
<1>8a. CASE FailRead
  <2>1. broken' \in BOOLEAN
    BY Zenon, <1>8a DEF FailRead
  <2> QED BY Zenon, <1>7, <1>8a, <2>1 DEF FailRead, lifeVars
<1>9. ASSUME NEW c \in Coroutines, Resume(c)
      PROVE  LifeTypes'
  BY Zenon, <1>7, <1>9, <1>b DEF Resume, lifeVars, histVars
<1>9a. ASSUME NEW c \in Coroutines, ReadAgain(c)
       PROVE  LifeTypes'
  BY Zenon, <1>7, <1>9a, <1>a DEF ReadAgain
<1>10. ASSUME NEW i \in 1 .. MaxInjects, handlerOnTunInjectWithPbuf(i)
       PROVE  LifeTypes'
  BY Zenon, <1>7, <1>10, <1>b DEF handlerOnTunInjectWithPbuf, lifeVars, histVars
<1> QED BY Zenon, <1>1, <1>2, <1>3, <1>4, <1>5, <1>6, <1>8, <1>8a, <1>9, <1>9a, <1>10 DEF Next

\* The types of the reader and of the packets it has handled.
ReadTypesOK ==
    /\ device \in Seq(Received)
    /\ arrived \in 0 .. MaxArrivals
    /\ buff \in Received \union {Nothing} /\ seen \in Received \union {Nothing}
    /\ pending \in Seq(Coroutines)
    /\ coro \in [Coroutines -> {"none", "waiting", "read", "error", "input", "again",
                               "returned"}]
    /\ got \in [Coroutines -> 0 .. MaxArrivals]
    /\ io \in Coroutines \union {0}
    /\ handled \in Seq(Handled)

\* What Input does, with the packet it saw.
LEMMA InputEffect ==
    ASSUME NEW c \in Coroutines, Input(c)
    PROVE  /\ \E b \in {seen, buff} :
                  handled' = Append(handled,
                      [id |-> b.id, size |-> got[c], packet |-> b.packet,
                       to |-> Destination(b.packet)])
           /\ coro' = [coro EXCEPT ![c] = "again"]
           /\ seen' = Nothing
           /\ io = c /\ coro[c] = "input"
           /\ UNCHANGED <<platform, api, device, arrived, buff, pending, got, io, missed,
                          overtaken>>
BY Zenon DEF Input

\* Every packet goes to one of the two stacks or nowhere.
LEMMA DestinationType ==
    ASSUME NEW p
    PROVE  Destination(p) \in {"udp", "lwip", "dropped"}
<1>1. CASE p.version # 4
  BY <1>1 DEF Destination
<1>2. CASE p.version = 4 /\ p.proto = PROTO_UDP
  BY <1>2 DEF Destination
<1>3. CASE p.version = 4 /\ p.proto # PROTO_UDP
  BY <1>3 DEF Destination
<1> QED BY <1>1, <1>2, <1>3

\* Every step keeps the types of the reader.
LEMMA ReadTypeStep ==
    ASSUME TypeOK, handled \in Seq(Handled), Next
    PROVE  ReadTypesOK'
<1>0. ReadTypesOK
  BY Zenon DEF TypeOK, ReadTypesOK
<1>1. ASSUME NEW c \in Coroutines, async_read_some(c), io' \in {io, 0},
             UNCHANGED <<arrived, seen, handled>>
      PROVE  ReadTypesOK'
  BY Zenon, <1>0, <1>1, ReadTypes DEF ReadTypesOK
<1>2. CASE UNCHANGED <<device, arrived, buff, pending, coro, got, io, seen, handled>>
  BY Zenon, <1>0, <1>2 DEF ReadTypesOK
<1>3. CASE tunosocks_start
  <2>1. UNCHANGED <<arrived, io, seen, handled>>
    BY Zenon, <1>3 DEF tunosocks_start
  <2>2. Spawn \/ UNCHANGED <<device, buff, pending, coro, got>>
    BY Zenon, <1>3 DEF tunosocks_start
  <2> QED BY Zenon, <1>1, <1>2, <2>1, <2>2 DEF Spawn
<1>4. CASE Restart
  <2>1. UNCHANGED <<arrived, io, seen, handled>>
    BY Zenon, <1>4 DEF Restart
  <2>2. Spawn \/ UNCHANGED <<device, buff, pending, coro, got>>
    BY Zenon, <1>4 DEF Restart
  <2> QED BY Zenon, <1>1, <1>2, <2>1, <2>2 DEF Spawn
<1>5. ASSUME NEW c \in Coroutines, ReadAgain(c)
      PROVE  ReadTypesOK'
  BY Zenon, <1>1, <1>5 DEF ReadAgain
<1>6. CASE Stop
  <2>1. /\ coro' = [c \in Coroutines |->
                       IF \E k \in DOMAIN pending : pending[k] = c THEN "error" ELSE coro[c]]
        /\ pending' = <<>> /\ device' \in {device, <<>>}
        /\ UNCHANGED <<arrived, buff, got, io, seen, handled>>
    BY Zenon, <1>6 DEF Stop, CancelOperations, CloseSocket
  <2>2. coro' \in [Coroutines -> {"none", "waiting", "read", "error", "input", "again",
                                 "returned"}]
    <3>1. \A c \in Coroutines :
             (IF \E k \in DOMAIN pending : pending[k] = c THEN "error" ELSE coro[c])
                 \in {"none", "waiting", "read", "error", "input", "again", "returned"}
      BY <1>0 DEF ReadTypesOK
    <3> QED BY Zenon, <2>1, <3>1
  <2>3. pending' \in Seq(Coroutines) /\ device' \in Seq(Received)
    BY Zenon, <1>0, <2>1, SeqEmpty DEF ReadTypesOK
  <2> QED BY Zenon, <1>0, <2>1, <2>2, <2>3 DEF ReadTypesOK
<1>7. CASE StopDevice
  BY <1>0, <1>7 DEF StopDevice, ReadTypesOK
<1>8. CASE Arrive
  <2>1. PICK p \in Packets : device' = Append(device, [id |-> arrived + 1, packet |-> p])
    BY Zenon, <1>8 DEF Arrive
  <2>2. arrived < MaxArrivals /\ arrived' = arrived + 1
        /\ UNCHANGED <<buff, pending, coro, got, io, seen, handled>>
    BY Zenon, <1>8 DEF Arrive, histVars
  <2>3. arrived + 1 \in 1 .. MaxArrivals
    BY <1>0, <2>2, BoundsAssumption DEF ReadTypesOK
  <2>4. [id |-> arrived + 1, packet |-> p] \in Received
    BY <2>3 DEF Received
  <2> QED BY <1>0, <2>1, <2>2, <2>3, <2>4, BoundsAssumption DEF ReadTypesOK
<1>9. CASE CompleteRead
  <2>1. /\ pending # <<>> /\ device # <<>>
        /\ coro' = [coro EXCEPT ![Head(pending)] = "read"]
        /\ got' = [got EXCEPT ![Head(pending)] = Head(device).id]
        /\ buff' = Head(device) /\ device' = Tail(device) /\ pending' = Tail(pending)
        /\ UNCHANGED <<arrived, io, seen, handled>>
    BY Zenon, <1>9 DEF CompleteRead, histVars
  <2>2. Head(device) \in Received /\ Tail(device) \in Seq(Received)
        /\ Head(pending) \in Coroutines /\ Tail(pending) \in Seq(Coroutines)
    BY <1>0, <2>1 DEF ReadTypesOK
  <2>3. Head(device).id \in 0 .. MaxArrivals
    BY <2>2, BoundsAssumption DEF Received
  <2> QED BY SMTT(30), <1>0, <2>1, <2>2, <2>3 DEF ReadTypesOK
<1>9a. CASE FailRead
  <2>1. /\ pending # <<>> /\ pending' = Tail(pending)
        /\ coro' = [coro EXCEPT ![Head(pending)] = "error"]
        /\ UNCHANGED <<device, arrived, buff, got, io, seen, handled>>
    BY Zenon, <1>9a DEF FailRead
  <2>2. Tail(pending) \in Seq(Coroutines)
    BY <1>0, <2>1 DEF ReadTypesOK
  <2> QED BY Zenon, <1>0, <2>1, <2>2 DEF ReadTypesOK
<1>10. ASSUME NEW c \in Coroutines, Resume(c)
       PROVE  ReadTypesOK'
  <2>1. /\ coro' \in {[coro EXCEPT ![c] = "returned"], [coro EXCEPT ![c] = "input"]}
        /\ io' \in {io, c} /\ seen' \in {seen, buff}
        /\ UNCHANGED <<device, arrived, buff, pending, got, handled>>
    BY Zenon, <1>10 DEF Resume, histVars
  <2> QED BY Zenon, <1>0, <2>1 DEF ReadTypesOK
<1>11. ASSUME NEW c \in Coroutines, Input(c)
       PROVE  ReadTypesOK'
  <2>1. PICK b \in {seen, buff} :
           handled' = Append(handled, [id |-> b.id, size |-> got[c], packet |-> b.packet,
                                       to |-> Destination(b.packet)])
    BY Zenon, <1>11, InputEffect
  <2>2. b \in Received \union {Nothing} /\ got[c] \in 0 .. MaxArrivals
    BY Zenon, <1>0, <2>1 DEF ReadTypesOK
  <2>3. b.id \in 0 .. MaxArrivals /\ b.packet \in Packets \union {NoPacket}
    BY <2>2, BoundsAssumption DEF Received, Nothing
  <2>4. [id |-> b.id, size |-> got[c], packet |-> b.packet, to |-> Destination(b.packet)]
            \in Handled
    BY <2>2, <2>3, DestinationType DEF Handled
  <2>5. coro' = [coro EXCEPT ![c] = "again"] /\ seen' = Nothing
        /\ UNCHANGED <<device, arrived, buff, pending, got, io>>
    BY Zenon, <1>11, InputEffect
  <2> QED BY <1>0, <2>1, <2>4, <2>5 DEF ReadTypesOK
<1>12. CASE Inject \/ CompleteWrite
  BY Zenon, <1>2, <1>12 DEF Inject, CompleteWrite, readVars, histVars
<1>13. ASSUME NEW h \in Handles, CloseSession(h)
       PROVE  ReadTypesOK'
  BY Zenon, <1>2, <1>13 DEF CloseSession, readVars, histVars
<1>14. ASSUME NEW i \in 1 .. MaxInjects, handlerOnTunInjectWithPbuf(i)
       PROVE  ReadTypesOK'
  BY Zenon, <1>2, <1>14 DEF handlerOnTunInjectWithPbuf, readVars, histVars
<1> QED BY Zenon, <1>3, <1>4, <1>5, <1>6, <1>7, <1>8, <1>9, <1>9a, <1>10, <1>11, <1>12,
           <1>13, <1>14 DEF Next

-----------------------------------------------------------------------------
(* Writes to the device *)

\* The types of the injected packets.
WriteTypesOK ==
    /\ writes \in Seq(1 .. MaxInjects) /\ written \in Seq(1 .. MaxInjects)
    /\ pbufs \in [1 .. MaxInjects ->
                    {"none", "writing", "written", "error", "freed", "leaked"}]

\* Adding a larger number at the end keeps a sequence rising.
LEMMA RisingAppend ==
    ASSUME NEW S, NEW s \in Seq(S), NEW i \in S, Rising(s), \A k \in DOMAIN s : s[k] < i
    PROVE  Rising(Append(s, i))
<1> DEFINE t == Append(s, i)
           n == Len(s) + 1
<1>1. \A k \in DOMAIN t : (k \in DOMAIN s /\ t[k] = s[k]) \/ (k = n /\ t[k] = i)
  BY Zenon, SeqAppend
<1>1a. (\A k \in DOMAIN s : ~(n < k)) /\ ~(n < n)
  OBVIOUS
<1> HIDE DEF t, n
<1>2. ASSUME NEW j \in DOMAIN t, NEW k \in DOMAIN t, j < k
      PROVE  t[j] < t[k]
  <2>1. CASE j = n
    BY Zenon, <1>1, <1>1a, <1>2, <2>1
  <2>2. CASE j \in DOMAIN s /\ t[j] = s[j]
    BY Zenon, <1>1, <1>2, <2>2 DEF Rising
  <2> QED BY Zenon, <1>1, <2>1, <2>2
<1>3. Rising(t)
  BY Zenon, <1>2 DEF Rising
<1> QED BY Zenon, <1>3 DEF t

\* So does dropping the first.
LEMMA RisingTail ==
    ASSUME NEW S, NEW s \in Seq(S), s # <<>>, Rising(s)
    PROVE  Rising(Tail(s)) /\ \A k \in DOMAIN Tail(s) : Head(s) < Tail(s)[k]
<1> DEFINE t == Tail(s)
<1>1. /\ Head(s) = s[1] /\ 1 \in DOMAIN s
      /\ \A k \in DOMAIN t : k + 1 \in DOMAIN s /\ t[k] = s[k + 1] /\ 1 < k + 1
      /\ \A j, k \in DOMAIN t : j < k => j + 1 < k + 1
  BY Zenon, SeqTail
<1> HIDE DEF t
<1>2. ASSUME NEW j \in DOMAIN t, NEW k \in DOMAIN t, j < k
      PROVE  t[j] < t[k]
  <2>1. j + 1 \in DOMAIN s /\ k + 1 \in DOMAIN s /\ j + 1 < k + 1
    BY Zenon, <1>1, <1>2
  <2>2. s[j + 1] < s[k + 1]
    BY Zenon, <2>1 DEF Rising
  <2> QED BY Zenon, <1>1, <2>2
<1>3. ASSUME NEW k \in DOMAIN t
      PROVE  Head(s) < t[k]
  <2>1. s[1] < s[k + 1]
    BY Zenon, <1>1 DEF Rising
  <2> QED BY Zenon, <1>1, <2>1
<1>4. Rising(t)
  BY Zenon, <1>2 DEF Rising
<1> QED BY Zenon, <1>3, <1>4 DEF t

Injects == 1 .. MaxInjects
PbufStates == {"none", "writing", "written", "error", "freed", "leaked"}

\* What InOrder depends on in the state of a pbuf: whether it is unused, being
\* written, or taken by the device.
LEMMA OrderKept ==
    ASSUME NEW w \in Seq(Injects), NEW d \in Seq(Injects), NEW p, NEW q, InOrder(w, d, p),
           \A i \in Injects : /\ p[i] = "none" <=> q[i] = "none"
                              /\ p[i] = "writing" => q[i] = "writing"
                              /\ p[i] \in {"written", "freed"} <=> q[i] \in {"written", "freed"}
    PROVE  InOrder(w, d, q)
<1>1. (\A k \in DOMAIN w : w[k] \in Injects) /\ (\A k \in DOMAIN d : d[k] \in Injects)
  BY Zenon, SeqElement
<1>2. /\ \A k \in DOMAIN w : q[w[k]] = "writing"
      /\ \A k \in DOMAIN d : q[d[k]] \in {"written", "freed"}
  BY Zenon, <1>1 DEF InOrder
<1>3. /\ \A i \in 1 .. MaxInjects :
            q[i] \in {"written", "freed"} => \E k \in DOMAIN d : d[k] = i
      /\ \A i, j \in 1 .. MaxInjects : i < j /\ q[i] = "none" => q[j] = "none"
  BY Zenon DEF InOrder, Injects
<1> QED BY Zenon, <1>2, <1>3 DEF InOrder

\* The next pbuf that is used comes behind all others.
LEMMA OrderNext ==
    ASSUME NEW w \in Seq(Injects), NEW d \in Seq(Injects), NEW p, InOrder(w, d, p),
           NEW i \in Injects, p[i] = "none"
    PROVE  /\ \A k \in DOMAIN w : w[k] < i /\ w[k] # i
           /\ \A k \in DOMAIN d : d[k] < i /\ d[k] # i
<1>1. ASSUME NEW j \in Injects, p[j] # "none" PROVE j < i /\ j # i
  <2>1. ~(i < j) /\ i # j
    BY Zenon, <1>1 DEF InOrder, Injects
  <2> QED BY <2>1 DEF Injects
<1>2. "writing" # "none" /\ "none" \notin {"written", "freed"}
  OBVIOUS
<1>3. ASSUME NEW k \in DOMAIN w PROVE w[k] \in Injects /\ p[w[k]] # "none"
  BY Zenon, <1>2, SeqElement DEF InOrder
<1>4. ASSUME NEW k \in DOMAIN d PROVE d[k] \in Injects /\ p[d[k]] # "none"
  BY Zenon, <1>2, SeqElement DEF InOrder
<1> QED BY Zenon, <1>1, <1>3, <1>4

\* Inject takes the next pbuf, whose write fails at once or waits.
LEMMA OrderInject ==
    ASSUME NEW w \in Seq(Injects), NEW d \in Seq(Injects), NEW p \in [Injects -> PbufStates],
           InOrder(w, d, p), NEW i \in Injects, p[i] = "none",
           \A j \in 1 .. i - 1 : p[j] # "none",
           NEW v \in {"error", "writing"}, NEW x,
           x = IF v = "error" THEN w ELSE Append(w, i)
    PROVE  InOrder(x, d, [p EXCEPT ![i] = v]) /\ x \in Seq(Injects)
<1> DEFINE q == [p EXCEPT ![i] = v]
<1>1. q[i] = v /\ \A j \in Injects : j # i => q[j] = p[j]
  OBVIOUS
<1> HIDE DEF q
<1>2. (\A k \in DOMAIN w : w[k] \in Injects) /\ (\A k \in DOMAIN d : d[k] \in Injects)
  BY Zenon, SeqElement
<1>3. (\A k \in DOMAIN w : w[k] < i /\ w[k] # i) /\ (\A k \in DOMAIN d : d[k] < i /\ d[k] # i)
  BY Zenon, OrderNext
<1>4. (\A k \in DOMAIN w : q[w[k]] = "writing") /\ (\A k \in DOMAIN d : q[d[k]] \in {"written", "freed"})
  <2>1. (\A k \in DOMAIN w : p[w[k]] = "writing") /\ (\A k \in DOMAIN d : p[d[k]] \in {"written", "freed"})
    BY Zenon DEF InOrder
  <2>2. (\A k \in DOMAIN w : q[w[k]] = p[w[k]]) /\ (\A k \in DOMAIN d : q[d[k]] = p[d[k]])
    BY Zenon, <1>1, <1>2, <1>3
  <2> QED BY Zenon, <2>1, <2>2
<1>5. ASSUME NEW j \in Injects, q[j] \in {"written", "freed"}
      PROVE  \E k \in DOMAIN d : d[k] = j
  <2>1. v \notin {"written", "freed"}
    OBVIOUS
  <2>2. p[j] \in {"written", "freed"}
    BY Zenon, <1>1, <1>5, <2>1
  <2> QED BY Zenon, <2>2 DEF InOrder, Injects
<1>6. ASSUME NEW j \in Injects, NEW n \in Injects, j < n, q[j] = "none"
      PROVE  q[n] = "none"
  <2>1. v # "none"
    OBVIOUS
  <2>2. j # i /\ p[j] = "none"
    BY Zenon, <1>1, <1>6, <2>1
  <2>3. p[n] = "none"
    BY Zenon, <1>6, <2>2 DEF InOrder, Injects
  <2>4. j \notin 1 .. i - 1
    BY Zenon, <2>2
  <2>5. n # i
    BY <1>6, <2>2, <2>4 DEF Injects
  <2> QED BY Zenon, <1>1, <2>3, <2>5
<1>7. /\ \A j \in 1 .. MaxInjects :
            q[j] \in {"written", "freed"} => \E k \in DOMAIN d : d[k] = j
      /\ \A j, n \in 1 .. MaxInjects : j < n /\ q[j] = "none" => q[n] = "none"
      /\ \A k \in DOMAIN d : q[d[k]] \in {"written", "freed"}
  BY Zenon, <1>4, <1>5, <1>6 DEF Injects
<1>8. Rising(d) /\ Rising(w) /\ \A j \in DOMAIN d, k \in DOMAIN w : d[j] < w[k]
  BY Zenon DEF InOrder
<1>9. CASE v = "error"
  <2>1. x = w
    BY Zenon, <1>9
  <2>2. InOrder(w, d, q)
    BY Zenon, <1>4, <1>7, <1>8 DEF InOrder
  <2> QED BY Zenon, <2>1, <2>2 DEF q
<1>10. CASE v = "writing"
  <2>1. x = Append(w, i)
    BY <1>10
  <2>2. Rising(x)
    BY Zenon, <1>3, <1>8, <2>1, RisingAppend
  <2>3. /\ x \in Seq(Injects)
        /\ \A k \in DOMAIN x : (k \in DOMAIN w /\ x[k] = w[k]) \/ (k = Len(w) + 1 /\ x[k] = i)
    BY <2>1
  <2>4. ASSUME NEW k \in DOMAIN x
        PROVE  q[x[k]] = "writing" /\ \A j \in DOMAIN d : d[j] < x[k]
    <3>1. CASE k \in DOMAIN w /\ x[k] = w[k]
      BY Zenon, <1>4, <1>8, <3>1
    <3>2. CASE x[k] = i
      BY Zenon, <1>1, <1>3, <1>10, <3>2
    <3> QED BY Zenon, <2>3, <3>1, <3>2
  <2>5. InOrder(x, d, q)
    BY Zenon, <1>7, <1>8, <2>2, <2>4 DEF InOrder
  <2> QED BY Zenon, <2>3, <2>5 DEF q
<1> QED BY Zenon, <1>9, <1>10

\* The device takes the oldest write.
LEMMA OrderTake ==
    ASSUME NEW w \in Seq(Injects), NEW d \in Seq(Injects), NEW p \in [Injects -> PbufStates],
           InOrder(w, d, p), w # <<>>
    PROVE  InOrder(Tail(w), Append(d, Head(w)), [p EXCEPT ![Head(w)] = "written"])
<1>1. PICK i \in Injects :
         /\ i = Head(w) /\ i = w[1] /\ 1 \in DOMAIN w
         /\ Tail(w) \in Seq(Injects)
         /\ \A k \in DOMAIN Tail(w) : k + 1 \in DOMAIN w /\ Tail(w)[k] = w[k + 1]
  BY Zenon, SeqTail
<1> DEFINE q == [p EXCEPT ![i] = "written"]
           x == Tail(w)
           y == Append(d, i)
<1>2. q[i] = "written" /\ \A j \in Injects : j # i => q[j] = p[j]
  BY <1>1
<1>3. /\ \A k \in DOMAIN y : (k \in DOMAIN d /\ y[k] = d[k]) \/ (k = Len(d) + 1 /\ y[k] = i)
      /\ \A k \in DOMAIN d : k \in DOMAIN y /\ y[k] = d[k]
      /\ Len(d) + 1 \in DOMAIN y /\ y[Len(d) + 1] = i
  OBVIOUS
<1>4. Rising(x) /\ \A k \in DOMAIN x : i < x[k]
  <2>1. Rising(w)
    BY Zenon DEF InOrder
  <2>2. Rising(Tail(w)) /\ \A k \in DOMAIN Tail(w) : Head(w) < Tail(w)[k]
    BY Zenon, <2>1, RisingTail
  <2> QED BY Zenon, <1>1, <2>2
<1>5. \A k \in DOMAIN x : x[k] \in Injects /\ k + 1 \in DOMAIN w /\ x[k] = w[k + 1]
  BY Zenon, <1>1, SeqElement
<1>6. /\ \A k \in DOMAIN d : d[k] \in Injects /\ d[k] < i
      /\ \A m, n \in Injects : m < n => m # n
  <2>1. \A m, n \in Injects : m < n => m # n
    BY DEF Injects
  <2>2. \A k \in DOMAIN d : d[k] < w[1]
    BY Zenon, <1>1 DEF InOrder
  <2> QED BY Zenon, <1>1, <2>1, <2>2, SeqElement
<1>7. Rising(y)
  BY Zenon, <1>1, <1>6, RisingAppend DEF InOrder
<1> HIDE DEF q, x, y
<1>8. ASSUME NEW k \in DOMAIN x
      PROVE  q[x[k]] = "writing" /\ \A j \in DOMAIN y : y[j] < x[k]
  <2>1. x[k] # i
    BY Zenon, <1>4, <1>5, <1>6
  <2>2. p[w[k + 1]] = "writing" /\ \A j \in DOMAIN d : d[j] < w[k + 1]
    BY Zenon, <1>5 DEF InOrder
  <2>3. q[x[k]] = "writing" /\ \A j \in DOMAIN d : d[j] < x[k]
    BY Zenon, <1>2, <1>5, <2>1, <2>2
  <2>4. ASSUME NEW j \in DOMAIN y PROVE y[j] < x[k]
    BY Zenon, <1>3, <1>4, <2>3
  <2> QED BY Zenon, <2>3, <2>4
<1>9. ASSUME NEW k \in DOMAIN y
      PROVE  q[y[k]] \in {"written", "freed"}
  <2>1. CASE y[k] = i
    BY Zenon, <1>2, <2>1
  <2>2. CASE k \in DOMAIN d /\ y[k] = d[k]
    <3>1. p[d[k]] \in {"written", "freed"}
      BY Zenon, <2>2 DEF InOrder
    <3> QED BY Zenon, <1>2, <1>6, <2>2, <3>1
  <2> QED BY Zenon, <1>3, <2>1, <2>2
<1>10. ASSUME NEW j \in Injects, q[j] \in {"written", "freed"}
       PROVE  \E k \in DOMAIN y : y[k] = j
  <2>1. CASE j = i
    BY Zenon, <1>3, <2>1
  <2>2. CASE j # i
    <3>1. PICK k \in DOMAIN d : d[k] = j
      BY Zenon, <1>2, <1>10, <2>2 DEF InOrder, Injects
    <3> QED BY Zenon, <1>3, <3>1
  <2> QED BY Zenon, <2>1, <2>2
<1>11. ASSUME NEW j \in Injects, NEW n \in Injects, j < n, q[j] = "none"
       PROVE  q[n] = "none"
  <2>1. "written" # "none" /\ "writing" # "none"
    OBVIOUS
  <2>2. p[w[1]] = "writing"
    BY Zenon, <1>1 DEF InOrder
  <2>3. p[j] = "none" /\ p[i] # "none"
    BY Zenon, <1>1, <1>2, <1>11, <2>1, <2>2
  <2>4. p[n] = "none"
    BY Zenon, <1>11, <2>3 DEF InOrder, Injects
  <2> QED BY Zenon, <1>2, <2>3, <2>4
<1>12. InOrder(x, y, q)
  BY Zenon, <1>4, <1>7, <1>8, <1>9, <1>10, <1>11 DEF InOrder, Injects
<1> QED BY Zenon, <1>1, <1>12 DEF x, y, q

Cancelled(w, p) ==
    [i \in Injects |-> IF \E k \in DOMAIN w : w[k] = i THEN "error" ELSE p[i]]

\* A cancelled write fails.
LEMMA OrderCancel ==
    ASSUME NEW w \in Seq(Injects), NEW d \in Seq(Injects), NEW p, InOrder(w, d, p)
    PROVE  InOrder(<<>>, d, Cancelled(w, p))
<1> DEFINE q == Cancelled(w, p)
<1>0. \A i \in Injects : q[i] = IF \E k \in DOMAIN w : w[k] = i THEN "error" ELSE p[i]
  BY Zenon DEF Cancelled
<1> HIDE DEF q
<1>1. ASSUME NEW i \in Injects
      PROVE  q[i] = p[i] \/ (p[i] = "writing" /\ q[i] = "error")
  <2>1. CASE \E k \in DOMAIN w : w[k] = i
    <3>1. PICK k \in DOMAIN w : w[k] = i
      BY Zenon, <2>1
    <3>2. p[w[k]] = "writing"
      BY Zenon DEF InOrder
    <3>3. q[i] = "error"
      BY Zenon, <1>0, <2>1
    <3> QED BY Zenon, <3>1, <3>2, <3>3
  <2>2. CASE ~ \E k \in DOMAIN w : w[k] = i
    BY Zenon, <1>0, <2>2
  <2> QED BY Zenon, <2>1, <2>2
<1>2. /\ "writing" \notin {"written", "freed", "none"}
      /\ "error" \notin {"written", "freed", "none"}
  OBVIOUS
<1>3. \A i \in Injects : /\ p[i] = "none" <=> q[i] = "none"
                         /\ p[i] \in {"written", "freed"} <=> q[i] \in {"written", "freed"}
  BY Zenon, <1>1, <1>2
<1>4. /\ \A k \in DOMAIN d : q[d[k]] \in {"written", "freed"}
      /\ \A i \in 1 .. MaxInjects :
            q[i] \in {"written", "freed"} => \E k \in DOMAIN d : d[k] = i
      /\ \A i, j \in 1 .. MaxInjects : i < j /\ q[i] = "none" => q[j] = "none"
  BY Zenon, <1>3, SeqElement DEF InOrder, Injects
<1>5. Rising(<<>>) /\ DOMAIN <<>> = {}
  BY Zenon, SeqEmpty DEF Rising
<1>6. Rising(d)
  BY Zenon DEF InOrder
<1>7. InOrder(<<>>, d, q)
  BY Zenon, <1>4, <1>5, <1>6 DEF InOrder
<1> QED BY Zenon, <1>7 DEF q

\* Packets are injected, written and freed in order, whatever the reader and the
\* caller do.
LEMMA WriteStep ==
    ASSUME TypeOK, WriteInv, Next
    PROVE  WriteTypesOK' /\ WriteInv'
<1>0. /\ writes \in Seq(Injects) /\ written \in Seq(Injects)
      /\ pbufs \in [Injects -> PbufStates] /\ InOrder(writes, written, pbufs)
  BY Zenon DEF TypeOK, WriteInv, Injects, PbufStates
<1> SUFFICES /\ writes' \in Seq(Injects) /\ written' \in Seq(Injects)
             /\ pbufs' \in [Injects -> PbufStates]
             /\ InOrder(writes', written', pbufs')
  BY Zenon DEF WriteTypesOK, WriteInv, Injects, PbufStates
<1> DEFINE Goal == /\ writes' \in Seq(Injects) /\ written' \in Seq(Injects)
                   /\ pbufs' \in [Injects -> PbufStates]
                   /\ InOrder(writes', written', pbufs')
<1>1. CASE UNCHANGED writeVars
  BY Zenon, <1>0, <1>1 DEF writeVars
<1>2. CASE Inject
  <2>1. PICK i \in Injects, v \in {"error", "writing"} :
           /\ pbufs[i] = "none" /\ \A j \in 1 .. i - 1 : pbufs[j] # "none"
           /\ pbufs' = [pbufs EXCEPT ![i] = v]
           /\ writes' = IF v = "error" THEN writes ELSE Append(writes, i)
           /\ UNCHANGED written
    BY <1>2 DEF Inject, Injects
  <2>2. InOrder(writes', written, [pbufs EXCEPT ![i] = v]) /\ writes' \in Seq(Injects)
    BY Zenon, <1>0, <2>1, OrderInject
  <2>3. [pbufs EXCEPT ![i] = v] \in [Injects -> PbufStates]
    BY <1>0 DEF PbufStates
  <2> QED BY Zenon, <1>0, <2>1, <2>2, <2>3
<1>3. CASE CompleteWrite
  <2>1. /\ writes # <<>>
        /\ pbufs' = [pbufs EXCEPT ![Head(writes)] = "written"]
        /\ written' = Append(written, Head(writes))
        /\ writes' = Tail(writes)
    BY Zenon, <1>3 DEF CompleteWrite
  <2>2. InOrder(Tail(writes), Append(written, Head(writes)),
                [pbufs EXCEPT ![Head(writes)] = "written"])
    BY Zenon, <1>0, <2>1, OrderTake
  <2>3. /\ Tail(writes) \in Seq(Injects) /\ Head(writes) \in Injects
        /\ Append(written, Head(writes)) \in Seq(Injects)
    BY <1>0, <2>1
  <2>4. [pbufs EXCEPT ![Head(writes)] = "written"] \in [Injects -> PbufStates]
    BY <1>0, <2>3 DEF PbufStates
  <2> QED BY Zenon, <2>1, <2>2, <2>3, <2>4
<1>4. ASSUME NEW i \in 1 .. MaxInjects, handlerOnTunInjectWithPbuf(i)
      PROVE  Goal
  <2>1. PICK v \in {"freed", "leaked"} :
           /\ pbufs' = [pbufs EXCEPT ![i] = v]
           /\ pbufs[i] \in {"written", "error"}
           /\ v = "freed" <=> pbufs[i] = "written"
    BY <1>4 DEF handlerOnTunInjectWithPbuf
  <2>2. UNCHANGED <<writes, written>>
    BY Zenon, <1>4 DEF handlerOnTunInjectWithPbuf
  <2>3. /\ pbufs' \in [Injects -> PbufStates] /\ pbufs'[i] = v
        /\ \A j \in Injects : j # i => pbufs'[j] = pbufs[j]
    BY <1>0, <2>1 DEF PbufStates, Injects
  <2>4. /\ pbufs[i] # "none" /\ pbufs[i] # "writing" /\ v # "none"
        /\ pbufs[i] \in {"written", "freed"} <=> v \in {"written", "freed"}
    BY <2>1
  <2>5. \A j \in Injects :
           /\ pbufs[j] = "none" <=> pbufs'[j] = "none"
           /\ pbufs[j] = "writing" => pbufs'[j] = "writing"
           /\ pbufs[j] \in {"written", "freed"} <=> pbufs'[j] \in {"written", "freed"}
    BY Zenon, <2>3, <2>4
  <2>6. InOrder(writes, written, pbufs')
    BY Zenon, <1>0, <2>5, OrderKept
  <2> QED BY Zenon, <1>0, <2>2, <2>3, <2>6
<1>5. CASE Stop
  <2>1. pbufs' = Cancelled(writes, pbufs) /\ writes' = <<>> /\ UNCHANGED written
    BY Zenon, <1>5 DEF Stop, CancelOperations, Injects, Cancelled
  <2>2. \A i \in Injects :
           (IF \E k \in DOMAIN writes : writes[k] = i THEN "error" ELSE pbufs[i])
               \in PbufStates
    BY <1>0 DEF PbufStates
  <2>3. Cancelled(writes, pbufs) \in [Injects -> PbufStates]
    BY Zenon, <2>2 DEF Cancelled
  <2>4. InOrder(<<>>, written, Cancelled(writes, pbufs))
    BY Zenon, <1>0, OrderCancel
  <2>5. <<>> \in Seq(Injects)
    BY Zenon, SeqEmpty
  <2> QED BY Zenon, <1>0, <2>1, <2>3, <2>4, <2>5
<1>6. ASSUME NEW c \in Coroutines, Resume(c) \/ Input(c) \/ ReadAgain(c)
      PROVE  Goal
  BY Zenon, <1>1, <1>6 DEF Resume, Input, ReadAgain
<1>7. ASSUME NEW h \in Handles, CloseSession(h)
      PROVE  Goal
  BY Zenon, <1>1, <1>7 DEF CloseSession
<1>8. CASE tunosocks_start \/ StopDevice \/ Restart \/ Arrive \/ CompleteRead \/ FailRead
  BY Zenon, <1>1, <1>8
     DEF tunosocks_start, StopDevice, Restart, Arrive, CompleteRead, FailRead
<1> QED BY Zenon, <1>2, <1>3, <1>4, <1>5, <1>6, <1>7, <1>8 DEF Next

-----------------------------------------------------------------------------
(* The life cycle and the descriptors *)

\* Open gives the device a descriptor that was free, or keeps the one it has.
LEMMA OpenEffect ==
    ASSUME NEW ok \in BOOLEAN, Open(ok)
    PROVE  \/ /\ platform = "macos"
              /\ \E h \in Handles :
                    /\ fds[h] = "free" /\ tun_handle' = h
                    /\ fds' = [fds EXCEPT ![h] = IF ok THEN "tun" ELSE "free"]
           \/ platform = "windows" /\ need_restart /\ UNCHANGED <<tun_handle, fds>>
           \/ /\ platform = "windows" /\ ~need_restart
              /\ \E h \in Handles : /\ fds[h] = "free" /\ tun_handle' = h
                                    /\ fds' = [fds EXCEPT ![h] = "tun"]
BY Zenon DEF Open, OpenMacOS, OpenWindows, LowestFree

\* After Open the device has a descriptor, and no session has lost its own.
LEMMA OpenDevice ==
    ASSUME IndInv, NEW ok \in BOOLEAN, Open(ok),
           platform = "windows" /\ need_restart => tun_handle # 0 /\ tun_handle = tun_socket
    PROVE  /\ tun_handle' # 0
           /\ ~stolen => /\ \A h \in sessions : fds'[h] = "session"
                         /\ ok \/ platform = "windows" => fds'[tun_handle'] = "tun"
                         /\ tun_socket # 0 => fds'[tun_socket] = "tun"
<1>0. /\ fds \in [Handles -> {"free", "tun", "session"}] /\ sessions \subseteq Handles
      /\ tun_socket \in Handles \union {0}
      /\ ~stolen => (tun_socket # 0 => fds[tun_socket] = "tun")
      /\ ~stolen => \A h \in sessions : fds[h] = "session"
  BY Zenon DEF IndInv, TypeOK, DescriptorInv
<1>1. ASSUME NEW h \in Handles, fds[h] = "free", NEW v, fds' = [fds EXCEPT ![h] = v],
             tun_handle' = h
      PROVE  /\ tun_handle' # 0 /\ fds'[tun_handle'] = v
             /\ ~stolen => /\ \A k \in sessions : fds'[k] = "session"
                           /\ tun_socket # 0 => fds'[tun_socket] = "tun"
  <2>1. h # 0
    BY Zenon, <1>1, Constants
  <2>2. fds'[h] = v /\ \A k \in Handles : k # h => fds'[k] = fds[k]
    BY <1>0, <1>1
  <2>3. "free" # "session" /\ "free" # "tun"
    OBVIOUS
  <2>4. ASSUME ~stolen, NEW k \in sessions PROVE fds'[k] = "session"
    BY Zenon, <1>0, <1>1, <2>2, <2>3, <2>4
  <2>5. ASSUME ~stolen, tun_socket # 0 PROVE fds'[tun_socket] = "tun"
    BY Zenon, <1>0, <1>1, <2>2, <2>3, <2>5
  <2> QED BY Zenon, <1>1, <2>1, <2>2, <2>4, <2>5
<1>2. CASE platform = "macos" /\ ok
  BY Zenon, <1>1, <1>2, OpenEffect
<1>3. CASE platform = "macos" /\ ~ok
  BY Zenon, <1>1, <1>3, OpenEffect
<1>4. CASE platform = "windows" /\ need_restart
  <2>1. UNCHANGED <<tun_handle, fds>>
    BY Zenon, <1>4, OpenEffect
  <2> QED BY Zenon, <1>0, <1>4, <2>1
<1>5. CASE platform = "windows" /\ ~need_restart
  BY Zenon, <1>1, <1>5, OpenEffect
<1> QED BY Zenon, <1>2, <1>3, <1>4, <1>5 DEF IndInv, TypeOK

\* The caller's steps keep the device, its descriptor and the flags in step, and
\* while no session has lost its descriptor the device keeps its own.
LEMMA LifeStep ==
    ASSUME IndInv, Next
    PROVE  LifeInv' /\ DescriptorInv' /\ OpenInv'
<1>0. /\ LifeInv /\ DescriptorInv /\ OpenInv
      /\ platform \in {"macos", "windows"} /\ api \in {"new", "up", "stopping", "down", "failed"}
      /\ fds \in [Handles -> {"free", "tun", "session"}] /\ sessions \subseteq Handles
      /\ tun_socket \in Handles \union {0} /\ 0 \notin Handles
  BY Zenon, Constants DEF IndInv, TypeOK
<1>1. ASSUME NEW ok \in BOOLEAN, Open(ok), api \in {"new", "down"},
             UNCHANGED <<platform, need_restart, sessions, stolen, writes>>,
             \/ ok /\ api' = "up" /\ tun_socket' = tun_handle'
             \/ api' \in {"failed", "down"} /\ (api' = "down" <=> api = "down")
                /\ UNCHANGED <<tun_socket, pending>>
      PROVE  LifeInv' /\ DescriptorInv' /\ OpenInv'
  <2>1. platform = "windows" /\ need_restart =>
           tun_handle # 0 /\ tun_handle = tun_socket /\ UNCHANGED tun_handle
    <3>1. platform = "windows" /\ need_restart => api = "down"
      BY Zenon, <1>0, <1>1 DEF LifeInv
    <3>2. platform = "windows" /\ need_restart => UNCHANGED tun_handle
      <4>1. "windows" # "macos"
        OBVIOUS
      <4> QED BY Zenon, <1>1, <4>1, OpenEffect
    <3> QED BY Zenon, <1>0, <3>1, <3>2 DEF LifeInv
  <2>2. /\ tun_handle' # 0
        /\ ~stolen => /\ \A h \in sessions : fds'[h] = "session"
                      /\ ok \/ platform = "windows" => fds'[tun_handle'] = "tun"
                      /\ tun_socket # 0 => fds'[tun_socket] = "tun"
    BY Zenon, <1>1, <2>1, OpenDevice
  <2>3. CASE ok /\ api' = "up" /\ tun_socket' = tun_handle'
    <3>1. LifeInv'
      <4>1. api' \notin {"new", "failed", "down"}
        BY <2>3
      <4>2. platform = "macos" => ~need_restart
        BY Zenon, <1>0 DEF LifeInv
      <4> QED BY Zenon, <1>1, <2>2, <2>3, <4>1, <4>2 DEF LifeInv
    <3>2. DescriptorInv' /\ OpenInv'
      BY Zenon, <1>1, <2>2, <2>3 DEF DescriptorInv, OpenInv
    <3> QED BY Zenon, <3>1, <3>2
  <2>4. CASE api' \in {"failed", "down"} /\ (api' = "down" <=> api = "down")
                /\ UNCHANGED <<tun_socket, pending>>
    <3>1. LifeInv'
      <4>1. CASE api = "new"
        <5>1. api' \notin {"up", "stopping", "down"} /\ api' # "up"
          BY <2>4, <4>1
        <5>2. tun_socket = 0 /\ ~need_restart
          BY Zenon, <1>0, <4>1 DEF LifeInv
        <5> QED BY Zenon, <1>1, <2>4, <5>1, <5>2 DEF LifeInv
      <4>2. CASE api = "down"
        <5>1. api' = "down" /\ api # "up" /\ api' \notin {"new", "failed"}
          BY <2>4, <4>2
        <5>2. /\ platform = "macos" => ~need_restart /\ tun_socket = 0
              /\ platform = "windows" =>
                    need_restart /\ tun_handle # 0 /\ tun_handle = tun_socket
          BY Zenon, <1>0, <4>2, <5>1 DEF LifeInv
        <5>3. platform = "windows" => UNCHANGED tun_handle
          BY Zenon, <2>1, <5>2
        <5> QED BY Zenon, <1>1, <2>4, <5>1, <5>2, <5>3 DEF LifeInv
      <4> QED BY Zenon, <1>1, <4>1, <4>2
    <3>2. DescriptorInv' /\ OpenInv'
      BY Zenon, <1>0, <1>1, <2>2, <2>4 DEF DescriptorInv, OpenInv
    <3> QED BY Zenon, <3>1, <3>2
  <2> QED BY Zenon, <1>1, <2>3, <2>4
<1>2. CASE tunosocks_start
  <2>1. PICK ok \in BOOLEAN :
           /\ Open(ok) /\ api = "new"
           /\ \/ ok /\ api' = "up" /\ tun_socket' = tun_handle'
              \/ api' = "failed" /\ UNCHANGED <<tun_socket, pending>>
           /\ UNCHANGED <<platform, need_restart, sessions, stolen, writes>>
    BY Zenon, <1>2 DEF tunosocks_start, writeVars
  <2>2. "failed" # "down" /\ "new" # "down"
    OBVIOUS
  <2> QED BY Zenon, <1>1, <2>1, <2>2
<1>3. CASE Restart
  <2>1. PICK ok \in BOOLEAN :
           /\ Open(ok) /\ api = "down"
           /\ \/ ok /\ api' = "up" /\ tun_socket' = tun_handle'
              \/ UNCHANGED <<api, tun_socket, pending>>
           /\ UNCHANGED <<platform, need_restart, sessions, stolen, writes>>
    BY Zenon, <1>3 DEF Restart, writeVars
  <2> QED BY Zenon, <1>1, <2>1
<1>4. CASE Stop
  <2>1. /\ api = "up" /\ api' = "stopping" /\ pending' = <<>> /\ writes' = <<>>
        /\ IF platform = "macos"
           THEN tun_socket' = 0 /\ fds' = [fds EXCEPT ![tun_socket] = "free"]
           ELSE UNCHANGED <<tun_socket, fds>>
        /\ UNCHANGED <<platform, tun_handle, need_restart, sessions, stolen>>
    BY Zenon, <1>4 DEF Stop, CancelOperations, CloseSocket
  <2>2. "stopping" \notin {"new", "failed"} /\ "stopping" # "up" /\ "stopping" # "down"
        /\ "macos" # "windows" /\ "tun" # "session"
    OBVIOUS
  <2>3. LifeInv' /\ OpenInv'
    BY Zenon, <1>0, <2>1, <2>2 DEF LifeInv, OpenInv
  <2>4. CASE platform = "macos"
    <3>1. \A h \in Handles : h # tun_socket => fds'[h] = fds[h]
      BY <1>0, <2>1, <2>4
    <3>2. ASSUME ~stolen, NEW h \in sessions PROVE h # tun_socket /\ fds[h] = "session"
      BY Zenon, <1>0, <2>2, <3>2 DEF DescriptorInv
    <3> QED BY Zenon, <1>0, <2>1, <2>3, <2>4, <3>1, <3>2 DEF DescriptorInv
  <2>5. CASE platform # "macos"
    BY Zenon, <1>0, <2>1, <2>3, <2>5 DEF DescriptorInv
  <2> QED BY Zenon, <2>4, <2>5
<1>5. CASE StopDevice
  <2>1. api = "stopping" /\ api' = "down"
        /\ UNCHANGED <<platform, tun_handle, tun_socket, sessions, pending, writes>>
    BY Zenon, <1>5 DEF StopDevice, writeVars
  <2>2. "down" \notin {"new", "failed"} /\ "down" # "up" /\ "stopping" # "up"
        /\ "macos" # "windows"
    OBVIOUS
  <2>3. OpenInv'
    BY Zenon, <1>0, <2>1 DEF OpenInv
  <2>4. CASE platform = "macos"
    <3>1. /\ fds' = [fds EXCEPT ![tun_handle] = "free"] /\ UNCHANGED need_restart
          /\ stolen' = (stolen \/ fds[tun_handle] = "session")
      BY Zenon, <1>5, <2>2, <2>4 DEF StopDevice, Close, CloseMacOS
    <3>2. LifeInv'
      BY Zenon, <1>0, <2>1, <2>2, <2>4, <3>1 DEF LifeInv
    <3>3. tun_socket = 0
      BY Zenon, <1>0, <2>1, <2>2, <2>4 DEF LifeInv
    <3>4. \A h \in Handles : h # tun_handle => fds'[h] = fds[h]
      BY <1>0, <3>1
    <3>5. ASSUME ~stolen', NEW h \in sessions PROVE fds'[h] = "session"
      BY Zenon, <1>0, <3>1, <3>4, <3>5 DEF DescriptorInv
    <3> QED BY Zenon, <2>1, <2>3, <3>2, <3>3, <3>5 DEF DescriptorInv
  <2>5. CASE platform = "windows"
    <3>1. need_restart' = TRUE /\ UNCHANGED <<fds, stolen>>
      BY Zenon, <1>5, <2>2, <2>5 DEF StopDevice, Close, CloseWindows
    <3> QED BY Zenon, <1>0, <2>1, <2>2, <2>3, <2>5, <3>1 DEF LifeInv, DescriptorInv
  <2> QED BY Zenon, <1>0, <2>4, <2>5
<1>6. ASSUME UNCHANGED <<platform, api, tun_handle, tun_socket, need_restart>>
      PROVE  LifeInv'
  BY Zenon, <1>0, <1>6 DEF LifeInv
<1>7. ASSUME UNCHANGED <<tun_socket, fds, sessions, stolen>>
      PROVE  DescriptorInv'
  BY Zenon, <1>0, <1>7 DEF DescriptorInv
<1>8. ASSUME UNCHANGED <<tun_socket, pending, writes>>
      PROVE  OpenInv'
  BY Zenon, <1>0, <1>8 DEF OpenInv
<1>9. ASSUME NEW c \in Coroutines, Input(c)
      PROVE  LifeInv' /\ DescriptorInv' /\ OpenInv'
  <2>1. UNCHANGED <<platform, api, tun_handle, tun_socket, need_restart, pending, writes,
                    stolen>>
    BY Zenon, <1>9 DEF Input, writeVars
  <2>2. DescriptorInv'
    <3>1. CASE UNCHANGED <<fds, sessions>>
      BY Zenon, <1>7, <2>1, <3>1
    <3>2. CASE ~ UNCHANGED <<fds, sessions>>
      <4>1. PICK h \in Handles : /\ fds[h] = "free" /\ sessions' = sessions \union {h}
                                 /\ fds' = [fds EXCEPT ![h] = "session"]
        BY Zenon, <1>9, <3>2 DEF Input, LowestFree
      <4>2. fds'[h] = "session" /\ \A k \in Handles : k # h => fds'[k] = fds[k]
        BY <1>0, <4>1
      <4>3. "free" # "session" /\ "free" # "tun"
        OBVIOUS
      <4>4. ASSUME ~stolen, tun_socket # 0 PROVE fds'[tun_socket] = "tun"
        BY Zenon, <1>0, <4>1, <4>2, <4>3, <4>4 DEF DescriptorInv
      <4>5. ASSUME ~stolen, NEW k \in sessions' PROVE fds'[k] = "session"
        BY Zenon, <1>0, <4>1, <4>2, <4>5 DEF DescriptorInv
      <4> QED BY Zenon, <2>1, <4>4, <4>5 DEF DescriptorInv
    <3> QED BY Zenon, <3>1, <3>2
  <2> QED BY Zenon, <1>6, <1>8, <2>1, <2>2
<1>10. ASSUME NEW h \in Handles, CloseSession(h)
       PROVE  LifeInv' /\ DescriptorInv' /\ OpenInv'
  <2>1. /\ UNCHANGED <<platform, api, tun_handle, tun_socket, need_restart, pending, writes,
                       stolen>>
        /\ h \in sessions /\ sessions' = sessions \ {h} /\ fds' = [fds EXCEPT ![h] = "free"]
    BY Zenon, <1>10 DEF CloseSession, readVars, histVars, writeVars
  <2>2. \A k \in Handles : k # h => fds'[k] = fds[k]
    BY <1>0, <2>1
  <2>3. "tun" # "session"
    OBVIOUS
  <2>4. ASSUME ~stolen, tun_socket # 0 PROVE fds'[tun_socket] = "tun"
    BY Zenon, <1>0, <2>1, <2>2, <2>3, <2>4 DEF DescriptorInv
  <2>5. ASSUME ~stolen, NEW k \in sessions' PROVE fds'[k] = "session"
    BY Zenon, <1>0, <2>1, <2>2, <2>5 DEF DescriptorInv
  <2>6. DescriptorInv'
    BY Zenon, <2>1, <2>4, <2>5 DEF DescriptorInv
  <2> QED BY Zenon, <1>6, <1>8, <2>1, <2>6
<1>11. ASSUME NEW c \in Coroutines, ReadAgain(c)
       PROVE  LifeInv' /\ DescriptorInv' /\ OpenInv'
  <2>1. /\ UNCHANGED <<platform, api, tun_handle, tun_socket, need_restart, fds, sessions,
                       stolen, writes>>
        /\ async_read_some(c)
    BY Zenon, <1>11 DEF ReadAgain, writeVars
  <2>2. tun_socket' = 0 => UNCHANGED pending
    BY Zenon, <2>1 DEF async_read_some
  <2>3. OpenInv'
    BY Zenon, <1>0, <2>1, <2>2 DEF OpenInv
  <2> QED BY Zenon, <1>6, <1>7, <2>1, <2>3
<1>12. ASSUME NEW c \in Coroutines, Resume(c)
       PROVE  LifeInv' /\ DescriptorInv' /\ OpenInv'
  BY Zenon, <1>6, <1>7, <1>8, <1>12 DEF Resume, lifeVars, histVars, writeVars
<1>13. ASSUME NEW i \in 1 .. MaxInjects, handlerOnTunInjectWithPbuf(i)
       PROVE  LifeInv' /\ DescriptorInv' /\ OpenInv'
  BY Zenon, <1>6, <1>7, <1>8, <1>13 DEF handlerOnTunInjectWithPbuf, lifeVars, readVars, histVars
<1>14. CASE Arrive
  BY Zenon, <1>6, <1>7, <1>8, <1>14 DEF Arrive, lifeVars, histVars, writeVars
<1>15. CASE CompleteRead
  <2>1. pending # <<>> /\ UNCHANGED tun_socket
    BY Zenon, <1>15 DEF CompleteRead, lifeVars
  <2>2. OpenInv'
    BY Zenon, <1>0, <2>1 DEF OpenInv
  <2> QED BY Zenon, <1>6, <1>7, <1>15, <2>2 DEF CompleteRead, lifeVars, histVars
<1>15a. CASE FailRead
  <2>1. pending # <<>> /\ UNCHANGED tun_socket
    BY Zenon, <1>15a DEF FailRead, lifeVars
  <2>2. OpenInv'
    BY Zenon, <1>0, <2>1 DEF OpenInv
  <2> QED BY Zenon, <1>6, <1>7, <1>15a, <2>2 DEF FailRead, lifeVars
<1>16. CASE CompleteWrite
  <2>1. writes # <<>> /\ UNCHANGED tun_socket
    BY Zenon, <1>16 DEF CompleteWrite, lifeVars
  <2>2. OpenInv'
    BY Zenon, <1>0, <2>1 DEF OpenInv
  <2> QED BY Zenon, <1>6, <1>7, <1>16, <2>2 DEF CompleteWrite, lifeVars, histVars
<1>17. CASE Inject
  <2>1. UNCHANGED <<tun_socket, pending>> /\ (tun_socket = 0 => UNCHANGED writes)
    BY Zenon, <1>17 DEF Inject, lifeVars, readVars
  <2>2. OpenInv'
    BY Zenon, <1>0, <2>1 DEF OpenInv
  <2> QED BY Zenon, <1>6, <1>7, <1>17, <2>2 DEF Inject, lifeVars, histVars
<1> QED BY Zenon, <1>2, <1>3, <1>4, <1>5, <1>9, <1>10, <1>11, <1>12, <1>13, <1>14, <1>15,
           <1>15a, <1>16, <1>17 DEF Next

-----------------------------------------------------------------------------
(* The readers *)

CoroStates == {"none", "waiting", "read", "error", "input", "again", "returned"}

\* A coroutine that neither waits nor begins to wait moves.
LEMMA WaitsOther ==
    ASSUME NEW p \in Seq(Coroutines), NEW r \in [Coroutines -> CoroStates], Waits(p, r),
           NEW c \in Coroutines, r[c] # "waiting", NEW v, v # "waiting"
    PROVE  Waits(p, [r EXCEPT ![c] = v])
<1> DEFINE q == [r EXCEPT ![c] = v]
<1>1. q[c] = v /\ \A d \in Coroutines : d # c => q[d] = r[d]
  OBVIOUS
<1> HIDE DEF q
<1>2. /\ \A k \in DOMAIN p : p[k] \in Coroutines /\ r[p[k]] = "waiting"
      /\ \A j, k \in DOMAIN p : p[j] = p[k] => j = k
      /\ \A d \in Coroutines : r[d] = "waiting" => \E k \in DOMAIN p : p[k] = d
  BY Zenon, SeqElement DEF Waits
<1>3. ASSUME NEW k \in DOMAIN p PROVE q[p[k]] = "waiting"
  BY Zenon, <1>1, <1>2
<1>4. ASSUME NEW d \in Coroutines, q[d] = "waiting" PROVE \E k \in DOMAIN p : p[k] = d
  BY Zenon, <1>1, <1>2, <1>4
<1>5. Waits(p, q)
  BY Zenon, <1>2, <1>3, <1>4 DEF Waits
<1> QED BY Zenon, <1>5 DEF q

\* A coroutine begins to wait behind the others.
LEMMA WaitsAppend ==
    ASSUME NEW p \in Seq(Coroutines), NEW r \in [Coroutines -> CoroStates], Waits(p, r),
           NEW c \in Coroutines, r[c] # "waiting"
    PROVE  Waits(Append(p, c), [r EXCEPT ![c] = "waiting"])
<1> DEFINE q == [r EXCEPT ![c] = "waiting"]
           t == Append(p, c)
<1>1. q[c] = "waiting" /\ \A d \in Coroutines : d # c => q[d] = r[d]
  OBVIOUS
<1>2. /\ \A k \in DOMAIN p : p[k] \in Coroutines /\ r[p[k]] = "waiting"
      /\ \A j, k \in DOMAIN p : p[j] = p[k] => j = k
      /\ \A d \in Coroutines : r[d] = "waiting" => \E k \in DOMAIN p : p[k] = d
  BY Zenon, SeqElement DEF Waits
<1>3. /\ \A k \in DOMAIN t : (k \in DOMAIN p /\ t[k] = p[k]) \/ (k = Len(p) + 1 /\ t[k] = c)
      /\ \A k \in DOMAIN p : k \in DOMAIN t /\ t[k] = p[k]
      /\ Len(p) + 1 \in DOMAIN t /\ t[Len(p) + 1] = c
  OBVIOUS
<1> HIDE DEF q, t
<1>4. \A k \in DOMAIN p : p[k] # c
  BY Zenon, <1>2
<1>4a. \A k \in DOMAIN t : (k \in DOMAIN p /\ t[k] = p[k]) \/ (k = Len(p) + 1 /\ t[k] = c)
  BY Zenon, <1>3
<1>5. ASSUME NEW k \in DOMAIN t PROVE q[t[k]] = "waiting"
  <2>1. CASE k \in DOMAIN p /\ t[k] = p[k]
    <3>1. q[p[k]] = r[p[k]] /\ r[p[k]] = "waiting"
      BY Zenon, <1>1, <1>2, <1>4, <2>1
    <3> QED BY Zenon, <2>1, <3>1
  <2>2. CASE t[k] = c
    BY Zenon, <1>1, <2>2
  <2> QED BY Zenon, <1>4a, <2>1, <2>2
<1>6. ASSUME NEW j \in DOMAIN t, NEW k \in DOMAIN t, t[j] = t[k] PROVE j = k
  <2>1. CASE j \in DOMAIN p /\ t[j] = p[j]
    <3>1. t[k] # c
      BY Zenon, <1>4, <1>6, <2>1
    <3>2. k \in DOMAIN p /\ p[j] = p[k]
      BY Zenon, <1>4a, <1>6, <2>1, <3>1
    <3> QED BY Zenon, <1>2, <2>1, <3>2
  <2>2. CASE j = Len(p) + 1 /\ t[j] = c
    BY Zenon, <1>4a, <1>4, <1>6, <2>2
  <2> QED BY Zenon, <1>4a, <2>1, <2>2
<1>7. ASSUME NEW d \in Coroutines, q[d] = "waiting" PROVE \E k \in DOMAIN t : t[k] = d
  <2>1. CASE d = c
    BY Zenon, <1>3, <2>1
  <2>2. CASE d # c
    <3>1. PICK k \in DOMAIN p : p[k] = d
      BY Zenon, <1>1, <1>2, <1>7, <2>2
    <3> QED BY Zenon, <1>3, <3>1
  <2> QED BY Zenon, <2>1, <2>2
<1>8. Waits(t, q)
  BY Zenon, <1>5, <1>6, <1>7 DEF Waits
<1> QED BY Zenon, <1>8 DEF q, t

\* The oldest read ends.
LEMMA WaitsTail ==
    ASSUME NEW p \in Seq(Coroutines), NEW r \in [Coroutines -> CoroStates], Waits(p, r),
           p # <<>>, NEW v, v # "waiting"
    PROVE  Waits(Tail(p), [r EXCEPT ![Head(p)] = v])
<1>1. PICK c \in Coroutines : c = Head(p) /\ c = p[1] /\ 1 \in DOMAIN p
  BY Zenon, SeqTail
<1> DEFINE q == [r EXCEPT ![c] = v]
           t == Tail(p)
<1>2. q[c] = v /\ \A d \in Coroutines : d # c => q[d] = r[d]
  OBVIOUS
<1>3. /\ \A k \in DOMAIN t : k + 1 \in DOMAIN p /\ t[k] = p[k + 1] /\ 1 # k + 1
      /\ \A j, k \in DOMAIN t : j + 1 = k + 1 => j = k
      /\ \A k \in DOMAIN p : k = 1 \/ \E j \in DOMAIN t : k = j + 1
  BY SeqTail
<1> HIDE DEF q, t
<1>4. /\ \A k \in DOMAIN p : p[k] \in Coroutines /\ r[p[k]] = "waiting"
      /\ \A j, k \in DOMAIN p : p[j] = p[k] => j = k
      /\ \A d \in Coroutines : r[d] = "waiting" => \E k \in DOMAIN p : p[k] = d
  BY Zenon, SeqElement DEF Waits
<1>5. ASSUME NEW k \in DOMAIN t PROVE q[t[k]] = "waiting"
  <2>1. p[k + 1] # p[1] /\ p[k + 1] \in Coroutines /\ r[p[k + 1]] = "waiting" /\ t[k] = p[k + 1]
    <3>1. k + 1 \in DOMAIN p /\ t[k] = p[k + 1] /\ 1 # k + 1 /\ 1 \in DOMAIN p
      BY Zenon, <1>1, <1>3
    <3>2. p[k + 1] # p[1]
      BY Zenon, <1>4, <3>1
    <3> QED BY Zenon, <1>4, <3>1, <3>2
  <2> QED BY Zenon, <1>1, <1>2, <2>1
<1>6. ASSUME NEW j \in DOMAIN t, NEW k \in DOMAIN t, t[j] = t[k] PROVE j = k
  <2>1. p[j + 1] = p[k + 1] /\ j + 1 \in DOMAIN p /\ k + 1 \in DOMAIN p
    BY Zenon, <1>3, <1>6
  <2> QED BY Zenon, <1>3, <1>4, <2>1
<1>7. ASSUME NEW d \in Coroutines, q[d] = "waiting" PROVE \E k \in DOMAIN t : t[k] = d
  <2>1. d # c
    BY <1>2, <1>7
  <2>2. PICK k \in DOMAIN p : p[k] = d
    BY Zenon, <1>2, <1>4, <1>7, <2>1
  <2>3. PICK j \in DOMAIN t : k = j + 1
    BY Zenon, <1>1, <1>3, <2>1, <2>2
  <2> QED BY Zenon, <1>3, <2>2, <2>3
<1>8. Waits(t, q)
  BY Zenon, <1>5, <1>6, <1>7 DEF Waits
<1> QED BY Zenon, <1>1, <1>8 DEF q, t

Failed(p, r) == [c \in Coroutines |-> IF \E k \in DOMAIN p : p[k] = c THEN "error" ELSE r[c]]

\* cancel leaves no coroutine waiting, and touches no other.
LEMMA WaitsCancel ==
    ASSUME NEW p \in Seq(Coroutines), NEW r \in [Coroutines -> CoroStates], Waits(p, r)
    PROVE  /\ Waits(<<>>, Failed(p, r))
           /\ \A c \in Coroutines :
                 \/ Failed(p, r)[c] = r[c] /\ r[c] # "waiting"
                 \/ Failed(p, r)[c] = "error" /\ r[c] = "waiting"
<1> DEFINE q == Failed(p, r)
<1>1. \A c \in Coroutines : q[c] = IF \E k \in DOMAIN p : p[k] = c THEN "error" ELSE r[c]
  BY Zenon DEF Failed
<1> HIDE DEF q
<1>2. ASSUME NEW c \in Coroutines
      PROVE  (q[c] = r[c] /\ r[c] # "waiting") \/ (q[c] = "error" /\ r[c] = "waiting")
  <2>1. CASE \E k \in DOMAIN p : p[k] = c
    <3>1. PICK k \in DOMAIN p : p[k] = c
      BY Zenon, <2>1
    <3>2. r[p[k]] = "waiting"
      BY Zenon DEF Waits
    <3>3. q[c] = "error"
      BY Zenon, <1>1, <2>1
    <3> QED BY Zenon, <3>1, <3>2, <3>3
  <2>2. CASE ~ \E k \in DOMAIN p : p[k] = c
    <3>1. r[c] # "waiting"
      BY Zenon, <2>2 DEF Waits
    <3> QED BY Zenon, <1>1, <2>2, <3>1
  <2> QED BY Zenon, <2>1, <2>2
<1>3. \A c \in Coroutines : q[c] # "waiting"
  <2>1. "error" # "waiting"
    OBVIOUS
  <2> QED BY Zenon, <1>2, <2>1
<1>4. Waits(<<>>, q)
  BY Zenon, <1>3, SeqEmpty DEF Waits
<1> QED BY Zenon, <1>2, <1>4 DEF q

\* A coroutine that starts a read is refused, has a packet at once, or waits.
LEMMA StartRead ==
    ASSUME IndInv, NEW c \in Coroutines, async_read_some(c), coro[c] # "waiting"
    PROVE  /\ Waits(pending', coro')
           /\ coro' = [coro EXCEPT ![c] = coro'[c]]
           /\ \A d \in Coroutines : d # c => coro'[d] = coro[d]
           /\ \/ coro'[c] = "error" /\ UNCHANGED <<device, buff, pending, got>>
              \/ /\ coro'[c] = "read" /\ device # <<>>
                 /\ buff' = Head(device) /\ device' = Tail(device)
                 /\ got' = [got EXCEPT ![c] = Head(device).id]
              \/ coro'[c] = "waiting" /\ UNCHANGED <<device, buff, got>>
<1>0. /\ pending \in Seq(Coroutines) /\ coro \in [Coroutines -> CoroStates]
      /\ Waits(pending, coro)
  BY Zenon DEF IndInv, TypeOK, ReaderInv, CoroStates
<1>1. CASE coro' = [coro EXCEPT ![c] = "error"] /\ UNCHANGED <<device, buff, pending, got>>
  <2>1. coro' = [coro EXCEPT ![c] = "error"] /\ UNCHANGED <<device, buff, pending, got>>
    BY Zenon, <1>1
  <2>2. coro'[c] = "error" /\ \A d \in Coroutines : d # c => coro'[d] = coro[d]
    BY <1>0, <2>1
  <2>3. Waits(pending, [coro EXCEPT ![c] = "error"])
    <3>1. "error" # "waiting"
      OBVIOUS
    <3> QED BY Zenon, <1>0, <3>1, WaitsOther
  <2> QED BY Zenon, <2>1, <2>2, <2>3
<1>2. CASE /\ device # <<>> /\ coro' = [coro EXCEPT ![c] = "read"] /\ UNCHANGED pending
           /\ buff' = Head(device) /\ device' = Tail(device)
           /\ got' = [got EXCEPT ![c] = Head(device).id]
  <2>1. coro' = [coro EXCEPT ![c] = "read"] /\ UNCHANGED pending
    BY Zenon, <1>2
  <2>2. coro'[c] = "read" /\ \A d \in Coroutines : d # c => coro'[d] = coro[d]
    BY <1>0, <2>1
  <2>3. Waits(pending, [coro EXCEPT ![c] = "read"])
    <3>1. "read" # "waiting"
      OBVIOUS
    <3> QED BY Zenon, <1>0, <3>1, WaitsOther
  <2> QED BY Zenon, <1>2, <2>1, <2>2, <2>3
<1>3. CASE /\ coro' = [coro EXCEPT ![c] = "waiting"]
           /\ pending' = Append(pending, c)
           /\ UNCHANGED <<device, buff, got>>
  <2>1. /\ coro' = [coro EXCEPT ![c] = "waiting"]
        /\ pending' = Append(pending, c)
        /\ UNCHANGED <<device, buff, got>>
    BY Zenon, <1>3
  <2>2. coro'[c] = "waiting" /\ \A d \in Coroutines : d # c => coro'[d] = coro[d]
    BY <1>0, <2>1
  <2>3. Waits(Append(pending, c), [coro EXCEPT ![c] = "waiting"])
    BY Zenon, <1>0, WaitsAppend
  <2> QED BY Zenon, <2>1, <2>2, <2>3
<1> QED BY Zenon, <1>1, <1>2, <1>3 DEF async_read_some

\* What Stop does to the readers.
LEMMA StopEffect ==
    ASSUME IndInv, Stop
    PROVE  /\ Waits(pending', coro')
           /\ \A c \in Coroutines : \/ coro'[c] = coro[c] /\ coro[c] # "waiting"
                                    \/ coro'[c] = "error" /\ coro[c] = "waiting"
           /\ device' = device \/ device' = <<>>
           /\ api' = "stopping" /\ missed' = missed \union InHand
           /\ UNCHANGED <<arrived, buff, got, io, seen, handled, overtaken>>
<1>0. /\ pending \in Seq(Coroutines) /\ coro \in [Coroutines -> CoroStates]
      /\ Waits(pending, coro)
  BY Zenon DEF IndInv, TypeOK, ReaderInv, CoroStates
<1>1. coro' = Failed(pending, coro) /\ pending' = <<>>
  BY Zenon DEF Stop, CancelOperations, Failed
<1>2. /\ Waits(<<>>, Failed(pending, coro))
      /\ \A c \in Coroutines :
            \/ Failed(pending, coro)[c] = coro[c] /\ coro[c] # "waiting"
            \/ Failed(pending, coro)[c] = "error" /\ coro[c] = "waiting"
  BY Zenon, <1>0, WaitsCancel
<1>3. /\ device' = device \/ device' = <<>>
      /\ api' = "stopping" /\ missed' = missed \union InHand
      /\ UNCHANGED <<arrived, buff, got, io, seen, handled, overtaken>>
  BY Zenon DEF Stop, CloseSocket
<1> QED BY Zenon, <1>1, <1>2, <1>3

\* The outstanding reads stay those of the waiting coroutines, and the io thread
\* runs one coroutine at a time.
LEMMA ReaderStep ==
    ASSUME IndInv, Next
    PROVE  ReaderInv'
<1>0. /\ pending \in Seq(Coroutines) /\ coro \in [Coroutines -> CoroStates]
      /\ Waits(pending, coro)
      /\ \A c \in Coroutines : coro[c] \in {"input", "again"} => io = c
      /\ api \in {"new", "failed"} => \A c \in Coroutines : coro[c] = "none"
      /\ \A c \in Coroutines : c # 0
  BY Zenon, Constants DEF IndInv, TypeOK, ReaderInv, CoroStates
<1>1. ASSUME UNCHANGED <<pending, coro, io>>, api' = api \/ api' \notin {"new", "failed"}
      PROVE  ReaderInv'
  BY Zenon, <1>0, <1>1 DEF ReaderInv
<1>2. ASSUME Spawn, UNCHANGED io, api' = "up"
      PROVE  ReaderInv'
  <2>1. PICK c \in Coroutines : coro[c] = "none" /\ async_read_some(c)
    BY Zenon, <1>2 DEF Spawn
  <2>2. "none" # "waiting" /\ "up" \notin {"new", "failed"}
        /\ {"error", "read", "waiting"} \intersect {"input", "again"} = {}
    OBVIOUS
  <2>3. /\ Waits(pending', coro') /\ coro'[c] \in {"error", "read", "waiting"}
        /\ \A d \in Coroutines : d # c => coro'[d] = coro[d]
    BY Zenon, <2>1, <2>2, StartRead
  <2>4. \A d \in Coroutines : coro'[d] \in {"input", "again"} => io' = d
    BY Zenon, <1>0, <1>2, <2>2, <2>3
  <2> QED BY Zenon, <1>2, <2>2, <2>3, <2>4 DEF ReaderInv
<1>3. CASE tunosocks_start
  <2>1. /\ UNCHANGED io /\ api = "new"
        /\ \/ api' = "up" /\ Spawn
           \/ api' = "failed" /\ UNCHANGED <<pending, coro>>
    BY Zenon, <1>3 DEF tunosocks_start
  <2>2. CASE api' = "failed" /\ UNCHANGED <<pending, coro>>
    BY Zenon, <1>0, <2>1, <2>2 DEF ReaderInv
  <2> QED BY Zenon, <1>2, <2>1, <2>2
<1>4. CASE Restart
  <2>1. UNCHANGED io /\ ((api' = "up" /\ Spawn) \/ UNCHANGED <<api, pending, coro>>)
    BY Zenon, <1>4 DEF Restart
  <2> QED BY Zenon, <1>1, <1>2, <2>1
<1>5. CASE Stop
  <2>1. "error" \notin {"input", "again"} /\ "stopping" \notin {"new", "failed"}
    OBVIOUS
  <2>2. /\ Waits(pending', coro') /\ api' = "stopping" /\ UNCHANGED io
        /\ \A c \in Coroutines : coro'[c] = coro[c] \/ coro'[c] = "error"
    BY Zenon, <1>5, StopEffect
  <2> QED BY Zenon, <1>0, <2>1, <2>2 DEF ReaderInv
<1>6. CASE StopDevice
  <2>1. "down" \notin {"new", "failed"}
    OBVIOUS
  <2> QED BY Zenon, <1>1, <1>6, <2>1 DEF StopDevice
<1>7. CASE CompleteRead \/ FailRead
  <2>1. PICK v \in {"read", "error"} :
           /\ pending # <<>> /\ pending' = Tail(pending)
           /\ coro' = [coro EXCEPT ![Head(pending)] = v] /\ UNCHANGED <<api, io>>
    BY Zenon, <1>7 DEF CompleteRead, FailRead, lifeVars
  <2>1a. v \notin {"waiting", "input", "again"} /\ v # "waiting"
    BY <2>1
  <2>2. Waits(pending', coro')
    BY Zenon, <1>0, <2>1, <2>1a, WaitsTail
  <2>3. PICK c \in Coroutines : c = Head(pending) /\ coro[c] = "waiting"
    <3>1. Head(pending) \in Coroutines /\ Head(pending) = pending[1] /\ 1 \in DOMAIN pending
      BY Zenon, <1>0, <2>1, SeqTail
    <3>2. coro[pending[1]] = "waiting"
      BY Zenon, <1>0, <3>1 DEF Waits
    <3> QED BY Zenon, <3>1, <3>2
  <2>4. coro'[c] = v /\ \A d \in Coroutines : d # c => coro'[d] = coro[d]
    BY <1>0, <2>1, <2>3
  <2>5. v \notin {"input", "again"} /\ "waiting" # "none"
    BY <2>1a
  <2>6. api \notin {"new", "failed"}
    BY Zenon, <1>0, <2>3, <2>5
  <2>7. \A d \in Coroutines : coro'[d] \in {"input", "again"} => io' = d
    BY Zenon, <1>0, <2>1, <2>4, <2>5
  <2> QED BY Zenon, <2>1, <2>2, <2>6, <2>7 DEF ReaderInv
<1>8. ASSUME NEW c \in Coroutines, NEW v, coro' = [coro EXCEPT ![c] = v], v # "waiting",
             coro[c] # "waiting", coro[c] # "none", UNCHANGED <<api, pending>>,
             v \in {"input", "again"} => io' = c,
             \A d \in Coroutines \ {c} : coro[d] \notin {"input", "again"}
      PROVE  ReaderInv'
  <2>1. Waits(pending, [coro EXCEPT ![c] = v])
    BY Zenon, <1>0, <1>8, WaitsOther
  <2>2. coro'[c] = v /\ \A d \in Coroutines : d # c => coro'[d] = coro[d]
    BY <1>0, <1>8
  <2>3. \A d \in Coroutines : coro'[d] \in {"input", "again"} => io' = d
    BY Zenon, <1>8, <2>2
  <2>4. api \notin {"new", "failed"}
    BY Zenon, <1>0, <1>8
  <2> QED BY Zenon, <1>8, <2>1, <2>3, <2>4 DEF ReaderInv
<1>9. ASSUME NEW c \in Coroutines, Resume(c)
      PROVE  ReaderInv'
  <2>1. io = 0 /\ UNCHANGED <<api, pending>>
    BY Zenon, <1>9 DEF Resume, lifeVars
  <2>2. \A d \in Coroutines : coro[d] \notin {"input", "again"}
    BY Zenon, <1>0, <2>1
  <2>3. CASE coro[c] = "error" /\ coro' = [coro EXCEPT ![c] = "returned"]
    BY Zenon, <1>8, <2>1, <2>2, <2>3
  <2>4. CASE coro[c] = "read" /\ coro' = [coro EXCEPT ![c] = "input"] /\ io' = c
    BY Zenon, <1>8, <2>1, <2>2, <2>4
  <2> QED BY Zenon, <1>9, <2>3, <2>4 DEF Resume
<1>10. ASSUME NEW c \in Coroutines, Input(c)
       PROVE  ReaderInv'
  <2>1. /\ coro' = [coro EXCEPT ![c] = "again"] /\ io = c /\ coro[c] = "input"
        /\ UNCHANGED <<api, pending, io>>
    BY Zenon, <1>10, InputEffect
  <2>2. \A d \in Coroutines \ {c} : coro[d] \notin {"input", "again"}
    BY Zenon, <1>0, <2>1
  <2> QED BY Zenon, <1>8, <2>1, <2>2
<1>11. ASSUME NEW c \in Coroutines, ReadAgain(c)
       PROVE  ReaderInv'
  <2>1. io = c /\ coro[c] = "again" /\ io' = 0 /\ async_read_some(c) /\ UNCHANGED api
    BY Zenon, <1>11 DEF ReadAgain
  <2>2. "again" # "waiting" /\ "again" # "none"
        /\ {"error", "read", "waiting"} \intersect {"input", "again"} = {}
    OBVIOUS
  <2>3. /\ Waits(pending', coro') /\ coro'[c] \in {"error", "read", "waiting"}
        /\ \A d \in Coroutines : d # c => coro'[d] = coro[d]
    BY Zenon, <2>1, <2>2, StartRead
  <2>4. \A d \in Coroutines : coro'[d] \notin {"input", "again"}
    BY Zenon, <1>0, <2>1, <2>2, <2>3
  <2>5. api \notin {"new", "failed"}
    BY Zenon, <1>0, <2>1, <2>2
  <2> QED BY Zenon, <2>1, <2>3, <2>4, <2>5 DEF ReaderInv
<1>12. CASE Arrive \/ Inject \/ CompleteWrite
  BY Zenon, <1>1, <1>12 DEF Arrive, Inject, CompleteWrite, lifeVars, readVars
<1>13. ASSUME NEW h \in Handles, CloseSession(h)
       PROVE  ReaderInv'
  BY Zenon, <1>1, <1>13 DEF CloseSession, readVars
<1>14. ASSUME NEW i \in 1 .. MaxInjects, handlerOnTunInjectWithPbuf(i)
       PROVE  ReaderInv'
  BY Zenon, <1>1, <1>14 DEF handlerOnTunInjectWithPbuf, lifeVars, readVars
<1> QED BY Zenon, <1>3, <1>4, <1>5, <1>6, <1>7, <1>9, <1>10, <1>11, <1>12, <1>13, <1>14
        DEF Next

-----------------------------------------------------------------------------
(* The numbers of the packets *)

Slot == Received \union {Nothing}

\* The oldest packet moves to the buffer: the rest stay numbered behind it.
LEMMA NumberedTail ==
    ASSUME NEW s \in Seq(Received), s # <<>>, NEW b \in Slot, NEW n \in Nat, Numbered(s, b, n)
    PROVE  Numbered(Tail(s), Head(s), n) /\ b.id < Head(s).id
<1> DEFINE t == Tail(s)
<1>1. /\ Head(s) = s[1] /\ 1 \in DOMAIN s
      /\ \A k \in DOMAIN t : k + 1 \in DOMAIN s /\ t[k] = s[k + 1] /\ 1 < k + 1
      /\ \A j, k \in DOMAIN t : j < k => j + 1 < k + 1
  BY SeqTail
<1> HIDE DEF t
<1>2. /\ \A j, k \in DOMAIN s : j < k => s[j].id < s[k].id
      /\ \A k \in DOMAIN s : b.id < s[k].id /\ s[k].id <= n
  BY Zenon DEF Numbered
<1>3. ASSUME NEW j \in DOMAIN t, NEW k \in DOMAIN t, j < k PROVE t[j].id < t[k].id
  <2>1. j + 1 \in DOMAIN s /\ k + 1 \in DOMAIN s /\ j + 1 < k + 1
        /\ t[j] = s[j + 1] /\ t[k] = s[k + 1]
    BY Zenon, <1>1, <1>3
  <2> QED BY Zenon, <1>2, <2>1
<1>4. ASSUME NEW k \in DOMAIN t PROVE s[1].id < t[k].id /\ t[k].id <= n
  <2>1. k + 1 \in DOMAIN s /\ 1 < k + 1 /\ 1 \in DOMAIN s /\ t[k] = s[k + 1]
    BY Zenon, <1>1
  <2> QED BY Zenon, <1>2, <2>1
<1>5. Numbered(t, s[1], n)
  BY Zenon, <1>1, <1>2, <1>3, <1>4 DEF Numbered
<1> QED BY Zenon, <1>1, <1>2, <1>5 DEF t

\* A packet arrives and gets the next number.
LEMMA NumberedAppend ==
    ASSUME NEW s \in Seq(Received), NEW b \in Slot, NEW n \in Nat, NEW e,
           n + 1 <= MaxArrivals, e \in Received, e.id = n + 1, Numbered(s, b, n)
    PROVE  Numbered(Append(s, e), b, n + 1)
<1> DEFINE t == Append(s, e)
<1>1. /\ \A k \in DOMAIN t : (k \in DOMAIN s /\ t[k] = s[k]) \/ (k = Len(s) + 1 /\ t[k] = e)
      /\ \A k \in DOMAIN s : ~(Len(s) + 1 < k)
      /\ ~(Len(s) + 1 < Len(s) + 1)
  OBVIOUS
<1> HIDE DEF t
<1>2. /\ \A j, k \in DOMAIN s : j < k => s[j].id < s[k].id
      /\ \A k \in DOMAIN s : b.id < s[k].id /\ s[k].id <= n
      /\ b.id <= n
  BY Zenon DEF Numbered
<1>3. b.id \in Nat /\ \A k \in DOMAIN s : s[k].id \in Nat
  <2>1. \A x \in Slot : x.id \in Nat
    BY BoundsAssumption DEF Slot, Received, Nothing
  <2>2. \A k \in DOMAIN s : s[k] \in Slot
    BY Zenon, SeqElement DEF Slot
  <2> QED BY Zenon, <2>1, <2>2
<1>4. \A k \in DOMAIN s : s[k].id < n + 1 /\ s[k].id <= n + 1
  <2>1. ASSUME NEW k \in DOMAIN s PROVE s[k].id < n + 1 /\ s[k].id <= n + 1
    <3>1. PICK m \in Nat : m = s[k].id /\ m <= n
      BY Zenon, <1>2, <1>3
    <3>2. m < n + 1 /\ m <= n + 1
      BY <3>1
    <3> QED BY Zenon, <3>1, <3>2
  <2> QED BY Zenon, <2>1
<1>5. b.id < n + 1 /\ b.id <= n + 1 /\ n + 1 <= n + 1
  <2>1. PICK m \in Nat : m = b.id /\ m <= n
    BY Zenon, <1>2, <1>3
  <2>2. m < n + 1 /\ m <= n + 1 /\ n + 1 <= n + 1
    BY <2>1
  <2> QED BY Zenon, <2>1, <2>2
<1>6. ASSUME NEW j \in DOMAIN t, NEW k \in DOMAIN t, j < k PROVE t[j].id < t[k].id
  <2>1. CASE j \in DOMAIN s /\ t[j] = s[j]
    <3>1. CASE k \in DOMAIN s /\ t[k] = s[k]
      BY Zenon, <1>2, <1>6, <2>1, <3>1
    <3>2. CASE t[k] = e
      BY Zenon, <1>4, <2>1, <3>2
    <3> QED BY Zenon, <1>1, <3>1, <3>2
  <2>2. CASE j = Len(s) + 1
    BY Zenon, <1>1, <1>6, <2>2
  <2> QED BY Zenon, <1>1, <2>1, <2>2
<1>7. ASSUME NEW k \in DOMAIN t PROVE b.id < t[k].id /\ t[k].id <= n + 1
  <2>1. CASE k \in DOMAIN s /\ t[k] = s[k]
    BY Zenon, <1>2, <1>4, <2>1
  <2>2. CASE t[k] = e
    BY Zenon, <1>5, <2>2
  <2> QED BY Zenon, <1>1, <2>1, <2>2
<1>8. Numbered(t, b, n + 1)
  BY Zenon, <1>5, <1>6, <1>7 DEF Numbered
<1> QED BY Zenon, <1>8 DEF t

\* All packets are lost when the device is closed.
LEMMA NumberedEmpty ==
    ASSUME NEW s, NEW b, NEW n, Numbered(s, b, n)
    PROVE  Numbered(<<>>, b, n)
BY Zenon, SeqEmpty DEF Numbered

\* The numbers are naturals.
LEMMA NumberTypes ==
    ASSUME IndInv
    PROVE  /\ device \in Seq(Received) /\ buff \in Slot /\ seen \in Slot /\ arrived \in Nat
           /\ buff.id \in Nat /\ seen.id \in Nat
           /\ \A k \in DOMAIN handled : handled[k].id \in Nat
           /\ got \in [Coroutines -> 0 .. MaxArrivals]
           /\ coro \in [Coroutines -> CoroStates]
<1>1. /\ device \in Seq(Received) /\ buff \in Slot /\ seen \in Slot
      /\ got \in [Coroutines -> 0 .. MaxArrivals] /\ arrived \in 0 .. MaxArrivals
      /\ coro \in [Coroutines -> CoroStates] /\ handled \in Seq(Handled)
  BY Zenon DEF IndInv, TypeOK, Slot, CoroStates
<1>2. (\A x \in Slot : x.id \in Nat) /\ (\A x \in 0 .. MaxArrivals : x \in Nat)
  BY BoundsAssumption DEF Slot, Received, Nothing
<1>3. \A x \in Handled : x.id \in Nat
  BY BoundsAssumption DEF Handled
<1>4. \A k \in DOMAIN handled : handled[k] \in Handled
  BY Zenon, <1>1, SeqElement
<1> QED BY Zenon, <1>1, <1>2, <1>3, <1>4

\* When the oldest packet moves to the buffer, everything seen before is older.
LEMMA Younger ==
    ASSUME IndInv, device # <<>>
    PROVE  /\ Numbered(Tail(device), Head(device), arrived)
           /\ seen.id <= Head(device).id /\ seen.id < Head(device).id
           /\ \A k \in DOMAIN handled : /\ handled[k].id <= Head(device).id
                                        /\ handled[k].id < Head(device).id
<1>1. Numbered(Tail(device), Head(device), arrived) /\ buff.id < Head(device).id
  BY Zenon, NumberTypes, NumberedTail DEF IndInv, NumberInv
<1>2. Head(device) \in Received
  <2>1. device \in Seq(Received)
    BY Zenon, NumberTypes
  <2> QED BY <2>1
<1>3. PICK m \in Nat, b \in Nat : m = Head(device).id /\ b = buff.id /\ b < m
  <2>1. Head(device).id \in Nat
    BY <1>2, BoundsAssumption DEF Received
  <2> QED BY Zenon, <1>1, <2>1, NumberTypes
<1>4. \A x \in Nat : x <= b => x <= m /\ x < m
  BY <1>3
<1>5. seen.id \in Nat /\ seen.id <= b /\ \A k \in DOMAIN handled : handled[k].id \in Nat /\ handled[k].id <= b
  BY Zenon, <1>3, NumberTypes DEF IndInv, NumberInv
<1> QED BY Zenon, <1>1, <1>3, <1>4, <1>5

\* The packets stay numbered, and the buffer is never older than what was seen.
LEMMA NumberStep ==
    ASSUME IndInv, Next
    PROVE  NumberInv'
<1>0. /\ Numbered(device, buff, arrived) /\ seen.id <= buff.id
      /\ \A k \in DOMAIN handled : handled[k].id <= buff.id
  BY Zenon DEF IndInv, NumberInv
<1>1. ASSUME UNCHANGED <<arrived, buff, seen, handled>>, device' = device \/ device' = <<>>
      PROVE  NumberInv'
  <2>1. Numbered(device', buff, arrived)
    BY Zenon, <1>0, <1>1, NumberedEmpty
  <2> QED BY Zenon, <1>0, <1>1, <2>1 DEF NumberInv
<1>2. ASSUME device # <<>>, buff' = Head(device), device' = Tail(device),
             UNCHANGED <<arrived, seen, handled>>
      PROVE  NumberInv'
  BY Zenon, <1>2, Younger DEF NumberInv
<1>3. ASSUME NEW c \in Coroutines, async_read_some(c), coro[c] # "waiting",
             UNCHANGED <<arrived, seen, handled>>
      PROVE  NumberInv'
  BY Zenon, <1>1, <1>2, <1>3, StartRead
<1>4. ASSUME Spawn, UNCHANGED <<arrived, seen, handled>>
      PROVE  NumberInv'
  <2>1. "none" # "waiting"
    OBVIOUS
  <2> QED BY Zenon, <1>3, <1>4, <2>1 DEF Spawn
<1>5. CASE tunosocks_start
  BY Zenon, <1>1, <1>4, <1>5 DEF tunosocks_start
<1>6. CASE Restart
  BY Zenon, <1>1, <1>4, <1>6 DEF Restart
<1>7. CASE Stop
  BY Zenon, <1>1, <1>7, StopEffect
<1>8. CASE StopDevice
  BY Zenon, <1>1, <1>8 DEF StopDevice
<1>9. CASE Arrive
  <2>1. PICK p \in Packets : device' = Append(device, [id |-> arrived + 1, packet |-> p])
    BY Zenon, <1>9 DEF Arrive
  <2>2. /\ arrived < MaxArrivals /\ arrived' = arrived + 1
        /\ UNCHANGED <<buff, seen, handled>>
    BY Zenon, <1>9 DEF Arrive, histVars
  <2>3. arrived \in Nat /\ device \in Seq(Received) /\ buff \in Slot
    BY Zenon, NumberTypes
  <2>4. PICK e : e = [id |-> arrived + 1, packet |-> p]
    BY Zenon
  <2>5. e \in Received /\ e.id = arrived + 1 /\ arrived + 1 <= MaxArrivals
    BY <2>2, <2>3, <2>4, BoundsAssumption DEF Received
  <2>6. Numbered(Append(device, e), buff, arrived + 1)
    BY Zenon, <1>0, <2>3, <2>5, NumberedAppend
  <2> QED BY Zenon, <1>0, <2>1, <2>2, <2>4, <2>6 DEF NumberInv
<1>10. CASE CompleteRead
  BY Zenon, <1>2, <1>10 DEF CompleteRead, histVars
<1>10a. CASE FailRead
  BY Zenon, <1>1, <1>10a DEF FailRead
<1>11. ASSUME NEW c \in Coroutines, Resume(c)
       PROVE  NumberInv'
  <2>1. /\ seen' = seen \/ seen' = buff
        /\ UNCHANGED <<device, arrived, buff, handled>>
    BY Zenon, <1>11 DEF Resume, histVars
  <2>2. buff.id <= buff.id
    <3>1. PICK b \in Nat : b = buff.id
      BY Zenon, NumberTypes
    <3>2. b <= b
      BY <3>1
    <3> QED BY Zenon, <3>1, <3>2
  <2>3. seen'.id <= buff.id
    BY Zenon, <1>0, <2>1, <2>2
  <2> QED BY Zenon, <1>0, <2>1, <2>3 DEF NumberInv
<1>12. ASSUME NEW c \in Coroutines, Input(c)
       PROVE  NumberInv'
  <2>1. PICK b \in {seen, buff} :
           handled' = Append(handled, [id |-> b.id, size |-> got[c], packet |-> b.packet,
                                       to |-> Destination(b.packet)])
    BY Zenon, <1>12, InputEffect
  <2>2. seen' = Nothing /\ UNCHANGED <<device, arrived, buff>>
    BY Zenon, <1>12, InputEffect
  <2>3. PICK m \in Nat : m = buff.id
    BY Zenon, NumberTypes
  <2>4. b.id <= m /\ 0 <= m
    <3>1. m <= m /\ 0 <= m
      BY <2>3
    <3> QED BY Zenon, <1>0, <2>1, <2>3, <3>1
  <2>5. Nothing.id = 0
    BY DEF Nothing
  <2>6. PICK e : e = [id |-> b.id, size |-> got[c], packet |-> b.packet,
                      to |-> Destination(b.packet)]
    BY Zenon
  <2>6a. e.id = b.id
    BY <2>6
  <2>7. handled \in Seq(Handled)
    BY Zenon DEF IndInv
  <2>8. \A k \in DOMAIN handled' : (k \in DOMAIN handled /\ handled'[k] = handled[k]) \/ handled'[k] = e
    <3>1. \A k \in DOMAIN Append(handled, e) :
             (k \in DOMAIN handled /\ Append(handled, e)[k] = handled[k])
             \/ Append(handled, e)[k] = e
      BY <2>7
    <3> QED BY Zenon, <2>1, <2>6, <3>1
  <2>9. ASSUME NEW k \in DOMAIN handled' PROVE handled'[k].id <= m
    <3>1. CASE k \in DOMAIN handled /\ handled'[k] = handled[k]
      BY Zenon, <1>0, <2>3, <3>1
    <3>2. CASE handled'[k] = e
      BY Zenon, <2>4, <2>6a, <3>2
    <3> QED BY Zenon, <2>8, <3>1, <3>2
  <2>10. seen'.id <= m
    BY Zenon, <2>2, <2>4, <2>5
  <2> QED BY Zenon, <1>0, <2>2, <2>3, <2>9, <2>10 DEF NumberInv
<1>13. ASSUME NEW c \in Coroutines, ReadAgain(c)
       PROVE  NumberInv'
  <2>1. "again" # "waiting"
    OBVIOUS
  <2> QED BY Zenon, <1>3, <1>13, <2>1 DEF ReadAgain
<1>14. CASE Inject \/ CompleteWrite
  BY Zenon, <1>1, <1>14 DEF Inject, CompleteWrite, readVars, histVars
<1>15. ASSUME NEW h \in Handles, CloseSession(h)
       PROVE  NumberInv'
  BY Zenon, <1>1, <1>15 DEF CloseSession, readVars, histVars
<1>16. ASSUME NEW i \in 1 .. MaxInjects, handlerOnTunInjectWithPbuf(i)
       PROVE  NumberInv'
  BY Zenon, <1>1, <1>16 DEF handlerOnTunInjectWithPbuf, readVars, histVars
<1> QED BY Zenon, <1>5, <1>6, <1>7, <1>8, <1>9, <1>10, <1>10a, <1>11, <1>12, <1>13, <1>14,
           <1>15, <1>16 DEF Next

-----------------------------------------------------------------------------
(* One reader, and what it hands to Input *)

\* A coroutine that reads is the only one, unless a Restart has overtaken it.
LEMMA Alone ==
    ASSUME IndInv, ~overtaken, NEW c \in Coroutines, Live(c)
    PROVE  \A d \in Coroutines : d # c => ~Live(d)
BY Zenon DEF IndInv, IntactInv, OneReader

\* A step of one coroutine while no other reads keeps IntactInv if it keeps it for
\* that one.
LEMMA IntactOne ==
    ASSUME NEW c \in Coroutines,
           \A d \in Coroutines : d # c => ~Live(d) /\ coro'[d] = coro[d],
           coro'[c] \in {"read", "input"} =>
               /\ buff'.id = got'[c]
               /\ \A k \in DOMAIN handled' : handled'[k].id < got'[c],
           coro'[c] = "input" => seen' = buff',
           api' \in {"stopping", "down"} => (Live(c)' => c \in missed'),
           \A k \in DOMAIN handled' : Intact(handled'[k]),
           \A j, k \in DOMAIN handled' : j < k => handled'[j].id < handled'[k].id
    PROVE  IntactInv'
<1>1. \A d \in Coroutines : d # c => coro'[d] \notin {"waiting", "read", "input", "again"}
  BY Zenon DEF Live
<1>2. \A d \in Coroutines : Live(d)' => d = c
  BY Zenon, <1>1 DEF Live
<1>3. OneReader'
  BY Zenon, <1>2 DEF OneReader
<1>4. api' \in {"stopping", "down"} => \A d \in Coroutines : Live(d)' => d \in missed'
  BY Zenon, <1>2
<1>5. ASSUME NEW d \in Coroutines, coro'[d] \in {"read", "input"}
      PROVE  /\ buff'.id = got'[d]
             /\ \A k \in DOMAIN handled' : handled'[k].id < got'[d]
             /\ coro'[d] = "input" => seen' = buff'
  <2>1. d = c
    BY Zenon, <1>1, <1>5
  <2> QED BY Zenon, <1>5, <2>1
<1>6. \A d \in Coroutines : coro'[d] = "input" => seen' = buff'
  BY Zenon, <1>5
<1> QED BY Zenon, <1>3, <1>4, <1>5, <1>6 DEF IntactInv

\* Until a Restart overtakes a coroutine in flight, there is one reader and Input
\* gets whole packets in order.
LEMMA IntactStep ==
    ASSUME IndInv, Next
    PROVE  IntactInv'
<1>1. CASE overtaken'
  BY Zenon, <1>1 DEF IntactInv
<1>2. CASE ~overtaken /\ ~overtaken'
  <2>0. /\ api \in {"stopping", "down"} => \A c \in Coroutines : Live(c) => c \in missed
        /\ \A c \in Coroutines : coro[c] \in {"read", "input"} =>
               buff.id = got[c] /\ \A k \in DOMAIN handled : handled[k].id < got[c]
        /\ \A c \in Coroutines : coro[c] = "input" => seen = buff
        /\ \A k \in DOMAIN handled : Intact(handled[k])
        /\ \A j, k \in DOMAIN handled : j < k => handled[j].id < handled[k].id
        /\ OneReader
    BY Zenon, <1>2 DEF IndInv, IntactInv
  <2>t. got \in [Coroutines -> 0 .. MaxArrivals] /\ coro \in [Coroutines -> CoroStates]
    BY Zenon, NumberTypes
  <2>1. ASSUME UNCHANGED <<coro, buff, got, seen, handled, missed>>,
               api' \in {"stopping", "down"} => api \in {"stopping", "down"}
        PROVE  IntactInv'
    <3>1. OneReader' /\ \A c \in Coroutines : Live(c)' <=> Live(c)
      BY Zenon, <2>0, <2>1 DEF OneReader, Live
    <3> QED BY Zenon, <2>0, <2>1, <3>1 DEF IntactInv
  <2>2. ASSUME NEW c \in Coroutines, \A d \in Coroutines : d # c => ~Live(d),
               async_read_some(c), coro[c] # "waiting", UNCHANGED <<seen, handled, missed>>,
               api' \in {"stopping", "down"} => c \in missed
        PROVE  IntactInv'
    <3>1. /\ \A d \in Coroutines : d # c => coro'[d] = coro[d]
          /\ \/ coro'[c] = "error" /\ UNCHANGED <<device, buff, pending, got>>
             \/ /\ coro'[c] = "read" /\ device # <<>>
                /\ buff' = Head(device) /\ device' = Tail(device)
                /\ got' = [got EXCEPT ![c] = Head(device).id]
             \/ coro'[c] = "waiting" /\ UNCHANGED <<device, buff, got>>
      BY Zenon, <2>2, StartRead
    <3>2. coro'[c] # "input"
      BY <3>1
    <3>3. ASSUME coro'[c] \in {"read", "input"}
          PROVE  buff'.id = got'[c] /\ \A k \in DOMAIN handled' : handled'[k].id < got'[c]
      <4>1. device # <<>> /\ buff' = Head(device) /\ got' = [got EXCEPT ![c] = Head(device).id]
        BY <3>1, <3>3
      <4>2. got'[c] = Head(device).id
        BY Zenon, <2>t, <4>1
      <4>3. \A k \in DOMAIN handled : handled[k].id < Head(device).id
        BY Zenon, <4>1, Younger
      <4> QED BY Zenon, <2>2, <4>1, <4>2, <4>3
    <3>4. \A d \in Coroutines : d # c => ~Live(d) /\ coro'[d] = coro[d]
      BY Zenon, <2>2, <3>1
    <3>5. /\ \A k \in DOMAIN handled' : Intact(handled'[k])
          /\ \A j, k \in DOMAIN handled' : j < k => handled'[j].id < handled'[k].id
          /\ api' \in {"stopping", "down"} => (Live(c)' => c \in missed')
      BY Zenon, <2>0, <2>2
    <3> QED BY Zenon, <3>2, <3>3, <3>4, <3>5, IntactOne
  <2>3. ASSUME Spawn, \A d \in Coroutines : ~Live(d), api' = "up",
               UNCHANGED <<seen, handled, missed>>
        PROVE  IntactInv'
    <3>1. "none" # "waiting" /\ "up" \notin {"stopping", "down"}
      OBVIOUS
    <3> QED BY Zenon, <2>2, <2>3, <3>1 DEF Spawn
  <2>4. CASE tunosocks_start
    <3>1. /\ UNCHANGED <<seen, handled, missed>> /\ api = "new"
          /\ \/ api' = "up" /\ Spawn
             \/ api' = "failed" /\ UNCHANGED <<buff, coro, got>>
      BY Zenon, <2>4 DEF tunosocks_start
    <3>2. \A d \in Coroutines : ~Live(d)
      <4>1. \A d \in Coroutines : coro[d] = "none"
        BY Zenon, <3>1 DEF IndInv, ReaderInv
      <4>2. "none" \notin {"waiting", "read", "input", "again"}
        OBVIOUS
      <4> QED BY Zenon, <4>1, <4>2 DEF Live
    <3>3. "failed" \notin {"stopping", "down"}
      OBVIOUS
    <3> QED BY Zenon, <2>1, <2>3, <3>1, <3>2, <3>3
  <2>5. CASE Restart
    <3>1. /\ UNCHANGED <<seen, handled, missed>> /\ api = "down"
          /\ \/ /\ api' = "up" /\ Spawn
                /\ overtaken' = (overtaken \/ \E c \in missed :
                                     coro[c] \notin {"error", "returned"})
             \/ UNCHANGED <<api, buff, coro, got>>
      BY Zenon, <2>5 DEF Restart
    <3>2. CASE api' = "up" /\ Spawn /\ overtaken' = (overtaken \/ \E c \in missed :
                                         coro[c] \notin {"error", "returned"})
      <4>1. \A c \in missed : coro[c] \in {"error", "returned"}
        BY Zenon, <1>2, <3>2
      <4>2. {"error", "returned"} \intersect {"waiting", "read", "input", "again"} = {}
        OBVIOUS
      <4>3. \A d \in Coroutines : ~Live(d)
        BY Zenon, <2>0, <3>1, <4>1, <4>2 DEF Live
      <4> QED BY Zenon, <2>3, <3>1, <3>2, <4>3
    <3> QED BY Zenon, <2>1, <3>1, <3>2
  <2>6. CASE Stop
    <3>1. /\ \A c \in Coroutines : \/ coro'[c] = coro[c] /\ coro[c] # "waiting"
                                   \/ coro'[c] = "error" /\ coro[c] = "waiting"
          /\ missed' = missed \union InHand
          /\ UNCHANGED <<buff, got, seen, handled>>
      BY Zenon, <2>6, StopEffect
    <3>2. "error" \notin {"waiting", "read", "input", "again"}
      OBVIOUS
    <3>3. \A c \in Coroutines : Live(c)' => Live(c) /\ coro'[c] = coro[c] /\ c \in missed'
      <4>1. ASSUME NEW c \in Coroutines, Live(c)'
            PROVE  Live(c) /\ coro'[c] = coro[c] /\ c \in missed'
        <5>1. coro'[c] = coro[c] /\ coro[c] # "waiting" /\ Live(c)
          BY Zenon, <3>1, <3>2, <4>1 DEF Live
        <5>2. c \in InHand
          BY Zenon, <5>1 DEF Live, InHand
        <5> QED BY Zenon, <3>1, <5>1, <5>2
      <4> QED BY Zenon, <4>1
    <3>4. OneReader'
      BY Zenon, <2>0, <3>3 DEF OneReader
    <3>5. \A c \in Coroutines : coro'[c] \in {"read", "input"} => coro'[c] = coro[c]
      BY Zenon, <3>1, <3>2
    <3>6. /\ \A c \in Coroutines : coro'[c] \in {"read", "input"} =>
               buff'.id = got'[c] /\ \A k \in DOMAIN handled' : handled'[k].id < got'[c]
          /\ \A c \in Coroutines : coro'[c] = "input" => seen' = buff'
      BY Zenon, <2>0, <3>1, <3>5
    <3> QED BY Zenon, <2>0, <3>1, <3>3, <3>4, <3>6 DEF IntactInv
  <2>7. CASE StopDevice
    BY Zenon, <2>1, <2>7 DEF StopDevice
  <2>8. CASE CompleteRead
    <3>1. /\ pending # <<>> /\ device # <<>> /\ UNCHANGED <<api, seen, handled, missed>>
          /\ coro' = [coro EXCEPT ![Head(pending)] = "read"]
          /\ got' = [got EXCEPT ![Head(pending)] = Head(device).id]
          /\ buff' = Head(device)
      BY Zenon, <2>8 DEF CompleteRead, lifeVars, histVars
    <3>2. PICK c \in Coroutines : c = Head(pending) /\ coro[c] = "waiting"
      <4>1. pending \in Seq(Coroutines) /\ Waits(pending, coro)
        BY Zenon DEF IndInv, TypeOK, ReaderInv
      <4>2. Head(pending) \in Coroutines /\ Head(pending) = pending[1] /\ 1 \in DOMAIN pending
        BY Zenon, <3>1, <4>1, SeqTail
      <4>3. coro[pending[1]] = "waiting"
        BY Zenon, <4>1, <4>2 DEF Waits
      <4> QED BY Zenon, <4>2, <4>3
    <3>3. /\ coro'[c] = "read" /\ got'[c] = Head(device).id
          /\ \A d \in Coroutines : d # c => coro'[d] = coro[d]
      BY <2>t, <3>1, <3>2
    <3>4. Live(c)
      BY Zenon, <3>2 DEF Live
    <3>5. \A d \in Coroutines : d # c => ~Live(d) /\ coro'[d] = coro[d]
      BY Zenon, <1>2, <3>3, <3>4, Alone
    <3>6. "read" # "input" /\ (api' \in {"stopping", "down"} => (Live(c)' => c \in missed'))
      <4>1. "read" # "input"
        OBVIOUS
      <4> QED BY Zenon, <2>0, <3>1, <3>4, <4>1
    <3>7. buff'.id = got'[c] /\ \A k \in DOMAIN handled' : handled'[k].id < got'[c]
      BY Zenon, <3>1, <3>3, Younger
    <3>8. /\ \A k \in DOMAIN handled' : Intact(handled'[k])
          /\ \A j, k \in DOMAIN handled' : j < k => handled'[j].id < handled'[k].id
      BY Zenon, <2>0, <3>1
    <3>9. coro'[c] = "input" => seen' = buff'
      BY Zenon, <3>3, <3>6
    <3> QED BY Zenon, <3>5, <3>6, <3>7, <3>8, <3>9, IntactOne
  <2>8a. ASSUME NEW c \in Coroutines, NEW v,
                v \notin {"waiting", "read", "input", "again"},
                coro' = [coro EXCEPT ![c] = v],
                UNCHANGED <<api, buff, got, seen, handled, missed>>
         PROVE  IntactInv'
    <3>1. coro'[c] = v /\ \A d \in Coroutines : d # c => coro'[d] = coro[d]
      BY <2>t, <2>8a
    <3>2. \A d \in Coroutines :
             coro'[d] \in {"waiting", "read", "input", "again"} => coro'[d] = coro[d]
      BY Zenon, <2>8a, <3>1
    <3>3. \A d \in Coroutines : Live(d)' => Live(d)
      BY Zenon, <3>2 DEF Live
    <3>4. OneReader'
      BY Zenon, <2>0, <3>3 DEF OneReader
    <3>5. \A d \in Coroutines : coro'[d] \in {"read", "input"} => coro'[d] = coro[d]
      BY Zenon, <3>2
    <3>6. /\ \A d \in Coroutines : coro'[d] \in {"read", "input"} =>
               buff'.id = got'[d] /\ \A k \in DOMAIN handled' : handled'[k].id < got'[d]
          /\ \A d \in Coroutines : coro'[d] = "input" => seen' = buff'
      BY Zenon, <2>0, <2>8a, <3>5
    <3> QED BY Zenon, <2>0, <2>8a, <3>3, <3>4, <3>6 DEF IntactInv
  <2>8b. CASE FailRead
    <3>1. /\ pending # <<>> /\ coro' = [coro EXCEPT ![Head(pending)] = "error"]
          /\ UNCHANGED <<api, buff, got, seen, handled, missed>>
      BY Zenon, <2>8b DEF FailRead, lifeVars
    <3>2. PICK c \in Coroutines : c = Head(pending)
      <4>1. pending \in Seq(Coroutines)
        BY Zenon DEF IndInv, TypeOK
      <4> QED BY Zenon, <3>1, <4>1, SeqTail
    <3>3. "error" \notin {"waiting", "read", "input", "again"}
      OBVIOUS
    <3> QED BY Zenon, <2>8a, <3>1, <3>2, <3>3
  <2>9. ASSUME NEW c \in Coroutines, Resume(c)
        PROVE  IntactInv'
    <3>1. UNCHANGED <<api, buff, got, handled, missed>>
      BY Zenon, <2>9 DEF Resume, lifeVars, histVars
    <3>2. CASE coro[c] = "error" /\ coro' = [coro EXCEPT ![c] = "returned"] /\ UNCHANGED seen
      <4>1. "returned" \notin {"waiting", "read", "input", "again"}
        OBVIOUS
      <4> QED BY Zenon, <2>8a, <3>1, <3>2, <4>1
    <3>3. CASE coro[c] = "read" /\ coro' = [coro EXCEPT ![c] = "input"] /\ seen' = buff
      <4>1. coro'[c] = "input" /\ \A d \in Coroutines : d # c => coro'[d] = coro[d]
        BY <2>t, <3>3
      <4>2. Live(c)
        BY Zenon, <3>3 DEF Live
      <4>3. \A d \in Coroutines : d # c => ~Live(d) /\ coro'[d] = coro[d]
        BY Zenon, <1>2, <4>1, <4>2, Alone
      <4>4. buff'.id = got'[c] /\ \A k \in DOMAIN handled' : handled'[k].id < got'[c]
        BY Zenon, <2>0, <3>1, <3>3
      <4>5. /\ \A k \in DOMAIN handled' : Intact(handled'[k])
            /\ \A j, k \in DOMAIN handled' : j < k => handled'[j].id < handled'[k].id
            /\ api' \in {"stopping", "down"} => (Live(c)' => c \in missed')
        BY Zenon, <2>0, <3>1, <4>2
      <4>6. seen' = buff'
        BY Zenon, <3>1, <3>3
      <4> QED BY Zenon, <4>3, <4>4, <4>5, <4>6, IntactOne
    <3> QED BY Zenon, <2>9, <3>2, <3>3 DEF Resume
  <2>10. ASSUME NEW c \in Coroutines, Input(c)
         PROVE  IntactInv'
    <3>1. PICK b \in {seen, buff} :
             handled' = Append(handled, [id |-> b.id, size |-> got[c], packet |-> b.packet,
                                         to |-> Destination(b.packet)])
      BY Zenon, <2>10, InputEffect
    <3>2. /\ coro' = [coro EXCEPT ![c] = "again"] /\ coro[c] = "input"
          /\ UNCHANGED <<api, buff, got, missed>>
      BY Zenon, <2>10, InputEffect
    <3>3. coro'[c] = "again" /\ \A d \in Coroutines : d # c => coro'[d] = coro[d]
      BY <2>t, <3>2
    <3>4. Live(c)
      BY Zenon, <3>2 DEF Live
    <3>5. \A d \in Coroutines : d # c => ~Live(d) /\ coro'[d] = coro[d]
      BY Zenon, <1>2, <3>3, <3>4, Alone
    <3>6. b = buff /\ b.id = got[c] /\ \A k \in DOMAIN handled : handled[k].id < b.id
      <4>1. seen = buff /\ buff.id = got[c] /\ \A k \in DOMAIN handled : handled[k].id < got[c]
        BY Zenon, <2>0, <3>2
      <4> QED BY Zenon, <3>1, <4>1
    <3>7. PICK e : e = [id |-> b.id, size |-> got[c], packet |-> b.packet,
                        to |-> Destination(b.packet)]
      BY Zenon
    <3>8. e.id = b.id /\ Intact(e)
      BY <3>6, <3>7 DEF Intact
    <3>9. \A k \in DOMAIN handled' : \/ k \in DOMAIN handled /\ handled'[k] = handled[k]
                                     \/ k = Len(handled) + 1 /\ handled'[k] = e
      <4>1. handled \in Seq(Handled)
        BY Zenon DEF IndInv
      <4>2. \A k \in DOMAIN Append(handled, e) :
               \/ k \in DOMAIN handled /\ Append(handled, e)[k] = handled[k]
               \/ k = Len(handled) + 1 /\ Append(handled, e)[k] = e
        BY <4>1
      <4> QED BY Zenon, <3>1, <3>7, <4>2
    <3>10. (\A k \in DOMAIN handled : ~(Len(handled) + 1 < k)) /\ ~(Len(handled) + 1 < Len(handled) + 1)
      <4>1. handled \in Seq(Handled)
        BY Zenon DEF IndInv
      <4> QED BY <4>1
    <3>11. ASSUME NEW j \in DOMAIN handled', NEW k \in DOMAIN handled', j < k
           PROVE  handled'[j].id < handled'[k].id
      <4>1. CASE j \in DOMAIN handled /\ handled'[j] = handled[j]
        <5>1. CASE k \in DOMAIN handled /\ handled'[k] = handled[k]
          BY Zenon, <2>0, <3>11, <4>1, <5>1
        <5>2. CASE handled'[k] = e
          BY Zenon, <3>6, <3>8, <4>1, <5>2
        <5> QED BY Zenon, <3>9, <5>1, <5>2
      <4>2. CASE j = Len(handled) + 1
        BY Zenon, <3>9, <3>10, <3>11, <4>2
      <4> QED BY Zenon, <3>9, <4>1, <4>2
    <3>12. ASSUME NEW k \in DOMAIN handled' PROVE Intact(handled'[k])
      <4>1. CASE k \in DOMAIN handled /\ handled'[k] = handled[k]
        BY Zenon, <2>0, <4>1
      <4>2. CASE handled'[k] = e
        BY Zenon, <3>8, <4>2
      <4> QED BY Zenon, <3>9, <4>1, <4>2
    <3>13. coro'[c] \notin {"read", "input"} /\ coro'[c] # "input"
      BY <3>3
    <3>14. api' \in {"stopping", "down"} => (Live(c)' => c \in missed')
      BY Zenon, <2>0, <3>2, <3>4
    <3> QED BY Zenon, <3>5, <3>11, <3>12, <3>13, <3>14, IntactOne
  <2>11. ASSUME NEW c \in Coroutines, ReadAgain(c)
         PROVE  IntactInv'
    <3>1. coro[c] = "again" /\ async_read_some(c) /\ UNCHANGED <<api, seen, handled, missed>>
      BY Zenon, <2>11 DEF ReadAgain
    <3>2. Live(c) /\ "again" # "waiting"
      <4>1. "again" # "waiting"
        OBVIOUS
      <4> QED BY Zenon, <3>1, <4>1 DEF Live
    <3>3. \A d \in Coroutines : d # c => ~Live(d)
      BY Zenon, <1>2, <3>2, Alone
    <3> QED BY Zenon, <2>0, <2>2, <3>1, <3>2, <3>3
  <2>12. CASE Arrive \/ Inject \/ CompleteWrite
    BY Zenon, <2>1, <2>12 DEF Arrive, Inject, CompleteWrite, lifeVars, readVars, histVars
  <2>13. ASSUME NEW h \in Handles, CloseSession(h)
         PROVE  IntactInv'
    BY Zenon, <2>1, <2>13 DEF CloseSession, readVars, histVars
  <2>14. ASSUME NEW i \in 1 .. MaxInjects, handlerOnTunInjectWithPbuf(i)
         PROVE  IntactInv'
    BY Zenon, <2>1, <2>14 DEF handlerOnTunInjectWithPbuf, lifeVars, readVars, histVars
  <2> QED BY Zenon, <2>4, <2>5, <2>6, <2>7, <2>8, <2>8b, <2>9, <2>10, <2>11, <2>12, <2>13,
             <2>14 DEF Next
<1>3. CASE overtaken /\ ~overtaken'
  <2>1. overtaken => overtaken'
    <3>1. CASE Restart
      BY Zenon, <3>1 DEF Restart
    <3>2. CASE Stop
      BY Zenon, <3>2 DEF Stop
    <3>3. CASE \/ tunosocks_start \/ StopDevice \/ Arrive \/ CompleteRead \/ FailRead
               \/ Inject \/ CompleteWrite
      BY Zenon, <3>3 DEF tunosocks_start, StopDevice, Arrive, CompleteRead, FailRead, Inject,
                         CompleteWrite, histVars
    <3>4. CASE \E c \in Coroutines : Resume(c) \/ Input(c) \/ ReadAgain(c)
      BY Zenon, <3>4 DEF Resume, Input, ReadAgain, histVars
    <3>5. CASE \/ \E h \in Handles : CloseSession(h)
               \/ \E i \in 1 .. MaxInjects : handlerOnTunInjectWithPbuf(i)
      BY Zenon, <3>5 DEF CloseSession, handlerOnTunInjectWithPbuf, histVars
    <3> QED BY Zenon, <3>1, <3>2, <3>3, <3>4, <3>5 DEF Next
  <2> QED BY Zenon, <1>3, <2>1
<1> QED BY Zenon, <1>1, <1>2, <1>3

-----------------------------------------------------------------------------
(* The invariant holds of every state *)

\* The three parts of the types are all of them.
LEMMA TypesTogether ==
    ASSUME LifeTypes, ReadTypesOK, WriteTypesOK
    PROVE  TypeOK /\ handled \in Seq(Handled)
BY Zenon DEF TypeOK, LifeTypes, ReadTypesOK, WriteTypesOK

\* Before the library is called nothing is open, outstanding or read.
LEMMA InitInv ==
    ASSUME Init
    PROVE  IndInv
<1>1. LifeTypes
  BY Zenon DEF Init, LifeTypes
<1>2. ReadTypesOK
  BY Constants DEF Init, ReadTypesOK
<1>3. WriteTypesOK
  BY DEF Init, WriteTypesOK
<1>4. LifeInv
  BY Zenon DEF Init, LifeInv
<1>5. DescriptorInv
  BY DEF Init, DescriptorInv
<1>6. OpenInv
  BY Zenon DEF Init, OpenInv
<1>7. /\ DOMAIN writes = {} /\ DOMAIN written = {} /\ DOMAIN pending = {}
      /\ DOMAIN device = {} /\ DOMAIN handled = {}
  BY Zenon, SeqEmpty DEF Init
<1>8. WriteInv
  <2>1. \A i \in 1 .. MaxInjects : pbufs[i] = "none"
    BY Zenon DEF Init
  <2>2. "none" \notin {"written", "freed"}
    OBVIOUS
  <2>3. Rising(written) /\ Rising(writes)
    BY Zenon, <1>7 DEF Rising
  <2> QED BY Zenon, <1>7, <2>1, <2>2, <2>3 DEF WriteInv, InOrder
<1>9. \A c \in Coroutines : coro[c] = "none"
  BY Zenon DEF Init
<1>10. "none" \notin {"waiting", "read", "input", "again"}
  OBVIOUS
<1>11. ReaderInv
  <2>1. Waits(pending, coro)
    BY Zenon, <1>7, <1>9, <1>10 DEF Waits
  <2> QED BY Zenon, <1>9, <1>10, <2>1 DEF ReaderInv
<1>12. NumberInv
  <2>1. buff.id = 0 /\ seen.id = 0 /\ arrived = 0
    BY DEF Init, Nothing
  <2>2. buff.id <= arrived /\ seen.id <= buff.id
    BY <2>1
  <2> QED BY Zenon, <1>7, <2>2 DEF NumberInv, Numbered
<1>13. IntactInv
  <2>1. \A c \in Coroutines : ~Live(c)
    BY Zenon, <1>9, <1>10 DEF Live
  <2> QED BY Zenon, <1>7, <1>9, <1>10, <2>1 DEF IntactInv, OneReader
<1> QED BY Zenon, <1>1, <1>2, <1>3, <1>4, <1>5, <1>6, <1>8, <1>11, <1>12, <1>13,
           TypesTogether DEF IndInv

\* Every action keeps the whole invariant.
LEMMA StepInv ==
    ASSUME IndInv, Next
    PROVE  IndInv'
<1>1. TypeOK /\ handled \in Seq(Handled)
  BY Zenon DEF IndInv
<1>2. LifeTypes'
  BY Zenon, <1>1, LifeTypeStep
<1>3. ReadTypesOK'
  BY Zenon, <1>1, ReadTypeStep
<1>4. WriteTypesOK' /\ WriteInv'
  BY Zenon, WriteStep DEF IndInv
<1>5. LifeInv' /\ DescriptorInv' /\ OpenInv'
  BY Zenon, LifeStep DEF IndInv
<1>6. ReaderInv'
  BY Zenon, ReaderStep
<1>7. NumberInv'
  BY Zenon, NumberStep
<1>8. IntactInv'
  BY Zenon, IntactStep
<1>9. (TypeOK /\ handled \in Seq(Handled))'
  BY Zenon, <1>2, <1>3, <1>4 DEF TypeOK, LifeTypes, ReadTypesOK, WriteTypesOK
<1> QED BY Zenon, <1>4, <1>5, <1>6, <1>7, <1>8, <1>9 DEF IndInv

\* A step that changes nothing keeps it too.
LEMMA StutterInv ==
    ASSUME IndInv, UNCHANGED vars
    PROVE  IndInv'
<1>1. /\ UNCHANGED <<platform, api, tun_handle, tun_socket, need_restart, fds, sessions>>
      /\ UNCHANGED <<device, arrived, buff, pending, coro, got, io, seen>>
      /\ UNCHANGED <<handled, missed, overtaken, stolen, broken>>
      /\ UNCHANGED <<writes, pbufs, written>>
  BY Zenon DEF vars, lifeVars, readVars, histVars, writeVars
<1>2. (TypeOK /\ handled \in Seq(Handled))'
  <2>1. TypeOK /\ handled \in Seq(Handled)
    BY Zenon DEF IndInv
  <2> QED BY SMTT(30), <1>1, <2>1 DEF TypeOK
<1>3. LifeInv' /\ DescriptorInv' /\ OpenInv' /\ WriteInv'
  BY Zenon, <1>1 DEF IndInv, LifeInv, DescriptorInv, OpenInv, WriteInv
<1>4. ReaderInv' /\ NumberInv'
  BY Zenon, <1>1 DEF IndInv, ReaderInv, NumberInv
<1>5. IntactInv'
  BY Zenon, <1>1 DEF IndInv, IntactInv, OneReader, Live
<1> QED BY Zenon, <1>2, <1>3, <1>4, <1>5 DEF IndInv

\* The inductive invariant of the tunnel holds in every reachable state, whatever
\* packets arrive and however often the caller stops and restarts it.
THEOREM Invariance == Spec => []IndInv
<1>1. Init => IndInv
  BY InitInv
<1>2. IndInv /\ [Next]_vars => IndInv'
  BY Zenon, StepInv, StutterInv
<1> QED BY <1>1, <1>2, PTL DEF Spec

-----------------------------------------------------------------------------
(* The properties *)

\* Two rising sequences of which the first is below the second rise together.
LEMMA RisingConcat ==
    ASSUME NEW d \in Seq(1 .. MaxInjects), NEW w \in Seq(1 .. MaxInjects),
           Rising(d), Rising(w), \A j \in DOMAIN d, k \in DOMAIN w : d[j] < w[k]
    PROVE  Rising(d \o w)
<1>1. ASSUME NEW k \in DOMAIN (d \o w)
      PROVE  \/ k \in DOMAIN d /\ (d \o w)[k] = d[k] /\ k <= Len(d)
             \/ k - Len(d) \in DOMAIN w /\ (d \o w)[k] = w[k - Len(d)] /\ k > Len(d)
  OBVIOUS
<1>2. ASSUME NEW j \in DOMAIN (d \o w), NEW k \in DOMAIN (d \o w), j < k
      PROVE  (d \o w)[j] < (d \o w)[k]
  <2>0. j \in Nat /\ k \in Nat /\ Len(d) \in Nat
    OBVIOUS
  <2>1. CASE k \in DOMAIN d /\ (d \o w)[k] = d[k] /\ k <= Len(d)
    <3>1. ~(j > Len(d))
      BY <1>2, <2>0, <2>1
    <3>2. j \in DOMAIN d /\ (d \o w)[j] = d[j]
      BY Zenon, <1>1, <3>1
    <3> QED BY Zenon, <1>2, <2>1, <3>2 DEF Rising
  <2>2. CASE k - Len(d) \in DOMAIN w /\ (d \o w)[k] = w[k - Len(d)]
    <3>1. CASE j \in DOMAIN d /\ (d \o w)[j] = d[j]
      BY Zenon, <2>2, <3>1
    <3>2. CASE j - Len(d) \in DOMAIN w /\ (d \o w)[j] = w[j - Len(d)]
      <4>1. j - Len(d) < k - Len(d)
        BY <1>2, <2>0
      <4> QED BY Zenon, <2>2, <3>2, <4>1 DEF Rising
    <3> QED BY Zenon, <1>1, <3>1, <3>2
  <2> QED BY Zenon, <1>1, <2>1, <2>2
<1> QED BY Zenon, <1>2 DEF Rising

\* Socksifier::Stop and Restart, a second close and the sessions' own closes leave
\* every outstanding read and write on the open device, as long as no session's
\* descriptor was closed for the device's; no pbuf is freed before the device has
\* taken it, and packets are written in the order of TuntapHelper::Inject.
THEOREM TunnelOperationsHeld == Spec => []OperationsHeld
<1>1. IndInv => OperationsHeld
  <2> SUFFICES ASSUME IndInv PROVE OperationsHeld
    OBVIOUS
  <2>1. /\ pending # <<>> \/ writes # <<>> => tun_socket # 0
        /\ tun_socket # 0 /\ ~stolen => fds[tun_socket] = "tun"
    BY Zenon DEF IndInv, OpenInv, DescriptorInv
  <2>2. /\ \A k \in DOMAIN writes : pbufs[writes[k]] = "writing"
        /\ \A i \in 1 .. MaxInjects :
              pbufs[i] = "freed" => \E k \in DOMAIN written : written[k] = i
        /\ Rising(written) /\ Rising(writes)
        /\ \A j \in DOMAIN written, k \in DOMAIN writes : written[j] < writes[k]
    BY Zenon DEF IndInv, WriteInv, InOrder
  <2>3. writes \in Seq(1 .. MaxInjects) /\ written \in Seq(1 .. MaxInjects)
    BY Zenon DEF IndInv, TypeOK
  <2>4. Rising(written \o writes)
    BY Zenon, <2>2, <2>3, RisingConcat
  <2> QED BY Zenon, <2>1, <2>2, <2>4 DEF OperationsHeld, Rising
<1> QED BY <1>1, Invariance, PTL

\* Where PacketHandler::Input sends a packet, by its version, protocol and address.
LEMMA DestinationOf ==
    ASSUME NEW p
    PROVE  /\ Destination(p) = "udp" <=>
                  p.version = 4 /\ p.proto = PROTO_UDP /\ Unicast(p)
           /\ Destination(p) = "lwip" <=>
                  p.version = 4 /\ p.proto \in {PROTO_TCP, PROTO_ICMP}
<1>0. PROTO_UDP \notin {PROTO_TCP, PROTO_ICMP}
  BY DEF PROTO_UDP, PROTO_TCP, PROTO_ICMP
<1>1. Pass(p.dest) <=> Unicast(p)
  BY ZenonT(30) DEF Pass, Unicast, isMulticast, isReservedAddress
<1>2. CASE p.version # 4
  BY <1>2 DEF Destination
<1>3. CASE p.version = 4 /\ p.proto = PROTO_UDP
  <2>1. Destination(p) = IF Pass(p.dest) THEN "udp" ELSE "dropped"
    BY <1>0, <1>3 DEF Destination
  <2> QED BY <1>0, <1>1, <1>3, <2>1
<1>4. CASE p.version = 4 /\ p.proto \in {PROTO_TCP, PROTO_ICMP}
  <2>1. Destination(p) = "lwip"
    BY <1>0, <1>4 DEF Destination
  <2> QED BY <1>0, <1>4, <2>1
<1>5. CASE p.version = 4 /\ p.proto # PROTO_UDP /\ p.proto \notin {PROTO_TCP, PROTO_ICMP}
  <2>1. Destination(p) = "dropped"
    BY <1>5 DEF Destination
  <2> QED BY <1>5, <2>1
<1> QED BY Zenon, <1>2, <1>3, <1>4, <1>5

\* Unless a Restart has overtaken a coroutine that Stop missed, one coroutine reads
\* at a time into tun_recv_buff_, and PacketHandler::Input gets each packet whole,
\* in the order of arrival, never twice, and hands it to the stack it is for.
THEOREM TunnelInputIntact == Spec => []InputIntact
<1>1. IndInv => InputIntact
  <2> SUFFICES ASSUME IndInv, ~overtaken PROVE InputIntact
    BY Zenon DEF InputIntact
  <2>1. /\ OneReader
        /\ \A k \in DOMAIN handled : Intact(handled[k])
        /\ \A j, k \in DOMAIN handled : j < k => handled[j].id < handled[k].id
    BY Zenon DEF IndInv, IntactInv
  <2>2. ASSUME NEW k \in DOMAIN handled
        PROVE  LET h == handled[k]
               IN  /\ h.id = h.size
                   /\ h.to = "udp" <=> h.packet.version = 4
                          /\ h.packet.proto = PROTO_UDP /\ Unicast(h.packet)
                   /\ h.to = "lwip" <=> h.packet.version = 4
                          /\ h.packet.proto \in {PROTO_TCP, PROTO_ICMP}
    <3> DEFINE h == handled[k]
    <3>1. h.id = h.size /\ h.to = Destination(h.packet)
      BY Zenon, <2>1, <2>2 DEF Intact
    <3> HIDE DEF h
    <3>2. /\ Destination(h.packet) = "udp" <=> h.packet.version = 4
                 /\ h.packet.proto = PROTO_UDP /\ Unicast(h.packet)
          /\ Destination(h.packet) = "lwip" <=> h.packet.version = 4
                 /\ h.packet.proto \in {PROTO_TCP, PROTO_ICMP}
      BY Zenon, DestinationOf
    <3>3. /\ h.id = h.size
          /\ h.to = "udp" <=> h.packet.version = 4
                 /\ h.packet.proto = PROTO_UDP /\ Unicast(h.packet)
          /\ h.to = "lwip" <=> h.packet.version = 4
                 /\ h.packet.proto \in {PROTO_TCP, PROTO_ICMP}
      BY Zenon, <3>1, <3>2
    <3> QED BY Zenon, <3>3 DEF h
  <2> QED BY Zenon, <2>1, <2>2 DEF InputIntact
<1> QED BY <1>1, Invariance, PTL
=============================================================================
