--------------------------- MODULE Socks5Handshake ---------------------------
(***************************************************************************)
(* The SOCKS5 negotiation of one TcpSession, byte by byte: what the        *)
(* coroutine of Start reads and writes, the buffer it shares between the   *)
(* method reply, the request and the reply, and a server that follows      *)
(* RFC 1928.  TCP hands over the server's bytes in pieces of any size.     *)
(*                                                                         *)
(* An operation is pending until the kernel completes it; its handler then *)
(* waits in the io_context ("ok" or "err") until the thread runs it.       *)
(***************************************************************************)
EXTENDS Naturals, Sequences

CONSTANTS
    Addr,       \* the four bytes of local_ip.addr, the application's target
    Port,       \* local_port, a 16-bit number
    MaxPayload  \* bound: bytes the target sends through the server

Byte == 0 .. 255

ASSUME AddrAssumption == Addr \in [1 .. 4 -> Byte]
ASSUME PortAssumption == Port \in Nat /\ Port < 256 * 256
ASSUME PayloadAssumption == MaxPayload \in Nat

VARIABLES
    status,             \* TcpSession::status
    remote_recv_buff,   \* TcpSession::remote_recv_buff_, its first ten bytes
    pc,                 \* the operation Start's coroutine waits for
    op,                 \* and how far it is
    got,                \* bytes the current read has put into the buffer
    relayed,            \* bytes the relaying session has read
    mapped,             \* TcpHandler's map holds the session: no Stop() yet
    connected,          \* the TCP connection to the server is open
    up, down,           \* bytes on their way to and from the server
    server,             \* what the server expects next
    reply,              \* the reply the server has sent
    sent                \* bytes of the target the server has sent after it

clientVars == <<status, remote_recv_buff, pc, op, got, relayed, mapped>>
serverVars == <<connected, up, down, server, reply, sent>>
vars == <<clientVars, serverVars>>

\* The constructor leaves the buffer uninitialised: a byte of any value.
Uninitialised == 256

\* The target's bytes are numbered, to be told from those of the answers.
Payload(n) == [i \in 1 .. n |-> Uninitialised + i]

Bytes == 0 .. Uninitialised + MaxPayload

DEFAULT_METHOD_REQUEST == <<5, 1, 0>>
NO_ACCEPTABLE_METHODS == 255

Steps == {"connect", "mwrite", "mread", "rwrite", "rread", "read"}
Statuses == {"INIT", "HANDSHAKING", "RELAYING", "CLOSE"}

\* What an RFC 1928 server may answer: a grant with the IPv4 address it bound,
\* a refusal, or a grant with an IPv6 address, which is a longer message.
NoReply == <<>>
Grant == <<5, 0, 0, 1, 9, 9, 9, 9, 9, 9>>
Refusal == <<5, 1, 0, 1, 0, 0, 0, 0, 0, 0>>
Grant6 == <<5, 0, 0, 4>> \o [i \in 1 .. 18 |-> 9]

TypeOK ==
    /\ status \in Statuses
    /\ remote_recv_buff \in [1 .. 10 -> Bytes]
    /\ pc \in Steps \cup {"done"} /\ op \in {"none", "pending", "ok", "err"}
    /\ got \in 0 .. 10
    /\ relayed \in Seq(Bytes) /\ up \in Seq(Bytes) /\ down \in Seq(Bytes)
    /\ connected \in BOOLEAN /\ mapped \in BOOLEAN
    /\ server \in {"method", "request", "relay"}
    /\ reply \in {NoReply, Grant, Refusal, Grant6} /\ sent \in 0 .. MaxPayload

\* Start has opened the socket and spawned the coroutine.
Init ==
    /\ status = "INIT"
    /\ remote_recv_buff = [i \in 1 .. 10 |-> Uninitialised]
    /\ pc = "connect" /\ op = "pending" /\ got = 0 /\ relayed = <<>>
    /\ mapped = TRUE
    /\ connected = FALSE /\ up = <<>> /\ down = <<>>
    /\ server = "method" /\ reply = NoReply /\ sent = 0

-----------------------------------------------------------------------------
(* The kernel completes the operation the coroutine waits for *)

CompleteConnect ==
    /\ pc = "connect" /\ op = "pending"
    /\ \/ op' = "ok" /\ connected' = TRUE
       \/ op' = "err" /\ UNCHANGED connected
    /\ UNCHANGED <<status, remote_recv_buff, pc, got, relayed, mapped, up,
                   down, server, reply, sent>>

\* The socket takes a message of 3 or 10 bytes whole.  After the server has closed
\* it may still take one, which nobody reads, or fail.
CompleteWrite ==
    /\ pc \in {"mwrite", "rwrite"} /\ op = "pending"
    /\ \/ /\ op' = "ok"
          /\ up' = up \o (IF pc = "mwrite" THEN DEFAULT_METHOD_REQUEST
                                          ELSE remote_recv_buff)
       \/ ~connected /\ op' = "err" /\ UNCHANGED up
    /\ UNCHANGED <<status, remote_recv_buff, pc, got, relayed, mapped, connected,
                   down, server, reply, sent>>

\* The size of the buffer given to the read: 2 bytes for the method reply, what
\* is missing of 10 for the reply.
Wanted ==
    CASE pc = "mread" -> 2 [] pc = "rread" -> 10 - got [] OTHER -> MaxPayload

\* read_some returns any number of the bytes that are there, but at least one.
CompleteRead ==
    /\ pc \in {"mread", "rread", "read"} /\ op = "pending"
    /\ \/ \E n \in 1 .. Len(down) :
              /\ n <= Wanted
              /\ op' = "ok" /\ down' = SubSeq(down, n + 1, Len(down))
              /\ \/ /\ pc = "read"
                    /\ relayed' = relayed \o SubSeq(down, 1, n)
                    /\ UNCHANGED <<remote_recv_buff, got>>
                 \/ /\ pc # "read"
                    /\ remote_recv_buff' = [i \in 1 .. 10 |->
                           IF i \in got + 1 .. got + n
                           THEN down[i - got] ELSE remote_recv_buff[i]]
                    /\ got' = got + n
                    /\ UNCHANGED relayed
       \/ /\ down = <<>> /\ ~connected /\ op' = "err"
          /\ UNCHANGED <<down, remote_recv_buff, got, relayed>>
    /\ UNCHANGED <<status, pc, mapped, connected, up, server, reply, sent>>

-----------------------------------------------------------------------------
(* The coroutine, from one suspension to the next *)

Await(p) == pc' = p /\ op' = "pending"

\* A failed operation, or a reply that is not a grant: Start's lambda returns.
Return == pc' = "done" /\ op' = "none" /\ status' = "CLOSE"

connectToRemote ==
    /\ pc = "connect" /\ op = "ok"
    /\ Await("mwrite") /\ status' = "HANDSHAKING"
    /\ UNCHANGED <<remote_recv_buff, got, relayed, mapped, serverVars>>

handleMethodSelection ==
    /\ pc = "mwrite" /\ op = "ok"
    /\ Await("mread") /\ got' = 0
    /\ UNCHANGED <<status, remote_recv_buff, relayed, mapped, serverVars>>

\* The two bytes of a port
High(n) == n \div 256
Low(n) == n % 256

\* Mutant of ConstructRequest: the two bytes of the port in host order.
ConstructRequestHostOrder(buff) ==
    <<buff[1], 1, buff[3], 1>> \o Addr \o <<Low(Port), High(Port)>>

\* ConstructSocks5RequestFromIpStringAndPort writes into the buffer that holds
\* the method reply: it sets neither VER, which stays what the server sent,
\* nor RSV.
ConstructRequest(buff) ==
    <<buff[1], 1, buff[3], 1>> \o Addr \o <<High(Port), Low(Port)>>

\* Whatever the method reply says, and however much of it has come, the
\* request follows.  After Stop() the pcb may be freed, and its address and
\* port are then what the memory happens to hold.
SendRequest ==
    /\ pc = "mread" /\ op = "ok"
    /\ LET request == ConstructRequest(remote_recv_buff) IN
       \/ remote_recv_buff' = request
       \/ /\ ~mapped
          /\ remote_recv_buff' = [i \in 1 .. 10 |->
                 IF i > 4 THEN Uninitialised ELSE request[i]]
    /\ Await("rwrite")
    /\ UNCHANGED <<status, got, relayed, mapped, serverVars>>

AwaitReply ==
    /\ pc = "rwrite" /\ op = "ok"
    /\ Await("rread") /\ got' = 0
    /\ UNCHANGED <<status, remote_recv_buff, relayed, mapped, serverVars>>

\* Mutant of ReadMore: one more read after the tenth byte.
ReadMoreThanTen ==
    /\ pc = "rread" /\ op = "ok"
    /\ Await("rread")
    /\ UNCHANGED <<status, remote_recv_buff, got, relayed, mapped, serverVars>>

\* async_read goes on until it has ten bytes.
ReadMore ==
    /\ pc = "rread" /\ op = "ok" /\ got < 10
    /\ Await("rread")
    /\ UNCHANGED <<status, remote_recv_buff, got, relayed, mapped, serverVars>>

\* Mutant of Granted: only the version is compared.
GrantedByVersion(buff) == buff[1] = 5

\* Mutant of Granted: the constant for a big-endian machine.
GrantedBigEndian(buff) == SubSeq(buff, 1, 4) = <<1, 0, 0, 5>>

\* *(int*)remote_recv_buff_ == 16777221
Granted(buff) == SubSeq(buff, 1, 4) = <<5, 0, 0, 1>>

\* The end of handleSocks5Request; handleRemoteRead then reads from the server.
CheckReply ==
    /\ pc = "rread" /\ op = "ok" /\ got = 10
    /\ \/ /\ Granted(remote_recv_buff)
          /\ Await("read") /\ status' = "RELAYING"
       \/ ~Granted(remote_recv_buff) /\ Return
    /\ UNCHANGED <<remote_recv_buff, got, relayed, mapped, serverVars>>

\* The downstream loop of handleRemoteRead
handleRemoteRead ==
    /\ pc = "read" /\ op = "ok"
    /\ IF status = "CLOSE" THEN Return ELSE Await("read") /\ UNCHANGED status
    /\ UNCHANGED <<remote_recv_buff, got, relayed, mapped, serverVars>>

Fail ==
    /\ pc # "done" /\ op = "err"
    /\ Return
    /\ UNCHANGED <<remote_recv_buff, got, relayed, mapped, serverVars>>

\* The handler takes the session out of its map when the application closes, and
\* calls Stop(), which does nothing to a closed session: cancel() reaches a
\* pending operation only.  One that has completed goes on, and so does the rest
\* of async_read.
Stop ==
    /\ mapped /\ mapped' = FALSE
    /\ status' = "CLOSE"
    /\ op' = IF status # "CLOSE" /\ op = "pending" THEN "err" ELSE op
    /\ UNCHANGED <<remote_recv_buff, pc, got, relayed, serverVars>>

-----------------------------------------------------------------------------
(* The SOCKS5 server *)

\* NO AUTHENTICATION is chosen, or no method is acceptable.
AnswerMethod ==
    /\ connected /\ server = "method" /\ Len(up) >= 3
    /\ up' = SubSeq(up, 4, Len(up)) /\ server' = "request"
    /\ \/ down' = down \o <<5, 0>> /\ UNCHANGED connected
       \/ down' = down \o <<5, NO_ACCEPTABLE_METHODS>> /\ connected' = FALSE
    /\ UNCHANGED <<clientVars, reply, sent>>

\* A request that is not version 5 ends the connection.
AnswerRequest ==
    /\ connected /\ server = "request" /\ Len(up) >= 10
    /\ up' = SubSeq(up, 11, Len(up)) /\ server' = "relay"
    /\ \/ /\ up[1] = 5
          /\ \E r \in {Grant, Refusal, Grant6} : reply' = r /\ down' = down \o r
          /\ UNCHANGED connected
       \/ /\ up[1] # 5 /\ connected' = FALSE
          /\ UNCHANGED <<down, reply>>
    /\ UNCHANGED <<clientVars, sent>>

\* The target's bytes follow a grant.
SendPayload ==
    /\ connected /\ server = "relay" /\ reply \in {Grant, Grant6}
    /\ sent < MaxPayload /\ sent' = sent + 1
    /\ down' = Append(down, Uninitialised + sent + 1)
    /\ UNCHANGED <<clientVars, connected, up, server, reply>>

ServerCloses ==
    /\ connected /\ connected' = FALSE
    /\ UNCHANGED <<clientVars, up, down, server, reply, sent>>

Complete == CompleteConnect \/ CompleteWrite \/ CompleteRead
Client ==
    \/ connectToRemote \/ handleMethodSelection \/ SendRequest \/ AwaitReply
    \/ ReadMore \/ CheckReply \/ handleRemoteRead \/ Fail
Server == AnswerMethod \/ AnswerRequest

Next == Complete \/ Client \/ Stop \/ Server \/ SendPayload \/ ServerCloses

Spec == Init /\ [][Next]_vars

\* The thread runs every handler that is ready, the kernel completes what it
\* can, and the server answers what it has received.
FairSpec == Spec /\ WF_vars(Complete) /\ WF_vars(Client) /\ WF_vars(Server)

-----------------------------------------------------------------------------
(* Properties *)

\* While the session is in the map, what the server reads as the request names
\* the application's target in network byte order and is a version 5 CONNECT,
\* although handleSocks5Request writes no version: it sends the byte that the
\* method reply has left in remote_recv_buff_.
RequestNamesTarget ==
    mapped /\ server = "request" /\ Len(up) >= 10 =>
        /\ up[1] = 5 /\ up[2] = 1 /\ up[4] = 1
        /\ SubSeq(up, 5, 8) = Addr
        /\ up[9] * 256 + up[10] = Port

\* A session relays only after the server has granted the request, and then the
\* bytes it has read are the target's from the first one on: however the two
\* answers were cut into pieces, none of their bytes is taken for payload and
\* no payload is eaten by the ten-byte read.
RelayAligned ==
    pc = "read" =>
        /\ reply = Grant
        /\ relayed = Payload(Len(relayed))

\* Every negotiation ends if the server answers or closes: no read waits for
\* bytes that are already behind it.
HandshakeEnds == pc = "connect" ~> pc \in {"read", "done"}

\* A grant is honoured when the method reply came in one piece: the session
\* relays unless it is stopped, even if the server closes after its answer.
\* (After a method reply in two pieces its second byte is read as the first
\* byte of the reply, and a grant is taken for a refusal.)
GrantHonoured ==
    (mapped /\ pc = "rread" /\ got = 0 /\ Len(down) >= 10 /\ SubSeq(down, 1, 10) = Grant)
        ~> (pc = "read" \/ ~mapped)
=============================================================================
