-------------------------------- MODULE Relay --------------------------------
(***************************************************************************)
(* One forwarded port: the user connections accepted on it, the yamux      *)
(* stream opened for each, and the goroutines that move data.              *)
(*   server: handleProxyConnection, its two copies, and the ServerUDPProxy *)
(*           that it starts on the SAME stream (pkg/server, pkg/udp);      *)
(*   client: handleIncomingStream and its two copies, over TCP or, when    *)
(*           the target refuses, over UDP (pkg/client, pkg/udp).           *)
(*                                                                         *)
(* Data are numbered chunks, smaller than every buffer; 0 is the port      *)
(* header.  A yamux end that its side has closed fails on Write; a Read    *)
(* returns what is buffered and, once either side has closed, EOF.  Five   *)
(* idle minutes are a step that may happen whenever the buffer is empty.   *)
(***************************************************************************)
EXTENDS Integers, Sequences, FiniteSets

CONSTANTS
    Conns,        \* user connections on the port
    UpLen,        \* bound: chunks that a user sends
    DownLen,      \* bound: chunks that a target sends
    HeaderRoom,   \* chunks that fit behind the header in headerBuf
    Datagrams,    \* bound: UDP datagrams that reach the port per connection
    None,         \* no connection
    Rival         \* another holder of the UDP port: a process of the host, or
                  \* the proxy of a connection that is not modelled

ASSUME RelayAssumption ==
    /\ IsFiniteSet(Conns)
    /\ {UpLen, DownLen, HeaderRoom, Datagrams} \subseteq Nat
    /\ None \notin Conns /\ Rival \notin Conns \cup {None}

VARIABLES
    conn,          \* the state of each connection, see Idle
    lost,          \* has the yamux session failed?
    udpPort,       \* the connection whose proxy is bound to the UDP port
    activeStreams, \* ClientSession.ActiveStreams
    cActive        \* Client.activeStreams

vars == <<conn, lost, udpPort, activeStreams, cActive>>
counters == <<activeStreams, cActive>>

\* A connection that the listener has accepted and nobody handles yet.
Idle == [
    handler   |-> "idle",  \* handleProxyConnection
    copyUp    |-> "off",   \*   its io.Copy(stream, userConn)
    copyDown  |-> "off",   \*   its io.Copy(userConn, stream)
    udp       |-> "off",   \* StartServerForwarding
    udpIn     |-> "off",   \*   its loop that reads the stream
    udpOut    |-> "off",   \*   its loop that reads the UDP socket
    incoming  |-> "off",   \* handleIncomingStream
    cCopyUp   |-> "off",   \*   its copy from the stream to the target
    cCopyDown |-> "off",   \*   its copy from the target to the stream
    srvClosed |-> FALSE,   \* the server has closed its end of the stream
    cliClosed |-> FALSE,   \* the client has closed its end of the stream
    user      |-> "open",  \* the user: open, eof (sends no more) or gone
    target    |-> "open",  \* the target: open or closed
    sent      |-> 0,       \* chunks the user has sent
    replied   |-> 0,       \* chunks the target has sent
    datagrams |-> 0,       \* datagrams that have reached the proxy
    userQ     |-> <<>>,    \* chunks in the user's socket
    up        |-> <<>>,    \* chunks on the stream, towards the client
    tgtIn     |-> <<>>,    \* chunks the target has received
    down      |-> <<>>,    \* chunks on the stream, towards the server
    userIn    |-> <<>>]    \* chunks the user has received

Datagram == UpLen + 1

Init ==
    /\ conn = [c \in Conns |-> Idle]
    /\ lost = FALSE
    /\ udpPort \in {None, Rival}
    /\ activeStreams = 0 /\ cActive = 0

SrvCanWrite(c) == ~conn[c].srvClosed /\ ~lost
CliCanWrite(c) == ~conn[c].cliClosed /\ ~lost

\* A Read at either end of the stream returns EOF once its buffer is empty.
AtEOF(c) == conn[c].srvClosed \/ conn[c].cliClosed \/ lost

-----------------------------------------------------------------------------
(* handleProxyConnection *)

\* The session is closed already: the user is turned away.
TurnAway(c) ==
    /\ conn[c].handler = "idle" /\ lost
    /\ conn' = [conn EXCEPT ![c].handler = "done", ![c].user = "gone"]
    /\ UNCHANGED <<lost, udpPort, counters>>

Enter(c) ==
    /\ conn[c].handler = "idle" /\ ~lost
    /\ conn' = [conn EXCEPT ![c].handler = "open"]
    /\ activeStreams' = activeStreams + 1
    /\ UNCHANGED <<lost, udpPort, cActive>>

\* Mutant of OpenFails: the counter is not decremented on the error path.
OpenFailsCounted(c) ==
    /\ conn[c].handler = "open" /\ lost
    /\ conn' = [conn EXCEPT ![c].handler = "done", ![c].user = "gone"]
    /\ UNCHANGED <<lost, udpPort, counters>>

\* OpenStream or the write of the header fails.
OpenFails(c) ==
    /\ conn[c].handler = "open" /\ lost
    /\ conn' = [conn EXCEPT ![c].handler = "done", ![c].user = "gone"]
    /\ activeStreams' = activeStreams - 1
    /\ UNCHANGED <<lost, udpPort, cActive>>

\* Mutant of OpenStream: no UDP proxy is started.
OpenStreamTcpOnly(c) ==
    /\ conn[c].handler = "open" /\ ~lost
    /\ conn' = [conn EXCEPT ![c].handler = "relay", ![c].up = <<0>>,
                            ![c].copyUp = "run", ![c].copyDown = "run",
                            ![c].incoming = "header"]
    /\ cActive' = cActive + 1
    /\ UNCHANGED <<lost, udpPort, activeStreams>>

\* The header is on the stream; three goroutines start, and the client's accept
\* loop hands the stream to handleIncomingStream.
OpenStream(c) ==
    /\ conn[c].handler = "open" /\ ~lost
    /\ conn' = [conn EXCEPT ![c].handler = "relay", ![c].up = <<0>>,
                            ![c].copyUp = "run", ![c].copyDown = "run",
                            ![c].udp = "start", ![c].incoming = "header"]
    /\ cActive' = cActive + 1
    /\ UNCHANGED <<lost, udpPort, activeStreams>>

\* io.Copy(stream, userConn) moves a chunk, or fails to write it.
CopyUp(c) ==
    /\ conn[c].copyUp = "run" /\ conn[c].userQ # <<>>
    /\ \/ /\ SrvCanWrite(c)
          /\ conn' = [conn EXCEPT ![c].userQ = Tail(@),
                                  ![c].up = Append(@, Head(conn[c].userQ))]
       \/ /\ ~SrvCanWrite(c)
          /\ conn' = [conn EXCEPT ![c].userQ = Tail(@), ![c].copyUp = "done"]
    /\ UNCHANGED <<lost, udpPort, counters>>

\* It reads the user's EOF.
CopyUpEnds(c) ==
    /\ conn[c].copyUp = "run" /\ conn[c].userQ = <<>> /\ conn[c].user # "open"
    /\ conn' = [conn EXCEPT ![c].copyUp = "done"]
    /\ UNCHANGED <<lost, udpPort, counters>>

\* io.Copy(userConn, stream) moves a chunk, or fails to write it.
CopyDown(c) ==
    /\ conn[c].copyDown = "run" /\ conn[c].down # <<>>
    /\ \/ /\ conn[c].user # "gone"
          /\ conn' = [conn EXCEPT ![c].down = Tail(@),
                                  ![c].userIn = Append(@, Head(conn[c].down))]
       \/ /\ conn[c].user = "gone"
          /\ conn' = [conn EXCEPT ![c].down = Tail(@), ![c].copyDown = "done"]
    /\ UNCHANGED <<lost, udpPort, counters>>

\* The UDP proxy has put a read deadline on the stream, and every reader of the
\* stream is subject to it.
Armed(c) == conn[c].udp \in {"run", "done"}

\* It reads EOF, or five idle minutes pass under the proxy's deadline.
CopyDownEnds(c) ==
    /\ conn[c].copyDown = "run" /\ conn[c].down = <<>>
    /\ AtEOF(c) \/ Armed(c)
    /\ conn' = [conn EXCEPT ![c].copyDown = "done"]
    /\ UNCHANGED <<lost, udpPort, counters>>

\* wg.Wait returns when both copies are done; the deferred calls run.
Leave(c) ==
    /\ conn[c].handler = "relay"
    /\ conn[c].copyUp = "done" /\ conn[c].copyDown = "done"
    /\ conn' = [conn EXCEPT ![c].handler = "done", ![c].srvClosed = TRUE,
                            ![c].user = "gone"]
    /\ activeStreams' = activeStreams - 1
    /\ UNCHANGED <<lost, udpPort, cActive>>

-----------------------------------------------------------------------------
(* StartServerForwarding *)

\* Somebody else has the UDP port: the deferred Close closes
\* the stream that the two copies use.
UdpBusy(c) ==
    /\ conn[c].udp = "start" /\ udpPort # None
    /\ conn' = [conn EXCEPT ![c].udp = "done", ![c].srvClosed = TRUE]
    /\ UNCHANGED <<lost, udpPort, counters>>

UdpBind(c) ==
    /\ conn[c].udp = "start" /\ udpPort = None
    /\ conn' = [conn EXCEPT ![c].udp = "run", ![c].udpIn = "run", ![c].udpOut = "run"]
    /\ udpPort' = c
    /\ UNCHANGED <<lost, counters>>

\* The proxy takes a chunk off the stream and writes it to UDP.
UdpReadStream(c) ==
    /\ conn[c].udpIn = "run" /\ conn[c].down # <<>>
    /\ conn' = [conn EXCEPT ![c].down = Tail(@)]
    /\ UNCHANGED <<lost, udpPort, counters>>

\* EOF, or five idle minutes.
UdpInEnds(c) ==
    /\ conn[c].udpIn = "run" /\ conn[c].down = <<>>
    /\ conn' = [conn EXCEPT ![c].udpIn = "done"]
    /\ UNCHANGED <<lost, udpPort, counters>>

\* A datagram is written to the stream, or the write fails.
UdpReceive(c) ==
    /\ conn[c].udpOut = "run" /\ conn[c].datagrams < Datagrams
    /\ \/ /\ SrvCanWrite(c)
          /\ conn' = [conn EXCEPT ![c].datagrams = @ + 1, ![c].up = Append(@, Datagram)]
       \/ /\ ~SrvCanWrite(c)
          /\ conn' = [conn EXCEPT ![c].datagrams = @ + 1, ![c].udpOut = "done"]
    /\ UNCHANGED <<lost, udpPort, counters>>

\* Five minutes without a datagram.
UdpOutEnds(c) ==
    /\ conn[c].udpOut = "run"
    /\ conn' = [conn EXCEPT ![c].udpOut = "done"]
    /\ UNCHANGED <<lost, udpPort, counters>>

\* Mutant of UdpLeave: the stream is left open.
UdpLeaveKeepsStream(c) ==
    /\ conn[c].udp = "run" /\ conn[c].udpIn = "done" /\ conn[c].udpOut = "done"
    /\ conn' = [conn EXCEPT ![c].udp = "done"]
    /\ udpPort' = None
    /\ UNCHANGED <<lost, counters>>

\* Both loops are done: close the socket and the stream.
UdpLeave(c) ==
    /\ conn[c].udp = "run" /\ conn[c].udpIn = "done" /\ conn[c].udpOut = "done"
    /\ conn' = [conn EXCEPT ![c].udp = "done", ![c].srvClosed = TRUE]
    /\ udpPort' = None
    /\ UNCHANGED <<lost, counters>>

-----------------------------------------------------------------------------
(* handleIncomingStream; "tcp" and "udp" are its two ways of forwarding *)

\* Mutant of ReadHeader: the header stays on the stream.
PeekHeader(c) ==
    /\ conn[c].incoming = "header" /\ conn[c].up # <<>>
    /\ conn' = [conn EXCEPT ![c].incoming = "dial"]
    /\ UNCHANGED <<lost, udpPort, counters>>

\* One Read of up to 64 bytes: it returns the header and whatever else has
\* arrived and fits.
ReadHeader(c) ==
    LET n == IF Len(conn[c].up) <= 1 + HeaderRoom THEN Len(conn[c].up) ELSE 1 + HeaderRoom
    IN  /\ conn[c].incoming = "header" /\ conn[c].up # <<>>
        /\ conn' = [conn EXCEPT ![c].incoming = "dial",
                                ![c].up = SubSeq(@, n + 1, Len(@))]
        /\ UNCHANGED <<lost, udpPort, counters>>

\* The header does not arrive within 5 seconds.
HeaderTimeout(c) ==
    /\ conn[c].incoming = "header"
    /\ conn' = [conn EXCEPT ![c].incoming = "done", ![c].cliClosed = TRUE]
    /\ cActive' = cActive - 1
    /\ UNCHANGED <<lost, udpPort, activeStreams>>

\* The target accepts, or refuses and is tried over UDP.
DialTarget(c) ==
    /\ conn[c].incoming = "dial"
    /\ \E way \in {"tcp", "udp"} :
          conn' = [conn EXCEPT ![c].incoming = way, ![c].cCopyUp = "run",
                               ![c].cCopyDown = "run"]
    /\ UNCHANGED <<lost, udpPort, counters>>

\* Neither works.
DialFails(c) ==
    /\ conn[c].incoming = "dial"
    /\ conn' = [conn EXCEPT ![c].incoming = "done", ![c].cliClosed = TRUE]
    /\ cActive' = cActive - 1
    /\ UNCHANGED <<lost, udpPort, activeStreams>>

\* A chunk goes to the target.  A TCP target that has closed makes the write
\* fail; a failed write to UDP is ignored.
ClientCopyUp(c) ==
    /\ conn[c].cCopyUp = "run" /\ conn[c].up # <<>>
    /\ \/ /\ conn[c].target = "open"
          /\ conn' = [conn EXCEPT ![c].up = Tail(@),
                                  ![c].tgtIn = Append(@, Head(conn[c].up))]
       \/ /\ conn[c].target = "closed"
          /\ conn' = [conn EXCEPT ![c].up = Tail(@),
                         ![c].cCopyUp = IF conn[c].incoming = "tcp" THEN "done" ELSE @]
    /\ UNCHANGED <<lost, udpPort, counters>>

\* EOF; over UDP also five idle minutes.
ClientCopyUpEnds(c) ==
    /\ conn[c].cCopyUp = "run" /\ conn[c].up = <<>>
    /\ AtEOF(c) \/ conn[c].incoming = "udp"
    /\ conn' = [conn EXCEPT ![c].cCopyUp = "done"]
    /\ UNCHANGED <<lost, udpPort, counters>>

\* A chunk comes from the target.
ClientCopyDown(c) ==
    /\ conn[c].cCopyDown = "run" /\ conn[c].target = "open"
    /\ conn[c].replied < DownLen
    /\ \/ /\ CliCanWrite(c)
          /\ conn' = [conn EXCEPT ![c].replied = @ + 1,
                                  ![c].down = Append(@, conn[c].replied + 1)]
       \/ /\ ~CliCanWrite(c)
          /\ conn' = [conn EXCEPT ![c].replied = @ + 1, ![c].cCopyDown = "done"]
    /\ UNCHANGED <<lost, udpPort, counters>>

\* The target closed; over UDP five idle minutes.
ClientCopyDownEnds(c) ==
    /\ conn[c].cCopyDown = "run"
    /\ conn[c].target = "closed" \/ conn[c].incoming = "udp"
    /\ conn' = [conn EXCEPT ![c].cCopyDown = "done"]
    /\ UNCHANGED <<lost, udpPort, counters>>

\* wg.Wait returns; the deferred calls run.
ClientLeave(c) ==
    /\ conn[c].incoming \in {"tcp", "udp"}
    /\ conn[c].cCopyUp = "done" /\ conn[c].cCopyDown = "done"
    /\ conn' = [conn EXCEPT ![c].incoming = "done", ![c].cliClosed = TRUE,
                            ![c].target = "closed"]
    /\ cActive' = cActive - 1
    /\ UNCHANGED <<lost, udpPort, activeStreams>>

-----------------------------------------------------------------------------
(* The user, the target and the network *)

UserSends(c) ==
    /\ conn[c].user = "open" /\ conn[c].sent < UpLen
    /\ conn' = [conn EXCEPT ![c].sent = @ + 1, ![c].userQ = Append(@, conn[c].sent + 1)]
    /\ UNCHANGED <<lost, udpPort, counters>>

\* The user half-closes or closes its connection.
UserCloses(c) ==
    /\ \/ conn[c].user = "open" /\ conn' = [conn EXCEPT ![c].user = "eof"]
       \/ conn[c].user # "gone" /\ conn' = [conn EXCEPT ![c].user = "gone"]
    /\ UNCHANGED <<lost, udpPort, counters>>

TargetCloses(c) ==
    /\ conn[c].incoming = "tcp" /\ conn[c].target = "open"
    /\ conn' = [conn EXCEPT ![c].target = "closed"]
    /\ UNCHANGED <<lost, udpPort, counters>>

SessionLost ==
    /\ ~lost
    /\ lost' = TRUE
    /\ UNCHANGED <<conn, udpPort, counters>>

ProxyConnection(c) == TurnAway(c) \/ Enter(c) \/ OpenFails(c) \/ OpenStream(c) \/ Leave(c)
UpCopier(c)   == CopyUp(c) \/ CopyUpEnds(c)
DownCopier(c) == CopyDown(c) \/ CopyDownEnds(c)
UdpProxy(c)   == UdpBusy(c) \/ UdpBind(c) \/ UdpLeave(c)
UdpReader(c)  == UdpReadStream(c) \/ UdpInEnds(c)
UdpWriter(c)  == UdpReceive(c) \/ UdpOutEnds(c)
IncomingStream(c) ==
    ReadHeader(c) \/ HeaderTimeout(c) \/ DialTarget(c) \/ DialFails(c) \/ ClientLeave(c)
ClientUp(c)   == ClientCopyUp(c) \/ ClientCopyUpEnds(c)
ClientDown(c) == ClientCopyDown(c) \/ ClientCopyDownEnds(c)
Peers(c)      == UserSends(c) \/ UserCloses(c) \/ TargetCloses(c)

Next ==
    \/ \E c \in Conns :
          \/ ProxyConnection(c) \/ UpCopier(c) \/ DownCopier(c)
          \/ UdpProxy(c) \/ UdpReader(c) \/ UdpWriter(c)
          \/ IncomingStream(c) \/ ClientUp(c) \/ ClientDown(c)
          \/ Peers(c)
    \/ SessionLost

Spec == Init /\ [][Next]_vars

\* Every goroutine that can run does, and deadlines pass.  Users and targets may
\* stay silent for ever, and nothing forces them to close.
FairSpec ==
    Spec /\ \A c \in Conns :
        /\ WF_vars(ProxyConnection(c)) /\ WF_vars(UpCopier(c)) /\ WF_vars(DownCopier(c))
        /\ WF_vars(UdpProxy(c)) /\ WF_vars(UdpReader(c)) /\ WF_vars(UdpOutEnds(c))
        /\ WF_vars(IncomingStream(c)) /\ WF_vars(ClientUp(c))
        /\ WF_vars(ClientCopyDownEnds(c))

-----------------------------------------------------------------------------
(* Properties *)

Increasing(s) == \A i, j \in DOMAIN s : i < j => s[i] < s[j]
IsChunk(x) == x \in 1..UpLen

\* The chunks of s are increasing, whatever datagrams are between them.
ChunksIncreasing(s) ==
    \A i, j \in DOMAIN s : i < j /\ IsChunk(s[i]) /\ IsChunk(s[j]) => s[i] < s[j]

\* Although two goroutines read the stream and two write it, no chunk is ever
\* duplicated or reordered in either direction, and the port header never
\* reaches the target.
OrderPreserved ==
    \A c \in Conns :
        /\ ChunksIncreasing(conn[c].tgtIn)
        /\ \A i \in DOMAIN conn[c].tgtIn : conn[c].tgtIn[i] \in (1..conn[c].sent) \cup {Datagram}
        /\ Increasing(conn[c].userIn)
        /\ \A i \in DOMAIN conn[c].userIn : conn[c].userIn[i] <= conn[c].replied

\* The gauges of both sides count exactly the handlers that have entered and not
\* left, on every path, so they return to zero.
StreamsCounted ==
    /\ activeStreams = Cardinality({c \in Conns : conn[c].handler \in {"open", "relay"}})
    /\ cActive = Cardinality({c \in Conns : conn[c].incoming \notin {"off", "done"}})

\* A user who disconnects is noticed: its handler ends and gives its stream back,
\* even if the target never says another word.  (It does so only because the
\* UDP proxy gives up after five idle minutes and takes the stream with it.)
UserLeavesHandlerEnds ==
    \A c \in Conns : conn[c].user = "gone" ~> conn[c].handler = "done"

\* A target that closes is noticed: the client's handler ends, although the user
\* at the other end may stay connected and silent for ever.
TargetLeavesHandlerEnds ==
    \A c \in Conns : conn[c].target = "closed" ~> conn[c].incoming = "done"

-----------------------------------------------------------------------------
(* What a test expects, and the code does not keep *)

\* What the target receives is what the user sent, from its first byte on.
TargetGetsRequest(c) == \A i \in DOMAIN conn[c].tgtIn : conn[c].tgtIn[i] = i

\* What the user receives is what the target sent, with no gaps.
UserGetsResponse(c) == \A i \in DOMAIN conn[c].userIn : conn[c].userIn[i] = i

\* test/integration_test.go:75: public traffic is routed through the tunnel, the
\* request to the target and its answer, the complete "pong", to the user.
TunnelTransparent == \A c \in Conns : TargetGetsRequest(c) /\ UserGetsResponse(c)
=============================================================================
