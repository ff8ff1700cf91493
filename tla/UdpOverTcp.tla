------------------------------ MODULE UdpOverTcp ------------------------------
(***************************************************************************)
(* pkg/tunnel/udp.go: ForwardUDPOverTCP at both ends of a TCP connection.  *)
(* Each end has a goroutine that frames datagrams with a two-byte length   *)
(* and one that takes the frames apart; whichever ends first closes both   *)
(* of its end's connections.                                               *)
(*                                                                         *)
(* A datagram is its bytes: every byte of the k-th one holds k, so that    *)
(* bytes which are cut from the wrong place show.                          *)
(***************************************************************************)
EXTENDS Integers, Sequences

CONSTANTS Byte,       \* how many values a byte has, 256 in the code
          Sizes,      \* sizes of datagrams; 0 and Byte^2 - 1 are the extremes
          Datagrams   \* bound: datagrams that both ends get together

Ends == {"near", "far"}
Other(e) == IF e = "near" THEN "far" ELSE "near"

VARIABLES
    framer,      \* the goroutine UDP -> TCP: "read", "length", "body", "ended"
    unframer,    \* the goroutine TCP -> UDP: "length", "body", "write", "ended"
    closed,      \* the ends whose closeConns has run
    returned,    \* the ends whose ForwardUDPOverTCP has returned
    stream,      \* bytes on their way to each end
    need,        \* the length that the unframer has read
    data,        \* the datagram that the unframer holds
    taken,       \* datagrams read from each end's socket
    delivered    \* datagrams written to each end's socket

vars == <<framer, unframer, closed, returned, stream, need, data, taken, delivered>>

Init ==
    /\ framer = [e \in Ends |-> "read"] /\ unframer = [e \in Ends |-> "length"]
    /\ closed = {} /\ returned = {}
    /\ stream = [e \in Ends |-> <<>>]
    /\ need = [e \in Ends |-> 0] /\ data = [e \in Ends |-> <<>>]
    /\ taken = [e \in Ends |-> <<>>] /\ delivered = [e \in Ends |-> <<>>]

Datagram(k, n) == [i \in 1..n |-> k]

\* Mutant of Prefix: the length is written in one byte.
PrefixOneByte(n) == <<0, n % Byte>>

\* binary.BigEndian.PutUint16(lengthBuf, uint16(n)), and Uint16
Prefix(n) == <<(n \div Byte) % Byte, n % Byte>>
Uint16(b) == b[1] * Byte + b[2]

\* udpConn.ReadFrom(buf)
Take(e, n) ==
    /\ framer[e] = "read" /\ e \notin closed
    /\ Len(taken[e]) + Len(taken[Other(e)]) < Datagrams
    /\ taken' = [taken EXCEPT ![e] = Append(@, Datagram(Len(@) + 1, n))]
    /\ framer' = [framer EXCEPT ![e] = "length"]
    /\ UNCHANGED <<unframer, closed, returned, stream, need, data, delivered>>

\* The two Writes of a frame.  What is written to a peer that has closed is lost.
WriteFrame(e) ==
    /\ framer[e] \in {"length", "body"} /\ e \notin closed
    /\ LET datagram == taken[e][Len(taken[e])]
           bytes == IF framer[e] = "length" THEN Prefix(Len(datagram)) ELSE datagram
       IN stream' = [stream EXCEPT ![Other(e)] = IF Other(e) \in closed THEN @ ELSE @ \o bytes]
    /\ framer' = [framer EXCEPT ![e] = IF @ = "length" THEN "body" ELSE "read"]
    /\ UNCHANGED <<unframer, closed, returned, need, data, taken, delivered>>

\* io.ReadFull of the length, and of the datagram
ReadFrame(e) ==
    /\ unframer[e] \in {"length", "body"} /\ e \notin closed
    /\ LET n == IF unframer[e] = "length" THEN 2 ELSE need[e]
           bytes == SubSeq(stream[e], 1, n)
       IN /\ Len(stream[e]) >= n
          /\ stream' = [stream EXCEPT ![e] = SubSeq(@, n + 1, Len(@))]
          /\ IF unframer[e] = "length"
             THEN need' = [need EXCEPT ![e] = Uint16(bytes)] /\ UNCHANGED data
             ELSE data' = [data EXCEPT ![e] = bytes] /\ UNCHANGED need
    /\ unframer' = [unframer EXCEPT ![e] = IF @ = "length" THEN "body" ELSE "write"]
    /\ UNCHANGED <<framer, closed, returned, taken, delivered>>

\* udpConn.Write(data): also a datagram of no bytes is one.
Deliver(e) ==
    /\ unframer[e] = "write" /\ e \notin closed
    /\ delivered' = [delivered EXCEPT ![e] = Append(@, data[e])]
    /\ unframer' = [unframer EXCEPT ![e] = "length"]
    /\ UNCHANGED <<framer, closed, returned, stream, need, data, taken>>

\* Mutant of CloseConns: only the goroutine that ends knows.
ClosesNothing(e) == closed' = closed

\* closeConns: the peer reads an end of file after what is in the stream.
CloseConns(e) == closed' = closed \cup {e}

\* A call fails and the goroutine ends: its own end is closed, or the peer has
\* closed TCP (a Write may fail, and a Read of bytes that will not come does).
FramerEnds(e) ==
    /\ \/ framer[e] # "ended" /\ e \in closed
       \/ framer[e] \in {"length", "body"} /\ Other(e) \in closed
    /\ framer' = [framer EXCEPT ![e] = "ended"]
    /\ CloseConns(e)
    /\ UNCHANGED <<unframer, returned, stream, need, data, taken, delivered>>

UnframerEnds(e) ==
    /\ \/ unframer[e] # "ended" /\ e \in closed
       \/ unframer[e] \in {"length", "body"} /\ Other(e) \in closed
             /\ Len(stream[e]) < (IF unframer[e] = "length" THEN 2 ELSE need[e])
    /\ unframer' = [unframer EXCEPT ![e] = "ended"]
    /\ CloseConns(e)
    /\ UNCHANGED <<framer, returned, stream, need, data, taken, delivered>>

\* wg.Wait(), and the deferred closeConns.
Return(e) ==
    /\ framer[e] = "ended" /\ unframer[e] = "ended" /\ e \notin returned
    /\ returned' = returned \cup {e}
    /\ CloseConns(e)
    /\ UNCHANGED <<framer, unframer, stream, need, data, taken, delivered>>

\* The UDP socket reports an error: nobody listens at its peer, or it has none.
UdpFails(e) ==
    /\ e \notin closed
    /\ \/ framer[e] = "read" /\ framer' = [framer EXCEPT ![e] = "ended"] /\ UNCHANGED unframer
       \/ unframer[e] = "write" /\ unframer' = [unframer EXCEPT ![e] = "ended"] /\ UNCHANGED framer
    /\ CloseConns(e)
    /\ UNCHANGED <<returned, stream, need, data, taken, delivered>>

\* The program closes the connections of an end from outside.
CloseFromOutside(e) ==
    /\ e \notin closed
    /\ closed' = closed \cup {e}
    /\ UNCHANGED <<framer, unframer, returned, stream, need, data, taken, delivered>>

Framer(e) == WriteFrame(e) \/ FramerEnds(e) \/ Return(e)
Unframer(e) == ReadFrame(e) \/ Deliver(e) \/ UnframerEnds(e)

Next == \E e \in Ends :
    Framer(e) \/ Unframer(e) \/ UdpFails(e) \/ CloseFromOutside(e) \/ \E n \in Sizes : Take(e, n)

Spec == Init /\ [][Next]_vars

\* All goroutines run; datagrams need not come.
Fairness == \A e \in Ends : WF_vars(Framer(e)) /\ WF_vars(Unframer(e))

-----------------------------------------------------------------------------
(* Properties *)

\* All datagrams there are.
Packets == {Datagram(k, n) : k \in 1..Datagrams, n \in Sizes}

Channel == INSTANCE DatagramChannel WITH
    Ends <- Ends, Other <- Other, taken <- taken, delivered <- delivered, Datagrams <- Packets

\* However frames and shutdowns interleave, the pair of forwarders implements the
\* datagram channel: boundaries, order and contents survive the byte stream.
ImplementsChannel == Channel!Spec

\* A goroutine that ends takes its sibling and the whole other end with it: no
\* goroutine is left behind, although ReadFrom has no deadline.
AllReturn == (\E e \in Ends : "ended" \in {framer[e], unframer[e]}) ~> returned = Ends
=============================================================================
