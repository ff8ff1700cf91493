---------------------------- MODULE JunkHandshake ----------------------------
(***************************************************************************)
(* The padding handshake of pkg/obfuscate: each end writes a length byte   *)
(* and that many random bytes, and discards those of the other end, the    *)
(* client writing first.  The layer above then uses the connection.        *)
(*                                                                         *)
(* in[e] holds the bytes on their way to end e.  A byte of the length is   *)
(* its value; Junk and Payload stand for bytes of the padding and of the   *)
(* layer above.  The size of a byte is a parameter, 256 in the code.       *)
(***************************************************************************)
EXTENDS Integers, Sequences

CONSTANTS Byte,   \* how many values a byte has; MaxJunkSize is the same
          Data    \* bound: bytes that the layer above writes

Junk == Byte
Payload == Byte + 1

Ends == {"client", "server"}
Other(e) == IF e = "client" THEN "server" ELSE "client"

VARIABLES
    phase,     \* progress of PerformClientHandshake, PerformServerHandshake
    junkLen,   \* WriteJunk's junkLen at each end, 0 before it is drawn
    discard,   \* how many bytes ReadJunk has still to discard
    in,        \* bytes on their way to each end
    got,       \* what the layer above has read at each end
    up         \* is the connection usable?

vars == <<phase, junkLen, discard, in, got, up>>

Init ==
    /\ phase = [e \in Ends |-> IF e = "client" THEN "write" ELSE "header"]
    /\ junkLen = [e \in Ends |-> 0]
    /\ discard = [e \in Ends |-> 0]
    /\ in = [e \in Ends |-> <<>>]
    /\ got = [e \in Ends |-> <<>>]
    /\ up = TRUE

\* int(sizeBuf[0]) % MaxJunkSize + 1 for a random byte.
JunkSizes == {(b % Byte) + 1 : b \in 0..(Byte - 1)}

\* Mutant of LengthByte: the length byte counts itself.
LengthByteInclusive(n) == (n + 1) % Byte

\* byte(junkLen)
LengthByte(n) == n % Byte

\* A Write to a broken connection may still succeed: nobody gets the bytes.
Written(stream, bytes) == IF up THEN stream \o bytes ELSE stream

\* WriteJunk: one Write of the length and the padding.
WriteJunk(e) ==
    /\ phase[e] = "write"
    /\ \E n \in JunkSizes :
          /\ junkLen' = [junkLen EXCEPT ![e] = n]
          /\ in' = [in EXCEPT ![Other(e)] =
                        Written(@, <<LengthByte(n)>> \o [i \in 1..n |-> Junk])]
    /\ phase' = [phase EXCEPT ![e] = IF e = "client" THEN "header" ELSE "done"]
    /\ UNCHANGED <<discard, got, up>>

\* ReadJunk reads the length ...
ReadHeader(e) ==
    /\ phase[e] = "header" /\ in[e] # <<>>
    /\ discard' = [discard EXCEPT ![e] = Head(in[e])]
    /\ in' = [in EXCEPT ![e] = Tail(@)]
    /\ phase' = [phase EXCEPT ![e] = "discard"]
    /\ UNCHANGED <<junkLen, got, up>>

\* ... and discards as many bytes, none for a length of 0.
Discard(e) ==
    /\ phase[e] = "discard" /\ Len(in[e]) >= discard[e]
    /\ in' = [in EXCEPT ![e] = SubSeq(@, discard[e] + 1, Len(@))]
    /\ phase' = [phase EXCEPT ![e] = IF e = "client" THEN "done" ELSE "write"]
    /\ UNCHANGED <<junkLen, discard, got, up>>

\* The connection broke: a Read that lacks bytes fails, and a Write may.
Fail(e) ==
    /\ ~up
    /\ \/ phase[e] = "write"
       \/ phase[e] = "header" /\ in[e] = <<>>
       \/ phase[e] = "discard" /\ Len(in[e]) < discard[e]
    /\ phase' = [phase EXCEPT ![e] = "failed"]
    /\ UNCHANGED <<junkLen, discard, in, got, up>>

-----------------------------------------------------------------------------
(* The layer above and the network *)

IsPayload(b) == b = Payload

WriteData(e) ==
    /\ phase[e] = "done" /\ up
    /\ Len(SelectSeq(in[Other(e)] \o got[Other(e)], IsPayload)) < Data
    /\ in' = [in EXCEPT ![Other(e)] = Append(@, Payload)]
    /\ UNCHANGED <<phase, junkLen, discard, got, up>>

ReadData(e) ==
    /\ phase[e] = "done" /\ in[e] # <<>> /\ Len(got[e]) < Data
    /\ got' = [got EXCEPT ![e] = Append(@, Head(in[e]))]
    /\ in' = [in EXCEPT ![e] = Tail(@)]
    /\ UNCHANGED <<phase, junkLen, discard, up>>

\* The connection breaks, with any part of what was on its way lost.
Break ==
    /\ up /\ up' = FALSE
    /\ \E c \in 0..Len(in["client"]), s \in 0..Len(in["server"]) :
          in' = [in EXCEPT !["client"] = SubSeq(@, 1, c), !["server"] = SubSeq(@, 1, s)]
    /\ UNCHANGED <<phase, junkLen, discard, got>>

Handshake(e) == WriteJunk(e) \/ ReadHeader(e) \/ Discard(e) \/ Fail(e)

Next == Break \/ \E e \in Ends : Handshake(e) \/ WriteData(e) \/ ReadData(e)

Spec == Init /\ [][Next]_vars

\* Both ends run: whoever calls the handshake waits for it.
Fairness == \A e \in Ends : WF_vars(Handshake(e))

-----------------------------------------------------------------------------
(* Properties *)

\* Padding whose length fits the length byte never reaches the layer above: no
\* byte of it, wherever the padding, the payload and the Reads are cut.
ShortPaddingDiscarded ==
    \A e \in Ends : junkLen[Other(e)] < Byte =>
        \A i \in DOMAIN got[e] : got[e][i] # Junk

\* Whatever the lengths and wherever the connection breaks, both ends come out of
\* the handshake: neither waits for bytes that the other will not send.
HandshakeEnds ==
    \A e \in Ends : phase[e] \in {"write", "header", "discard"}
                        ~> phase[e] \in {"done", "failed"}

-----------------------------------------------------------------------------
(* What a comment of the code promises, and the code does not keep *)

\* pkg/obfuscate/obfuscate.go:42: ReadJunk discards the random junk bytes sent
\* during the handshake.  No byte of a padding reaches the layer above.
PaddingDiscarded == \A e \in Ends : \A i \in DOMAIN got[e] : got[e][i] # Junk
=============================================================================
