------------------------------- MODULE Packages -------------------------------
(***************************************************************************)
(* The parts of the repository that stand on their own and share no state, *)
(* side by side: the padding handshake, protocol authentication, the       *)
(* pipes, UDP over TCP and the start of the programs.  A behaviour runs    *)
(* one of them, chosen at the beginning; the others stay in their initial  *)
(* states.                                                                 *)
(***************************************************************************)
EXTENDS Integers, Sequences

CONSTANTS
    Byte, Data,                      \* JunkHandshake; Byte also for ProtocolAuth
    Token, WrongToken,               \* ProtocolAuth
    BufferSize, PipeWindow, Chunks,  \* Pipes
    UdpByte, Sizes, Datagrams,       \* UdpOverTcp
    DefMin, DefMax, PortValues       \* Startup

ASSUME ByteAssumption == Byte \in Nat \ {0}
ASSUME PipeAssumption == /\ BufferSize \in Nat \ {0}
                         /\ PipeWindow \in Nat \ {0} /\ Chunks \in Nat
\* A datagram fits the buffer of 65535 bytes, whose length two bytes hold.
ASSUME UdpAssumption == /\ UdpByte \in Nat \ {0} /\ Datagrams \in Nat
                        /\ Sizes \subseteq 0..(UdpByte * UdpByte - 1)
ASSUME PortAssumption == /\ DefMin \in Nat \ {0} /\ DefMax \in Nat /\ DefMin <= DefMax
                         /\ PortValues \subseteq Int

VARIABLES
    part,                                                        \* which one runs
    phase, junkLen, discard, junkIn, got, junkUp,                \* JunkHandshake
    authPc, idLen, token, header, id, authIn, authUp,            \* ProtocolAuth
    main, compress, pipePc, eof, buffer, done, open, sent, plain, finished,
    inflight, window, pipeReceived,                              \* Pipes
    framer, unframer, closed, returned, stream, need, data, taken, delivered,
                                                                 \* UdpOverTcp
    env, server, cfg, file, saved, client, ccfg                  \* Startup

Junk == INSTANCE JunkHandshake WITH in <- junkIn, up <- junkUp
Auth == INSTANCE ProtocolAuth WITH pc <- authPc, in <- authIn, up <- authUp
Pipe == INSTANCE Pipes WITH Window <- PipeWindow, pc <- pipePc, received <- pipeReceived
Udp  == INSTANCE UdpOverTcp WITH Byte <- UdpByte
Boot == INSTANCE Startup

junkVars == <<phase, junkLen, discard, junkIn, got, junkUp>>
authVars == <<authPc, idLen, token, header, id, authIn, authUp>>
pipeVars == <<main, compress, pipePc, eof, buffer, done, open, sent, plain, finished,
              inflight, window, pipeReceived>>
udpVars == <<framer, unframer, closed, returned, stream, need, data, taken, delivered>>
bootVars == <<env, server, cfg, file, saved, client, ccfg>>
vars == <<part, junkVars, authVars, pipeVars, udpVars, bootVars>>

PartsInit == Junk!Init /\ Auth!Init /\ Pipe!Init /\ Udp!Init /\ Boot!Init

Init == part \in {"junk", "auth", "pipe", "udp", "boot"} /\ PartsInit

JunkStep == /\ part = "junk" /\ Junk!Next
            /\ UNCHANGED <<part, authVars, pipeVars, udpVars, bootVars>>
AuthStep == /\ part = "auth" /\ Auth!Next
            /\ UNCHANGED <<part, junkVars, pipeVars, udpVars, bootVars>>
PipeStep == /\ part = "pipe" /\ Pipe!Next
            /\ UNCHANGED <<part, junkVars, authVars, udpVars, bootVars>>
UdpStep  == /\ part = "udp" /\ Udp!Next
            /\ UNCHANGED <<part, junkVars, authVars, pipeVars, bootVars>>
BootStep == /\ part = "boot" /\ Boot!Next
            /\ UNCHANGED <<part, junkVars, authVars, pipeVars, udpVars>>

Next == JunkStep \/ AuthStep \/ PipeStep \/ UdpStep \/ BootStep

\* The fairness of each part, for the part that runs.
Fairness ==
    /\ \A e \in Junk!Ends : WF_junkVars(part = "junk" /\ Junk!Handshake(e))
    /\ WF_authVars(part = "auth" /\ Auth!Client)
    /\ WF_authVars(part = "auth" /\ Auth!Server)
    /\ WF_pipeVars(part = "pipe" /\ (Pipe!Receive \/ Pipe!Close))
    /\ \A d \in Pipe!Conns : WF_pipeVars(part = "pipe" /\ Pipe!Goroutine(d))
    /\ \A e \in Udp!Ends : /\ WF_udpVars(part = "udp" /\ Udp!Framer(e))
                           /\ WF_udpVars(part = "udp" /\ Udp!Unframer(e))

Spec == Init /\ [][Next]_vars /\ Fairness

-----------------------------------------------------------------------------
(* Properties, one by one those of the parts *)

\* Padding whose length fits the length byte never reaches the layer above.
ShortPaddingDiscarded == Junk!ShortPaddingDiscarded

\* Both ends come out of the padding handshake.
HandshakeEnds == part = "junk" => Junk!HandshakeEnds

\* Client and server agree on who was accepted.
Agreement == Auth!Agreement

\* Only a wrong token is rejected.
RejectedForToken == Auth!RejectedForToken

\* Both functions of the authentication return.
BothReturn == part = "auth" => Auth!BothReturn

\* Pipes keep the order and flush before they are torn down.
InOrderAndFlushed == Pipe!InOrderAndFlushed

\* A pipe ends as a whole.
PipeEnds == part = "pipe" => Pipe!PipeEnds

\* ForwardUDPOverTCP implements the datagram channel.
ImplementsChannel == Udp!ImplementsChannel

\* No goroutine of ForwardUDPOverTCP is left behind.
AllReturn == part = "udp" => Udp!AllReturn

\* The dynamic port range is the configured one.
RangeAsConfigured == Boot!RangeAsConfigured

\* A saved configuration loads again, in any environment.
SavedConfigLoads == Boot!SavedConfigLoads

\* A CA file without a certificate makes the client trust nobody.
JunkCaFailsClosed == Boot!JunkCaFailsClosed
=============================================================================
