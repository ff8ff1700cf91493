----------------------------- MODULE ProtocolAuth -----------------------------
(***************************************************************************)
(* pkg/protocol/auth.go: ServerAuthenticate and ClientAuthenticate over    *)
(* one connection.  The server sends a nonce, the client answers with the  *)
(* length of its id, the id and an HMAC of nonce and id, and the server    *)
(* acknowledges.  Neither end sets a deadline, and neither can know        *)
(* whether the other function is called at all.                            *)
(*                                                                         *)
(* in[e] is the byte stream towards end e.  The nonce and the HMAC, 32     *)
(* bytes each, are one unit of it; cryptography is symbolic.  The size of  *)
(* a byte is a parameter, 256 in the code.                                 *)
(***************************************************************************)
EXTENDS Integers, Sequences

CONSTANTS Byte,         \* how many values a byte has
          Token,        \* the server's expectedToken
          WrongToken    \* any other token

Ends == {"client", "server"}

VARIABLES
    pc,       \* where each function stands, or how it returned
    idLen,    \* len(clientID) at the client
    token,    \* the client's token
    header,   \* the server's idLen
    id,       \* the client id that ServerAuthenticate returned
    in,       \* units on their way to each end
    up        \* is the connection usable?

vars == <<pc, idLen, token, header, id, in, up>>

Returned == {"ok", "refused", "rejected", "failed"}

Init ==
    /\ pc = [e \in Ends |-> "idle"]
    /\ idLen = 0 /\ token = Token
    /\ header = 0 /\ id = <<>>
    /\ in = [e \in Ends |-> <<>>]
    /\ up = TRUE

\* A Write to a broken connection may still succeed: nobody gets the bytes.
Written(stream, units) == IF up THEN stream \o units ELSE stream

Goto(e, p) == pc' = [pc EXCEPT ![e] = p]

\* clientID of a given length, and the HMAC of nonce and id under a token.
IdBytes(n) == [i \in 1..n |-> <<"id", i>>]
Nonce == <<"nonce">>
Mac(tok, bytes) == <<"mac", tok, Nonce, bytes>>

\* [ClientIDLen(1)][ClientID][HMAC(32)]
Packet == <<<<"len", idLen % Byte>>>> \o IdBytes(idLen) \o <<Mac(token, IdBytes(idLen))>>

\* The client calls with an id of any length, one byte's worth too long included.
ClientCall(n, tok) ==
    /\ pc["client"] = "idle"
    /\ idLen' = n /\ token' = tok
    /\ Goto("client", "nonce")
    /\ UNCHANGED <<header, id, in, up>>

\* Mutant of LengthFits: only the empty id is refused.
LengthNotZero(n) == n # 0

\* !(len(idBytes) == 0 || len(idBytes) > 255)
LengthFits(n) == n # 0 /\ n <= Byte - 1

\* The client reads the nonce, and only then looks at its id; the packet is
\* written in one Write, with the length as a byte.
ClientAnswer ==
    /\ pc["client"] = "nonce" /\ in["client"] # <<>>
    /\ IF LengthFits(idLen)
       THEN /\ Goto("client", "ack")
            /\ in' = [in EXCEPT !["client"] = Tail(@),
                                !["server"] = Written(@, Packet)]
       ELSE /\ Goto("client", "refused")
            /\ in' = [in EXCEPT !["client"] = Tail(@)]
    /\ UNCHANGED <<idLen, token, header, id, up>>

\* The client reads the acknowledgement.
ClientAck ==
    /\ pc["client"] = "ack" /\ in["client"] # <<>>
    /\ Goto("client", IF Head(in["client"]) = <<"ack", 1>> THEN "ok" ELSE "rejected")
    /\ in' = [in EXCEPT !["client"] = Tail(@)]
    /\ UNCHANGED <<idLen, token, header, id, up>>

\* The other end may call its function at any time, or never.
ServerCall ==
    /\ pc["server"] = "idle"
    /\ Goto("server", "call")
    /\ UNCHANGED <<idLen, token, header, id, in, up>>

ServerNonce ==
    /\ pc["server"] = "call"
    /\ in' = [in EXCEPT !["client"] = Written(@, <<Nonce>>)]
    /\ Goto("server", "header")
    /\ UNCHANGED <<idLen, token, header, id, up>>

\* Mutant of Verdict: a wrong HMAC closes the exchange without a NAK.
SilentVerdict(good) == IF good THEN <<<<"ack", 1>>>> ELSE <<>>

\* What the server answers when all is good, and when not.
Verdict(good) == IF good THEN <<<<"ack", 1>>>> ELSE <<<<"ack", 0>>>>

\* The length; an id of length 0 is answered with a NAK.
ServerHeader ==
    /\ pc["server"] = "header" /\ in["server"] # <<>>
    /\ header' = Head(in["server"])[2]
    /\ in' = [in EXCEPT !["server"] = Tail(@),
                        !["client"] = IF header' = 0 THEN Written(@, Verdict(FALSE)) ELSE @]
    /\ Goto("server", IF header' = 0 THEN "rejected" ELSE "body")
    /\ UNCHANGED <<idLen, token, id, up>>

\* Mutant of Verified: the length of the HMAC is checked, not its value.
AnyMac(bytes) == Len(bytes) = header + 1

\* hmac.Equal(clientHMAC, expectedHMAC)
Verified(bytes) == bytes[header + 1] = Mac(Token, SubSeq(bytes, 1, header))

\* The id and the HMAC, as many bytes as the header says.
ServerVerify ==
    /\ pc["server"] = "body" /\ Len(in["server"]) > header
    /\ LET good == Verified(in["server"])
       IN /\ id' = IF good THEN SubSeq(in["server"], 1, header) ELSE <<>>
          /\ Goto("server", IF good THEN "ok" ELSE "rejected")
          /\ in' = [in EXCEPT !["server"] = SubSeq(@, header + 2, Len(@)),
                              !["client"] = Written(@, Verdict(good))]
    /\ UNCHANGED <<idLen, token, header, up>>

\* On a broken connection a Read of bytes that are not there fails, and a Write
\* may.  Nothing is written for an id that does not fit, and a NAK ignores errors.
Fail(e) ==
    /\ ~up
    /\ \/ pc[e] \in {"ack", "header"} /\ in[e] = <<>>
       \/ pc[e] = "nonce" /\ (in[e] # <<>> => LengthFits(idLen))
       \/ pc[e] = "call"
       \/ pc[e] = "body" /\ (Len(in[e]) > header => Verified(in[e]))
    /\ Goto(e, "failed")
    /\ UNCHANGED <<idLen, token, header, id, in, up>>

\* The connection breaks, with any part of what was on its way lost.
Break ==
    /\ up /\ up' = FALSE
    /\ \E c \in 0..Len(in["client"]), s \in 0..Len(in["server"]) :
          in' = [in EXCEPT !["client"] = SubSeq(@, 1, c), !["server"] = SubSeq(@, 1, s)]
    /\ UNCHANGED <<pc, idLen, token, header, id>>

Client == ClientAnswer \/ ClientAck \/ Fail("client")
Server == ServerNonce \/ ServerHeader \/ ServerVerify \/ Fail("server")

Next ==
    \/ \E n \in 0..(Byte + 1), tok \in {Token, WrongToken} : ClientCall(n, tok)
    \/ ServerCall
    \/ Client \/ Server \/ Break

Spec == Init /\ [][Next]_vars

\* A function that was called runs; nobody need call either.
Fairness == WF_vars(Client) /\ WF_vars(Server)

FairSpec == Spec /\ Fairness

-----------------------------------------------------------------------------
(* Properties *)

\* Who is accepted holds the token, and is known under exactly the id it has; a
\* client that returns without an error was accepted.  The converse fails: the
\* acknowledgement may be lost after the server has accepted.
Agreement ==
    /\ pc["server"] = "ok" => token = Token /\ id = IdBytes(idLen)
    /\ pc["client"] = "ok" => pc["server"] = "ok"

\* Only a wrong token is rejected: whatever the length of its id, a client with
\* the right one is accepted, refuses its own id or loses the connection.
RejectedForToken ==
    \A e \in Ends : pc[e] = "rejected" => token # Token

\* Once the other end was called too, or the connection is broken, a function that
\* was called returns: the client always, the server unless the client has refused
\* its own id, which tells nobody, and the connection stays up.
BothReturn ==
    /\ pc["client"] # "idle" /\ (pc["server"] # "idle" \/ ~up)
          ~> pc["client"] \in Returned
    /\ pc["server"] # "idle" /\ (pc["client"] # "idle" \/ ~up)
          ~> pc["server"] \in Returned \/ (pc["client"] = "refused" /\ up)

-----------------------------------------------------------------------------
(* What a test of the code expects, and the code does not do *)

\* pkg/protocol/auth_test.go:59-67: ClientAuthenticate with an id of no bytes
\* returns an error, also if nobody serves the connection.
UnfitIdReturns ==
    pc["client"] = "nonce" /\ ~LengthFits(idLen) ~> pc["client"] \in Returned
=============================================================================
