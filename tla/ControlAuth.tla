----------------------------- MODULE ControlAuth -----------------------------
(***************************************************************************)
(* The challenge-response exchange that opens a control session: server    *)
(* side handleControlConn and authenticateStream (pkg/server/server.go),   *)
(* client side connectAndServe and performHMACAuth (pkg/client/client.go). *)
(* Each session has a handler goroutine at one end and a peer at the other *)
(* end of one connection; closing either end closes the session.           *)
(*                                                                         *)
(* Secrets, nonces and MACs are symbolic.  A nonce is fresh, so it is      *)
(* named by its session.  A peer puts the MAC into its answer in a form:   *)
(* performHMACAuth sends the hexadecimal text ("hex"); a peer written to   *)
(* what authenticateStream compares would send the bytes ("raw").          *)
(***************************************************************************)
EXTENDS Integers

CONSTANTS
    Sessions,     \* control sessions
    Tokens,       \* secrets that peers may have
    ServerToken,  \* config.Token of the server
    ClientIDs,    \* identifiers that peers may claim
    Configured,   \* client identifiers of config.Clients
    Forms,        \* forms of the answer in use
    None          \* nothing sent yet

VARIABLES
    peer,              \* who opened the stream: token, identifier, form
    handlerPc,         \* progress of the handler
    peerPc,            \* progress of the peer
    nonce,             \* the challenge on the stream
    answer,            \* the response on the stream
    up,                \* is the session open?
    accepted,          \* the identifier the handler accepted
    challengeFailures  \* what handleControlConn adds to Server.authFailures; Start
                       \* adds the connections that its limiter drops (RateLimiter)

controlVars == <<peer, handlerPc, peerPc, nonce, answer, up, accepted, challengeFailures>>

\* Mutant of calculateHMAC: the secret does not enter the MAC.
calculateUnkeyed(n, secret, c) == <<"mac", n, c>>

\* HMAC-SHA256 of the nonce and the identifier under the secret.
calculateHMAC(n, secret, c) == <<"mac", n, secret, c>>

\* hex.EncodeToString: injective, and never the identity.
EncodeToString(b) == <<"hex", b>>

\* An empty client list authorises every identifier.
validateClientConfig(c) == Configured = {} \/ c \in Configured

Peers == [token : Tokens, id : ClientIDs, form : Forms]

ControlInit ==
    /\ peer = [s \in Sessions |-> None]
    /\ handlerPc = [s \in Sessions |-> "accept"]
    /\ peerPc = [s \in Sessions |-> "connected"]
    /\ nonce = [s \in Sessions |-> None]
    /\ answer = [s \in Sessions |-> None]
    /\ up = [s \in Sessions |-> TRUE]
    /\ accepted = [s \in Sessions |-> None]
    /\ challengeFailures = 0

-----------------------------------------------------------------------------
(* The peer: connectAndServe and performHMACAuth *)

OpenStream(s) ==
    /\ peerPc[s] = "connected" /\ up[s]
    /\ \E p \in Peers : peer' = [peer EXCEPT ![s] = p]
    /\ peerPc' = [peerPc EXCEPT ![s] = "waiting"]
    /\ UNCHANGED <<handlerPc, nonce, answer, up, accepted, challengeFailures>>

\* Read the nonce and write "id:mac".  The peer takes that for success.
WriteAnswer(s) ==
    LET mac == calculateHMAC(nonce[s], peer[s].token, peer[s].id) IN
    /\ peerPc[s] = "waiting" /\ up[s]
    /\ nonce[s] # None
    /\ answer' = [answer EXCEPT ![s] =
          [id |-> peer[s].id,
           mac |-> IF peer[s].form = "hex" THEN EncodeToString(mac) ELSE mac]]
    /\ peerPc' = [peerPc EXCEPT ![s] = "authenticated"]
    /\ UNCHANGED <<peer, handlerPc, nonce, up, accepted, challengeFailures>>

\* The session is closed, or no nonce was read within 10 seconds:
\* connectAndServe returns an error and its deferred function closes the session.
PeerFails(s) ==
    /\ \/ peerPc[s] \in {"connected", "waiting", "authenticated"} /\ ~up[s]
       \/ peerPc[s] = "waiting"
    /\ peerPc' = [peerPc EXCEPT ![s] = "failed"]
    /\ up' = [up EXCEPT ![s] = FALSE]
    /\ UNCHANGED <<peer, handlerPc, nonce, answer, accepted, challengeFailures>>

-----------------------------------------------------------------------------
(* The handler: handleControlConn and authenticateStream *)

\* AcceptStream fails: the session is given up, and not counted.
Drop(s) ==
    /\ handlerPc[s] = "accept" /\ ~up[s]
    /\ handlerPc' = [handlerPc EXCEPT ![s] = "dropped"]
    /\ UNCHANGED <<peer, peerPc, nonce, answer, up, accepted, challengeFailures>>

\* AcceptStream returns the peer's stream; a fresh nonce is written to it.
SendNonce(s) ==
    /\ handlerPc[s] = "accept" /\ up[s]
    /\ peerPc[s] = "waiting"
    /\ nonce' = [nonce EXCEPT ![s] = s]
    /\ handlerPc' = [handlerPc EXCEPT ![s] = "await"]
    /\ UNCHANGED <<peer, peerPc, answer, up, accepted, challengeFailures>>

\* Mutant of Reject: the session stays open.
RejectKeepsSession(s, reason) ==
    /\ handlerPc' = [handlerPc EXCEPT ![s] = reason]
    /\ challengeFailures' = challengeFailures + 1
    /\ up' = up

\* What handleControlConn does when authenticateStream returns false.
Reject(s, reason) ==
    /\ handlerPc' = [handlerPc EXCEPT ![s] = reason]
    /\ challengeFailures' = challengeFailures + 1
    /\ up' = [up EXCEPT ![s] = FALSE]

\* The handler compares the hexadecimal text of what it read with that of the
\* MAC it expects, then looks the client up.
Valid(s) ==
    /\ EncodeToString(answer[s].mac) =
          EncodeToString(calculateHMAC(nonce[s], ServerToken, answer[s].id))
    /\ validateClientConfig(answer[s].id)

Accept(s) ==
    /\ handlerPc[s] = "await"
    /\ answer[s] # None
    /\ Valid(s)
    /\ handlerPc' = [handlerPc EXCEPT ![s] = "accepted"]
    /\ accepted' = [accepted EXCEPT ![s] = answer[s].id]
    /\ UNCHANGED <<peer, peerPc, nonce, answer, up, challengeFailures>>

RejectAnswer(s) ==
    /\ handlerPc[s] = "await"
    /\ answer[s] # None
    /\ ~Valid(s)
    /\ Reject(s, "rejected")
    /\ UNCHANGED <<peer, peerPc, nonce, answer, accepted>>

\* Mutant of Expire: the read has no deadline.
ExpireOnlyIfLost(s) ==
    /\ handlerPc[s] = "await" /\ ~up[s]
    /\ Reject(s, "expired")
    /\ UNCHANGED <<peer, peerPc, nonce, answer, accepted>>

\* The session was lost, or 10 seconds passed and no answer was read: the
\* deadline may beat an answer that is on its way.
Expire(s) ==
    /\ handlerPc[s] = "await"
    /\ Reject(s, "expired")
    /\ UNCHANGED <<peer, peerPc, nonce, answer, accepted>>

\* The connection breaks.
Lose(s) ==
    /\ up[s] /\ handlerPc[s] \in {"accept", "await", "accepted"}
    /\ up' = [up EXCEPT ![s] = FALSE]
    /\ UNCHANGED <<peer, handlerPc, peerPc, nonce, answer, accepted, challengeFailures>>

Peer(s) == OpenStream(s) \/ WriteAnswer(s) \/ PeerFails(s)
Handler(s) == Drop(s) \/ SendNonce(s) \/ Accept(s) \/ RejectAnswer(s) \/ Expire(s)

ControlNext == \E s \in Sessions : Peer(s) \/ Handler(s) \/ Lose(s)

ControlSpec == ControlInit /\ [][ControlNext]_controlVars

\* Handlers run, their reads have deadlines, and yamux tells both ends when a
\* session is closed.  A peer may stall for ever before it answers.
ControlFairSpec ==
    /\ ControlSpec
    /\ \A s \in Sessions : /\ WF_controlVars(Handler(s))
                            /\ WF_controlVars(~up[s] /\ PeerFails(s))

-----------------------------------------------------------------------------
(* Properties *)

\* Whom the server accepts has its token, is authorised, and is accepted under
\* the identifier it gave in answer to the challenge of this very session.
AcceptedProvedToken ==
    \A s \in Sessions : handlerPc[s] = "accepted" =>
        /\ peer[s].token = ServerToken
        /\ accepted[s] = peer[s].id
        /\ validateClientConfig(peer[s].id)
        /\ nonce[s] = s

\* A peer that takes itself for authenticated although the server turned it down
\* finds out, because the server closes the session.
RefusedPeerNotices ==
    \A s \in Sessions :
        peerPc[s] = "authenticated" /\ handlerPc[s] \in {"rejected", "expired"}
            ~> peerPc[s] = "failed"

\* A challenge that was sent is decided: no handler waits for ever for an answer.
ChallengeDecided ==
    \A s \in Sessions : handlerPc[s] = "await" ~> handlerPc[s] # "await"

\* README.md:48: challenge-response authentication with a shared token.  An answer
\* from an authorised client that has the server's token is not rejected.
TokenHolderAccepted ==
    \A s \in Sessions : handlerPc[s] = "rejected" =>
        peer[s].token # ServerToken \/ ~validateClientConfig(peer[s].id)
=============================================================================
