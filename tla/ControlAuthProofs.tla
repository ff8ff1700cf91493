-------------------------- MODULE ControlAuthProofs --------------------------
(***************************************************************************)
(* Proofs about the challenge-response exchange, for any sessions, tokens, *)
(* client identifiers and forms of the answer.                             *)
(*                                                                         *)
(* AcceptedProvedToken speaks of sessions that were accepted; what makes   *)
(* it true is what is on the stream before: the challenge of a session is  *)
(* its own, and an answer was computed by the peer at the other end from   *)
(* that challenge, its secret and its identifier.                          *)
(***************************************************************************)
EXTENDS ControlAuth, TLAPS

TypeOK ==
    /\ peer \in [Sessions -> Peers \cup {None}]
    /\ handlerPc \in
          [Sessions -> {"accept", "dropped", "await", "accepted", "rejected", "expired"}]
    /\ peerPc \in [Sessions -> {"connected", "waiting", "authenticated", "failed"}]
    /\ nonce \in [Sessions -> Sessions \cup {None}]
    /\ DOMAIN answer = Sessions
    /\ accepted \in [Sessions -> ClientIDs \cup {None}]
    /\ challengeFailures \in Nat

\* The challenge on the stream of s, once there is one, is the one made for s.
OwnNonce(s) ==
    /\ nonce[s] \in {s, None}
    /\ handlerPc[s] \in {"await", "accepted", "rejected", "expired"} => nonce[s] = s

\* The MAC that the peer of s computes for the challenge of s.
PeerMac(s) == calculateHMAC(s, peer[s].token, peer[s].id)

\* What is on the stream of s was computed by its peer for its challenge.
OwnAnswer(s) ==
    answer[s] # None =>
        /\ peer[s] \in Peers
        /\ answer[s].id = peer[s].id
        /\ answer[s].mac \in {PeerMac(s), EncodeToString(PeerMac(s))}

\* Nothing happens on a session before its peer opens the stream.
Unopened(s) ==
    /\ peerPc[s] = "connected" => answer[s] = None /\ handlerPc[s] \in {"accept", "dropped"}
    /\ peerPc[s] = "waiting" => peer[s] \in Peers

IInv ==
    /\ TypeOK
    /\ \A s \in Sessions : OwnNonce(s) /\ OwnAnswer(s) /\ Unopened(s)
    /\ AcceptedProvedToken

\* At the beginning nothing has been sent.
LEMMA InitIInv == ControlInit => IInv
<1> SUFFICES ASSUME ControlInit PROVE IInv
  OBVIOUS
<1>1. TypeOK
  BY DEF ControlInit, TypeOK
<1>2. \A s \in Sessions : OwnNonce(s) /\ OwnAnswer(s) /\ Unopened(s)
  BY DEF ControlInit, OwnNonce, OwnAnswer, Unopened
<1>3. AcceptedProvedToken
  BY DEF ControlInit, AcceptedProvedToken
<1>4. QED
  BY <1>1, <1>2, <1>3 DEF IInv

\* The peer opens its stream: until then there is no answer and no verdict.
LEMMA OpenStep ==
    ASSUME IInv, NEW s \in Sessions, OpenStream(s)
    PROVE  IInv'
<1>1. UNCHANGED <<handlerPc, nonce, answer, up, accepted, challengeFailures>>
  BY DEF OpenStream
<1>2. PICK p \in Peers : peer' = [peer EXCEPT ![s] = p]
  BY DEF OpenStream
<1>3. peerPc' = [peerPc EXCEPT ![s] = "waiting"] /\ peerPc[s] = "connected"
  BY DEF OpenStream
<1>4. TypeOK'
  BY <1>1, <1>2, <1>3 DEF IInv, TypeOK
<1>5. answer[s] = None /\ handlerPc[s] # "accepted"
  BY <1>3 DEF IInv, Unopened
<1>6. ASSUME NEW t \in Sessions
      PROVE  OwnNonce(t)' /\ OwnAnswer(t)' /\ Unopened(t)'
  <2>1. CASE t = s
    BY <1>1, <1>2, <1>3, <1>5, <2>1 DEF IInv, TypeOK, OwnNonce, OwnAnswer, Unopened
  <2>2. CASE t # s
    <3>1. peer'[t] = peer[t] /\ peerPc'[t] = peerPc[t]
      BY <1>2, <1>3, <2>2 DEF IInv, TypeOK
    <3>2. QED
      BY <1>1, <3>1 DEF IInv, OwnNonce, OwnAnswer, Unopened, PeerMac
  <2>3. QED
    BY <2>1, <2>2
<1>7. AcceptedProvedToken'
  BY <1>1, <1>2, <1>5 DEF IInv, TypeOK, AcceptedProvedToken, validateClientConfig
<1>8. QED
  BY <1>4, <1>6, <1>7 DEF IInv

\* The other steps of the peer: only WriteAnswer puts anything on the stream, and
\* what it puts there is the MAC of this session's challenge.
LEMMA PeerStep ==
    ASSUME IInv, NEW s \in Sessions, WriteAnswer(s) \/ PeerFails(s)
    PROVE  IInv'
<1>1. UNCHANGED <<peer, handlerPc, nonce, accepted, challengeFailures>>
  BY DEF WriteAnswer, PeerFails
<1>2. TypeOK'
  BY <1>1 DEF WriteAnswer, PeerFails, IInv, TypeOK
<1>3. AcceptedProvedToken'
  BY <1>1 DEF IInv, AcceptedProvedToken, validateClientConfig
<1>4. ASSUME NEW t \in Sessions
      PROVE  OwnNonce(t)' /\ OwnAnswer(t)' /\ Unopened(t)'
  <2>1. OwnNonce(t)'
    BY <1>1 DEF IInv, OwnNonce
  <2>2. CASE PeerFails(s)
    <3>1. answer' = answer /\ (peerPc'[t] = peerPc[t] \/ peerPc'[t] = "failed")
      BY <2>2 DEF PeerFails, IInv, TypeOK
    <3>2. QED
      BY <1>1, <2>1, <3>1 DEF IInv, OwnAnswer, Unopened, PeerMac
  <2>3. CASE WriteAnswer(s)
    <3>1. nonce[s] = s /\ peer[s] \in Peers
      BY <2>3 DEF WriteAnswer, IInv, OwnNonce, Unopened
    <3>2. CASE t # s
      BY <1>1, <2>1, <2>3, <3>2
         DEF WriteAnswer, IInv, TypeOK, OwnAnswer, Unopened, PeerMac
    <3>3. CASE t = s
      <4>1. peerPc'[t] = "authenticated"
        BY <2>3, <3>3 DEF WriteAnswer, IInv, TypeOK
      <4>2. OwnAnswer(t)'
        BY <1>1, <2>3, <3>1, <3>3 DEF WriteAnswer, IInv, TypeOK, OwnAnswer, PeerMac
      <4>3. QED
        BY <2>1, <4>1, <4>2 DEF Unopened
    <3>4. QED
      BY <3>2, <3>3
  <2>4. QED
    BY <2>2, <2>3
<1>5. QED
  BY <1>2, <1>3, <1>4 DEF IInv

\* The handler gives a session up before the challenge, or sends the challenge.
LEMMA ChallengeStep ==
    ASSUME IInv, NEW s \in Sessions, Drop(s) \/ SendNonce(s)
    PROVE  IInv'
<1>1. UNCHANGED <<peer, peerPc, answer, up, accepted, challengeFailures>>
  BY DEF Drop, SendNonce
<1>2. TypeOK'
  BY <1>1 DEF Drop, SendNonce, IInv, TypeOK
<1>3. \A t \in Sessions : OwnNonce(t)' /\ OwnAnswer(t)' /\ Unopened(t)'
  BY <1>1 DEF Drop, SendNonce, IInv, TypeOK, OwnNonce, OwnAnswer, Unopened, PeerMac
<1>4. AcceptedProvedToken'
  BY <1>1 DEF Drop, SendNonce, IInv, TypeOK, AcceptedProvedToken, validateClientConfig
<1>5. QED
  BY <1>2, <1>3, <1>4 DEF IInv

\* An answer that is accepted is the bare MAC under the server's own token: the
\* hexadecimal text of a MAC is not a MAC, and MACs under different secrets differ.
LEMMA AcceptStep ==
    ASSUME IInv, NEW s \in Sessions, Accept(s)
    PROVE  IInv'
<1>1. UNCHANGED <<peer, peerPc, nonce, answer, up, challengeFailures>>
  BY DEF Accept
<1>2. nonce[s] = s /\ answer[s].id = peer[s].id /\ peer[s] \in Peers
  BY DEF Accept, IInv, OwnNonce, OwnAnswer
<1>3. answer[s].mac = calculateHMAC(s, ServerToken, peer[s].id)
  BY <1>2 DEF Accept, Valid, EncodeToString
<1>4. answer[s].mac \in {PeerMac(s), EncodeToString(PeerMac(s))}
  BY DEF Accept, IInv, OwnAnswer
<1>5. peer[s].token = ServerToken
  BY <1>3, <1>4 DEF PeerMac, calculateHMAC, EncodeToString
<1>6. TypeOK'
  BY <1>1, <1>2 DEF Accept, Peers, IInv, TypeOK
<1>7. \A t \in Sessions : OwnNonce(t)' /\ OwnAnswer(t)' /\ Unopened(t)'
  BY <1>1 DEF Accept, IInv, TypeOK, OwnNonce, OwnAnswer, Unopened, PeerMac
<1>8. AcceptedProvedToken'
  BY <1>1, <1>2, <1>5 DEF Accept, Valid, IInv, TypeOK, AcceptedProvedToken,
                          validateClientConfig
<1>9. QED
  BY <1>6, <1>7, <1>8 DEF IInv

\* A challenge that is not met ends with the session closed.
LEMMA RejectStep ==
    ASSUME IInv, NEW s \in Sessions, RejectAnswer(s) \/ Expire(s)
    PROVE  IInv'
<1>1. UNCHANGED <<peer, peerPc, nonce, answer, accepted>>
  BY DEF RejectAnswer, Expire
<1>2. PICK reason \in {"rejected", "expired"} :
          handlerPc' = [handlerPc EXCEPT ![s] = reason]
  BY DEF RejectAnswer, Expire, Reject
<1>3. challengeFailures' = challengeFailures + 1 /\ handlerPc[s] = "await"
  BY DEF RejectAnswer, Expire, Reject
<1>4. TypeOK'
  BY <1>1, <1>2, <1>3 DEF IInv, TypeOK
<1>5. \A t \in Sessions : OwnNonce(t)' /\ OwnAnswer(t)' /\ Unopened(t)'
  BY <1>1, <1>2, <1>3 DEF IInv, TypeOK, OwnNonce, OwnAnswer, Unopened, PeerMac
<1>6. AcceptedProvedToken'
  BY <1>1, <1>2 DEF IInv, TypeOK, AcceptedProvedToken, validateClientConfig
<1>7. QED
  BY <1>4, <1>5, <1>6 DEF IInv

\* Every step keeps the inductive invariant.
LEMMA NextIInv == IInv /\ [ControlNext]_controlVars => IInv'
<1> SUFFICES ASSUME IInv, [ControlNext]_controlVars PROVE IInv'
  OBVIOUS
<1>1. CASE \E s \in Sessions : OpenStream(s)
  BY <1>1, OpenStep
<1>2. CASE \E s \in Sessions : WriteAnswer(s) \/ PeerFails(s)
  BY <1>2, PeerStep
<1>3. CASE \E s \in Sessions : Drop(s) \/ SendNonce(s)
  BY <1>3, ChallengeStep
<1>4. CASE \E s \in Sessions : Accept(s)
  BY <1>4, AcceptStep
<1>5. CASE \E s \in Sessions : RejectAnswer(s) \/ Expire(s)
  BY <1>5, RejectStep
<1>6. CASE UNCHANGED <<peer, handlerPc, peerPc, nonce, answer, accepted, challengeFailures>>
  BY <1>6 DEF IInv, TypeOK, OwnNonce, OwnAnswer, Unopened, PeerMac,
              AcceptedProvedToken, validateClientConfig
<1>7. QED
  BY <1>1, <1>2, <1>3, <1>4, <1>5, <1>6 DEF ControlNext, Peer, Handler, Lose, controlVars

\* The inductive invariant holds of every behaviour of the exchange.
THEOREM Invariance == ControlSpec => []IInv
BY InitIInv, NextIInv, PTL DEF ControlSpec

\* Whom the server accepts has its token, is authorised, and is known under the
\* identifier it gave in answer to the challenge of this very session: no
\* interleaving of sessions lets an answer count for another one.
THEOREM AcceptanceSound == ControlSpec => []AcceptedProvedToken
<1>1. IInv => AcceptedProvedToken
  BY DEF IInv
<1>2. QED
  BY <1>1, Invariance, PTL
=============================================================================
