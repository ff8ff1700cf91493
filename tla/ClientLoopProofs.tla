-------------------------- MODULE ClientLoopProofs --------------------------
(***************************************************************************)
(* Proofs about the client's life cycle, for every bound on the dials.     *)
(*                                                                         *)
(* NoSessionLeak and StopSeesCurrent are not inductive: that the deferred  *)
(* function closes the last open session needs that the session it knows   *)
(* is the only open one, and that nothing is published outside             *)
(* connectAndServe.  IInv adds, for each place of the goroutine of Start,  *)
(* what is open and what is published there, and what a Stop that came     *)
(* before can still lead to.                                               *)
(***************************************************************************)
EXTENDS ClientLoop, TLAPS

Places == {"loop", "dialing", "connected", "auth", "serving", "defer", "sleep", "returned"}

TypeOK ==
    /\ pc \in Places
    /\ current \in Nat /\ session \in Nat /\ dials \in Nat /\ stopSaw \in Nat
    /\ stopDials \in Nat
    /\ reconnectAttempts \in Nat
    /\ alive \subseteq Nat

\* A session has a number of its own: none is made under the number for "no
\* session", and none under a number that was used before.
Numbered ==
    /\ current <= dials /\ 0 \notin alive
    /\ pc \in {"connected", "auth", "serving", "defer"} => current # 0

\* c.session is set in the critical section after the dial, and cleared by the
\* deferred function.
Published ==
    /\ pc \in {"loop", "dialing", "connected", "sleep", "returned"} => session = 0
    /\ pc \in {"auth", "serving", "defer"} => session = current

\* After Stop: an attempt that is still under way has made no session yet, and Stop
\* found none; whoever found a session leaves nothing to be made.
Stopped ==
    isShutdown =>
        /\ dials = stopDials \/ (dials = stopDials + 1 /\ stopSaw = 0 /\ pc # "dialing")
        /\ pc = "dialing" => stopSaw = 0

IInv == TypeOK /\ NoSessionLeak /\ Numbered /\ Published /\ Stopped

\* A new client has no session.
LEMMA InitIInv == LoopInit => IInv
BY DEF LoopInit, IInv, TypeOK, NoSessionLeak, Numbered, Published,
              Stopped, stopVars, Places

\* The steps of Start outside connectAndServe open and publish nothing.
LEMMA LoopStep ==
    ASSUME IInv, CheckShutdown \/ Wake \/ ConnectFails
    PROVE  IInv'
<1>1. CASE CheckShutdown
  <2>1. pc = "loop" /\ (pc' = "returned" \/ (pc' = "dialing" /\ ~isShutdown))
    BY <1>1 DEF CheckShutdown
  <2>2. UNCHANGED <<current, session, alive, dials, isShutdown, stopSaw, stopDials,
                    reconnectAttempts>>
    BY <1>1 DEF CheckShutdown, stopVars
  <2>3. QED
    BY <2>1, <2>2 DEF IInv, TypeOK, NoSessionLeak, Numbered, Published,
              Stopped, stopVars, Places
<1>2. CASE Wake
  BY <1>2 DEF Wake, IInv, TypeOK, NoSessionLeak, Numbered, Published,
              Stopped, stopVars, Places
<1>3. CASE ConnectFails
  BY <1>3 DEF ConnectFails, Counted, IInv, TypeOK, NoSessionLeak, Numbered, Published,
              Stopped, stopVars, Places
<1>4. QED
  BY <1>1, <1>2, <1>3

\* A dial opens the one session that the goroutine then holds: at that point no
\* older one is open.
LEMMA ConnectStep ==
    ASSUME IInv, ConnectDone
    PROVE  IInv'
<1>0. current = 0 /\ \A k \in alive : k = 0 /\ k # 0
  BY DEF ConnectDone, IInv, NoSessionLeak, Numbered
<1>1. alive = {} /\ current' = dials + 1 /\ alive' = {dials + 1} /\ dials + 1 # 0
  <2>1. alive = {}
    BY <1>0
  <2>2. alive' = {dials'}
    BY <2>1 DEF ConnectDone
  <2>3. dials' = dials + 1 /\ current' = dials' /\ dials + 1 # 0
    BY DEF ConnectDone, IInv, TypeOK
  <2>4. QED
    BY <2>1, <2>2, <2>3
<1>2. TypeOK'
  BY <1>1 DEF ConnectDone, stopVars, IInv, TypeOK, Places
<1>3. NoSessionLeak'
  BY <1>1 DEF ConnectDone, NoSessionLeak
<1>4. Numbered'
  BY <1>1 DEF ConnectDone, IInv, TypeOK, Numbered, Places
<1>5. Published'
  BY <1>1 DEF ConnectDone, IInv, TypeOK, Published, Places
<1>6. Stopped'
  BY DEF ConnectDone, stopVars, IInv, TypeOK, Stopped
<1>7. QED
  BY <1>2, <1>3, <1>4, <1>5, <1>6 DEF IInv

\* Publishing the session, authenticating and serving keep it.
LEMMA ServeStep ==
    ASSUME IInv, PublishSession \/ AuthFails \/ AuthDone \/ AcceptFails
    PROVE  IInv'
<1>1. CASE PublishSession
  BY <1>1 DEF PublishSession, IInv, TypeOK, NoSessionLeak, Numbered, Published,
              Stopped, stopVars, Places
<1>2. CASE AuthFails
  BY <1>2 DEF AuthFails, IInv, TypeOK, NoSessionLeak, Numbered, Published,
              Stopped, stopVars, Places
<1>3. CASE AuthDone
  BY <1>3 DEF AuthDone, IInv, TypeOK, NoSessionLeak, Numbered, Published,
              Stopped, stopVars, Places
<1>4. CASE AcceptFails
  BY <1>4 DEF AcceptFails, IInv, TypeOK, NoSessionLeak, Numbered, Published,
              Stopped, stopVars, Places
<1>5. QED
  BY <1>1, <1>2, <1>3, <1>4

\* The deferred function closes the only open session and withdraws it from Stop.
LEMMA DisconnectStep ==
    ASSUME IInv, Disconnect
    PROVE  IInv'
<1>1. session = current
  BY DEF Disconnect, IInv, Published
<1>2. session' = 0 /\ alive' = {} /\ current' = 0 /\ pc' = "sleep"
  BY <1>1 DEF Disconnect, Unpublished, Closed, IInv, NoSessionLeak
<1>3. QED
  BY <1>2 DEF Disconnect, Counted,
              IInv, TypeOK, NoSessionLeak, Numbered, Published,
              Stopped, stopVars, Places

\* Stop and the server only close sessions.
LEMMA OthersStep ==
    ASSUME IInv, Stop \/ SessionLost
    PROVE  IInv'
<1>1. UNCHANGED <<pc, current, session, dials, reconnectAttempts>>
  BY DEF Stop, SessionLost
<1>2. alive' \subseteq alive
  BY DEF Stop, SessionLost, Closed
<1>3. TypeOK' /\ NoSessionLeak' /\ Numbered' /\ Published'
  <2>1. stopSaw' \in Nat /\ stopDials' \in Nat
    BY DEF Stop, SessionLost, stopVars, IInv, TypeOK
  <2>2. QED
    BY <1>1, <1>2, <2>1 DEF IInv, TypeOK, NoSessionLeak, Numbered, Published
<1>4. Stopped'
  <2>1. CASE Stop
    <3>1. dials' = stopDials' /\ stopSaw' = session /\ pc' = pc
      BY <2>1 DEF Stop
    <3>2. pc = "dialing" => session = 0
      BY DEF IInv, Published
    <3>3. QED
      BY <3>1, <3>2 DEF Stopped
  <2>2. CASE SessionLost
    BY <2>2 DEF SessionLost, stopVars, IInv, Stopped
  <2>3. QED
    BY <2>1, <2>2
<1>5. QED
  BY <1>3, <1>4 DEF IInv

\* Every step keeps the inductive invariant.
LEMMA NextIInv == IInv /\ [LoopNext]_loopVars => IInv'
<1> SUFFICES ASSUME IInv, [LoopNext]_loopVars PROVE IInv'
  OBVIOUS
<1>1. CASE UNCHANGED loopVars
  BY <1>1 DEF loopVars, IInv, TypeOK, NoSessionLeak, Numbered, Published,
              Stopped, stopVars
<1>2. CASE CheckShutdown \/ Wake \/ ConnectFails
  BY <1>2, LoopStep
<1>3. CASE ConnectDone
  BY <1>3, ConnectStep
<1>4. CASE PublishSession \/ AuthFails \/ AuthDone \/ AcceptFails
  BY <1>4, ServeStep
<1>5. CASE Disconnect
  BY <1>5, DisconnectStep
<1>6. CASE Stop \/ SessionLost
  BY <1>6, OthersStep
<1>7. QED
  BY <1>1, <1>2, <1>3, <1>4, <1>5, <1>6 DEF LoopNext, StartLoop

\* The inductive invariant holds of every behaviour of the client.
THEOREM Invariance == LoopSpec => []IInv
BY InitIInv, NextIInv, PTL DEF LoopSpec

\* Every failure path of connectAndServe closes what it opened: the client never
\* holds two sessions, and none while it sleeps, dials or has returned.
THEOREM NeverLeaksSession == LoopSpec => []NoSessionLeak
<1>1. IInv => NoSessionLeak
  BY DEF IInv
<1>2. QED
  BY <1>1, Invariance, PTL

\* At every moment what Stop would close is the session Start is using, or nothing.
THEOREM StopClosesTheRightSession == LoopSpec => []StopSeesCurrent
<1>1. IInv => StopSeesCurrent
  BY DEF IInv, TypeOK, NoSessionLeak, Published, StopSeesCurrent, Places
<1>2. QED
  BY <1>1, Invariance, PTL

\* After Stop at most one more connection is made, and none if Stop found a
\* session, for every place of Start at which Stop may come (OneConnectionAfterStop).
THEOREM StopBoundsConnections == LoopSpec => []OneConnectionAfterStop
<1>1. IInv => OneConnectionAfterStop
  BY DEF IInv, TypeOK, Stopped, OneConnectionAfterStop
<1>2. QED
  BY <1>1, Invariance, PTL
=============================================================================
