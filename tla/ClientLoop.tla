----------------------------- MODULE ClientLoop -----------------------------
(***************************************************************************)
(* The tunnel client's life cycle (pkg/client/client.go): Start's          *)
(* reconnect loop around connectAndServe, and Stop, called by another      *)
(* goroutine.  They share c.session under c.mu, and isShutdown, which the  *)
(* loop reads without the lock.  The unlocked read needs no extra outcome: *)
(* at the top of the loop c.session is nil, so a stale read is the same    *)
(* behaviour as a Stop that comes right after the read.                    *)
(*                                                                         *)
(* Sessions are numbered in the order of the dials.  The server at the     *)
(* other end may answer or not, keep a session or close it at any time.    *)
(***************************************************************************)
EXTENDS Integers

CONSTANTS MaxDials     \* bound: connections established, and failures in a row

VARIABLES
    pc,                \* where the goroutine of Start is
    current,           \* connectAndServe's local session, 0 before it has one
    session,           \* c.session, 0 for nil
    alive,             \* sessions that are not closed
    dials,             \* sessions made so far
    isShutdown,        \* c.isShutdown
    stopSaw,           \* history: the session that Stop found, 0 for none
    stopDials,         \* history: the sessions made when Stop was called
    reconnectAttempts  \* c.reconnectAttempts

stopVars == <<isShutdown, stopSaw, stopDials>>
loopVars == <<pc, current, session, alive, dials, stopVars, reconnectAttempts>>

LoopInit ==
    /\ pc = "loop"
    /\ current = 0 /\ session = 0 /\ dials = 0
    /\ stopSaw = 0 /\ stopDials = 0
    /\ alive = {}
    /\ isShutdown = FALSE
    /\ reconnectAttempts = 0

-----------------------------------------------------------------------------
(* Start *)

\* Mutant of CheckShutdown: the loop does not look at isShutdown.
CheckNothing ==
    /\ pc = "loop"
    /\ pc' = "dialing"
    /\ UNCHANGED <<current, session, alive, dials, stopVars, reconnectAttempts>>

\* The top of the loop: return, or call connectAndServe.
CheckShutdown ==
    /\ pc = "loop"
    /\ pc' = IF isShutdown THEN "returned" ELSE "dialing"
    /\ UNCHANGED <<current, session, alive, dials, stopVars, reconnectAttempts>>

\* time.Sleep(5 * time.Second) is over.
Wake ==
    /\ pc = "sleep"
    /\ pc' = "loop"
    /\ UNCHANGED <<current, session, alive, dials, stopVars, reconnectAttempts>>

-----------------------------------------------------------------------------
(* connectAndServe *)

\* Mutant of Unpublished: c.session keeps the dead session.
StillPublished == session

\* What the deferred function leaves in c.session.
Unpublished == IF session = current THEN 0 ELSE session

\* Mutant of Closed: the session is left open.
NotClosed(s) == alive

\* Session.Close on s.
Closed(s) == alive \ {s}

\* Start counts an error.
Counted == reconnectAttempts + 1

\* No TLS configuration, no connection or no yamux session: an error, counted
\* by Start.
ConnectFails ==
    /\ pc = "dialing"
    /\ reconnectAttempts < MaxDials
    /\ pc' = "sleep"
    /\ reconnectAttempts' = Counted
    /\ UNCHANGED <<current, session, alive, dials, stopVars>>

ConnectDone ==
    /\ pc = "dialing"
    /\ dials < MaxDials
    /\ dials' = dials + 1
    /\ current' = dials'
    /\ alive' = alive \cup {dials'}
    /\ pc' = "connected"
    /\ UNCHANGED <<session, stopVars, reconnectAttempts>>

\* The critical section that makes the session visible to Stop.
PublishSession ==
    /\ pc = "connected"
    /\ session' = current
    /\ pc' = "auth"
    /\ UNCHANGED <<current, alive, dials, stopVars, reconnectAttempts>>

\* No stream, no nonce within 10 seconds, or the answer cannot be written.
AuthFails ==
    /\ pc = "auth"
    /\ pc' = "defer"
    /\ UNCHANGED <<current, session, alive, dials, stopVars, reconnectAttempts>>

\* performHMACAuth has written its answer; nobody confirms it.
AuthDone ==
    /\ pc = "auth"
    /\ current \in alive
    /\ pc' = "serving"
    /\ reconnectAttempts' = 0
    /\ UNCHANGED <<current, session, alive, dials, stopVars>>

\* Mutant of AcceptFails: the accept loop only ends after a Stop.
AcceptFailsOnlyAfterStop ==
    /\ pc = "serving"
    /\ current \notin alive /\ isShutdown
    /\ pc' = "defer"
    /\ UNCHANGED <<current, session, alive, dials, stopVars, reconnectAttempts>>

\* AcceptStream fails on a closed session.
AcceptFails ==
    /\ pc = "serving"
    /\ current \notin alive
    /\ pc' = "defer"
    /\ UNCHANGED <<current, session, alive, dials, stopVars, reconnectAttempts>>

\* The deferred function of connectAndServe, and Start counting its error.
Disconnect ==
    /\ pc = "defer"
    /\ session' = Unpublished
    /\ alive' = Closed(current)
    /\ current' = 0
    /\ reconnectAttempts' = Counted
    /\ pc' = "sleep"
    /\ UNCHANGED <<dials, stopVars>>

-----------------------------------------------------------------------------
(* The other goroutine, and the server *)

\* Called once, by the signal handler of cmd/client.
Stop ==
    /\ ~isShutdown
    /\ isShutdown' = TRUE
    /\ alive' = Closed(session)
    /\ stopSaw' = session
    /\ stopDials' = dials
    /\ UNCHANGED <<pc, current, session, dials, reconnectAttempts>>

\* The server closes the session, or keep-alives fail.
SessionLost ==
    /\ \E k \in alive : alive' = Closed(k)
    /\ UNCHANGED <<pc, current, session, dials, stopVars, reconnectAttempts>>

StartLoop ==
    \/ CheckShutdown
    \/ Wake
    \/ ConnectFails
    \/ ConnectDone
    \/ PublishSession
    \/ AuthFails
    \/ AuthDone
    \/ AcceptFails
    \/ Disconnect

LoopNext == StartLoop \/ Stop \/ SessionLost

LoopSpec == LoopInit /\ [][LoopNext]_loopVars

\* The goroutine of Start runs whenever it can: dials and reads have deadlines.
\* Nobody need call Stop, and a server may keep a session for ever.
LoopFairSpec == LoopSpec /\ WF_loopVars(StartLoop)

-----------------------------------------------------------------------------
(* Properties *)

\* The client never holds two sessions, and none while it sleeps, dials or has
\* returned: every failure path of connectAndServe closes what it opened.
NoSessionLeak ==
    /\ alive \subseteq {current}
    /\ pc \in {"loop", "dialing", "sleep", "returned"} => current = 0

\* What Stop would close is the session that Start is using.
StopSeesCurrent == session \in {0, current}

\* A Stop costs at most one more connection, the one whose attempt was past the
\* check of isShutdown, and none if it found a session: the loop reads the flag
\* without the lock, and only before it calls connectAndServe.
OneConnectionAfterStop ==
    isShutdown => /\ dials <= stopDials + 1
                  /\ stopSaw # 0 => dials = stopDials

\* A Stop that found a session makes Start return.
StopEndsSession == stopSaw # 0 ~> pc = "returned"

\* The client does not stay with a session that was lost.
LostSessionLeft == current # 0 /\ current \notin alive ~> current = 0
=============================================================================
