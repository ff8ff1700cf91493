---------------------------- MODULE SlidingWindow ----------------------------
(***************************************************************************)
(* What a rate limiter promises its callers: a connection attempt of an IP *)
(* is admitted exactly when fewer than Limit connections of that IP were   *)
(* admitted during the last Window units of time.  The decision reads the  *)
(* complete history; nothing is ever forgotten.                            *)
(***************************************************************************)
EXTENDS Integers, FiniteSets

CONSTANTS
    IPs,      \* remote addresses
    Limit,    \* NewRateLimiter(limit, ...)
    Window    \* NewRateLimiter(..., window), in units of the clock

VARIABLES
    now,              \* the clock
    admitted,         \* every admitted connection of each IP, for ever
    totalConnections, \* how many connections were admitted
    authFailures      \* how many were refused

vars == <<now, admitted, totalConnections, authFailures>>

\* The entries of S that are less than Window old at time t.
Recent(S, t) == {a \in S : a.time > t - Window}

Init ==
    /\ now = 0
    /\ admitted = [ip \in IPs |-> {}]
    /\ totalConnections = 0
    /\ authFailures = 0

Tick ==
    /\ now' = now + 1
    /\ UNCHANGED <<admitted, totalConnections, authFailures>>

Admit(ip) ==
    /\ Cardinality(Recent(admitted[ip], now)) < Limit
    /\ totalConnections' = totalConnections + 1
    /\ admitted' = [admitted EXCEPT ![ip] =
                       @ \cup {[time |-> now, conn |-> totalConnections']}]
    /\ UNCHANGED <<now, authFailures>>

Refuse(ip) ==
    /\ Cardinality(Recent(admitted[ip], now)) >= Limit
    /\ authFailures' = authFailures + 1
    /\ UNCHANGED <<now, admitted, totalConnections>>

Next == Tick \/ \E ip \in IPs : Admit(ip) \/ Refuse(ip)

Spec == Init /\ [][Next]_vars
=============================================================================
