----------------------------- MODULE RateLimiter -----------------------------
(***************************************************************************)
(* RateLimiter of pkg/server/server.go and the accept loop of Start that   *)
(* asks it.  The accept loop and the cleanup goroutine share the map of    *)
(* attempts under rl.mu, so each critical section is one action.           *)
(*                                                                         *)
(* A []time.Time is the set of its entries: an entry carries the serial    *)
(* number of its connection, so equal times stay apart.  An address that   *)
(* is not in the map reads as the empty set.                               *)
(***************************************************************************)
EXTENDS Integers, FiniteSets

CONSTANTS
    IPs,         \* remote addresses
    Limit,       \* limit
    Window,      \* window, in units of the clock
    MaxTime,     \* bound: the clock stops here
    MaxFailures  \* bound: refusals counted

ASSUME LimiterAssumption ==
    /\ Limit \in Nat \ {0}
    /\ Window \in Nat \ {0}
    /\ MaxTime \in Nat
    /\ MaxFailures \in Nat

VARIABLES
    attempts,         \* RateLimiter.attempts
    now,              \* time.Now()
    due,              \* a tick waits in the cleanup ticker's channel
    totalConnections, \* Server.totalConnections
    authFailures,     \* Server.authFailures, as far as Start counts it
    admitted          \* history: every admitted connection of each IP

limiterVars == <<attempts, now, due, totalConnections, authFailures, admitted>>

\* Mutant of Recent: an entry exactly Window old still counts.
RecentInclusive(S, t) == {a \in S : a.time >= t - Window}

\* The entries of S that are After the cutoff t - Window.
Recent(S, t) == {a \in S : a.time > t - Window}

LimiterInit ==
    /\ attempts = [ip \in IPs |-> {}]
    /\ now = 0
    /\ due = FALSE
    /\ totalConnections = 0
    /\ authFailures = 0
    /\ admitted = [ip \in IPs |-> {}]

\* Time passes.  The ticker of 2 * Window drops a tick that finds one waiting.
Tick ==
    /\ now < MaxTime
    /\ now' = now + 1
    /\ due' = (due \/ now' % (2 * Window) = 0)
    /\ UNCHANGED <<attempts, totalConnections, authFailures, admitted>>

\* Mutant of Admit: one connection too many.
AdmitOneMore(ip) ==
    LET valid == Recent(attempts[ip], now)
        entry == [time |-> now, conn |-> totalConnections + 1]
    IN  /\ Cardinality(valid) <= Limit
        /\ attempts' = [attempts EXCEPT ![ip] = valid \cup {entry}]
        /\ admitted' = [admitted EXCEPT ![ip] = @ \cup {entry}]
        /\ totalConnections' = totalConnections + 1
        /\ UNCHANGED <<now, due, authFailures>>

\* Mutant of Admit: the connection is not counted.
AdmitUncounted(ip) ==
    LET valid == Recent(attempts[ip], now)
        entry == [time |-> now, conn |-> totalConnections + 1]
    IN  /\ Cardinality(valid) < Limit
        /\ attempts' = [attempts EXCEPT ![ip] = valid \cup {entry}]
        /\ admitted' = [admitted EXCEPT ![ip] = @ \cup {entry}]
        /\ UNCHANGED <<now, due, totalConnections, authFailures>>

\* Allow returns true: record the attempt, count and serve the connection.
Admit(ip) ==
    LET valid == Recent(attempts[ip], now)
        entry == [time |-> now, conn |-> totalConnections + 1]
    IN  /\ Cardinality(valid) < Limit
        /\ attempts' = [attempts EXCEPT ![ip] = valid \cup {entry}]
        /\ admitted' = [admitted EXCEPT ![ip] = @ \cup {entry}]
        /\ totalConnections' = totalConnections + 1
        /\ UNCHANGED <<now, due, authFailures>>

\* Allow returns false: keep what is valid, close the connection, count it.
Refuse(ip) ==
    LET valid == Recent(attempts[ip], now)
    IN  /\ Cardinality(valid) >= Limit
        /\ authFailures < MaxFailures
        /\ attempts' = [attempts EXCEPT ![ip] = valid]
        /\ authFailures' = authFailures + 1
        /\ UNCHANGED <<now, due, totalConnections, admitted>>

\* Mutant of Cleanup: it forgets what is half a window old.
CleanupTooEager ==
    /\ due
    /\ due' = FALSE
    /\ attempts' = [ip \in IPs |-> {a \in attempts[ip] : a.time > now - Window \div 2}]
    /\ UNCHANGED <<now, totalConnections, authFailures, admitted>>

\* One pass of cleanup over the map.
Cleanup ==
    /\ due
    /\ due' = FALSE
    /\ attempts' = [ip \in IPs |-> Recent(attempts[ip], now)]
    /\ UNCHANGED <<now, totalConnections, authFailures, admitted>>

LimiterNext == Tick \/ Cleanup \/ \E ip \in IPs : Admit(ip) \/ Refuse(ip)

LimiterSpec == LimiterInit /\ [][LimiterNext]_limiterVars

-----------------------------------------------------------------------------
(* Properties *)

\* An entry was made at or before the present, for a counted connection.
Entry == [time : 0..now, conn : 1..totalConnections]

\* The type invariant of the limiter, its clock and the server's counters.
TypeOK ==
    /\ now \in Nat
    /\ due \in BOOLEAN
    /\ totalConnections \in Nat
    /\ authFailures \in Nat
    /\ attempts \in [IPs -> SUBSET Entry]
    /\ admitted \in [IPs -> SUBSET Entry]

\* In every window, however it lies, at most Limit connections of an IP are
\* admitted, although cleanup and Allow itself keep forgetting attempts.
WindowBound ==
    \A ip \in IPs, t \in 0..now :
        Cardinality({a \in Recent(admitted[ip], t) : a.time <= t}) <= Limit

\* The slice kept for an IP never outgrows the limit.
AttemptsBounded == \A ip \in IPs : Cardinality(attempts[ip]) <= Limit

\* The refinement mapping hides attempts: the history decides.
SW == INSTANCE SlidingWindow WITH
          now <- now, admitted <- admitted,
          totalConnections <- totalConnections, authFailures <- authFailures

\* The limiter decides as if it never forgot an attempt: no connection is
\* refused that the window would admit, none admitted that it would refuse.
ForgettingIsInvisible == SW!Spec
=============================================================================
