--------------------------- MODULE SessionRegistry ---------------------------
(***************************************************************************)
(* The control plane of pkg/server/server.go: authenticated yamux sessions *)
(* (s.clients), the proxy listeners opened for them (s.listeners), the     *)
(* dynamic port pool (s.usedPorts) and the goroutines that share them:     *)
(*   - handleControlConn and setupClientListeners, one per connection;     *)
(*   - monitorSession, started by handleControlConn as its last step, so   *)
(*     both are phases of one program counter pc[s];                       *)
(*   - startProxyListener, one goroutine <<s, k>> per forwarding rule k.   *)
(* A critical section of s.mu is one action, except the two that wait for  *)
(* s.dynamicMu inside: the deferred function of startProxyListener and     *)
(* monitorSession.  s.dynamicMu is explicit: AllocateDynamicPort holds it  *)
(* across several system calls, without s.mu.                              *)
(***************************************************************************)
EXTENDS Integers, Sequences

CONSTANTS
    Sessions,      \* control connections; each carries one yamux session
    ClientIDs,     \* identifiers a peer may authenticate as
    Ports,         \* TCP ports of the host that the configuration can reach
    ConfigPorts,   \* config.Clients: the rules of each listed client, in order
    MaxRules,      \* bound: the longest rule list
    DynMin, DynMax,\* what GetDynamicPortRange returns
    HostPorts,     \* ports that other processes of the host may take
    None           \* nil

Configured == DOMAIN ConfigPorts

ASSUME ConfigAssumption ==
    /\ Ports \subseteq Nat \ {0}
    /\ Configured \subseteq ClientIDs
    /\ MaxRules \in Nat
    /\ \A c \in Configured : /\ ConfigPorts[c] \in Seq(Ports \cup {0})
                             /\ Len(ConfigPorts[c]) <= MaxRules
    /\ DynMin \in Nat /\ DynMax \in Nat
    /\ DynMin..DynMax \subseteq Ports
    /\ HostPorts \subseteq Ports

Goroutines == Sessions \X (1..MaxRules)

ASSUME NoneAssumption ==
    /\ None \notin Sessions \cup ClientIDs \cup Goroutines
    /\ Sessions \cap Goroutines = {}

VARIABLES
    pc,          \* progress of handleControlConn, then of monitorSession
    id,          \* ClientSession.ID, once the handshake established it
    closed,      \* Session.IsClosed()
    rule,        \* index of the rule that setupClientListeners handles next
    activePorts, \* ClientSession.ActivePorts
    clients,     \* Server.clients
    listeners,   \* Server.listeners: the goroutine that owns the entry
    usedPorts,   \* Server.usedPorts
    gpc,         \* progress of each startProxyListener goroutine
    gport,       \* its port argument
    sock,        \* is its listening socket open?
    mu,          \* who holds Server.mu across steps: a monitor or a goroutine
    todo,        \* ports that the running monitorSession has still to visit
    releasing,   \* the port it is about to release, 0 for none
    dynamicMu,   \* the session whose handler holds Server.dynamicMu
    probe,       \* AllocateDynamicPort: candidate port, and is it bound now?
    hostBound,   \* ports held by other processes of the host
    forsaken     \* history: ports whose accept loop left an open socket

sessionVars  == <<pc, id, closed, rule>>
registryVars == <<activePorts, clients, listeners, usedPorts>>
socketVars   == <<gpc, gport, sock>>
lockVars     == <<mu, todo, releasing>>
poolVars     == <<dynamicMu, probe>>
vars == <<sessionVars, registryVars, socketVars, lockVars, poolVars, hostBound,
          forsaken>>

-----------------------------------------------------------------------------
\* The session a goroutine forwards to.
SessionOf(g) == g[1]

\* setupClientListeners' walk over config.Clients: the rules of client c.
RulesOf(c) == IF c \in Configured THEN ConfigPorts[c] ELSE <<>>

\* An empty client list authorises every identifier.
validateClientConfig(c) == Configured = {} \/ c \in Configured

\* net.Listen on port p would succeed.
CanListen(p) ==
    /\ p \notin hostBound
    /\ ~(probe.bound /\ probe.port = p)
    /\ \A g \in Goroutines : sock[g] => gport[g] # p

Init ==
    /\ pc = [s \in Sessions |-> "idle"]
    /\ id = [s \in Sessions |-> None]
    /\ closed = [s \in Sessions |-> FALSE]
    /\ rule = [s \in Sessions |-> 1]
    /\ activePorts = [s \in Sessions |-> {}]
    /\ clients = [c \in ClientIDs |-> None]
    /\ listeners = [p \in Ports |-> None]
    /\ usedPorts = {}
    /\ gpc = [g \in Goroutines |-> "none"]
    /\ gport = [g \in Goroutines |-> 0]
    /\ sock = [g \in Goroutines |-> FALSE]
    /\ mu = None
    /\ todo = {} /\ releasing = 0
    /\ dynamicMu = None
    /\ probe = [port |-> DynMin, bound |-> FALSE]
    /\ hostBound = {}
    /\ forsaken = {}

-----------------------------------------------------------------------------
(* handleControlConn *)

\* A connection that passed the rate limiter gets its handler goroutine.
Connect(s) ==
    /\ pc[s] = "idle"
    /\ pc' = [pc EXCEPT ![s] = "handshake"]
    /\ UNCHANGED <<id, closed, rule, registryVars, socketVars, poolVars,
                   lockVars, hostBound, forsaken>>

\* No yamux session, no authentication stream ("dropped"), or the peer's
\* answer was refused ("rejected", counted in authFailures).
Refuse(s) ==
    /\ pc[s] = "handshake"
    /\ \E verdict \in {"dropped", "rejected"} : pc' = [pc EXCEPT ![s] = verdict]
    /\ closed' = [closed EXCEPT ![s] = TRUE]
    /\ UNCHANGED <<id, rule, registryVars, socketVars, poolVars, lockVars,
                   hostBound, forsaken>>

\* authenticateStream accepted the peer as client c.
Authenticate(s, c) ==
    /\ pc[s] = "handshake"
    /\ validateClientConfig(c)
    /\ pc' = [pc EXCEPT ![s] = "authenticated"]
    /\ id' = [id EXCEPT ![s] = c]
    /\ UNCHANGED <<closed, rule, registryVars, socketVars, poolVars, lockVars,
                   hostBound, forsaken>>

\* The critical section that terminates a stale session and takes its place.
RegisterClient(s) ==
    LET old == clients[id[s]] IN
    /\ pc[s] = "authenticated" /\ mu = None
    /\ closed' = [t \in Sessions |-> closed[t] \/ t = old]
    /\ clients' = [clients EXCEPT ![id[s]] = s]
    /\ pc' = [pc EXCEPT ![s] = "setup"]
    /\ UNCHANGED <<id, rule, activePorts, listeners, usedPorts, socketVars,
                   poolVars, lockVars, hostBound, forsaken>>

\* go startProxyListener(p, s), and on to the next rule.
SpawnListener(s, p) ==
    /\ gpc' = [gpc EXCEPT ![<<s, rule[s]>>] = "start"]
    /\ gport' = [gport EXCEPT ![<<s, rule[s]>>] = p]
    /\ rule' = [rule EXCEPT ![s] = @ + 1]

HandlesRule(s) == pc[s] = "setup" /\ rule[s] <= Len(RulesOf(id[s]))

SetupStaticRule(s) ==
    /\ HandlesRule(s)
    /\ RulesOf(id[s])[rule[s]] # 0
    /\ SpawnListener(s, RulesOf(id[s])[rule[s]])
    /\ UNCHANGED <<pc, id, closed, registryVars, sock, poolVars, lockVars,
                   hostBound, forsaken>>

\* Mutant of FinishSetup: no monitor is started for a session that is closed.
FinishSetupSkipsDead(s) ==
    /\ pc[s] = "setup"
    /\ rule[s] > Len(RulesOf(id[s]))
    /\ pc' = [pc EXCEPT ![s] = IF closed[s] THEN "gone" ELSE "serving"]
    /\ UNCHANGED <<id, closed, rule, registryVars, socketVars, poolVars,
                   lockVars, hostBound, forsaken>>

\* The last rule is done: go monitorSession(s).
FinishSetup(s) ==
    /\ pc[s] = "setup"
    /\ rule[s] > Len(RulesOf(id[s]))
    /\ pc' = [pc EXCEPT ![s] = "serving"]
    /\ UNCHANGED <<id, closed, rule, registryVars, socketVars, poolVars,
                   lockVars, hostBound, forsaken>>

-----------------------------------------------------------------------------
(* AllocateDynamicPort, called by setupClientListeners for a rule 0 *)

AllocLock(s) ==
    /\ HandlesRule(s)
    /\ RulesOf(id[s])[rule[s]] = 0
    /\ dynamicMu = None
    /\ dynamicMu' = s
    /\ probe' = [port |-> DynMin, bound |-> FALSE]
    /\ UNCHANGED <<sessionVars, registryVars, socketVars, lockVars, hostBound,
                   forsaken>>

\* Mutant of Scanning: the loop tries one port past the end of the range.
ScanningPastMax(s) == dynamicMu = s /\ ~probe.bound /\ probe.port <= DynMax + 1

Scanning(s) == dynamicMu = s /\ ~probe.bound /\ probe.port <= DynMax

\* Mutant of AllocSkip: a port that is in use is waited for, not skipped.
AllocSkipWaits(s) ==
    /\ Scanning(s)
    /\ probe.port \in usedPorts
    /\ probe' = [probe EXCEPT !.port = @ + 1]
    /\ UNCHANGED <<sessionVars, registryVars, socketVars, dynamicMu, lockVars,
                   hostBound, forsaken>>

\* The candidate is marked used, or net.Listen fails on it.
AllocSkip(s) ==
    /\ Scanning(s)
    /\ probe.port \in usedPorts \/ ~CanListen(probe.port)
    /\ probe' = [probe EXCEPT !.port = @ + 1]
    /\ UNCHANGED <<sessionVars, registryVars, socketVars, dynamicMu, lockVars,
                   hostBound, forsaken>>

\* net.Listen succeeds: the candidate is bound until the probe is closed.
AllocProbe(s) ==
    /\ Scanning(s)
    /\ probe.port \notin usedPorts /\ CanListen(probe.port)
    /\ probe' = [probe EXCEPT !.bound = TRUE]
    /\ UNCHANGED <<sessionVars, registryVars, socketVars, dynamicMu, lockVars,
                   hostBound, forsaken>>

\* l.Close(), mark the port used, unlock and return it to the caller.
AllocReturn(s) ==
    /\ dynamicMu = s /\ probe.bound
    /\ probe' = [probe EXCEPT !.bound = FALSE]
    /\ usedPorts' = usedPorts \cup {probe.port}
    /\ dynamicMu' = None
    /\ SpawnListener(s, probe.port)
    /\ UNCHANGED <<pc, id, closed, activePorts, clients, listeners, sock,
                   lockVars, hostBound, forsaken>>

\* The range is exhausted: the rule is skipped.
AllocExhausted(s) ==
    /\ dynamicMu = s /\ ~probe.bound /\ probe.port > DynMax
    /\ dynamicMu' = None
    /\ rule' = [rule EXCEPT ![s] = @ + 1]
    /\ UNCHANGED <<pc, id, closed, registryVars, socketVars, probe, lockVars,
                   hostBound, forsaken>>

-----------------------------------------------------------------------------
(* startProxyListener *)

\* Mutant of ListenRefused: the port is recorded before the checks.
ListenRefusedRecordsPort(g) ==
    /\ gpc[g] = "start" /\ mu = None
    /\ listeners[gport[g]] # None \/ ~CanListen(gport[g])
    /\ activePorts' = [activePorts EXCEPT ![SessionOf(g)] = @ \cup {gport[g]}]
    /\ gpc' = [gpc EXCEPT ![g] = "done"]
    /\ UNCHANGED <<sessionVars, clients, listeners, usedPorts, gport, sock,
                   poolVars, lockVars, hostBound, forsaken>>

\* The port is in the map already, or net.Listen fails: the goroutine ends.
ListenRefused(g) ==
    /\ gpc[g] = "start" /\ mu = None
    /\ listeners[gport[g]] # None \/ ~CanListen(gport[g])
    /\ gpc' = [gpc EXCEPT ![g] = "done"]
    /\ UNCHANGED <<sessionVars, registryVars, gport, sock, poolVars, lockVars,
                   hostBound, forsaken>>

\* Bind, publish the listener and record the port in the session.
Listen(g) ==
    /\ gpc[g] = "start" /\ mu = None
    /\ listeners[gport[g]] = None /\ CanListen(gport[g])
    /\ sock' = [sock EXCEPT ![g] = TRUE]
    /\ listeners' = [listeners EXCEPT ![gport[g]] = g]
    /\ activePorts' = [activePorts EXCEPT ![SessionOf(g)] = @ \cup {gport[g]}]
    /\ gpc' = [gpc EXCEPT ![g] = "accept"]
    /\ UNCHANGED <<sessionVars, clients, usedPorts, gport, poolVars, lockVars,
                   hostBound, forsaken>>

\* Mutant of AcceptFails: leave only if the listener is still in the map.
AcceptFailsIfListed(g) ==
    /\ gpc[g] = "accept"
    /\ closed[SessionOf(g)]
    /\ listeners[gport[g]] = g
    /\ gpc' = [gpc EXCEPT ![g] = "cleanup"]
    /\ forsaken' = IF sock[g] THEN forsaken \cup {gport[g]} ELSE forsaken
    /\ UNCHANGED <<sessionVars, registryVars, gport, sock, poolVars, lockVars,
                   hostBound>>

\* Accept fails, because the listener was closed or for any other reason, and
\* the session is closed: leave the loop.  (While the session is open the loop
\* retries, whatever the error: no state changes.)
AcceptFails(g) ==
    /\ gpc[g] = "accept"
    /\ closed[SessionOf(g)]
    /\ gpc' = [gpc EXCEPT ![g] = "cleanup"]
    /\ forsaken' = IF sock[g] THEN forsaken \cup {gport[g]} ELSE forsaken
    /\ UNCHANGED <<sessionVars, registryVars, gport, sock, poolVars, lockVars,
                   hostBound>>

\* The deferred function: it closes its listener and deletes the map entry of its
\* PORT, whoever owns it ...
CleanupListener(g) ==
    /\ gpc[g] = "cleanup" /\ mu = None
    /\ mu' = g
    /\ sock' = [sock EXCEPT ![g] = FALSE]
    /\ listeners' = [listeners EXCEPT ![gport[g]] = None]
    /\ gpc' = [gpc EXCEPT ![g] = "release"]
    /\ UNCHANGED <<sessionVars, activePorts, clients, usedPorts, gport, todo,
                   releasing, poolVars, hostBound, forsaken>>

\* ... and releases the port, still under s.mu.
CleanupRelease(g) ==
    /\ gpc[g] = "release" /\ dynamicMu = None
    /\ usedPorts' = usedPorts \ {gport[g]}
    /\ mu' = None
    /\ gpc' = [gpc EXCEPT ![g] = "done"]
    /\ UNCHANGED <<sessionVars, activePorts, clients, listeners, gport, sock,
                   todo, releasing, poolVars, hostBound, forsaken>>

-----------------------------------------------------------------------------
(* monitorSession *)

\* CloseChan fires: it deletes the client's map entry, whoever owns it.
MonitorSession(s) ==
    /\ pc[s] = "serving" /\ mu = None
    /\ closed[s]
    /\ mu' = s
    /\ clients' = [clients EXCEPT ![id[s]] = None]
    /\ todo' = activePorts[s]
    /\ pc' = [pc EXCEPT ![s] = "evicting"]
    /\ UNCHANGED <<id, closed, rule, activePorts, listeners, usedPorts,
                   socketVars, releasing, poolVars, hostBound, forsaken>>

\* Mutant of MonitorClose: the listener is closed but stays in the map.
MonitorCloseKeepsEntry(s) ==
    /\ pc[s] = "evicting" /\ releasing = 0
    /\ \E p \in todo :
          /\ sock' = [g \in Goroutines |-> sock[g] /\ listeners[p] # g]
          /\ todo' = todo \ {p}
          /\ releasing' = p
    /\ UNCHANGED <<sessionVars, registryVars, gpc, gport, mu, poolVars,
                   hostBound, forsaken>>

\* The listener found under the next port is closed, whoever owns it.
MonitorClose(s) ==
    /\ pc[s] = "evicting" /\ releasing = 0
    /\ \E p \in todo :
          /\ sock' = [g \in Goroutines |-> sock[g] /\ listeners[p] # g]
          /\ listeners' = [listeners EXCEPT ![p] = None]
          /\ todo' = todo \ {p}
          /\ releasing' = p
    /\ UNCHANGED <<sessionVars, activePorts, clients, usedPorts, gpc, gport,
                   mu, poolVars, hostBound, forsaken>>

\* ReleaseDynamicPort: wait for dynamicMu while holding s.mu.
MonitorRelease(s) ==
    /\ pc[s] = "evicting" /\ releasing # 0 /\ dynamicMu = None
    /\ usedPorts' = usedPorts \ {releasing}
    /\ releasing' = 0
    /\ UNCHANGED <<sessionVars, activePorts, clients, listeners, socketVars,
                   mu, todo, poolVars, hostBound, forsaken>>

MonitorEnd(s) ==
    /\ pc[s] = "evicting" /\ releasing = 0 /\ todo = {}
    /\ mu' = None
    /\ pc' = [pc EXCEPT ![s] = "gone"]
    /\ UNCHANGED <<id, closed, rule, registryVars, socketVars, todo, releasing,
                   poolVars, hostBound, forsaken>>

-----------------------------------------------------------------------------
(* The environment *)

\* The peer disconnects, or keep-alives to it fail.
SessionLost(s) ==
    /\ pc[s] \in {"handshake", "authenticated", "setup", "serving"}
    /\ ~closed[s]
    /\ closed' = [closed EXCEPT ![s] = TRUE]
    /\ UNCHANGED <<pc, id, rule, registryVars, socketVars, poolVars, lockVars,
                   hostBound, forsaken>>

HostBind(p) ==
    /\ CanListen(p)
    /\ hostBound' = hostBound \cup {p}
    /\ UNCHANGED <<sessionVars, registryVars, socketVars, lockVars, poolVars,
                   forsaken>>

HostRelease(p) ==
    /\ p \in hostBound
    /\ hostBound' = hostBound \ {p}
    /\ UNCHANGED <<sessionVars, registryVars, socketVars, lockVars, poolVars,
                   forsaken>>

Handler(s) ==
    \/ RegisterClient(s)
    \/ SetupStaticRule(s)
    \/ AllocLock(s)
    \/ AllocSkip(s)
    \/ AllocProbe(s)
    \/ AllocReturn(s)
    \/ AllocExhausted(s)
    \/ FinishSetup(s)
    \/ MonitorSession(s)
    \/ MonitorClose(s)
    \/ MonitorRelease(s)
    \/ MonitorEnd(s)

ProxyListener(g) ==
    \/ ListenRefused(g)
    \/ Listen(g)
    \/ AcceptFails(g)
    \/ CleanupListener(g)
    \/ CleanupRelease(g)

Environment ==
    \/ \E s \in Sessions : Connect(s) \/ Refuse(s) \/ SessionLost(s)
    \/ \E s \in Sessions, c \in ClientIDs : Authenticate(s, c)
    \/ \E p \in HostPorts : HostBind(p) \/ HostRelease(p)

Next ==
    \/ \E s \in Sessions : Handler(s)
    \/ \E g \in Goroutines : ProxyListener(g)
    \/ Environment

Spec == Init /\ [][Next]_vars

\* The Go scheduler runs every ready goroutine.  An Accept on a closed socket
\* returns at once; one on an open socket need not fail.
Fairness ==
    /\ \A s \in Sessions : WF_vars(Handler(s))
    /\ \A g \in Goroutines :
          /\ WF_vars(ListenRefused(g) \/ Listen(g))
          /\ WF_vars(~sock[g] /\ AcceptFails(g))
          /\ WF_vars(CleanupListener(g) \/ CleanupRelease(g))

FairSpec == Spec /\ Fairness

-----------------------------------------------------------------------------
(* Properties *)

SessionPhases == {"idle", "handshake", "dropped", "rejected", "authenticated",
                  "setup", "serving", "evicting", "gone"}
ListenerPhases == {"none", "start", "accept", "cleanup", "release", "done"}

\* The type invariant of the server's maps, goroutines and sockets.
TypeOK ==
    /\ pc \in [Sessions -> SessionPhases]
    /\ id \in [Sessions -> ClientIDs \cup {None}]
    /\ closed \in [Sessions -> BOOLEAN]
    /\ rule \in [Sessions -> 1..(MaxRules + 1)]
    /\ activePorts \in [Sessions -> SUBSET Ports]
    /\ clients \in [ClientIDs -> Sessions \cup {None}]
    /\ listeners \in [Ports -> Goroutines \cup {None}]
    /\ usedPorts \in SUBSET Ports
    /\ gpc \in [Goroutines -> ListenerPhases]
    /\ gport \in [Goroutines -> Ports \cup {0}]
    /\ sock \in [Goroutines -> BOOLEAN]
    /\ mu \in Sessions \cup Goroutines \cup {None}
    /\ todo \in SUBSET Ports
    /\ releasing \in Ports \cup {0}
    /\ dynamicMu \in Sessions \cup {None}
    /\ probe \in [port : Nat, bound : BOOLEAN]
    /\ hostBound \in SUBSET Ports
    /\ forsaken \in SUBSET Ports

\* s.listeners never leads to a dead listener: the entry of a port is a socket
\* that is open on that port and whose accept loop has not cleaned up yet,
\* although two goroutines per port and the monitors all delete entries.
ListenersTrackSockets ==
    \A p \in Ports : listeners[p] # None =>
        /\ sock[listeners[p]]
        /\ gport[listeners[p]] = p
        /\ gpc[listeners[p]] \in {"accept", "cleanup"}

\* Whatever session s.clients names for a client belongs to that client and
\* still has its monitorSession to run, so a dead entry cannot outlive it.
NoZombieClient ==
    \A c \in ClientIDs : clients[c] # None =>
        id[clients[c]] = c /\ pc[clients[c]] \in {"setup", "serving"}

\* Tearing one session down (monitorSession, the deferred cleanup of a listener)
\* never closes the listening socket of a session that is still open, except on a
\* port that an accept loop gave up early, after an Accept that failed on an open
\* socket: the port is then free while the session still records it, and the
\* session's monitor closes whoever listens there by then.
TeardownSparesOthers ==
    [][\A g \in Goroutines : sock[g] /\ ~sock'[g] =>
          closed[SessionOf(g)] \/ gport[g] \in forsaken]_vars

\* A closed session disappears from s.clients, where RegisterClient of a
\* reconnecting client and the dashboard would find it.
DeadSessionEvicted ==
    \A s \in Sessions :
        closed[s] /\ (\E c \in ClientIDs : clients[c] = s)
        ~> \A c \in ClientIDs : clients[c] # s

\* setupClientListeners always gets through its rules: it never waits for ever
\* on dynamicMu, and handleControlConn starts the session's monitor.
SetupTerminates ==
    \A s \in Sessions : pc[s] = "setup" ~> pc[s] \in {"serving", "gone"}

\* An accept loop whose socket was closed ends instead of spinning on the error:
\* always if its session is closed, and on a port that no accept loop gave up
\* early also if it is open (the loop retries for as long as its session is).
ClosedListenerRetires ==
    \A g \in Goroutines :
        /\ gpc[g] = "accept" /\ ~sock[g]
        /\ closed[SessionOf(g)] \/ gport[g] \notin forsaken
        ~> gpc[g] = "done"

-----------------------------------------------------------------------------
(* What the comments and the messages of the code promise, and the code does   *)
(* not keep: each is refuted by a run.                                         *)

\* pkg/server/dashboard.go:226: /api/clients lists the connected clients.  Every
\* registered session that is still open is the entry of its client.
LiveSessionListed ==
    \A s \in Sessions : pc[s] \in {"setup", "serving"} /\ ~closed[s] =>
        clients[id[s]] = s

\* pkg/client/client.go:56: a client reconnects to get its tunnel back.  A session
\* that stays up eventually listens on every port that its rules ask for.
ReconnectedClientServed ==
    \A s \in Sessions :
        <>[](pc[s] = "serving" /\ ~closed[s]) =>
            <>(/\ pc[s] = "serving"
               /\ \A k \in 1..Len(RulesOf(id[s])) : sock[<<s, k>>])
=============================================================================
