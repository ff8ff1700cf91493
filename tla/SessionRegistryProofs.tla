------------------------ MODULE SessionRegistryProofs ------------------------
(***************************************************************************)
(* Proofs about SessionRegistry, for any number of sessions, clients,      *)
(* rules and ports.                                                        *)
(***************************************************************************)
EXTENDS SessionRegistry, TLAPS

-----------------------------------------------------------------------------
(* The inductive invariant *)

\* The client of a session is known from the handshake on, and whoever holds
\* dynamicMu is in the middle of a rule 0.
HandlerInv ==
    /\ \A s \in Sessions :
          pc[s] \in {"authenticated", "setup", "serving", "evicting", "gone"} =>
              id[s] \in ClientIDs
    /\ dynamicMu # None => /\ HandlesRule(dynamicMu)
                           /\ RulesOf(id[dynamicMu])[rule[dynamicMu]] = 0
    /\ probe.port >= DynMin
    /\ probe.bound => dynamicMu # None /\ probe.port <= DynMax

\* A goroutine exists for the rules passed so far, it knows its port, and only
\* an accept loop (or its cleanup) has an open socket.
GoroutineInv ==
    /\ \A s \in Sessions, k \in 1..MaxRules : k >= rule[s] => gpc[<<s, k>>] = "none"
    /\ \A g \in Goroutines :
          /\ gpc[g] # "none" => gport[g] \in Ports
          /\ sock[g] => gpc[g] \in {"accept", "cleanup"}

\* The operating system gives a port to one socket at a time.
OneSocketPerPort ==
    \A g, h \in Goroutines : sock[g] /\ sock[h] /\ gport[g] = gport[h] => g = h

IInv == TypeOK /\ HandlerInv /\ GoroutineInv /\ OneSocketPerPort
               /\ ListenersTrackSockets /\ NoZombieClient

\* A monitor and a deferred cleanup hold s.mu until they have released the ports,
\* and monitors run for closed sessions only.
LockInv ==
    /\ \A s \in Sessions : pc[s] = "evicting" => mu = s /\ closed[s]
    /\ \A g \in Goroutines : gpc[g] = "release" => mu = g

Owns(s, p) == \E g \in Goroutines : SessionOf(g) = s /\ sock[g] /\ gport[g] = p

\* The socket of a port that a session records stays its own until its monitor
\* visits the port, unless an accept loop gave the port up; a loop ends only
\* after its session.
OwnPorts ==
    /\ \A s \in Sessions : pc[s] \notin {"evicting", "gone"} =>
          \A p \in activePorts[s] \ forsaken : Owns(s, p)
    /\ \A s \in Sessions : pc[s] = "evicting" =>
          \A p \in todo \ forsaken : Owns(s, p)
    /\ \A g \in Goroutines : gpc[g] = "cleanup" =>
          closed[SessionOf(g)] /\ (sock[g] => gport[g] \in forsaken)

-----------------------------------------------------------------------------
(* Facts about the constants *)

\* The rules of a client are ports or 0, and at most MaxRules.
LEMMA RulesOfType ==
    ASSUME NEW c
    PROVE  /\ RulesOf(c) \in Seq(Ports \cup {0})
           /\ Len(RulesOf(c)) \in Nat
           /\ Len(RulesOf(c)) <= MaxRules
<1>1. CASE c \in Configured
  BY <1>1, ConfigAssumption DEF RulesOf
<1>2. CASE c \notin Configured
  BY <1>2, ConfigAssumption DEF RulesOf
<1> QED BY <1>1, <1>2

\* A rule within the list is a port or 0.
LEMMA RuleType ==
    ASSUME NEW c, NEW k \in Nat \ {0}, k <= Len(RulesOf(c))
    PROVE  RulesOf(c)[k] \in Ports \cup {0}
BY RulesOfType

\* A goroutine is the pair of its session and its rule number.
LEMMA GoroutinePair ==
    ASSUME NEW g \in Goroutines
    PROVE  /\ SessionOf(g) \in Sessions
           /\ g[2] \in 1..MaxRules
           /\ g = <<SessionOf(g), g[2]>>
BY DEF Goroutines, SessionOf

-----------------------------------------------------------------------------
(* Every action preserves the invariant *)

\* The empty server satisfies the invariant.
LEMMA InitIInv == Init => IInv
<1> SUFFICES ASSUME Init PROVE IInv
  OBVIOUS
<1> USE ConfigAssumption, NoneAssumption DEF Init
<1>1. TypeOK
  BY DEF TypeOK, SessionPhases, ListenerPhases
<1>2. HandlerInv /\ GoroutineInv /\ OneSocketPerPort
  BY DEF HandlerInv, GoroutineInv, OneSocketPerPort, Goroutines
<1>3. ListenersTrackSockets /\ NoZombieClient
  BY DEF ListenersTrackSockets, NoZombieClient
<1> QED BY <1>1, <1>2, <1>3 DEF IInv

\* handleControlConn starts.
LEMMA ConnectStep ==
    ASSUME IInv, NEW s \in Sessions, Connect(s) PROVE IInv'
<1> USE DEF IInv, Connect, registryVars, socketVars, poolVars, lockVars
<1>1. TypeOK'
  BY DEF TypeOK, SessionPhases
<1>2. HandlerInv'
  BY DEF TypeOK, HandlerInv, HandlesRule
<1>3. (GoroutineInv /\ OneSocketPerPort /\ ListenersTrackSockets)'
  BY DEF GoroutineInv, OneSocketPerPort, ListenersTrackSockets
<1>4. NoZombieClient'
  BY DEF TypeOK, NoZombieClient
<1> QED BY <1>1, <1>2, <1>3, <1>4

\* handleControlConn gives up on the handshake.
LEMMA RefuseStep ==
    ASSUME IInv, NEW s \in Sessions, Refuse(s) PROVE IInv'
<1> USE DEF IInv, Refuse, registryVars, socketVars, poolVars, lockVars
<1>1. TypeOK'
  BY DEF TypeOK, SessionPhases
<1>2. HandlerInv'
  BY DEF TypeOK, HandlerInv, HandlesRule
<1>3. (GoroutineInv /\ OneSocketPerPort /\ ListenersTrackSockets)'
  BY DEF GoroutineInv, OneSocketPerPort, ListenersTrackSockets
<1>4. NoZombieClient'
  BY DEF TypeOK, NoZombieClient
<1> QED BY <1>1, <1>2, <1>3, <1>4

\* authenticateStream accepts the peer.
LEMMA AuthenticateStep ==
    ASSUME IInv, NEW s \in Sessions, NEW c \in ClientIDs, Authenticate(s, c)
    PROVE  IInv'
<1> USE NoneAssumption DEF IInv, Authenticate, registryVars, socketVars, poolVars, lockVars
<1>1. TypeOK'
  BY DEF TypeOK, SessionPhases
<1>2. HandlerInv'
  BY DEF TypeOK, HandlerInv, HandlesRule
<1>3. (GoroutineInv /\ OneSocketPerPort /\ ListenersTrackSockets)'
  BY DEF GoroutineInv, OneSocketPerPort, ListenersTrackSockets
<1>4. NoZombieClient'
  BY DEF TypeOK, NoZombieClient
<1> QED BY <1>1, <1>2, <1>3, <1>4

\* The critical section that replaces a stale session.
LEMMA RegisterClientStep ==
    ASSUME IInv, NEW s \in Sessions, RegisterClient(s) PROVE IInv'
<1> USE NoneAssumption DEF IInv, RegisterClient, socketVars, poolVars, lockVars
<1>1. id[s] \in ClientIDs
  BY DEF HandlerInv
<1>2. TypeOK'
  BY <1>1 DEF TypeOK, SessionPhases
<1>3. HandlerInv'
  BY DEF TypeOK, HandlerInv, HandlesRule
<1>4. (GoroutineInv /\ OneSocketPerPort /\ ListenersTrackSockets)'
  BY DEF GoroutineInv, OneSocketPerPort, ListenersTrackSockets
<1>5. NoZombieClient'
  BY <1>1 DEF TypeOK, NoZombieClient
<1> QED BY <1>2, <1>3, <1>4, <1>5

\* What starting a listener goroutine for the current rule preserves.
LEMMA SpawnListenerStep ==
    ASSUME IInv, NEW s \in Sessions, NEW p \in Ports, HandlesRule(s),
           SpawnListener(s, p), UNCHANGED <<pc, id, sock, listeners, clients>>
    PROVE  /\ <<s, rule[s]>> \in Goroutines /\ rule[s] \in Nat
           /\ gpc' \in [Goroutines -> ListenerPhases]
           /\ gport' \in [Goroutines -> Ports \cup {0}]
           /\ rule' \in [Sessions -> 1..(MaxRules + 1)]
           /\ GoroutineInv' /\ OneSocketPerPort' /\ ListenersTrackSockets'
           /\ NoZombieClient'
<1> USE DEF IInv, SpawnListener
<1>1. rule[s] \in 1..MaxRules
  BY RulesOfType, ConfigAssumption DEF HandlesRule, TypeOK
<1>2. <<s, rule[s]>> \in Goroutines
  BY <1>1 DEF Goroutines
<1>3. gpc[<<s, rule[s]>>] = "none" /\ ~sock[<<s, rule[s]>>]
  BY <1>1, <1>2 DEF GoroutineInv, TypeOK
<1>4. /\ gpc' \in [Goroutines -> ListenerPhases]
      /\ gport' \in [Goroutines -> Ports \cup {0}]
      /\ rule' \in [Sessions -> 1..(MaxRules + 1)]
  BY <1>1, <1>2, ConfigAssumption DEF TypeOK, ListenerPhases
<1>5. GoroutineInv'
  <2>1. ASSUME NEW t \in Sessions, NEW k \in 1..MaxRules, k >= rule'[t]
        PROVE  gpc'[<<t, k>>] = "none"
    <3>1. k >= rule[t] /\ <<t, k>> # <<s, rule[s]>>
      BY <1>1, <2>1, ConfigAssumption DEF TypeOK
    <3>2. <<t, k>> \in Goroutines
      BY DEF Goroutines
    <3> QED BY <3>1, <3>2 DEF GoroutineInv, TypeOK
  <2>2. ASSUME NEW g \in Goroutines
        PROVE  /\ gpc'[g] # "none" => gport'[g] \in Ports
               /\ sock'[g] => gpc'[g] \in {"accept", "cleanup"}
    BY <1>2, <1>3 DEF GoroutineInv, TypeOK
  <2> QED BY <2>1, <2>2 DEF GoroutineInv
<1>6. OneSocketPerPort'
  BY <1>2, <1>3 DEF OneSocketPerPort, TypeOK
<1>7. ListenersTrackSockets'
  BY <1>2, <1>3 DEF ListenersTrackSockets, TypeOK
<1>8. NoZombieClient'
  BY DEF NoZombieClient
<1> QED BY <1>1, <1>2, <1>4, <1>5, <1>6, <1>7, <1>8

\* A rule with a port of its own starts its listener.
LEMMA SetupStaticRuleStep ==
    ASSUME IInv, NEW s \in Sessions, SetupStaticRule(s) PROVE IInv'
<1> USE DEF SetupStaticRule, registryVars, poolVars, lockVars
<1> DEFINE p == RulesOf(id[s])[rule[s]]
<1>1. rule[s] \in Nat \ {0}
  BY ConfigAssumption DEF IInv, TypeOK
<1>2. p \in Ports
  BY <1>1, RuleType DEF HandlesRule
<1>3. SpawnListener(s, p) /\ HandlesRule(s) /\ p # 0
  OBVIOUS
<1>4. dynamicMu # s
  BY <1>3, NoneAssumption DEF IInv, HandlerInv
<1> HIDE DEF p
<1>5. /\ TypeOK' /\ GoroutineInv' /\ OneSocketPerPort' /\ ListenersTrackSockets'
      /\ NoZombieClient'
  BY <1>2, <1>3, SpawnListenerStep DEF IInv, TypeOK
<1>6. HandlerInv'
  BY <1>3, <1>4 DEF IInv, TypeOK, HandlerInv, HandlesRule, SpawnListener
<1> QED BY <1>5, <1>6 DEF IInv

\* setupClientListeners is done and the monitor starts.
LEMMA FinishSetupStep ==
    ASSUME IInv, NEW s \in Sessions, FinishSetup(s) PROVE IInv'
<1> USE DEF IInv, FinishSetup, registryVars, socketVars, poolVars, lockVars
<1>1. TypeOK'
  BY DEF TypeOK, SessionPhases
<1>2. HandlerInv'
  <2>1. dynamicMu # None => dynamicMu # s
    BY RulesOfType, ConfigAssumption DEF HandlerInv, HandlesRule, TypeOK
  <2> QED BY <2>1 DEF TypeOK, HandlerInv, HandlesRule
<1>3. (GoroutineInv /\ OneSocketPerPort /\ ListenersTrackSockets)'
  BY DEF GoroutineInv, OneSocketPerPort, ListenersTrackSockets
<1>4. NoZombieClient'
  BY DEF TypeOK, NoZombieClient
<1> QED BY <1>1, <1>2, <1>3, <1>4

\* The steps of AllocateDynamicPort that only touch the pool's lock and probe.
LEMMA AllocStep ==
    ASSUME IInv, NEW s \in Sessions, AllocLock(s) \/ AllocSkip(s) \/ AllocProbe(s)
    PROVE  IInv'
<1> USE ConfigAssumption, NoneAssumption
        DEF IInv, AllocLock, AllocSkip, AllocProbe, Scanning
<1>0. UNCHANGED <<sessionVars, registryVars, socketVars, lockVars, hostBound>>
  OBVIOUS
<1> USE <1>0 DEF sessionVars, registryVars, socketVars, lockVars
<1>1. TypeOK'
  <2>1. dynamicMu' \in Sessions \cup {None}
    BY DEF TypeOK
  <2>2. probe.port + 1 \in Nat
    BY DEF TypeOK
  <2>3. probe' \in [port : Nat, bound : BOOLEAN]
    <3>1. CASE AllocLock(s)
      BY <3>1
    <3>2. CASE AllocSkip(s)
      BY <3>2, <2>2 DEF TypeOK
    <3>3. CASE AllocProbe(s)
      BY <3>3 DEF TypeOK
    <3> QED BY <3>1, <3>2, <3>3
  <2> QED BY <2>1, <2>3 DEF TypeOK
<1>2. HandlerInv'
  <2>1. CASE AllocLock(s)
    BY <2>1 DEF TypeOK, HandlerInv, HandlesRule
  <2>2. CASE AllocSkip(s)
    BY <2>2 DEF TypeOK, HandlerInv, HandlesRule
  <2>3. CASE AllocProbe(s)
    BY <2>3 DEF TypeOK, HandlerInv, HandlesRule
  <2> QED BY <2>1, <2>2, <2>3
<1>3. (GoroutineInv /\ OneSocketPerPort /\ ListenersTrackSockets /\ NoZombieClient)'
  BY DEF GoroutineInv, OneSocketPerPort, ListenersTrackSockets, NoZombieClient
<1> QED BY <1>1, <1>2, <1>3

\* AllocateDynamicPort returns a port and its listener starts.
LEMMA AllocReturnStep ==
    ASSUME IInv, NEW s \in Sessions, AllocReturn(s) PROVE IInv'
<1> USE ConfigAssumption, NoneAssumption DEF AllocReturn, lockVars
<1>1. HandlesRule(s) /\ probe.port \in DynMin..DynMax
  BY DEF IInv, HandlerInv, TypeOK
<1>2. probe.port \in Ports
  BY <1>1
<1>3. /\ TypeOK' /\ GoroutineInv' /\ OneSocketPerPort' /\ ListenersTrackSockets'
      /\ NoZombieClient'
  BY <1>1, <1>2, SpawnListenerStep DEF IInv, TypeOK
<1>4. HandlerInv'
  BY <1>1 DEF IInv, TypeOK, HandlerInv, HandlesRule, SpawnListener
<1> QED BY <1>3, <1>4 DEF IInv

\* The dynamic range is exhausted and the rule is skipped.
LEMMA AllocExhaustedStep ==
    ASSUME IInv, NEW s \in Sessions, AllocExhausted(s) PROVE IInv'
<1> USE ConfigAssumption, NoneAssumption
        DEF IInv, AllocExhausted, registryVars, socketVars, lockVars
<1>1. HandlesRule(s)
  BY DEF HandlerInv
<1>2. rule[s] \in 1..MaxRules
  BY <1>1, RulesOfType DEF HandlesRule, TypeOK
<1>3. TypeOK'
  BY <1>2 DEF TypeOK
<1>4. HandlerInv'
  BY DEF TypeOK, HandlerInv, HandlesRule
<1>5. GoroutineInv'
  <2>1. ASSUME NEW t \in Sessions, NEW k \in 1..MaxRules, k >= rule'[t]
        PROVE  k >= rule[t]
    BY <2>1, <1>2 DEF TypeOK
  <2> QED BY <2>1 DEF GoroutineInv
<1>6. (OneSocketPerPort /\ ListenersTrackSockets /\ NoZombieClient)'
  BY DEF OneSocketPerPort, ListenersTrackSockets, NoZombieClient
<1> QED BY <1>3, <1>4, <1>5, <1>6

\* startProxyListener gives up before it has a socket.
LEMMA ListenRefusedStep ==
    ASSUME IInv, NEW g \in Goroutines, ListenRefused(g) PROVE IInv'
<1> USE DEF IInv, ListenRefused, sessionVars, registryVars, poolVars, lockVars
<1>1. TypeOK'
  BY DEF TypeOK, ListenerPhases
<1>2. HandlerInv' /\ OneSocketPerPort' /\ NoZombieClient'
  BY DEF HandlerInv, HandlesRule, OneSocketPerPort, NoZombieClient
<1>3. GoroutineInv'
  BY DEF GoroutineInv, TypeOK, Goroutines
<1>4. ListenersTrackSockets'
  BY DEF ListenersTrackSockets, TypeOK
<1> QED BY <1>1, <1>2, <1>3, <1>4

\* startProxyListener binds its port and publishes the listener.
LEMMA ListenStep ==
    ASSUME IInv, NEW g \in Goroutines, Listen(g) PROVE IInv'
<1> USE DEF IInv, Listen, sessionVars, poolVars, lockVars
<1>1. gport[g] \in Ports /\ SessionOf(g) \in Sessions
  BY GoroutinePair DEF GoroutineInv
<1>2. TypeOK'
  BY <1>1 DEF TypeOK, ListenerPhases
<1>3. HandlerInv' /\ NoZombieClient'
  BY DEF HandlerInv, HandlesRule, NoZombieClient
<1>4. GoroutineInv'
  BY DEF GoroutineInv, TypeOK, Goroutines
<1>5. OneSocketPerPort'
  BY DEF OneSocketPerPort, CanListen, TypeOK
<1>6. ListenersTrackSockets'
  BY <1>1, NoneAssumption DEF ListenersTrackSockets, TypeOK
<1> QED BY <1>2, <1>3, <1>4, <1>5, <1>6

\* An accept loop ends.
LEMMA AcceptFailsStep ==
    ASSUME IInv, NEW g \in Goroutines, AcceptFails(g) PROVE IInv'
<1> USE DEF IInv, AcceptFails, sessionVars, registryVars, poolVars, lockVars
<1>1. TypeOK'
  <2>1. gport[g] \in Ports
    BY DEF GoroutineInv
  <2>2. forsaken' \in SUBSET Ports
    BY <2>1 DEF TypeOK
  <2> QED BY <2>2 DEF TypeOK, ListenerPhases
<1>2. HandlerInv' /\ OneSocketPerPort' /\ NoZombieClient'
  BY DEF HandlerInv, HandlesRule, OneSocketPerPort, NoZombieClient
<1>3. GoroutineInv'
  BY DEF GoroutineInv, TypeOK, Goroutines
<1>4. ListenersTrackSockets'
  BY DEF ListenersTrackSockets, TypeOK
<1> QED BY <1>1, <1>2, <1>3, <1>4

\* The deferred cleanup deletes the entry of its port: an entry it leaves behind
\* is that of another port, so of another goroutine's socket.
LEMMA CleanupListenerStep ==
    ASSUME IInv, NEW g \in Goroutines, CleanupListener(g) PROVE IInv'
<1> USE DEF IInv, CleanupListener, sessionVars, poolVars
<1>1. TypeOK'
  BY DEF TypeOK, ListenerPhases
<1>2. HandlerInv' /\ NoZombieClient'
  BY DEF HandlerInv, HandlesRule, NoZombieClient
<1>3. GoroutineInv' /\ OneSocketPerPort'
  BY DEF GoroutineInv, OneSocketPerPort, TypeOK, Goroutines
<1>4. ListenersTrackSockets'
  BY DEF ListenersTrackSockets, GoroutineInv, TypeOK
<1> QED BY <1>1, <1>2, <1>3, <1>4

\* The deferred cleanup releases its port.
LEMMA CleanupReleaseStep ==
    ASSUME IInv, NEW g \in Goroutines, CleanupRelease(g) PROVE IInv'
<1> USE DEF IInv, CleanupRelease, sessionVars, poolVars
<1>1. TypeOK'
  BY DEF TypeOK, ListenerPhases
<1>2. HandlerInv' /\ OneSocketPerPort' /\ NoZombieClient'
  BY DEF HandlerInv, HandlesRule, OneSocketPerPort, NoZombieClient
<1>3. GoroutineInv'
  BY DEF GoroutineInv, TypeOK, Goroutines
<1>4. ListenersTrackSockets'
  BY DEF ListenersTrackSockets, TypeOK
<1> QED BY <1>1, <1>2, <1>3, <1>4

\* monitorSession takes s.mu and deletes the client's entry.
LEMMA MonitorSessionStep ==
    ASSUME IInv, NEW s \in Sessions, MonitorSession(s) PROVE IInv'
<1> USE DEF IInv, MonitorSession, socketVars, poolVars
<1>1. TypeOK'
  BY DEF TypeOK, SessionPhases
<1>2. HandlerInv'
  BY DEF TypeOK, HandlerInv, HandlesRule
<1>3. (GoroutineInv /\ OneSocketPerPort /\ ListenersTrackSockets)'
  BY DEF GoroutineInv, OneSocketPerPort, ListenersTrackSockets
<1>4. NoZombieClient'
  BY NoneAssumption DEF NoZombieClient, HandlerInv, TypeOK
<1> QED BY <1>1, <1>2, <1>3, <1>4

\* monitorSession closes the listener it finds under a port and deletes the entry.
LEMMA MonitorCloseStep ==
    ASSUME IInv, NEW s \in Sessions, MonitorClose(s) PROVE IInv'
<1> USE DEF IInv, MonitorClose, sessionVars, poolVars
<1> PICK p \in todo :
        /\ sock' = [g \in Goroutines |-> sock[g] /\ listeners[p] # g]
        /\ listeners' = [listeners EXCEPT ![p] = None]
        /\ todo' = todo \ {p}
        /\ releasing' = p
  OBVIOUS
<1>1. TypeOK'
  BY DEF TypeOK
<1>2. HandlerInv' /\ NoZombieClient'
  BY DEF HandlerInv, HandlesRule, NoZombieClient
<1>3. GoroutineInv' /\ OneSocketPerPort'
  BY DEF GoroutineInv, OneSocketPerPort, TypeOK
<1>4. ListenersTrackSockets'
  <2> SUFFICES ASSUME NEW q \in Ports, listeners'[q] # None
               PROVE  /\ sock'[listeners'[q]]
                      /\ gport[listeners'[q]] = q
                      /\ gpc[listeners'[q]] \in {"accept", "cleanup"}
    BY DEF ListenersTrackSockets
  <2>1. q # p /\ listeners'[q] = listeners[q] /\ p \in Ports
    BY DEF TypeOK
  <2>2. listeners[q] \in Goroutines
    BY <2>1 DEF TypeOK
  <2>3. /\ sock[listeners[q]] /\ gport[listeners[q]] = q
        /\ gpc[listeners[q]] \in {"accept", "cleanup"}
    BY <2>1 DEF ListenersTrackSockets
  <2>4. listeners[p] # listeners[q]
    <3>1. CASE listeners[p] = None
      BY <2>2, <3>1, NoneAssumption
    <3>2. CASE listeners[p] # None
      <4>1. gport[listeners[p]] = p
        BY <2>1, <3>2 DEF ListenersTrackSockets
      <4> QED BY <2>1, <2>3, <4>1
    <3> QED BY <3>1, <3>2
  <2> QED BY <2>1, <2>2, <2>3, <2>4
<1> QED BY <1>1, <1>2, <1>3, <1>4

\* monitorSession releases a port, and ends.
LEMMA MonitorReleaseStep ==
    ASSUME IInv, NEW s \in Sessions, MonitorRelease(s) \/ MonitorEnd(s) PROVE IInv'
<1> USE DEF IInv, MonitorRelease, MonitorEnd, sessionVars, registryVars, socketVars,
            poolVars
<1>1. TypeOK'
  BY DEF TypeOK, SessionPhases
<1>2. HandlerInv'
  BY DEF TypeOK, HandlerInv, HandlesRule
<1>3. (GoroutineInv /\ OneSocketPerPort /\ ListenersTrackSockets)'
  BY DEF GoroutineInv, OneSocketPerPort, ListenersTrackSockets
<1>4. NoZombieClient'
  BY DEF TypeOK, NoZombieClient
<1> QED BY <1>1, <1>2, <1>3, <1>4

\* A session is lost, or another process takes or gives back a port.
LEMMA EnvironmentStep ==
    ASSUME IInv,
           \/ \E s \in Sessions : SessionLost(s)
           \/ \E p \in HostPorts : HostBind(p) \/ HostRelease(p)
    PROVE  IInv'
<1> USE ConfigAssumption
        DEF IInv, SessionLost, HostBind, HostRelease, sessionVars, registryVars,
            socketVars, poolVars, lockVars
<1>1. UNCHANGED <<pc, id, rule, registryVars, socketVars, poolVars, lockVars>>
  OBVIOUS
<1>2. TypeOK'
  <2>1. closed' \in [Sessions -> BOOLEAN]
    BY DEF TypeOK
  <2>2. hostBound' \in SUBSET Ports
    <3>1. hostBound' = hostBound \/ \E p \in Ports :
              hostBound' = hostBound \cup {p} \/ hostBound' = hostBound \ {p}
      OBVIOUS
    <3> QED BY <3>1 DEF TypeOK
  <2> QED BY <1>1, <2>1, <2>2 DEF TypeOK
<1>3. HandlerInv' /\ GoroutineInv' /\ OneSocketPerPort'
  BY <1>1 DEF HandlerInv, HandlesRule, GoroutineInv, OneSocketPerPort
<1>4. ListenersTrackSockets' /\ NoZombieClient'
  BY <1>1 DEF ListenersTrackSockets, NoZombieClient
<1> QED BY <1>2, <1>3, <1>4

\* The invariant only reads the variables.
LEMMA StutterStep == IInv /\ UNCHANGED vars => IInv'
<1> SUFFICES ASSUME IInv, UNCHANGED vars PROVE IInv'
  OBVIOUS
<1> USE DEF IInv, vars, sessionVars, registryVars, socketVars, poolVars, lockVars
<1>1. TypeOK' /\ HandlerInv'
  BY DEF TypeOK, HandlerInv, HandlesRule
<1>2. GoroutineInv' /\ OneSocketPerPort'
  BY DEF GoroutineInv, OneSocketPerPort
<1>3. ListenersTrackSockets' /\ NoZombieClient'
  BY DEF ListenersTrackSockets, NoZombieClient
<1> QED BY <1>1, <1>2, <1>3

\* Every step of the server and of its environment preserves the invariant.
LEMMA NextIInv == IInv /\ [Next]_vars => IInv'
<1> SUFFICES ASSUME IInv, [Next]_vars PROVE IInv'
  OBVIOUS
<1>1. ASSUME NEW s \in Sessions, Handler(s) PROVE IInv'
  BY <1>1, RegisterClientStep, SetupStaticRuleStep, AllocStep, AllocReturnStep,
     AllocExhaustedStep, FinishSetupStep, MonitorSessionStep, MonitorCloseStep,
     MonitorReleaseStep DEF Handler
<1>2. ASSUME NEW g \in Goroutines, ProxyListener(g) PROVE IInv'
  BY <1>2, ListenRefusedStep, ListenStep, AcceptFailsStep, CleanupListenerStep,
     CleanupReleaseStep DEF ProxyListener
<1>3. CASE Environment
  BY <1>3, ConnectStep, RefuseStep, AuthenticateStep, EnvironmentStep
     DEF Environment
<1>4. CASE UNCHANGED vars
  BY <1>4, StutterStep
<1> QED BY <1>1, <1>2, <1>3, <1>4 DEF Next

\* The inductive invariant holds throughout every behaviour.
THEOREM Invariance == Spec => []IInv
BY InitIInv, NextIInv, PTL DEF Spec

-----------------------------------------------------------------------------
(* The safety theorems *)

\* The server's maps, goroutines and sockets keep their types (TypeOK).
THEOREM TypeCorrect == Spec => []TypeOK
<1>1. IInv => TypeOK
  BY DEF IInv
<1> QED BY <1>1, Invariance, PTL

\* s.listeners never leads to a dead listener, for any interleaving of accept
\* loops, deferred cleanups and monitors (ListenersTrackSockets).
THEOREM ListenersSound == Spec => []ListenersTrackSockets
<1>1. IInv => ListenersTrackSockets
  BY DEF IInv
<1> QED BY <1>1, Invariance, PTL

\* s.clients never names a session whose monitor has finished (NoZombieClient).
THEOREM ClientsSound == Spec => []NoZombieClient
<1>1. IInv => NoZombieClient
  BY DEF IInv
<1> QED BY <1>1, Invariance, PTL

-----------------------------------------------------------------------------
(* Teardown *)

\* s.mu excludes monitors and cleanups from each other.
LEMMA NextLockInv ==
    ASSUME IInv, LockInv, [Next]_vars
    PROVE  LockInv'
<1> USE NoneAssumption
    DEF LockInv, sessionVars, registryVars, socketVars, poolVars, lockVars
<1>1. ASSUME NEW s \in Sessions, NEW p, HandlesRule(s), SpawnListener(s, p),
             UNCHANGED <<pc, closed, mu>>
      PROVE  LockInv'
  BY <1>1 DEF SpawnListener, IInv, TypeOK
<1>2. ASSUME NEW s \in Sessions, Handler(s) PROVE LockInv'
  <2>1. CASE RegisterClient(s)
    BY <2>1 DEF RegisterClient, IInv, TypeOK
  <2>2. CASE SetupStaticRule(s)
    BY <1>1, <2>2 DEF SetupStaticRule
  <2>3. CASE AllocLock(s) \/ AllocSkip(s) \/ AllocProbe(s) \/ AllocExhausted(s)
    BY <2>3 DEF AllocLock, AllocSkip, AllocProbe, AllocExhausted
  <2>4. CASE AllocReturn(s)
    BY <1>1, <2>4 DEF AllocReturn, IInv, HandlerInv
  <2>5. CASE FinishSetup(s)
    BY <2>5 DEF FinishSetup, IInv, TypeOK
  <2>6. CASE MonitorSession(s)
    BY <2>6 DEF MonitorSession, IInv, TypeOK
  <2>7. CASE MonitorClose(s) \/ MonitorRelease(s)
    BY <2>7 DEF MonitorClose, MonitorRelease
  <2>8. CASE MonitorEnd(s)
    BY <2>8 DEF MonitorEnd, IInv, TypeOK
  <2> QED BY <1>2, <2>1, <2>2, <2>3, <2>4, <2>5, <2>6, <2>7, <2>8 DEF Handler
<1>3. ASSUME NEW g \in Goroutines, ProxyListener(g) PROVE LockInv'
  BY <1>3 DEF ProxyListener, ListenRefused, Listen, AcceptFails, CleanupListener,
     CleanupRelease, IInv, TypeOK
<1>4. CASE Environment
  BY <1>4 DEF Environment, Connect, Refuse, SessionLost, Authenticate, HostBind,
     HostRelease, IInv, TypeOK
<1>5. CASE UNCHANGED vars
  BY <1>5 DEF vars
<1> QED BY <1>2, <1>3, <1>4, <1>5 DEF Next

\* The listener that a monitor finds under a port still to visit is its session's,
\* unless an accept loop gave the port up.
LEMMA MonitorClosesOwn ==
    ASSUME IInv, OwnPorts, NEW s \in Sessions, pc[s] = "evicting",
           NEW p \in todo \ forsaken, listeners[p] # None
    PROVE  SessionOf(listeners[p]) = s
<1>1. p \in Ports /\ listeners[p] \in Goroutines
  BY DEF IInv, TypeOK
<1>2. sock[listeners[p]] /\ gport[listeners[p]] = p
  BY <1>1 DEF IInv, ListenersTrackSockets
<1>3. PICK g \in Goroutines : SessionOf(g) = s /\ sock[g] /\ gport[g] = p
  BY DEF OwnPorts, Owns
<1> QED BY <1>1, <1>2, <1>3 DEF IInv, OneSocketPerPort

\* Starting a listener leaves every open socket, and every cleanup, on its port.
LEMMA SpawnKeepsSockets ==
    ASSUME IInv, NEW s \in Sessions, NEW p, HandlesRule(s), SpawnListener(s, p),
           NEW g \in Goroutines
    PROVE  /\ sock[g] => gport'[g] = gport[g]
           /\ gpc'[g] = "cleanup" => gpc[g] = "cleanup"
<1>1. rule[s] \in 1..MaxRules
  BY RulesOfType, ConfigAssumption DEF IInv, HandlesRule, TypeOK
<1>2. <<s, rule[s]>> \in Goroutines
  BY <1>1 DEF Goroutines
<1>3. ~sock[<<s, rule[s]>>]
  BY <1>1, <1>2 DEF IInv, GoroutineInv, TypeOK
<1> QED BY <1>2, <1>3 DEF SpawnListener, IInv, TypeOK

\* A step that starts a listener preserves OwnPorts.
LEMMA SpawnOwnPorts ==
    ASSUME IInv, OwnPorts, NEW s \in Sessions, NEW p, HandlesRule(s),
           SpawnListener(s, p),
           UNCHANGED <<pc, closed, activePorts, todo, sock, forsaken>>
    PROVE  OwnPorts'
<1>1. \A t, q : Owns(t, q) => Owns(t, q)'
  BY SpawnKeepsSockets DEF Owns
<1>2. \A g \in Goroutines : /\ gpc'[g] = "cleanup" => gpc[g] = "cleanup"
                            /\ sock[g] => gport'[g] = gport[g]
  BY SpawnKeepsSockets
<1> QED BY <1>1, <1>2 DEF OwnPorts

\* Every step preserves OwnPorts.
LEMMA NextOwnPorts ==
    ASSUME IInv, LockInv, OwnPorts, [Next]_vars
    PROVE  OwnPorts'
<1> USE DEF sessionVars, registryVars, socketVars, poolVars, lockVars
<1>1. ASSUME NEW s \in Sessions, SetupStaticRule(s) PROVE OwnPorts'
  BY <1>1, SpawnOwnPorts DEF SetupStaticRule
<1>2. ASSUME NEW s \in Sessions, AllocReturn(s) PROVE OwnPorts'
  <2>1. HandlesRule(s)
    BY <1>2, NoneAssumption DEF AllocReturn, IInv, HandlerInv
  <2> QED BY <1>2, <2>1, SpawnOwnPorts DEF AllocReturn
<1>3. ASSUME NEW s \in Sessions, MonitorSession(s) PROVE OwnPorts'
  <2>1. \A t \in Sessions : pc[t] # "evicting"
    BY <1>3, NoneAssumption DEF MonitorSession, LockInv
  <2>2. \A p \in activePorts[s] \ forsaken : Owns(s, p)
    BY <1>3 DEF MonitorSession, OwnPorts
  <2>3. \A t, p : Owns(t, p)' <=> Owns(t, p)
    BY <1>3 DEF MonitorSession, Owns
  <2>4. /\ UNCHANGED <<closed, gpc, gport, sock, forsaken, activePorts>>
        /\ todo' = activePorts[s]
    BY <1>3 DEF MonitorSession
  <2>5. \A t \in Sessions : pc'[t] = IF t = s THEN "evicting" ELSE pc[t]
    BY <1>3 DEF MonitorSession, IInv, TypeOK
  <2> QED BY <2>1, <2>2, <2>3, <2>4, <2>5 DEF OwnPorts
<1>4. ASSUME NEW s \in Sessions, MonitorClose(s) PROVE OwnPorts'
  <2>1. PICK p \in todo : /\ sock' = [g \in Goroutines |-> sock[g] /\ listeners[p] # g]
                         /\ todo' = todo \ {p}
    BY <1>4 DEF MonitorClose
  <2>2. /\ UNCHANGED <<pc, closed, activePorts, gpc, gport, forsaken>>
        /\ pc[s] = "evicting"
    BY <1>4 DEF MonitorClose
  <2>3. ASSUME NEW t \in Sessions, NEW q, q \notin forsaken, Owns(t, q),
               t # s \/ q # p
        PROVE  Owns(t, q)'
    <3>1. PICK g \in Goroutines : SessionOf(g) = t /\ sock[g] /\ gport[g] = q
      BY <2>3 DEF Owns
    <3>2. listeners[p] # g
      <4>1. SUFFICES ASSUME listeners[p] = g PROVE FALSE
        OBVIOUS
      <4>2. g # None /\ p \in Ports
        BY NoneAssumption DEF IInv, TypeOK
      <4>3. gport[g] = p
        BY <4>1, <4>2 DEF IInv, ListenersTrackSockets
      <4>4. SessionOf(g) = s
        BY <2>2, <2>3, <3>1, <4>1, <4>2, <4>3, MonitorClosesOwn
      <4> QED BY <2>3, <3>1, <4>3, <4>4
    <3> QED BY <2>1, <2>2, <3>1, <3>2 DEF Owns
  <2>4. \A t \in Sessions : pc[t] = "evicting" => t = s
    BY <2>2 DEF LockInv
  <2>5. ASSUME NEW t \in Sessions, pc[t] \notin {"evicting", "gone"},
               NEW q \in activePorts[t] \ forsaken
        PROVE  Owns(t, q)'
    BY <2>2, <2>3, <2>5 DEF OwnPorts
  <2>6. ASSUME NEW q \in (todo \ {p}) \ forsaken PROVE Owns(s, q)'
    BY <2>2, <2>3 DEF OwnPorts
  <2>7. ASSUME NEW g \in Goroutines, gpc[g] = "cleanup", sock'[g]
        PROVE  gport[g] \in forsaken
    BY <2>1, <2>7 DEF OwnPorts
  <2> QED BY <2>1, <2>2, <2>4, <2>5, <2>6, <2>7 DEF OwnPorts
<1>5. ASSUME NEW g \in Goroutines, Listen(g) PROVE OwnPorts'
  <2>0. UNCHANGED <<pc, closed, todo, gport, forsaken>>
    BY <1>5 DEF Listen
  <2>1. \A t, p : Owns(t, p) => Owns(t, p)'
    BY <1>5 DEF Listen, Owns, IInv, TypeOK
  <2>2. Owns(SessionOf(g), gport[g])'
    BY <1>5 DEF Listen, Owns, IInv, TypeOK
  <2>3. ASSUME NEW t \in Sessions, pc[t] \notin {"evicting", "gone"},
               NEW p \in activePorts'[t] \ forsaken
        PROVE  Owns(t, p)'
    <3>1. p \in activePorts[t] \/ (t = SessionOf(g) /\ p = gport[g])
      BY <1>5, <2>3 DEF Listen, IInv, TypeOK
    <3>2. CASE p \in activePorts[t]
      <4>1. Owns(t, p)
        BY <2>3, <3>2 DEF OwnPorts
      <4> QED BY <2>1, <4>1
    <3>3. CASE t = SessionOf(g) /\ p = gport[g]
      BY <2>0, <2>2, <3>3 DEF Owns
    <3> QED BY <3>1, <3>2, <3>3
  <2>4. ASSUME NEW h \in Goroutines, gpc'[h] = "cleanup"
        PROVE  gpc[h] = "cleanup" /\ sock'[h] = sock[h]
    BY <1>5, <2>4 DEF Listen, IInv, TypeOK
  <2> QED BY <2>0, <2>1, <2>3, <2>4 DEF OwnPorts
<1>6. ASSUME NEW g \in Goroutines, AcceptFails(g) PROVE OwnPorts'
  <2>1. /\ UNCHANGED <<pc, closed, activePorts, todo, gport, sock>>
        /\ forsaken \subseteq forsaken'
        /\ closed[SessionOf(g)]
        /\ sock[g] => gport[g] \in forsaken'
    BY <1>6 DEF AcceptFails
  <2>2. \A t, p : Owns(t, p)' <=> Owns(t, p)
    BY <2>1 DEF Owns
  <2>3. \A h \in Goroutines : gpc'[h] = "cleanup" => h = g \/ gpc[h] = "cleanup"
    BY <1>6 DEF AcceptFails, IInv, TypeOK
  <2> QED BY <2>1, <2>2, <2>3 DEF OwnPorts
<1>7. ASSUME NEW g \in Goroutines, CleanupListener(g) PROVE OwnPorts'
  <2>1. /\ UNCHANGED <<pc, closed, activePorts, todo, gport, forsaken>>
        /\ \A h \in Goroutines : sock'[h] = IF h = g THEN FALSE ELSE sock[h]
        /\ \A h \in Goroutines : gpc'[h] = "cleanup" => gpc[h] = "cleanup"
    BY <1>7 DEF CleanupListener, IInv, TypeOK
  <2>2. sock[g] => gport[g] \in forsaken
    BY <1>7 DEF CleanupListener, OwnPorts
  <2>3. \A t, p : p \notin forsaken /\ Owns(t, p) => Owns(t, p)'
    BY <2>1, <2>2 DEF Owns
  <2>4. \A h \in Goroutines : sock'[h] => sock[h]
    BY <2>1
  <2> QED BY <2>1, <2>3, <2>4 DEF OwnPorts
<1>8. ASSUME NEW g \in Goroutines, ListenRefused(g) \/ CleanupRelease(g)
      PROVE  OwnPorts'
  BY <1>8 DEF ListenRefused, CleanupRelease, OwnPorts, Owns, IInv, TypeOK
<1>9. ASSUME UNCHANGED <<activePorts, gpc, gport, sock, todo, forsaken>>,
             \A t \in Sessions : closed[t] => closed'[t],
             \A t \in Sessions : \/ pc'[t] = pc[t]
                                 \/ /\ pc[t] \notin {"evicting", "gone"}
                                    /\ pc'[t] \notin {"evicting", "gone"}
                                 \/ pc'[t] = "gone"
      PROVE  OwnPorts'
  BY <1>9, GoroutinePair DEF OwnPorts, Owns
<1>10. ASSUME NEW s \in Sessions,
             \/ RegisterClient(s) \/ AllocLock(s) \/ AllocSkip(s) \/ AllocProbe(s)
             \/ AllocExhausted(s) \/ FinishSetup(s) \/ MonitorRelease(s) \/ MonitorEnd(s)
      PROVE  OwnPorts'
  BY <1>9, <1>10 DEF RegisterClient, AllocLock, AllocSkip, AllocProbe,
     AllocExhausted, FinishSetup, MonitorRelease, MonitorEnd, IInv, TypeOK
<1>11. CASE Environment
  BY <1>9, <1>11 DEF Environment, Connect, Refuse, SessionLost, Authenticate,
     HostBind, HostRelease, IInv, TypeOK
<1>12. CASE UNCHANGED vars
  BY <1>9, <1>12 DEF vars
<1> QED
  BY <1>1, <1>2, <1>3, <1>4, <1>5, <1>6, <1>7, <1>8, <1>10, <1>11, <1>12
     DEF Next, Handler, ProxyListener

\* A step closes a socket only if its session is closed or its port was given up.
LEMMA TeardownStep ==
    ASSUME IInv, LockInv, OwnPorts, [Next]_vars, NEW g \in Goroutines, sock[g], ~sock'[g]
    PROVE  closed[SessionOf(g)] \/ gport[g] \in forsaken
<1> USE DEF sessionVars, registryVars, socketVars, poolVars, lockVars
<1> DEFINE Excused == closed[SessionOf(g)] \/ gport[g] \in forsaken
<1>1. ASSUME NEW s \in Sessions, MonitorClose(s) PROVE Excused
  <2>1. PICK p \in todo : listeners[p] = g
    BY <1>1 DEF MonitorClose
  <2>2. p \in Ports /\ gport[g] = p
    BY <2>1, NoneAssumption DEF IInv, TypeOK, ListenersTrackSockets
  <2>3. CASE p \notin forsaken
    <3>1. SessionOf(g) = s
      BY <1>1, <2>1, <2>3, NoneAssumption, MonitorClosesOwn DEF MonitorClose
    <3> QED BY <1>1, <3>1 DEF MonitorClose, LockInv
  <2> QED BY <2>2, <2>3
<1>2. ASSUME NEW h \in Goroutines, CleanupListener(h) PROVE Excused
  BY <1>2 DEF CleanupListener, OwnPorts, IInv, TypeOK
<1>3. ASSUME NEW h \in Goroutines, Listen(h) PROVE FALSE
  BY <1>3 DEF Listen, IInv, TypeOK
<1>4. sock' # sock
  OBVIOUS
<1>5. CASE Environment
  BY <1>4, <1>5 DEF Environment, Connect, Refuse, SessionLost, Authenticate,
     HostBind, HostRelease
<1>6. ASSUME NEW s \in Sessions, Handler(s) PROVE Excused
  BY <1>1, <1>4, <1>6 DEF Handler, RegisterClient, SetupStaticRule, AllocLock,
     AllocSkip, AllocProbe, AllocReturn, AllocExhausted, FinishSetup,
     MonitorSession, MonitorRelease, MonitorEnd
<1>7. ASSUME NEW h \in Goroutines, ProxyListener(h) PROVE Excused
  BY <1>2, <1>3, <1>4, <1>7 DEF ProxyListener, ListenRefused, AcceptFails,
     CleanupRelease
<1>8. CASE UNCHANGED vars
  BY <1>4, <1>8 DEF vars
<1> QED BY <1>5, <1>6, <1>7, <1>8 DEF Next

\* A teardown closes the socket of an open session on no port but one that an
\* accept loop gave up early (TeardownSparesOthers).
THEOREM TeardownSafe == Spec => TeardownSparesOthers
<1>1. Init => LockInv /\ OwnPorts
  BY DEF Init, LockInv, OwnPorts
<1>2. IInv /\ LockInv /\ [Next]_vars => LockInv'
  BY NextLockInv
<1>3. IInv /\ LockInv /\ OwnPorts /\ [Next]_vars => OwnPorts'
  BY NextOwnPorts
<1>4. IInv /\ LockInv /\ OwnPorts /\ [Next]_vars =>
          [\A g \in Goroutines : sock[g] /\ ~sock'[g] =>
              closed[SessionOf(g)] \/ gport[g] \in forsaken]_vars
  BY TeardownStep
<1> QED BY <1>1, <1>2, <1>3, <1>4, Invariance, PTL DEF Spec, TeardownSparesOthers
=============================================================================
