--------------------------- MODULE DashboardProofs ---------------------------
(***************************************************************************)
(* Proofs about the HTTP endpoints, for any finite set of sessions and any *)
(* clients, rules and ports.                                               *)
(*                                                                         *)
(* A request reads the maps and the counters of a registry that goes on    *)
(* meanwhile.  Of the registry the proofs need four things only, collected *)
(* in Effect: connections are counted before they are registered, entries  *)
(* of s.clients are sessions that were counted, s.clients changes only     *)
(* while s.mu is free, and nobody takes s.mu from a reader.                *)
(*                                                                         *)
(* The sum of the bytes of a set of sessions is the number of its units of *)
(* data, so that what the proofs need of sums are facts about Cardinality. *)
(***************************************************************************)
EXTENDS Dashboard, FiniteSetTheorems, TLAPS

-----------------------------------------------------------------------------
(* Sums *)

ByteCounts == [Sessions -> 0..MaxStreams]

\* The units of data that the sessions in R have sent, by the counters b.
UnitsOf(b, R) == {u \in Sessions \X (1..MaxStreams) : u[1] \in R /\ u[2] <= b[u[1]]}

Sum(b, R) == Cardinality(UnitsOf(b, R))

\* A sum is a number: there are finitely many units.
LEMMA SumType ==
    ASSUME NEW b, NEW R
    PROVE  IsFiniteSet(UnitsOf(b, R)) /\ Sum(b, R) \in Nat
<1>1. IsFiniteSet(Sessions \X (1..MaxStreams))
  <2>1. IsFiniteSet(1..MaxStreams)
    BY FS_Interval, DashAssumption
  <2>2. QED
    BY <2>1, FS_Product, DashAssumption
<1>2. UnitsOf(b, R) \in SUBSET (Sessions \X (1..MaxStreams))
  BY DEF UnitsOf
<1>3. IsFiniteSet(UnitsOf(b, R))
  BY <1>1, <1>2, FS_Subset
<1>4. QED
  BY <1>3, FS_CardinalityType DEF Sum

\* A sum does not fall when sessions are added and counters grow.
LEMMA SumMonotone ==
    ASSUME NEW b \in ByteCounts, NEW c \in ByteCounts, \A s \in Sessions : b[s] <= c[s],
           NEW R, NEW Q, R \subseteq Q
    PROVE  Sum(b, R) <= Sum(c, Q)
<1>1. UnitsOf(b, R) \in SUBSET UnitsOf(c, Q)
  <2> SUFFICES ASSUME NEW u \in UnitsOf(b, R) PROVE u \in UnitsOf(c, Q)
    OBVIOUS
  <2>1. u \in Sessions \X (1..MaxStreams) /\ u[1] \in R /\ u[2] <= b[u[1]]
    BY DEF UnitsOf
  <2>2. u[1] \in Sessions /\ u[2] \in Int /\ b[u[1]] \in Int /\ c[u[1]] \in Int
        /\ b[u[1]] <= c[u[1]]
    BY <2>1, DashAssumption DEF ByteCounts
  <2>3. u[2] <= c[u[1]]
    BY <2>1, <2>2
  <2>4. QED
    BY <2>1, <2>3 DEF UnitsOf
<1>2. QED
  BY <1>1, SumType, FS_Subset DEF Sum

\* The sum over R is the counter of one session and the sum over the others: what a
\* turn of the loop over s.clients does.
LEMMA SumSplit ==
    ASSUME NEW b \in ByteCounts, NEW R, NEW s \in R, s \in Sessions
    PROVE  Sum(b, R) = b[s] + Sum(b, R \ {s})
<1> DEFINE Own == {s} \X (1..b[s])
<1>1. b[s] \in Nat /\ b[s] <= MaxStreams
  BY DashAssumption DEF ByteCounts
<1>2. IsFiniteSet(Own) /\ Cardinality(Own) = b[s]
  <2>1. IsFiniteSet({s}) /\ Cardinality({s}) = 1
    BY FS_Singleton
  <2>2. IsFiniteSet(1..b[s]) /\ Cardinality(1..b[s]) = b[s]
    BY <1>1, FS_Interval
  <2>3. IsFiniteSet(Own) /\ Cardinality(Own) = 1 * b[s]
    BY <2>1, <2>2, FS_Product
  <2>4. QED
    BY <1>1, <2>3
<1>3. UnitsOf(b, R) = UnitsOf(b, R \ {s}) \cup Own
  <2>1. ASSUME NEW u \in UnitsOf(b, R) PROVE u \in UnitsOf(b, R \ {s}) \cup Own
    <3>1. u \in Sessions \X (1..MaxStreams) /\ u[1] \in R /\ u[2] <= b[u[1]]
      BY <2>1 DEF UnitsOf
    <3>2. CASE u[1] = s
      <4>1. u = <<u[1], u[2]>> /\ u[2] \in 1..MaxStreams
        BY <3>1
      <4>2. u[2] \in 1..b[s]
        BY <3>1, <3>2, <4>1, <1>1, DashAssumption
      <4>3. QED
        BY <3>2, <4>1, <4>2
    <3>3. CASE u[1] # s
      BY <3>1, <3>3 DEF UnitsOf
    <3>4. QED
      BY <3>2, <3>3
  <2>2. ASSUME NEW u \in UnitsOf(b, R \ {s}) PROVE u \in UnitsOf(b, R)
    BY <2>2 DEF UnitsOf
  <2>3. ASSUME NEW u \in Own PROVE u \in UnitsOf(b, R)
    <3>1. u = <<s, u[2]>> /\ u[1] = s /\ u[2] \in 1..b[s]
      BY <2>3
    <3>2. u[2] \in 1..MaxStreams /\ u[2] <= b[s]
      BY <3>1, <1>1, DashAssumption
    <3>3. QED
      BY <3>1, <3>2 DEF UnitsOf
  <2>4. QED
    BY <2>1, <2>2, <2>3
<1>4. UnitsOf(b, R \ {s}) \cap Own = {}
  <2>1. \A u \in Own : u[1] = s
    OBVIOUS
  <2>2. \A u \in UnitsOf(b, R \ {s}) : u[1] # s
    BY DEF UnitsOf
  <2>3. QED
    BY <2>1, <2>2
<1>5. Cardinality(UnitsOf(b, R \ {s}) \cap Own) = 0
  BY <1>4, FS_EmptySet
<1>6. IsFiniteSet(UnitsOf(b, R \ {s})) /\ Sum(b, R \ {s}) \in Nat
  BY SumType
<1>7. Cardinality(UnitsOf(b, R \ {s}) \cup Own)
          = Cardinality(UnitsOf(b, R \ {s})) + Cardinality(Own)
                - Cardinality(UnitsOf(b, R \ {s}) \cap Own)
  BY <1>2, <1>6, FS_Union
<1>8. QED
  BY <1>1, <1>2, <1>3, <1>5, <1>6, <1>7 DEF Sum

\* A unit more at s is one more in every sum that s is part of.
LEMMA SumOneMore ==
    ASSUME NEW b \in ByteCounts, NEW c \in ByteCounts, NEW s \in Sessions, NEW R,
           c[s] = b[s] + 1, \A t \in Sessions \ {s} : c[t] = b[t]
    PROVE  Sum(c, R) = Sum(b, R) + (IF s \in R THEN 1 ELSE 0)
<1>1. b[s] \in Nat
  BY DashAssumption DEF ByteCounts
<1>2. UnitsOf(c, R \ {s}) = UnitsOf(b, R \ {s})
  BY DEF UnitsOf
<1>3. CASE s \in R
  <2>1. Sum(b, R) = b[s] + Sum(b, R \ {s})
    BY <1>3, SumSplit
  <2>2. Sum(c, R) = c[s] + Sum(c, R \ {s})
    BY <1>3, SumSplit
  <2>3. Sum(c, R \ {s}) = Sum(b, R \ {s}) /\ Sum(b, R \ {s}) \in Nat
    BY <1>2, SumType DEF Sum
  <2>4. QED
    BY <1>1, <1>3, <2>1, <2>2, <2>3
<1>4. CASE s \notin R
  <2>1. R \ {s} = R
    BY <1>4
  <2>2. QED
    BY <1>1, <1>2, <1>4, <2>1, SumType DEF Sum
<1>5. QED
  BY <1>3, <1>4

-----------------------------------------------------------------------------
(* What a step of the registry does to what a request reads *)

\* The part of the registry's state that matters here; mu may be Reader.
RegistryTypes ==
    /\ pc \in [Sessions -> SessionPhases]
    /\ clients \in [ClientIDs -> Sessions \cup {None}]
    /\ gpc \in [Goroutines -> ListenerPhases]

\* A monitor and a deferred cleanup hold s.mu until they have released the ports.
WritersLock ==
    /\ \A s \in Sessions : pc[s] = "evicting" => mu = s
    /\ \A g \in Goroutines : gpc[g] = "release" => mu = g

Effect ==
    /\ RegistryTypes' /\ WritersLock'
    /\ \A s \in Sessions : pc'[s] \in {"idle", "handshake"} \/ pc[s] # "idle"
    /\ \A s \in Sessions : pc'[s] = "idle" => pc[s] = "idle"
    /\ \A c \in ClientIDs : clients'[c] # clients[c] /\ clients'[c] # None =>
                              pc'[clients'[c]] # "idle"
    /\ mu # None => clients' = clients
    /\ mu = Reader => mu' = Reader

\* Handlers register sessions that were counted, and monitors let go of s.mu only
\* when it is their own.
LEMMA HandlerEffect ==
    ASSUME RegistryTypes, WritersLock, NEW s \in Sessions, Handler(s)
    PROVE  Effect
<1> USE NoneAssumption, DashAssumption
    DEF Effect, RegistryTypes, WritersLock, SessionPhases, ListenerPhases,
        sessionVars, registryVars, socketVars, poolVars, lockVars
<1>1. CASE RegisterClient(s)
  BY <1>1 DEF RegisterClient
<1>2. CASE SetupStaticRule(s) \/ AllocReturn(s)
  <2>1. /\ gpc' = [gpc EXCEPT ![<<s, rule[s]>>] = "start"]
        /\ UNCHANGED <<pc, clients, mu>>
    BY <1>2 DEF SetupStaticRule, AllocReturn, SpawnListener
  <2>2. QED
    BY <2>1
<1>3. CASE AllocLock(s) \/ AllocSkip(s) \/ AllocProbe(s) \/ AllocExhausted(s)
  BY <1>3 DEF AllocLock, AllocSkip, AllocProbe, AllocExhausted
<1>4. CASE FinishSetup(s)
  BY <1>4 DEF FinishSetup
<1>5. CASE MonitorSession(s)
  BY <1>5 DEF MonitorSession
<1>6. CASE MonitorClose(s) \/ MonitorRelease(s)
  BY <1>6 DEF MonitorClose, MonitorRelease
<1>7. CASE MonitorEnd(s)
  BY <1>7 DEF MonitorEnd
<1>8. QED
  BY <1>1, <1>2, <1>3, <1>4, <1>5, <1>6, <1>7 DEF Handler

\* Proxy listeners leave s.clients alone.
LEMMA ProxyListenerEffect ==
    ASSUME RegistryTypes, WritersLock, NEW g \in Goroutines, ProxyListener(g)
    PROVE  Effect
<1> USE NoneAssumption, DashAssumption
    DEF Effect, RegistryTypes, WritersLock, SessionPhases, ListenerPhases,
        sessionVars, registryVars, socketVars, poolVars, lockVars
<1>1. CASE ListenRefused(g) \/ Listen(g) \/ AcceptFails(g)
  BY <1>1 DEF ListenRefused, Listen, AcceptFails
<1>2. CASE CleanupListener(g)
  BY <1>2 DEF CleanupListener
<1>3. CASE CleanupRelease(g)
  BY <1>3 DEF CleanupRelease
<1>4. QED
  BY <1>1, <1>2, <1>3 DEF ProxyListener

\* Every step of the registry has the effect that the requests rely on.
LEMMA RegistryEffect ==
    ASSUME RegistryTypes, WritersLock, Next
    PROVE  Effect
<1>1. CASE Environment
  BY <1>1, NoneAssumption, DashAssumption
     DEF Environment, Connect, Refuse, SessionLost, Authenticate, HostBind, HostRelease,
         Effect, RegistryTypes, WritersLock, SessionPhases, ListenerPhases,
         sessionVars, registryVars, socketVars, poolVars, lockVars
<1>2. QED
  BY <1>1, HandlerEffect, ProxyListenerEffect DEF Next

-----------------------------------------------------------------------------
(* The inductive invariant *)

Counting == {s \in Sessions : pc[s] # "idle"}   \* connections that were counted

Kinds == {"status", "metrics", "clients"}

Requests == [step : {"none", "lock", "relock", "sum", "total", "write"},
             kind : {"none", "status", "metrics", "clients"}, clients : Nat, total : Nat,
             left : SUBSET Sessions, bytes : Nat, evicted : BOOLEAN]

\* Which request is at which step, and what it has read so far.
RequestTypes ==
    /\ req \in Requests
    /\ req.step # "none" => req.kind \in Kinds
    /\ req.step = "relock" => req.kind = "metrics"
    /\ req.step \in {"lock", "relock"} => req.bytes = 0
    /\ req.step = "sum" => req.kind \in {"metrics", "clients"}
    /\ req.step = "total" => req.kind \in {"status", "metrics"}
    /\ bytes \in ByteCounts
    /\ last \in Nat /\ totalConnections \in Nat
    /\ evicted \in BOOLEAN

\* A request that loops over s.clients holds s.mu, /api/clients until it is answered.
ReaderLock ==
    req.step = "sum" \/ (req.step = "write" /\ req.kind = "clients") => mu = Reader

\* Every connection is counted once, before its session can be in s.clients, and
\* what a request read before it loads the total is not more than the total.
CountInv ==
    /\ totalConnections = Cardinality(Counting)
    /\ Registered \subseteq Counting
    /\ req.step \in {"relock", "sum", "total"} /\ req.kind # "clients" =>
          req.clients <= totalConnections
    /\ AnswersPlausible

Summing == req.step = "sum" /\ req.kind = "metrics"
Summed == req.step \in {"total", "write"} /\ req.kind = "metrics"

\* What the last scrape showed is still there as long as no client was evicted
\* since; this also holds of the scrape in progress, which becomes the last one.
\* While it sums up, what it has and what it has still to load is not more than
\* what is there, and not less than what the last scrape showed.
SumInv ==
    /\ ~Summed /\ ~evicted => last <= Sum(bytes, Registered)
    /\ Summing => /\ req.left \subseteq Registered
                  /\ req.bytes + Sum(bytes, req.left) <= Sum(bytes, Registered)
                  /\ ~evicted => last <= req.bytes + Sum(bytes, req.left)
    /\ Summed => /\ ~evicted => req.bytes <= Sum(bytes, Registered)
                 /\ req.bytes < last => req.evicted

IInv == RegistryTypes /\ WritersLock /\ RequestTypes /\ ReaderLock /\ CountInv /\ SumInv

\* The sessions in s.clients are finitely many sessions.
LEMMA RegisteredType ==
    ASSUME RegistryTypes
    PROVE  /\ Registered \subseteq Sessions
           /\ Counting \subseteq Sessions
           /\ IsFiniteSet(Counting) /\ Cardinality(Counting) \in Nat
           /\ IsFiniteSet(Registered) /\ Cardinality(Registered) \in Nat
<1>1. Registered \subseteq Sessions /\ Counting \subseteq Sessions
  BY DEF RegistryTypes, Registered, Counting
<1>2. QED
  BY <1>1, DashAssumption, FS_Subset, FS_CardinalityType

\* A server that has just started, without requests.
LEMMA InitIInv == DashInit => IInv
<1> SUFFICES ASSUME DashInit PROVE IInv
  OBVIOUS
<1>1. RegistryTypes /\ WritersLock
  BY DEF DashInit, Init, RegistryTypes, WritersLock, SessionPhases, ListenerPhases
<1>2. RequestTypes /\ ReaderLock
  <2>1. NoRequest \in Requests
    BY DEF NoRequest, Requests
  <2>2. bytes \in ByteCounts
    BY DashAssumption DEF DashInit, ByteCounts
  <2>3. evicted \in BOOLEAN /\ last \in Nat /\ totalConnections \in Nat
    BY DEF DashInit
  <2>4. req = NoRequest /\ NoRequest.step = "none"
    BY DEF DashInit, NoRequest
  <2>5. QED
    BY <2>1, <2>2, <2>3, <2>4 DEF RequestTypes, ReaderLock
<1>3. CountInv
  <2>1. Counting = {} /\ Registered = {}
    BY DEF DashInit, Init, Counting, Registered
  <2>2. QED
    BY <2>1, FS_EmptySet DEF DashInit, NoRequest, CountInv, AnswersPlausible
<1>4. SumInv
  BY SumType DEF DashInit, NoRequest, SumInv, Summing, Summed
<1>5. QED
  BY <1>1, <1>2, <1>3, <1>4 DEF IInv

\* A step of the registry: connections are counted, clients come and go.
LEMMA RegistryKeeps ==
    ASSUME IInv, RegistryStep
    PROVE  IInv'
<1>1. Effect
  BY RegistryEffect DEF IInv, RegistryStep
<1>2. UNCHANGED <<bytes, req, last>>
  BY DEF RegistryStep
<1>3. Cardinality(Counting') = Cardinality(Counting) + Counted /\ Counted \in Nat
  <2> DEFINE Fresh == {s \in Sessions : pc[s] = "idle" /\ pc'[s] = "handshake"}
  <2>1. Counting' = Counting \cup Fresh /\ Counting \cap Fresh = {}
    BY <1>1 DEF Counting, Effect
  <2>2. IsFiniteSet(Fresh) /\ IsFiniteSet(Counting)
        /\ Cardinality(Fresh) \in Nat /\ Cardinality(Counting) \in Nat
    BY DashAssumption, FS_Subset, FS_CardinalityType DEF Counting
  <2>3. Cardinality(Counting \cup Fresh)
            = Cardinality(Counting) + Cardinality(Fresh) - Cardinality(Counting \cap Fresh)
    BY <2>2, FS_Union
  <2>4. Cardinality(Counting \cap Fresh) = 0
    BY <2>1, FS_EmptySet
  <2>5. QED
    BY <2>1, <2>2, <2>3, <2>4 DEF Counted
<1>4. totalConnections' = totalConnections + Counted /\ totalConnections' \in Nat
      /\ totalConnections <= totalConnections'
  BY <1>3 DEF RegistryStep, IInv, RequestTypes
<1>5. Registered' \subseteq Counting'
  <2> SUFFICES ASSUME NEW c \in ClientIDs, clients'[c] # None
               PROVE  clients'[c] \in Counting'
    BY DEF Registered
  <2>1. clients'[c] \in Sessions
    BY <1>1 DEF Effect, RegistryTypes
  <2>2. CASE clients'[c] = clients[c]
    <3>1. clients[c] \in Counting
      BY <2>2 DEF IInv, CountInv, Registered
    <3>2. QED
      BY <1>1, <2>1, <2>2, <3>1 DEF Effect, Counting
  <2>3. CASE clients'[c] # clients[c]
    BY <1>1, <2>1, <2>3 DEF Effect, Counting
  <2>4. QED
    BY <2>2, <2>3
<1>6. RequestTypes' /\ ReaderLock'
  <2>1. evicted' \in BOOLEAN
    BY DEF RegistryStep
  <2>2. RequestTypes'
    BY <1>2, <1>4, <2>1 DEF IInv, RequestTypes
  <2>3. ReaderLock'
    BY <1>1, <1>2 DEF IInv, ReaderLock, Effect
  <2>4. QED
    BY <2>2, <2>3
<1>7. CountInv'
  <2>1. totalConnections' = Cardinality(Counting')
    BY <1>3, <1>4 DEF IInv, CountInv
  <2>2. (req.step \in {"relock", "sum", "total"} /\ req.kind # "clients" =>
            req.clients <= totalConnections)'
    BY <1>2, <1>4 DEF IInv, CountInv, RequestTypes, Requests
  <2>3. AnswersPlausible'
    BY <1>2 DEF IInv, CountInv, AnswersPlausible
  <2>4. QED
    BY <1>5, <2>1, <2>2, <2>3 DEF CountInv
<1>8. ~evicted' => ~evicted /\ Registered \subseteq Registered'
  BY Zenon DEF RegistryStep, Registered
<1>9. ~evicted' => Sum(bytes, Registered) <= Sum(bytes, Registered')
  BY <1>8, SumMonotone DEF IInv, RequestTypes, ByteCounts
<1>10. SumInv'
  <2>1. (~Summed /\ ~evicted => last <= Sum(bytes, Registered))'
    BY <1>2, <1>8, <1>9, SumType DEF IInv, RequestTypes, Requests, SumInv, Summed
  <2>2. (Summing => /\ req.left \subseteq Registered
                    /\ req.bytes + Sum(bytes, req.left) <= Sum(bytes, Registered)
                    /\ ~evicted => last <= req.bytes + Sum(bytes, req.left))'
    <3>1. Summing => Registered' = Registered
      BY <1>1, NoneAssumption, DashAssumption DEF Summing, IInv, ReaderLock, Effect, Registered
    <3>2. QED
      BY <1>2, <1>8, <3>1 DEF IInv, SumInv, Summing
  <2>3. (Summed => /\ ~evicted => req.bytes <= Sum(bytes, Registered)
                   /\ req.bytes < last => req.evicted)'
    BY <1>2, <1>8, <1>9, SumType DEF IInv, RequestTypes, Requests, SumInv, Summed
  <2>4. QED
    BY <2>1, <2>2, <2>3 DEF SumInv
<1>11. QED
  BY <1>1, <1>6, <1>7, <1>10 DEF IInv, Effect

\* A stream ends: its unit is in every sum over a set with its session, whether the
\* request has loaded that session's counter already or not.
LEMMA StreamKeeps ==
    ASSUME IInv, NEW s \in Sessions, StreamEnds(s)
    PROVE  IInv'
<1> USE DEF registryVars, sessionVars, socketVars, lockVars, poolVars
<1>1. UNCHANGED <<pc, clients, gpc, mu, totalConnections, req, last, evicted>>
  BY DEF StreamEnds, vars
<1>2. bytes \in ByteCounts /\ bytes' \in ByteCounts
      /\ bytes'[s] = bytes[s] + 1 /\ \A t \in Sessions \ {s} : bytes'[t] = bytes[t]
  BY DashAssumption DEF StreamEnds, IInv, RequestTypes, ByteCounts
<1>3. \A R : Sum(bytes', R) = Sum(bytes, R) + (IF s \in R THEN 1 ELSE 0)
  BY <1>2, SumOneMore
<1>4. Registered' = Registered /\ Counting' = Counting
  BY <1>1 DEF Registered, Counting
<1>5. RegistryTypes' /\ WritersLock' /\ ReaderLock' /\ CountInv'
  BY <1>1, <1>4 DEF IInv, RegistryTypes, WritersLock, ReaderLock, CountInv, AnswersPlausible
<1>6. RequestTypes'
  BY <1>1, <1>2 DEF IInv, RequestTypes
<1>7. SumInv'
  <2>1. /\ \A R : Sum(bytes, R) \in Nat /\ Sum(bytes', R) \in Nat
        /\ req.bytes \in Nat /\ last \in Nat
    BY SumType DEF IInv, RequestTypes, Requests
  <2>2. Sum(bytes, Registered) <= Sum(bytes', Registered)
        /\ Sum(bytes, req.left) <= Sum(bytes', req.left)
    BY <1>3, <2>1
  <2>3. Summing => req.left \subseteq Registered
                   /\ req.bytes + Sum(bytes', req.left) <= Sum(bytes', Registered)
    <3> SUFFICES ASSUME Summing PROVE req.left \subseteq Registered
                   /\ req.bytes + Sum(bytes', req.left) <= Sum(bytes', Registered)
      OBVIOUS
    <3>1. req.left \subseteq Registered
          /\ req.bytes + Sum(bytes, req.left) <= Sum(bytes, Registered)
      BY DEF IInv, SumInv
    <3>2. CASE s \in req.left
      BY <1>3, <2>1, <3>1, <3>2
    <3>3. CASE s \notin req.left
      BY <1>3, <2>1, <2>2, <3>1, <3>3
    <3>4. QED
      BY <3>2, <3>3
  <2>4. Summing' = Summing /\ Summed' = Summed
    BY <1>1 DEF Summing, Summed
  <2>5. (~Summed /\ ~evicted => last <= Sum(bytes, Registered))'
    BY <1>1, <1>4, <2>1, <2>2, <2>4 DEF IInv, SumInv
  <2>6. Summing /\ ~evicted => last <= req.bytes + Sum(bytes', req.left)
    BY <2>1, <2>2 DEF IInv, SumInv
  <2>7. Summed => /\ ~evicted => req.bytes <= Sum(bytes', Registered)
                  /\ req.bytes < last => req.evicted
    BY <2>1, <2>2 DEF IInv, SumInv
  <2>8. QED
    BY <1>1, <1>4, <2>3, <2>4, <2>5, <2>6, <2>7 DEF SumInv
<1>8. QED
  BY <1>5, <1>6, <1>7 DEF IInv

-----------------------------------------------------------------------------
(* The steps of a request *)

\* A request reads the registry and leaves it as it is; it takes s.mu when it is
\* free, and gives back only what is its own.
LEMMA ReaderSteps ==
    ASSUME RegistryTypes, WritersLock, UNCHANGED <<pc, clients, gpc>>,
           mu' = mu \/ mu \in {None, Reader}
    PROVE  RegistryTypes' /\ WritersLock' /\ Registered' = Registered /\ Counting' = Counting
BY NoneAssumption, DashAssumption
   DEF RegistryTypes, WritersLock, Registered, Counting

\* A request arrives.
LEMMA RequestKeeps ==
    ASSUME IInv, NEW kind \in Kinds, Request(kind)
    PROVE  IInv'
<1> USE DEF registryVars, sessionVars, socketVars, lockVars, poolVars
<1>1. UNCHANGED <<pc, clients, gpc, mu, totalConnections, bytes, last, evicted>>
  BY DEF Request, vars
<1>2. req.step = "none" /\ req'.step = "lock" /\ req'.kind = kind /\ req' \in Requests
      /\ req'.bytes = 0
  BY DEF Request, NoRequest, Requests, Kinds
<1>3. RegistryTypes' /\ WritersLock' /\ Registered' = Registered /\ Counting' = Counting
  BY <1>1, ReaderSteps DEF IInv
<1>4. RequestTypes'
  BY <1>1, <1>2 DEF IInv, RequestTypes
<1>5. ReaderLock' /\ CountInv'
  BY <1>1, <1>2, <1>3 DEF IInv, ReaderLock, CountInv, AnswersPlausible
<1>6. SumInv'
  BY <1>1, <1>2, <1>3 DEF IInv, SumInv, Summing, Summed
<1>7. QED
  BY <1>3, <1>4, <1>5, <1>6 DEF IInv

\* The number of clients that it reads is at most the number of connections.
LEMMA ReadCountsKeeps ==
    ASSUME IInv, ReadCounts
    PROVE  IInv'
<1> USE DEF registryVars, sessionVars, socketVars, lockVars, poolVars, registry
<1>1. UNCHANGED <<pc, clients, gpc, totalConnections, bytes, last, evicted>>
  BY DEF ReadCounts
<1>2. req.step = "lock" /\ mu = None /\ mu' = IF req.kind = "clients" THEN Reader ELSE None
  BY DEF ReadCounts
<1>3. req \in Requests /\ req.kind \in {"status", "metrics", "clients"}
  BY <1>2 DEF IInv, RequestTypes, Kinds
<1>4. RegistryTypes' /\ WritersLock' /\ Registered' = Registered /\ Counting' = Counting
  BY <1>1, <1>2, ReaderSteps DEF IInv
<1>5. Registered \subseteq Sessions /\ Cardinality(Registered) \in Nat
      /\ Cardinality(Registered) <= totalConnections
  BY RegisteredType, FS_Subset DEF IInv, CountInv
<1>6. /\ req'.kind = req.kind /\ req'.clients = Cardinality(Registered)
      /\ req'.bytes = req.bytes
      /\ req.kind = "status" => req'.step = "total"
      /\ req.kind = "metrics" => req'.step = "relock"
      /\ req.kind = "clients" => req'.step = "sum"
      /\ req' \in Requests
  BY <1>3, <1>5 DEF ReadCounts, Requests
<1>7. RequestTypes'
  BY <1>1, <1>2, <1>3, <1>6 DEF IInv, RequestTypes, Kinds
<1>8. ReaderLock'
  BY <1>2, <1>3, <1>6 DEF ReaderLock
<1>9. CountInv'
  BY <1>1, <1>3, <1>4, <1>5, <1>6 DEF IInv, CountInv, AnswersPlausible
<1>10. SumInv'
  <2>1. ~Summing' /\ ~Summed' /\ ~Summed
    BY <1>2, <1>3, <1>6 DEF Summing, Summed
  <2>2. QED
    BY <1>1, <1>4, <2>1 DEF IInv, SumInv
<1>11. QED
  BY <1>4, <1>7, <1>8, <1>9, <1>10 DEF IInv

\* /metrics begins to sum up: everything is still to be loaded.
LEMMA RelockKeeps ==
    ASSUME IInv, Relock
    PROVE  IInv'
<1> USE DEF registryVars, sessionVars, socketVars, lockVars, poolVars, registry
<1>1. UNCHANGED <<pc, clients, gpc, totalConnections, bytes, last, evicted>>
  BY DEF Relock
<1>2. req.step = "relock" /\ req.kind = "metrics" /\ req.bytes = 0 /\ mu = None /\ mu' = Reader
  BY DEF Relock, IInv, RequestTypes
<1>3. RegistryTypes' /\ WritersLock' /\ Registered' = Registered /\ Counting' = Counting
  BY <1>1, <1>2, ReaderSteps DEF IInv
<1>4. Registered \subseteq Sessions
  BY RegisteredType DEF IInv
<1>5. /\ req'.kind = "metrics" /\ req'.clients = req.clients
      /\ req'.step = "sum" /\ req'.left = Registered /\ req'.bytes = req.bytes
      /\ req' \in Requests
  BY <1>2, <1>4 DEF Relock, IInv, RequestTypes, Requests
<1>6. RequestTypes' /\ ReaderLock'
  BY <1>1, <1>2, <1>5 DEF IInv, RequestTypes, ReaderLock, Kinds
<1>7. CountInv'
  BY <1>1, <1>2, <1>3, <1>5 DEF IInv, CountInv, AnswersPlausible
<1>8. SumInv'
  BY <1>1, <1>2, <1>3, <1>5, SumType DEF IInv, SumInv, Summing, Summed, RequestTypes, Requests
<1>9. QED
  BY <1>3, <1>6, <1>7, <1>8 DEF IInv

\* A turn of the loop moves a session's counter from what is left to the sum.
LEMMA LoadBytesKeeps ==
    ASSUME IInv, LoadBytes
    PROVE  IInv'
<1> USE DEF registryVars, sessionVars, socketVars, lockVars, poolVars
<1>1. UNCHANGED <<pc, clients, gpc, mu, totalConnections, bytes, last, evicted>>
  BY DEF LoadBytes, vars
<1>2. PICK s \in req.left : req' = [req EXCEPT !.left = @ \ {s}, !.bytes = @ + bytes[s]]
  BY DEF LoadBytes
<1>3. req.step = "sum" /\ req \in Requests /\ req.kind \in {"metrics", "clients"}
  BY DEF LoadBytes, IInv, RequestTypes
<1>4. s \in Sessions /\ bytes[s] \in Nat
  BY <1>3, DashAssumption DEF IInv, RequestTypes, Requests, ByteCounts
<1>5. /\ req'.step = "sum" /\ req'.kind = req.kind /\ req'.clients = req.clients
      /\ req'.left = req.left \ {s} /\ req'.bytes = req.bytes + bytes[s]
      /\ req' \in Requests
  <2>1. req.left \ {s} \in SUBSET Sessions /\ req.bytes + bytes[s] \in Nat
    BY <1>3, <1>4 DEF Requests
  <2>2. req' \in Requests
    BY <1>2, <1>3, <2>1 DEF Requests
  <2>3. QED
    BY <1>2, <1>3, <2>2 DEF Requests
<1>6. RegistryTypes' /\ WritersLock' /\ Registered' = Registered /\ Counting' = Counting
  BY <1>1, ReaderSteps DEF IInv
<1>7. RequestTypes' /\ ReaderLock'
  BY <1>1, <1>3, <1>5 DEF IInv, RequestTypes, ReaderLock, Kinds
<1>8. CountInv'
  BY <1>1, <1>3, <1>5, <1>6 DEF IInv, CountInv, AnswersPlausible
<1>9. SumInv'
  <2>1. Sum(bytes, req.left) = bytes[s] + Sum(bytes, req.left \ {s})
    BY <1>4, SumSplit DEF IInv, RequestTypes
  <2>2. Sum(bytes, req.left \ {s}) \in Nat /\ req.bytes \in Nat
    BY <1>3, SumType DEF Requests
  <2>3. req'.bytes + Sum(bytes, req'.left) = req.bytes + Sum(bytes, req.left)
    BY <1>4, <1>5, <2>1, <2>2
  <2>4. Summing' = Summing /\ ~Summed /\ ~Summed'
    BY <1>3, <1>5 DEF Summing, Summed
  <2>5. Summing => req'.left \subseteq Registered
    BY <1>5 DEF IInv, SumInv
  <2>6. QED
    BY <1>1, <1>6, <2>3, <2>4, <2>5 DEF IInv, SumInv
<1>10. QED
  BY <1>6, <1>7, <1>8, <1>9 DEF IInv

\* At the end of the loop nothing is left, so the sum is what was there.
LEMMA SumDoneKeeps ==
    ASSUME IInv, SumDone
    PROVE  IInv'
<1> USE DEF registryVars, sessionVars, socketVars, lockVars, poolVars, registry
<1>1. UNCHANGED <<pc, clients, gpc, totalConnections, bytes, last>>
  BY DEF SumDone
<1>2. req.step = "sum" /\ req.left = {} /\ mu = Reader /\ req \in Requests
      /\ req.kind \in {"metrics", "clients"}
  BY DEF SumDone, IInv, RequestTypes, ReaderLock
<1>3. evicted \in BOOLEAN /\ evicted' \in BOOLEAN
  BY DEF SumDone, IInv, RequestTypes
<1>4. /\ req'.kind = req.kind /\ req'.clients = req.clients /\ req'.bytes = req.bytes
      /\ req'.evicted = evicted /\ req' \in Requests
      /\ req.kind = "metrics" => req'.step = "total"
      /\ req.kind = "clients" => req'.step = "write"
  BY <1>2, <1>3 DEF SumDone, Requests
<1>5. RegistryTypes' /\ WritersLock' /\ Registered' = Registered /\ Counting' = Counting
  BY <1>1, <1>2, ReaderSteps DEF IInv
<1>6. RequestTypes'
  BY <1>1, <1>2, <1>3, <1>4 DEF IInv, RequestTypes, Kinds
<1>7. ReaderLock'
  <2>1. req.kind = "clients" => mu' = Reader
    BY <1>2 DEF SumDone
  <2>2. QED
    BY <1>2, <1>4, <2>1 DEF ReaderLock
<1>8. CountInv'
  BY <1>1, <1>2, <1>4, <1>5 DEF IInv, CountInv, AnswersPlausible
<1>9. SumInv'
  <2>1. CASE req.kind = "metrics"
    <3>1. Summing /\ Summed' /\ ~Summing'
      BY <1>2, <1>4, <2>1 DEF Summing, Summed
    <3>2. Sum(bytes, req.left) = 0 /\ Sum(bytes, Registered) \in Nat
      <4>1. UnitsOf(bytes, req.left) = {}
        BY <1>2 DEF UnitsOf
      <4>2. QED
        BY <4>1, FS_EmptySet, SumType DEF Sum
    <3>3. req.bytes \in Nat /\ last \in Nat
      BY <1>2 DEF IInv, RequestTypes, Requests
    <3>4. req.bytes <= Sum(bytes, Registered)
      BY <3>1, <3>2, <3>3 DEF IInv, SumInv
    <3>5. req.bytes < last => evicted
      BY <3>1, <3>2, <3>3 DEF IInv, SumInv
    <3>6. (req.bytes < last)' => req'.evicted
      BY <1>1, <1>4, <3>5
    <3>7. (req.bytes <= Sum(bytes, Registered))'
      BY <1>1, <1>4, <1>5, <3>4
    <3>8. QED
      BY <3>1, <3>6, <3>7 DEF SumInv
  <2>2. CASE req.kind = "clients"
    <3>1. ~Summing' /\ ~Summed /\ ~Summed'
      BY <1>2, <1>4, <2>2 DEF Summing, Summed
    <3>2. evicted' => evicted
      BY DEF SumDone
    <3>3. ~evicted' => ~evicted
      BY <1>3, <2>2 DEF SumDone
    <3>4. QED
      BY <1>1, <1>5, <3>1, <3>3 DEF IInv, SumInv
  <2>3. QED
    BY <1>2, <2>1, <2>2
<1>10. QED
  BY <1>5, <1>6, <1>7, <1>8, <1>9 DEF IInv

\* The total is loaded last: it is at least what was read before.
LEMMA LoadTotalKeeps ==
    ASSUME IInv, LoadTotal
    PROVE  IInv'
<1> USE DEF registryVars, sessionVars, socketVars, lockVars, poolVars
<1>1. UNCHANGED <<pc, clients, gpc, mu, totalConnections, bytes, last, evicted>>
  BY DEF LoadTotal, vars
<1>2. req.step = "total" /\ req \in Requests /\ req.kind \in {"status", "metrics"}
      /\ totalConnections \in Nat
  BY DEF LoadTotal, IInv, RequestTypes
<1>3. /\ req'.kind = req.kind /\ req'.clients = req.clients /\ req'.bytes = req.bytes
      /\ req'.evicted = req.evicted /\ req'.step = "write"
      /\ req'.total = totalConnections /\ req' \in Requests
  BY <1>2 DEF LoadTotal, Requests
<1>4. RegistryTypes' /\ WritersLock' /\ Registered' = Registered /\ Counting' = Counting
  BY <1>1, ReaderSteps DEF IInv
<1>5. RequestTypes' /\ ReaderLock'
  BY <1>1, <1>2, <1>3 DEF IInv, RequestTypes, ReaderLock, Kinds
<1>6. CountInv'
  BY <1>1, <1>2, <1>3, <1>4 DEF IInv, CountInv, AnswersPlausible
<1>7. SumInv'
  <2>1. ~Summing' /\ Summed' = Summed
    BY <1>2, <1>3 DEF Summing, Summed
  <2>2. QED
    BY <1>1, <1>3, <1>4, <2>1 DEF IInv, SumInv
<1>8. QED
  BY <1>4, <1>5, <1>6, <1>7 DEF IInv

\* The answer is written: the sum of this scrape is the last one shown.
LEMMA ReplyKeeps ==
    ASSUME IInv, NEW sent \in BOOLEAN, Reply(sent)
    PROVE  IInv'
<1> USE DEF registryVars, sessionVars, socketVars, lockVars, poolVars, registry
<1>1. UNCHANGED <<pc, clients, gpc, totalConnections, bytes, evicted>>
  BY DEF Reply
<1>2. req.step = "write" /\ req \in Requests /\ last \in Nat
  BY DEF Reply, IInv, RequestTypes
<1>3. mu' = mu \/ mu \in {None, Reader}
  BY <1>2 DEF Reply, Unlocked, IInv, ReaderLock
<1>4. req' \in Requests /\ req'.step = "none" /\ req'.kind = "none"
  BY DEF Reply, NoRequest, Requests
<1>5. RegistryTypes' /\ WritersLock' /\ Registered' = Registered /\ Counting' = Counting
  BY <1>1, <1>3, ReaderSteps DEF IInv
<1>6. last' \in Nat /\ last' = IF req.kind = "metrics" THEN req.bytes ELSE last
  BY <1>2 DEF Reply, Requests
<1>7. RequestTypes' /\ ReaderLock'
  BY <1>1, <1>4, <1>6 DEF IInv, RequestTypes, ReaderLock
<1>8. CountInv'
  BY <1>1, <1>4, <1>5 DEF IInv, CountInv, AnswersPlausible
<1>9. SumInv'
  <2>1. ~Summing' /\ ~Summed' /\ Summed = (req.kind = "metrics")
    BY <1>2, <1>4 DEF Summing, Summed
  <2>2. QED
    BY <1>1, <1>5, <1>6, <2>1 DEF IInv, SumInv
<1>10. QED
  BY <1>5, <1>7, <1>8, <1>9 DEF IInv

\* Every step keeps the inductive invariant.
LEMMA NextIInv == IInv /\ [DashNext]_dashVars => IInv'
<1> SUFFICES ASSUME IInv, [DashNext]_dashVars PROVE IInv'
  OBVIOUS
<1>1. CASE UNCHANGED dashVars
  <2>1. UNCHANGED <<pc, clients, gpc, mu, totalConnections, bytes, req, last, evicted>>
    BY <1>1 DEF dashVars, vars, sessionVars, registryVars, socketVars, lockVars
  <2>2. QED
    BY <2>1 DEF IInv, RegistryTypes, WritersLock, RequestTypes, ReaderLock, CountInv,
                AnswersPlausible, SumInv, Summing, Summed, Registered, Counting
<1>2. CASE DashNext
  BY <1>2, RegistryKeeps, StreamKeeps, RequestKeeps, ReadCountsKeeps, RelockKeeps,
     LoadBytesKeeps, SumDoneKeeps, LoadTotalKeeps, ReplyKeeps DEF DashNext, Serve, Kinds
<1>3. QED
  BY <1>1, <1>2

\* The inductive invariant holds of every behaviour of server and requests.
THEOREM Invariance == DashSpec => []IInv
BY InitIInv, NextIInv, PTL DEF DashSpec

\* No answer of /api/status or /metrics shows more clients than connections, however
\* clients connect and disconnect between the reads.
THEOREM AnswersMakeSense == DashSpec => []AnswersPlausible
<1>1. IInv => AnswersPlausible
  BY DEF IInv, CountInv
<1>2. QED
  BY <1>1, Invariance, PTL

\* The sum of bytes falls from one scrape of /metrics to the next only if a client
\* left s.clients in between, although the counters are loaded one by one.
THEOREM BytesFallWithClients == DashSpec => []BytesFallOnlyOnEviction
<1>1. IInv => BytesFallOnlyOnEviction
  BY DEF IInv, SumInv, Summed, BytesFallOnlyOnEviction
<1>2. QED
  BY <1>1, Invariance, PTL

\* While a request loops over s.clients, or writes what it found there to a slow
\* peer, no handler, monitor or listener changes the map.
THEOREM ReadersExcludeWriters == DashSpec => [][mu = Reader => UNCHANGED clients]_dashVars
<1>1. IInv /\ [DashNext]_dashVars => [mu = Reader => UNCHANGED clients]_dashVars
  <2> SUFFICES ASSUME IInv, DashNext, mu = Reader PROVE UNCHANGED clients
    OBVIOUS
  <2>1. CASE RegistryStep
    <3>1. Effect
      BY <2>1, RegistryEffect DEF IInv, RegistryStep
    <3>2. QED
      BY <3>1, DashAssumption DEF Effect
  <2>2. QED
    BY <2>1 DEF DashNext, Serve, ReadCounts, Relock, LoadBytes, SumDone, LoadTotal, Reply,
                StreamEnds, Request, vars, registry, registryVars
<1>2. QED
  BY <1>1, Invariance, PTL DEF DashSpec
=============================================================================
