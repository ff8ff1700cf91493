------------------------------ MODULE Dashboard ------------------------------
(***************************************************************************)
(* The HTTP endpoints of pkg/server (handleMetrics, handleAPIStatus,       *)
(* handleAPIClients, and the same three of DashboardHandler) on top of the *)
(* session registry whose maps and counters they read.  A handler takes    *)
(* s.mu for reading, several times or across a Write to its peer, and      *)
(* loads the counters between and after.                                   *)
(*                                                                         *)
(* One request is served at a time: readers do not exclude each other, and *)
(* what matters is how a reader interleaves with the registry.  Its hold   *)
(* of s.mu is the value Reader of mu.                                      *)
(***************************************************************************)
EXTENDS SessionRegistry, FiniteSets

CONSTANTS Reader,        \* mu is held by the request, for reading
          MaxStreams     \* bound: streams that end, one unit of data each

ASSUME DashAssumption ==
    /\ IsFiniteSet(Sessions)
    /\ MaxStreams \in Nat
    /\ Reader \notin Sessions \cup Goroutines \cup {None}

VARIABLES
    totalConnections,  \* Server.totalConnections
    bytes,             \* ClientSession.BytesTx of each session
    req,               \* the request being served
    last,              \* history: the bytes that the last /metrics showed
    evicted            \* history: did a client lose its place since their sum?

dashVars == <<vars, totalConnections, bytes, req, last, evicted>>

NoRequest == [step |-> "none", kind |-> "none", clients |-> 0, total |-> 0,
              left |-> {}, bytes |-> 0, evicted |-> FALSE]

DashInit ==
    /\ Init
    /\ totalConnections = 0
    /\ bytes = [s \in Sessions |-> 0]
    /\ req = NoRequest
    /\ last = 0 /\ evicted = FALSE

-----------------------------------------------------------------------------
(* The counters *)

\* Mutant of Counted: a connection is counted when its handler has finished.
CountedWhenFinished == Cardinality({s \in Sessions : pc[s] = "setup" /\ pc'[s] = "serving"})

\* The accept loop counts a connection before it starts the handler.
Counted == Cardinality({s \in Sessions : pc[s] = "idle" /\ pc'[s] = "handshake"})

\* A step of the registry, with what it counts.
RegistryStep ==
    /\ Next
    /\ totalConnections' = totalConnections + Counted
    /\ evicted' = (evicted \/ \E c \in ClientIDs : clients[c] # None /\ clients'[c] # clients[c])
    /\ UNCHANGED <<bytes, req, last>>

\* atomic.AddUint64 when a stream ends, before or after its session was closed and evicted.
StreamEnds(s) ==
    /\ pc[s] \in {"setup", "serving", "evicting", "gone"}
    /\ bytes[s] < MaxStreams
    /\ bytes' = [bytes EXCEPT ![s] = @ + 1]
    /\ UNCHANGED <<vars, totalConnections, req, last, evicted>>

-----------------------------------------------------------------------------
(* The requests *)

\* Mutant of Registered: sessions that are closed but not evicted are passed over.
RegisteredOpen == {s \in {clients[c] : c \in ClientIDs} \ {None} : ~closed[s]}

\* The sessions that a loop over s.clients visits.
Registered == {clients[c] : c \in ClientIDs} \ {None}

registry == <<sessionVars, registryVars, socketVars, todo, releasing, poolVars,
              hostBound, forsaken>>

\* authMiddleware lets a request with the token through; it answers any other with
\* 401 and reads nothing.
Request(kind) ==
    /\ req.step = "none"
    /\ req' = [NoRequest EXCEPT !.step = "lock", !.kind = kind]
    /\ UNCHANGED <<vars, totalConnections, bytes, last, evicted>>

\* RLock, len(s.clients) and RUnlock in one; /api/clients keeps the lock.
ReadCounts ==
    /\ req.step = "lock" /\ mu = None
    /\ req' = [req EXCEPT !.clients = Cardinality(Registered),
                          !.left = IF req.kind = "clients" THEN Registered ELSE {},
                          !.step = CASE req.kind = "status" -> "total"
                                     [] req.kind = "metrics" -> "relock"
                                     [] req.kind = "clients" -> "sum"]
    /\ mu' = IF req.kind = "clients" THEN Reader ELSE None
    /\ UNCHANGED <<registry, totalConnections, bytes, last, evicted>>

\* handleMetrics takes the lock a second time for the sum of the bytes.
Relock ==
    /\ req.step = "relock" /\ mu = None
    /\ mu' = Reader
    /\ req' = [req EXCEPT !.step = "sum", !.left = Registered]
    /\ UNCHANGED <<registry, totalConnections, bytes, last, evicted>>

\* One turn of the loop over s.clients.
LoadBytes ==
    /\ req.step = "sum"
    /\ \E s \in req.left :
          req' = [req EXCEPT !.left = @ \ {s}, !.bytes = @ + bytes[s]]
    /\ UNCHANGED <<vars, totalConnections, bytes, last, evicted>>

\* The loop is done: handleMetrics unlocks, handleAPIClients does not.
SumDone ==
    /\ req.step = "sum" /\ req.left = {}
    /\ mu' = IF req.kind = "metrics" THEN None ELSE mu
    /\ req' = [req EXCEPT !.step = IF req.kind = "metrics" THEN "total" ELSE "write",
                          !.evicted = evicted]
    /\ evicted' = (evicted /\ req.kind # "metrics")
    /\ UNCHANGED <<registry, totalConnections, bytes, last>>

\* totalConnections is loaded after the maps were read.
LoadTotal ==
    /\ req.step = "total"
    /\ req' = [req EXCEPT !.total = totalConnections, !.step = "write"]
    /\ UNCHANGED <<vars, totalConnections, bytes, last, evicted>>

\* Mutant of Unlocked: the lock is kept when the peer does not take the answer.
KeptOnError(sent) == IF req.kind = "clients" /\ sent THEN None ELSE mu

\* defer RUnlock()
Unlocked(sent) == IF req.kind = "clients" THEN None ELSE mu

\* The answer is written; a peer that does not read it, and the write fails when
\* WriteTimeout ends, makes no difference to the handler.
Reply(sent) ==
    /\ req.step = "write"
    /\ mu' = Unlocked(sent)
    /\ last' = IF req.kind = "metrics" THEN req.bytes ELSE last
    /\ req' = NoRequest
    /\ UNCHANGED <<registry, totalConnections, bytes, evicted>>

Serve == ReadCounts \/ Relock \/ LoadBytes \/ SumDone \/ LoadTotal \/ \E sent \in BOOLEAN : Reply(sent)

DashNext ==
    \/ RegistryStep \/ Serve
    \/ \E s \in Sessions : StreamEnds(s)
    \/ \E kind \in {"status", "metrics", "clients"} : Request(kind)

DashSpec == DashInit /\ [][DashNext]_dashVars

\* net/http runs the handler in a goroutine of its own, and WriteTimeout ends a Write
\* that the peer does not take.  The goroutines of the registry run too.
DashFairness ==
    /\ WF_dashVars(Serve)
    /\ \A s \in Sessions : WF_dashVars(Handler(s) /\ RegistryStep)
    /\ \A g \in Goroutines : WF_dashVars(CleanupRelease(g) /\ RegistryStep)

DashFairSpec == DashSpec /\ DashFairness

-----------------------------------------------------------------------------
(* Properties *)

\* An answer of /api/status or /metrics never shows more active clients than there
\* were connections, although the two are read at different times and clients
\* connect and disconnect in between.
AnswersPlausible ==
    req.step = "write" /\ req.kind # "clients" => req.clients <= req.total

\* The sum of bytes that /metrics shows goes down from one scrape to the next only
\* when a client left s.clients in between: loading the counters one by one, with
\* streams that end meanwhile, loses nothing.
BytesFallOnlyOnEviction ==
    req.step = "write" /\ req.kind = "metrics" /\ req.bytes < last => req.evicted

\* Every request is answered, also while sessions come and go, and also after a
\* reader of /api/clients that stalled while its handler held s.mu: neither the
\* registry nor an earlier request keeps the lock.
EveryRequestAnswered == req.step # "none" ~> req.step = "none"

-----------------------------------------------------------------------------
(* What the metrics announce and the code does not keep *)

\* pkg/server/server.go:571: reverse_tunnel_bytes_transmitted_total is a counter,
\* "Total bytes sent.": a later scrape never shows less.
BytesCounterMonotone ==
    req.step = "write" /\ req.kind = "metrics" => req.bytes >= last
=============================================================================
