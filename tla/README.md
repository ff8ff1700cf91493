# TLA+ verification of go-reverse-tunnel

go-reverse-tunnel exposes services behind a NAT: a client dials a public server over
one control connection (yamux over TCP or TLS), proves that it knows a token, and the
server then listens on public ports and forwards every user connection over a yamux
stream to the client, which relays it to a local target. The program is small; what is
hard in it is what its goroutines do to shared maps, ports, streams and sockets while
sessions come and go. That is what these modules are about.

## 1. Inventory

| part | code | state | operations | talks to |
|---|---|---|---|---|
| session registry | `pkg/server/server.go` 90-125, 186-358, 409-451 | `clients`, `listeners`, `usedPorts`, `ActivePorts`, `mu`, `dynamicMu` | `handleControlConn`, `setupClientListeners`, `startProxyListener`, `monitorSession`, `AllocateDynamicPort`, `ReleaseDynamicPort` | the relay (one goroutine per accepted user), yamux (`CloseChan`, `IsClosed`), the host's ports |
| rate limiter, accept loop | `server.go` 27-88, 166-184 | `attempts`, `totalConnections`, `authFailures` | `Allow`, `cleanup`, the loop of `Start` | starts `handleControlConn` |
| client life cycle | `pkg/client/client.go` 25-144 | `session`, `isShutdown`, `reconnectAttempts` | `Start`, `Stop`, `connectAndServe` | the server, the signal handler of `cmd/client` |
| control authentication | `server.go` 204-295, `client.go` 122-167 | nonce, answer, deadlines | `authenticateStream`, `performHMACAuth`, `validateClientConfig` | the registry, the client life cycle |
| relay | `server.go` 360-407, `client.go` 169-231, `pkg/udp/udp.go` | streams, sockets, `ActiveStreams`, `activeStreams` | `handleProxyConnection`, `handleIncomingStream`, `StartServerForwarding`, `StartClientForwarding` | users, targets, yamux |
| obfuscation | `server.go` 651-682, `client.go` 269-300 | none but the key | `obfuscatedConn.Read`, `Write` | lies between TCP and yamux |
| padding handshake | `pkg/obfuscate/obfuscate.go` | bytes in flight | `WriteJunk`, `ReadJunk`, both handshakes | a connection, the layer above |
| protocol authentication | `pkg/protocol/auth.go` | nonce, packet, acknowledgement | `ServerAuthenticate`, `ClientAuthenticate` | a connection |
| pipes | `pkg/tunnel/mux.go` | the channel `done`, snappy's buffers | `Pipe`, `PipeWithCompress` | two connections |
| UDP over TCP | `pkg/tunnel/udp.go` | the frame being read or written | `ForwardUDPOverTCP` | a UDP socket and a connection |
| configuration, TLS | `pkg/config/config.go`, `server.go` 127-164 and 453-469, `client.go` 75-97 and 233-257, `cmd/*` | the files, the environment | load, save, defaults, overrides, validation, bind, dial | everybody |
| dashboard, metrics | `server.go` 471-624, `pkg/server/dashboard.go` | reads the registry and the counters | `/metrics`, `/api/status`, `/api/clients` | the registry, under `mu.RLock` |
| metrics, notify, `protocol/tls.go`, SOCKS5 | remaining packages | - | registration, one HTTP POST, loading files | - |

The packages `obfuscate`, `protocol` and `tunnel` are libraries that neither program
calls: the server and the client have their own authentication, obfuscation
and copying. They share no state with the rest, and are modelled one by one.

**Interleavings.** `handleControlConn`, the listener goroutines, their deferred
functions and the monitors of several sessions of one client run at the same time and
delete entries of the same maps by key, not by owner. `AllocateDynamicPort` does system
calls under `dynamicMu` while `mu` is free, and `ReleaseDynamicPort` takes `dynamicMu`
while `mu` is held; a request to the dashboard holds `mu` for reading while it writes to
its peer. On a forwarded connection two goroutines of the server read one
stream and two write it.

**Failures.** A session can be lost at every step; `net.Listen`, `Accept`, `OpenStream`
and every dial can fail; ports can be taken by other processes of the host; connections
break with bytes in flight; the server is stopped in the middle of a save.

**Timeouts.** 10 s for the challenge on both sides, 5 s for the stream header, 5 idle
minutes in the UDP proxies, 5 s between reconnections, a sliding minute in the limiter,
15 s for writing an HTTP answer. The handshakes of `pkg/protocol/auth.go` and
`pkg/obfuscate` and the copies of `pkg/tunnel` set no deadline at all.

What makes each part correct:

* registry: no map entry outlives or misnames what it stands for; a teardown touches
  only its own session; set-up and teardown end; a dynamic port has one holder;
* limiter: no window admits more than the limit, and forgetting changes no decision;
* client: at most one session, none after a failure, at most one made after `Stop`;
* authentication: only token holders are accepted, every challenge is decided;
* relay: no reordering, exact gauges, handlers that end, complete requests and answers;
* obfuscation: what is read is what was written, however TCP cuts it (it is not);
* padding handshake: nothing of it is left for the layer above, and both ends return;
* protocol authentication: both ends agree on who was accepted, and only a wrong token is
  rejected;
* pipes and UDP over TCP: order, boundaries and contents survive, and no goroutine does;
* configuration: both programs get what was configured, a saved file loads again in any
  environment;
* dashboard: answers that are put together from several reads make sense, and no reader
  blocks the registry for good.

`PROJECT.json` lists the hazards line by line with the properties that watch them.

## 2. Plan

Done, in this order: `SessionRegistry` and its proofs; `RateLimiter`, its abstract
specification `SlidingWindow` and the proof that the one implements the other;
`ClientLoop`; `ControlAuth`; `Relay`; `XorConn`; then `Pipes`, `Dashboard` (composed with
`SessionRegistry`), `ProtocolAuth`, `JunkHandshake`, `UdpOverTcp` with its abstract
specification `DatagramChannel`, and `Startup`.

Then the proofs: every invariant, action property and refinement that a passing run
checks is a theorem now (section 5).

Left: a composition of `ClientLoop`, `ControlAuth` and `SessionRegistry` (one client that
reconnects to one server, where both ends close the session), and the safety cores of the
liveness properties (that a goroutine which has to move on is always able to), which the
proof system cannot combine into the liveness properties themselves.

## 3. The modules and the code

### SessionRegistry (`MCSessionRegistry`, `SessionRegistryProofs`)

One program counter `pc[s]` per control connection follows `handleControlConn`,
`setupClientListeners` and, started as their last step, `monitorSession`. One counter
`gpc[<<s, k>>]` follows the `startProxyListener` goroutine of rule `k`. `clients`,
`listeners`, `usedPorts` and `activePorts` are the server's maps (a listener is named
by its goroutine, `sock` says whether its socket is open); `id`, `closed` and `rule`
are what the goroutines know.

`s.mu` protects every access to the maps, so its critical sections are single actions,
with two exceptions: `monitorSession` and the deferred function of
`startProxyListener` wait for `dynamicMu` while they hold `s.mu`. For these, `mu` names
the holder and the section has several steps (`MonitorSession`, `MonitorClose`,
`MonitorRelease`, `MonitorEnd`; `CleanupListener`, `CleanupRelease`), between which
`AllocateDynamicPort` can run on. `AllocateDynamicPort` itself is `AllocLock`,
`AllocSkip`, `AllocProbe` (the probing `net.Listen`), `AllocReturn` and
`AllocExhausted`.

Abstractions: a peer that authenticates gives the answer that the server expects (what
the repository's own client sends is the subject of `ControlAuth`); the webhook calls
change nothing; `ActivePorts` is a set, and the monitor visits it in any order.
`Accept` may fail on an open listener (for instance when the process runs out of
descriptors): the loop tries again while its session is open, and leaves when it is closed,
which is `AcceptFails`. A loop that leaves an open socket gives its port up before the
session's monitor has visited it; `forsaken` remembers these ports for the properties.
`HostBind` and `HostRelease` are other processes that use ports of the host.

### RateLimiter, SlidingWindow (`RateLimiterProofs`)

`Admit` and `Refuse` are one turn of `Start`'s loop, `Allow` included; `Cleanup` is one
pass of `cleanup`; both hold `rl.mu` throughout. A slice of times is a set of entries
that carry the number of their connection, so equal times are not merged; the empty
set stands for a missing key as well (both make `Allow` start from nothing).
`admitted` is a history variable that nothing is removed from. `authFailures` is counted by
`Start` here and by `handleControlConn` in `ControlAuth`; each module has its share of it
(`challengeFailures` is the latter), and no property equates it with anything. `SlidingWindow` decides
from the full history; the refinement mapping sends `admitted` to it and hides
`attempts`.

### ClientLoop (`ClientLoopProofs`)

`pc` follows the goroutine of `Start` through `connectAndServe`; `Stop` is the other
goroutine. Every failure of the dial, the stream, the nonce or the accept loop is an
action, and the server may close a session at any time. `isShutdown` is read without
the lock; at the top of the loop `c.session` is nil, so a stale read is the same as a
`Stop` just after the read, and needs no outcome of its own. `stopSaw` and `stopDials` are
history: the session that `Stop` found, and how many had been made by then.

### ControlAuth (`ControlAuthProofs`)

Both ends of one session each: the peer opens the stream, reads the nonce and writes
its answer; the handler sends the nonce, reads and compares. MACs are symbolic terms,
nonces are fresh (named by their session), `EncodeToString` is injective and never the
identity. A peer sends the MAC as hexadecimal text (`performHMACAuth`) or as bytes
(what the comparison of line 271 amounts to). Which token, identifier and form a peer has
is decided when it opens the stream. Identifiers contain no colon.

### Relay (`RelayProofs`)

The connections of one forwarded port. A record per connection holds the phase of each
of its nine goroutines, the closed ends of its stream, and the chunks in flight; data
are numbered chunks smaller than every buffer. `OpenStream` starts three goroutines on
the server, as the code does: the two copies and the UDP proxy, which reads and writes
the same stream and may not get the UDP port: `Rival` is whoever has it already, another
process or the proxy of a connection that is not modelled. The client's two ways of forwarding, TCP
and UDP, share their actions. A yamux stream (v0.1.1) lets its reader drain what is
buffered and then returns end of file once either side has closed; writes fail after a
close of one's own side or the loss of the session. Left out: yamux's flow-control
window and the reset it sends to a stream that stays half closed.

### XorConn

Bytes are numbered; on the wire a byte carries the index of the key byte it was xored
with, and `Read` decodes it exactly if it applies the same one (the key's 16 bytes are
different). A `Read` returns any prefix of what has arrived, as TCP does.

### JunkHandshake (`ProtocolProofs`)

Each end's `phase` follows `PerformClientHandshake` or `PerformServerHandshake`. The
number of values of a byte is the constant `Byte`, so that the wrap-around of a length of
256 to 0 happens with a small one. Each end has a stream of bytes on their way to it; the
connection may break at any time and lose any suffix of them, and a `Write` to a broken
connection may succeed. The layer above writes and reads once its end is done.

### ProtocolAuth (`ProtocolProofs`)

The two functions over one connection, with ids from no byte to one byte more than the
length byte can say. Either function may be called at any time, or never (`ClientCall`,
`ServerCall`). The nonce and the HMAC are one unit of the stream each, and an HMAC is a term
over token, nonce and id. There is one nonce per exchange and no earlier exchange to replay.

### Pipes (`PackagesProofs`)

The caller and the two goroutines. `Copy` is one turn of `io.Copy`: without compression it
writes the chunk, with it the chunk goes to snappy's `BufferedWriter`, which writes when it
has no room left. The network holds `Window` chunks for a peer, so that a peer that does
not read makes a goroutine block in its `Write`. A peer may speak plain bytes to a pipe that
compresses. `done` is a channel with room for two, and the deferred calls close `dst` before
`src`.

### UdpOverTcp, DatagramChannel (`ProtocolProofs`)

Both ends of a TCP connection with two goroutines each. A datagram is a sequence of bytes
that all hold its number, so bytes cut from the wrong place show. The two-byte length is
`Prefix` and `Uint16` over bytes of `Byte` values. `DatagramChannel` is what a pair
of forwarders promises; the refinement mapping keeps `taken` and `delivered` and hides the
frames.

### Startup (`PackagesProofs`)

From files and environment to a control channel: `LoadServerConfig` and
`LoadClientConfig` with defaults, overrides and validation as operators,
`SaveServerConfig` in its two steps (the file is emptied, also one that was saved before;
then it is written, or the encoder fails), the bind of `Server.Start` and the client's dial
with `buildTLSConfig`. The server may be restarted at any time, in the middle of a save
too, and every start may see another environment. `Encoded` is what `encoding/json` does to a
configuration: all settings are written, and a string that is not UTF-8, which only the
environment can bring in, comes back as another one. Settings are abstracted to what the
control flow tells apart; a certificate file can be missing, unreadable, unparsable or good.
`SaveServerConfig` is part of the package's interface, and no program calls it, so a save may
happen whenever a configuration is loaded. `saved` is history: the configuration whose save
left the file.

### Dashboard (`MCDashboard`, `DashboardProofs`)

Extends `SessionRegistry`: every step of the registry is a step here, together with
`totalConnections`, and `mu` gets one more possible holder, the value `Reader`, for a
request that holds it for reading. A request takes its numbers where the code does:
`ReadCounts` under the first lock, `Relock`, `LoadBytes` (one client at a time) and `SumDone`
under the second, `LoadTotal` after it. `handleAPIClients` keeps its lock until `Reply`. The
handlers of `DashboardHandler` do the same reads. One request is served at a time, since
readers do not exclude each other.

### Packages (`MCPackages`)

Puts the parts of the libraries and of the start that share no state side by side and lets a
behaviour run one of them; their constants and the assumptions on them are here.
`MCPackages` adds the rate limiter, the client's loop and the authentication of the control
channel as three more parts of that kind, so that one run checks them all. It extends their
modules, checks their own properties, and gives each part the fairness its own module
states, for the behaviours that run it.

## 4. Runs

Passing runs:

| run | what it shows |
|---|---|
| `registry` | two sessions of two clients with three rules, a fixed port inside the dynamic range, another process on the host: a listed listener is an open socket on its port with a live accept loop; a listed client has its monitor still to run; a teardown closes no socket of an open session, except on a port that an accept loop gave up early; dead sessions are evicted, set-up gets through its rules (the two locks never block each other for good), closed listeners retire, with the same exception |
| `relay` | no chunk is repeated or reordered and the header never reaches the target; the stream gauges are exact on every path; the server's handler of a user who left ends, and the client's handler of a target that closed |
| `packages` | rate limiter: the limit holds in every window, the memory per address is bounded, and it implements `SlidingWindow`; client loop: no session leaks on any failure path, `Stop` would close the session in use, costs at most one more connection and none if it found a session, and then ends `Start`, and a lost session is left; control authentication: only token holders are accepted, under their own identifier, every challenge is decided and a refused peer finds out; padding handshake: padding that fits the length byte stays below, and both ends return; protocol authentication: agreement, only wrong tokens rejected, both functions return once both are called or the connection is broken; pipes: in order, flushed before the teardown, ending as a whole; UDP over TCP implements `DatagramChannel` and leaves no goroutine; start-up: the port range is the configured one, a completely saved configuration loads in every environment with all that this environment does not give, an empty CA file fails closed |
| `dashboard` | beside two sessions of the registry: never more active clients than connections in one answer, byte sums that fall only when a client left, every request answered |

Runs that refute what a document, a test or a message of the code says (each is a
finding in `PROJECT.json`, with the line it quotes):

| run | what happens |
|---|---|
| `registry_listed` | `monitorSession` of a replaced session deletes its successor's entry |
| `registry_reconnect` | a reconnecting client meets its own old listener and never gets the port |
| `auth_token` | the client's hexadecimal MAC is encoded again before the comparison |
| `relay_transparent` | the read of the header swallows the user's first bytes, and the UDP proxy takes parts of the response |
| `padding_full` | a padding of 256 bytes is announced as none, and the layer above reads it |
| `auth_unfit` | `ClientAuthenticate` with an empty id waits for the nonce before it looks at the id; with nobody at the other end, as in the test, it never returns |
| `xor_stream` | two obfuscated `Write`s that one `Read` returns, or one that two `Read`s return, are decoded with the wrong bytes of the key |
| `dashboard_counter` | the bytes that `/metrics` announces as a counter are a sum over the clients connected now, and fall when one leaves |

The same models have behaviours that no run states as a property, because the code
has nothing that would prevent them; the hazards name the lines. A listener that binds
after its session's monitor has run, or whose map entry the late cleanup of another
goroutine deleted, stays open for ever. A dynamic port is released twice and can be
assigned to two open sessions; one whose listener cannot be bound is never given back.
After an `Accept` that failed on an open socket of a closed session, that session's monitor
can close the listener that another, open session has on the port by then, and the accept loop
of that one spins until its session is closed: `TeardownSparesOthers` and
`ClosedListenerRetires` say that there is no other way to this. The UDP
proxy of a second connection on a port fails to bind and closes that connection's
stream. Handlers wait for ever for a silent user (server, after the session is lost) or
a silent target (client, after the user left). A `Stop` between the
check of `isShutdown` and the publication of the session closes nothing, and `Start` serves
the new session for as long as the server keeps it. A pipe with compression keeps a chunk in its buffer while both
peers wait. `ServerAuthenticate` waits for ever for a client that refused its own id. An
interrupted save leaves a configuration that does not load. A server with a certificate
and no key serves raw TCP. When the control address cannot be bound with certificate files,
the error goes to a shadowed variable and `Start` uses a nil listener. Connections that the
limiter drops count as authentication failures and not as connections.

**Bounds.** Two sessions are a session and the one that replaces it, or two clients that
compete for a port; two ports, one of which another process may take, make exhaustion,
collisions and reuse happen. (What a run checks beside liveness is proved for any number, here and in the
other modules.) Two
units of window, a limit of two and four units of time contain bursts on both sides of a
window's edge and a cleanup between them. Three dials let a client fail, recover and
be stopped at each point. Two handshakes show that one does not disturb the
other. Two chunks each way show gaps and reorderings; a datagram is written between
them; the UDP port is free or taken. A key of three bytes with Writes and Reads of up to
four covers lengths below, at and above the key's. Bytes of three values are the smallest
with a length that wraps, a length of one and one in between; bytes of two values and
datagrams of 0, 1 and 3 bytes use no, one and both bytes of the prefix. One chunk of
buffer, one of window and two to send let a buffer be written out, a flush be needed and a
writer block. Port values below, above and on both sides of the default range give every
order of the two ends; an environment gives a setting or not, as text, as other bytes or as
a word that cannot be parsed. Restarts and saves are not bounded. Two sessions, one stream each, and any number of requests let a
client leave between any two reads.

`MaxDials`, `MaxTime`, `MaxFailures`, `UpLen`, `DownLen`, `Datagrams`, `MaxWrite`,
`MaxBytes`, `Data`, `Chunks` and `MaxStreams` are the bounds; they appear in guards and in
the ranges of inputs only. No run uses symmetry. Deadlock checking is off: sessions, dials,
chunks and datagrams run out, a server nobody dials rests, and functions return.

**Fairness.** Weak fairness of what the Go scheduler runs: handlers, monitors and
listener goroutines, each on its own. An `Accept` is only fair on a closed socket (on an
open one nothing forces it to return). In `ClientLoop` the goroutine of `Start` is fair
because its dials and reads have deadlines; `Stop` and the server are not. In
`ControlAuth` the handler is fair (its read has a deadline), a peer only once its
session is closed. In `Relay` the copies are fair as far as data or an end of file is
there, the UDP loops because of their idle deadline; users and targets never are. In the
parts of `Packages` the goroutines and functions of the code are fair once they are called,
and what is outside is not: peers need not send or read, nobody need call
`ServerAuthenticate` or `ClientAuthenticate`, datagrams need not come, a connection need not
break. (Both ends of the padding handshake are called, as its tests and its names say.)
In `Dashboard` the handler of a request is fair (`net/http` gives it a goroutine, and
`WriteTimeout` ends a write that its peer does not take), and so are the goroutines of the
registry; clients, streams and requests are not. Weak fairness is enough everywhere.

## 5. Proofs

`tlapm` checks every proof to the last leaf, for all values of the constants.

**SessionRegistryProofs.** Neither `ListenersTrackSockets` nor `NoZombieClient` is
inductive: that an entry's socket is still open after another goroutine's cleanup
follows from the operating system giving a port to one socket at a time, and that from
which goroutines have sockets at all. The inductive invariant is

    IInv == TypeOK /\ HandlerInv /\ GoroutineInv /\ OneSocketPerPort
                   /\ ListenersTrackSockets /\ NoZombieClient

where `HandlerInv` says that identifiers are known from the handshake on and that the
holder of `dynamicMu` is in the middle of a rule 0 with its candidate in the range, and
`GoroutineInv` that goroutines exist for the rules passed so far and have sockets only
in their loop. One lemma per action; `Invariance`, `TypeCorrect`, `ListenersSound` and
`ClientsSound` follow. `TeardownSafe` adds two invariants: `LockInv` (whoever is inside a
long critical section is the holder of `mu`) and `OwnPorts` (the sockets on the ports that a
session records stay its own until its monitor visits them, unless the port is forsaken). The
exception is needed: a loop that leaves after a failed `Accept` gives its port up while its
session's `ActivePorts` still names it.

**RateLimiterProofs.** The key is `Remembers`: what the limiter keeps of an address and
what it ever admitted agree on the entries of the current window. With it `IInv` is
inductive, and `LimitHolds`, `MemoryBounded` and `Refinement` (`LimiterSpec =>
ForgettingIsInvisible`, that is, `SlidingWindow`'s specification) follow.

**ClientLoopProofs.** That the deferred function closes the last open session is true only
if the session it knows is the only one that is open. `IInv` adds to `NoSessionLeak` what is
published at each place of `Start` (`Published`) and that session numbers are fresh
(`Numbered`). `NeverLeaksSession` and `StopClosesTheRightSession` follow.
`StopBoundsConnections` also needs to know where the loop can be after a `Stop` (`Stopped`): past the check
with no connection made since, or never dialling again.

**ControlAuthProofs.** `AcceptedProvedToken` speaks of sessions that were accepted; it holds
because of what was on the stream before: the nonce of a session is its own (`OwnNonce`),
and an answer was computed by the session's peer from that nonce, its token and its
identifier (`OwnAnswer`), who is chosen when the stream is opened and not before.

**RelayProofs.** A step changes one connection, so the invariant is one of a record
(`Good`), and each action is shown to be one of a few kinds of change of a record. For
`OrderPreserved` the chunks have to be in order through all the places they pass, from the
target back to the user's socket (`UpOrder`) and the other way round (`DownOrder`), the
header has to be nowhere but in front of the stream (`Bounds`), and the copy to the target
must not run before the header was taken off (`Phases`). The two readers of the
stream make losses possible, never reorderings: each of them takes a prefix. `StreamsCounted`
is proved with the cardinalities of the sets of running handlers.

**DashboardProofs.** Of the registry the proofs need four facts, one lemma per action
(`Effect`): a connection is counted before it is registered, entries of `s.clients` were
counted, `s.clients` changes only while `s.mu` is free, and nobody takes `s.mu` from a
reader. `CountInv` then bounds the clients of an answer in progress by the connections so
far. A sum of bytes is the number of units of data sent, so facts about sums are facts about
cardinalities; `SumInv` says that what a scrape has and has still to load lies between the
last answer and what is there, unless a client was evicted. `AnswersMakeSense`,
`BytesFallWithClients` and `ReadersExcludeWriters` (no run checks this one: `s.clients` does
not change under a reader) follow.

**PackagesProofs.** `BootInv`: a configuration is used or saved only after it was accepted,
and the file of a complete save is what the encoder made of the saved configuration. What was
accepted passes defaults and validation again whatever the environment is by then
(`AcceptedLoadsAgain`): a port range that is complete and in order is not touched, and neither
the encoder nor an override makes a token empty. `PipeInv` follows one
direction from the receiving peer back to the sending one (`Lane`): each piece continues the
one before it, without a gap for as long as the goroutine copies or flushes after an end of
file.

**ProtocolProofs.** Three protocols over a byte stream, and one idea: what is on its way
continues, at the place where the reader is, the stream that the writer's choices determine.

* `JunkInv`: with the padding that the other end drew, what is in the network continues what
  this end has taken, and on a usable connection no byte of padding is missing. The last part
  is what makes `PaddingStaysBelow` inductive: without it an end could finish the discard
  early and read padding as data.
* `AuthInv`: the order of nonce, packet and verdict. It has to say that nothing is on its way
  to a server that has not sent its nonce, and that the acknowledgement on the wire is the
  server's verdict.
* `UdpInv`: there are offsets at which the frames of the datagrams taken so far end; what is
  in the stream is cut out of those frames behind the bytes that the reader has consumed.
  The offsets are an existentially quantified function, which stands for the sum that a
  recursive definition would compute. `LengthSurvives` shows that two bytes hold every
  length. `ChannelImplemented` maps the delivery to `DatagramChannel`'s, the read of a
  datagram to its sending, and every other step to a stutter.

**Assumptions.** They are on constants only, and TLC evaluates them in the runs.

| assumption | says | because |
|---|---|---|
| `ConfigAssumption` | rules are ports or 0, the dynamic range consists of ports | `Ports` are the ports that the configuration names: positive ones (a loaded range is, see `RangeIsConfigured`), with 0 as the request for a dynamic one |
| `NoneAssumption` | sessions, goroutines and nil are different things | they are of different types |
| `LimiterAssumption` | limit and window are positive | `NewRateLimiter(20, 1*time.Minute)` is the only call |
| `RelayAssumption` | finitely many connections, bounds are numbers, the rival of the UDP port is none of them | any execution has finitely many connections |
| `DashAssumption` | finitely many sessions; a reader is neither a session nor a listener goroutine | as above |
| `ByteAssumption` | a byte has values | 256 in the code |
| `PipeAssumption` | room for a chunk in buffer and network | snappy's and TCP's buffers are not empty |
| `UdpAssumption` | a datagram's length fits two bytes | the read buffer of 65535 bytes |
| `PortAssumption` | the default range is positive and in order; ports are any integers | 40000 and 50000 in `SetServerDefaults` |

**Only model-checked.** The liveness properties, which are out of the proof system's reach:
`DeadSessionEvicted`, `SetupTerminates`, `ClosedListenerRetires`, `StopEndsSession`,
`LostSessionLeft`, `RefusedPeerNotices`, `ChallengeDecided`, `UserLeavesHandlerEnds`,
`TargetLeavesHandlerEnds`, `HandshakeEnds`, `BothReturn`, `PipeEnds`, `AllReturn` and
`EveryRequestAnswered`. The properties of the runs that expect a violation are false, and
TLC shows how.

## 6. Not modelled

* Webhooks (`sendWebhookAlert`, `pkg/notify`): a goroutine sends one HTTP request and
  ignores what comes of it; no state depends on it.
* The HTML of the dashboard and `SummaryString`: layout. pprof: the standard library's.
* `pkg/metrics`: registration of collectors. `pkg/client/socks5.go`: a third-party server
  with a configuration. `pkg/protocol/tls.go`: files handed to `crypto/tls`; no program
  calls it.
* `SaveClientConfig` (the code of `SaveServerConfig`) and the settings that no decision
  depends on: addresses, log levels, the webhook's URL.
* The client's byte counters and `GetStats`, and `authFailures` in the dashboard's answers:
  single atomic loads that nothing is derived from.
* yamux itself: flow control, keep-alives and the reset of half-closed streams appear only
  as a session that is lost or a stream that is closed. Cryptography is symbolic.
