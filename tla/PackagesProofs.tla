---------------------------- MODULE PackagesProofs ----------------------------
(***************************************************************************)
(* Proofs about the parts that share no state: the start of the programs   *)
(* and the pipes.  The byte streams of pkg/obfuscate, pkg/protocol and of  *)
(* the UDP framing are in ProtocolProofs.                                  *)
(*                                                                         *)
(* A part that does not run stands still, so an invariant of one part is   *)
(* preserved by the steps of the others.                                   *)
(***************************************************************************)
EXTENDS Packages, TLAPS

-----------------------------------------------------------------------------
(* Startup: from configuration files to a control channel *)

\* The settings of a server configuration.
Settings == {"token", "obfuscation", "min", "max", "cert", "auto"}

\* A configuration that LoadServerConfig has accepted: it has a token, and its range
\* is complete and in order.
Accepted(c) ==
    /\ c = [s \in Settings |-> c[s]]
    /\ c.min \in Int /\ c.max \in Int /\ 0 < c.min /\ 0 < c.max /\ c.min <= c.max
    /\ c.token # ""

\* A configuration was accepted before it is used or saved, and the file is what the
\* encoder made of the configuration saved last, unless that save was cut short.
BootInv ==
    /\ server \notin {"off", "fatal"} => Accepted(cfg)
    /\ saved = Boot!Absent => file \in {Boot!Absent, Boot!Torn}
    /\ saved # Boot!Absent => Accepted(saved) /\ file = Boot!Encoded(saved)
    /\ client # "off" => server = "serving"
    /\ JunkCaFailsClosed

\* A configuration has a range of ports, so it is neither the mark for no
\* configuration nor the one for an emptied file.
LEMMA AcceptedIsFile ==
    ASSUME NEW c, Accepted(c)
    PROVE  c # Boot!Absent /\ c # Boot!Torn
<1>1. DOMAIN c = Settings
  BY DEF Accepted
<1>2. DOMAIN Boot!Absent = {"none"} /\ DOMAIN Boot!Torn = {"torn"}
  BY DEF Boot!Absent, Boot!Torn
<1>3. QED
  BY <1>1, <1>2 DEF Settings

\* The defaults are ports themselves.
LEMMA DefaultsArePorts == DefMin \in Nat \ {0} /\ DefMax \in Nat \ {0}
<1>1. DefMin \in Nat /\ DefMin # 0 /\ DefMax \in Nat /\ DefMin <= DefMax
  BY PortAssumption
<1>2. DefMax # 0
  BY <1>1
<1>3. QED
  BY <1>1, <1>2

\* A default is a port, so an end of the range is one, configured or not.
LEMMA DefaultIsPort ==
    \A v \in Int, d \in Nat \ {0} : Boot!Default(v, d) \in Int /\ 0 < Boot!Default(v, d)
BY DEF Boot!Default

\* What passes defaults, environment and validation is accepted.
LEMMA LoadedIsAccepted ==
    ASSUME NEW f \in Boot!ServerFiles,
           NEW c, c = Boot!ApplyEnvOverrides(Boot!SetServerDefaults(f)),
           Boot!ValidateServerConfig(c)
    PROVE  Accepted(c)
<1> USE DEF Boot!ServerFiles, Boot!ApplyEnvOverrides, Boot!SetServerDefaults, Boot!Default,
            Boot!Override, Boot!ValidateServerConfig
<1>1. c = [s \in Settings |-> c[s]]
  <2>1. f = [s \in Settings |-> f[s]]
    BY DEF Settings
  <2> DEFINE d == Boot!SetServerDefaults(f)
  <2>2. d = [s \in Settings |-> d[s]]
    BY <2>1
  <2> HIDE DEF d
  <2>3. c = Boot!ApplyEnvOverrides(d)
    BY DEF d
  <2>4. QED
    BY <2>2, <2>3
<1>2. c.min \in Int /\ c.max \in Int /\ 0 < c.min /\ 0 < c.max /\ c.min <= c.max
  <2>1. f.min \in Int /\ f.max \in Int
    BY PortAssumption
  <2>2. c.min = Boot!Default(f.min, DefMin) /\ c.max = Boot!Default(f.max, DefMax)
    OBVIOUS
  <2>3. c.min <= c.max
    OBVIOUS
  <2>4. DefMin \in Nat \ {0} /\ DefMax \in Nat \ {0}
    BY DefaultsArePorts
  <2>5. QED
    BY <2>1, <2>2, <2>3, <2>4, DefaultIsPort
<1>3. c.token # ""
  OBVIOUS
<1>4. QED
  BY <1>1, <1>2, <1>3 DEF Accepted

\* The file of an accepted configuration passes defaults, environment and validation
\* whatever the environment is now, and yields every setting that the environment does
\* not give and JSON could hold.
LEMMA AcceptedLoadsAgain ==
    ASSUME NEW c, Accepted(c),
           NEW d, d = Boot!ApplyEnvOverrides(Boot!SetServerDefaults(Boot!Encoded(c)))
    PROVE  /\ Boot!ValidateServerConfig(d) /\ Accepted(d)
           /\ \A s \in Settings \ {"token", "obfuscation"} : d[s] = c[s]
           /\ env.token = "" /\ c.token # "bytes" => d.token = c.token
           /\ env.obfuscation \notin {"true", "false"} => d.obfuscation = c.obfuscation
<1> DEFINE e == Boot!Encoded(c)
<1>1. /\ e = [s \in Settings |-> e[s]] /\ e.token = Boot!JsonString(c.token)
      /\ \A s \in Settings \ {"token"} : e[s] = c[s]
  BY DEF Accepted, Settings, Boot!Encoded
<1>2. Boot!SetServerDefaults(e) = e
  <2>1. e.min \in Int /\ e.max \in Int /\ 0 < e.min /\ 0 < e.max
    BY <1>1 DEF Accepted, Settings
  <2>2. Boot!Default(e.min, DefMin) = e.min /\ Boot!Default(e.max, DefMax) = e.max
    BY ONLY <2>1 DEF Boot!Default
  <2>3. [e EXCEPT !.min = e.min, !.max = e.max] = e
    BY <1>1
  <2>4. QED
    BY <2>2, <2>3 DEF Boot!SetServerDefaults
<1> HIDE DEF e
<1>3. d = Boot!ApplyEnvOverrides(e)
  BY <1>2 DEF e
<1>4. d = [s \in Settings |-> d[s]]
  BY <1>1, <1>3 DEF Settings, Boot!ApplyEnvOverrides
<1>5. d.token = Boot!Override(e.token, env.token)
      /\ d.obfuscation = (IF env.obfuscation \in {"true", "false"}
                          THEN env.obfuscation = "true" ELSE e.obfuscation)
  BY <1>1, <1>3 DEF Settings, Boot!ApplyEnvOverrides
<1>6. \A s \in Settings \ {"token", "obfuscation"} : d[s] = e[s]
  BY <1>1, <1>3 DEF Settings, Boot!ApplyEnvOverrides
<1>7. \A s \in Settings \ {"token", "obfuscation"} : d[s] = c[s]
  BY <1>1, <1>6
<1>8. d.token # ""
  BY <1>1, <1>5 DEF Boot!Override, Boot!JsonString, Accepted
<1>9. d.min = c.min /\ d.max = c.max
  BY <1>7 DEF Settings
<1>10. Boot!ValidateServerConfig(d) /\ Accepted(d)
  BY <1>4, <1>8, <1>9 DEF Accepted, Boot!ValidateServerConfig
<1>11. env.token = "" /\ c.token # "bytes" => d.token = c.token
  BY <1>1, <1>5 DEF Boot!Override, Boot!JsonString
<1>12. env.obfuscation \notin {"true", "false"} => d.obfuscation = c.obfuscation
  BY <1>1, <1>5 DEF Settings
<1>13. QED
  BY <1>7, <1>10, <1>11, <1>12

\* What was encoded is a configuration file.
LEMMA EncodedIsFile ==
    ASSUME NEW c, Accepted(c)
    PROVE  Boot!Encoded(c) # Boot!Absent /\ Boot!Encoded(c) # Boot!Torn
<1>1. DOMAIN Boot!Encoded(c) = Settings
  BY DEF Accepted, Boot!Encoded
<1>2. DOMAIN Boot!Absent = {"none"} /\ DOMAIN Boot!Torn = {"torn"}
  BY DEF Boot!Absent, Boot!Torn
<1>3. QED
  BY <1>1, <1>2 DEF Settings

\* At the beginning nothing is deployed.
LEMMA BootInit == Init => BootInv
BY DEF Init, PartsInit, Boot!Init, BootInv, Boot!Absent, JunkCaFailsClosed, Boot!JunkCaFailsClosed

\* A step of the start keeps BootInv.
LEMMA BootNext ==
    ASSUME BootInv, Boot!Next
    PROVE  BootInv'
<1> USE DEF BootInv, JunkCaFailsClosed, Boot!JunkCaFailsClosed
<1>1. CASE Boot!Deploy
  BY <1>1 DEF Boot!Deploy, Accepted
<1>2. CASE Boot!LoadServerConfig
  <2>1. UNCHANGED <<env, file, saved, client, ccfg>> /\ server = "off" /\ client = "off"
    BY <1>2 DEF Boot!LoadServerConfig
  <2>2. CASE server' = "fatal" /\ UNCHANGED cfg
    BY <2>1, <2>2
  <2>3. CASE ~(server' = "fatal" /\ UNCHANGED cfg)
    <3>1. PICK f \in CASE file = Boot!Absent -> Boot!ServerFiles
                        [] file = Boot!Torn -> {} [] OTHER -> {file} :
              LET c == Boot!ApplyEnvOverrides(Boot!SetServerDefaults(f))
              IN Boot!ValidateServerConfig(c) /\ server' = "loaded" /\ cfg' = c
      BY <1>2, <2>3 DEF Boot!LoadServerConfig
    <3>2. CASE file = Boot!Absent
      <4>1. Accepted(cfg')
        BY <3>1, <3>2, LoadedIsAccepted
      <4>2. QED
        BY <2>1, <3>1, <4>1
    <3>3. CASE file # Boot!Absent
      <4>1. f = file /\ file # Boot!Torn
        BY <3>1, <3>3
      <4>2. Accepted(saved) /\ f = Boot!Encoded(saved)
        BY <3>3, <4>1
      <4>3. Accepted(cfg')
        BY <3>1, <4>2, AcceptedLoadsAgain
      <4>4. QED
        BY <2>1, <3>1, <4>3
    <3>4. QED
      BY <3>2, <3>3
  <2>4. QED
    BY <2>2, <2>3
<1>3. CASE Boot!SaveBegins
  BY <1>3 DEF Boot!SaveBegins
<1>4. CASE Boot!SaveEnds
  <2>1. UNCHANGED <<env, cfg, client, ccfg>> /\ server = "saving" /\ server' = "loaded"
        /\ file' = Boot!Encoded(cfg) /\ saved' = cfg
    BY <1>4 DEF Boot!SaveEnds
  <2>2. Accepted(cfg) /\ cfg # Boot!Absent
    BY <2>1, AcceptedIsFile
  <2>3. QED
    BY <2>1, <2>2
<1>5. CASE Boot!SaveFails
  BY <1>5 DEF Boot!SaveFails
<1>6. CASE Boot!Restart
  BY <1>6 DEF Boot!Restart
<1>7. CASE Boot!Start
  <2>1. UNCHANGED <<env, cfg, file, saved, client, ccfg>> /\ server = "loaded"
        /\ server' \in {"serving", "crashed", "exited"}
    BY <1>7 DEF Boot!Start
  <2>2. QED
    BY <2>1
<1>8. CASE Boot!LoadClientConfig
  <2>1. UNCHANGED <<env, server, cfg, file, saved>> /\ server = "serving"
        /\ client' \in {"loaded", "fatal"}
    BY <1>8 DEF Boot!LoadClientConfig
  <2>2. QED
    BY <2>1
<1>9. CASE Boot!Dial
  <2>1. UNCHANGED <<env, server, cfg, file, saved, ccfg>> /\ client = "loaded"
    BY <1>9 DEF Boot!Dial
  <2>2. client' = "connected" => Boot!Reaches
    BY <1>9 DEF Boot!Dial
  <2>3. Boot!Reaches /\ ccfg.ca = "junk" => ccfg.skip
    BY DEF Boot!Reaches, Boot!Trusted, Boot!PoolOf
  <2>4. QED
    BY <2>1, <2>2, <2>3
<1>10. QED
  BY <1>1, <1>2, <1>3, <1>4, <1>5, <1>6, <1>7, <1>8, <1>9 DEF Boot!Next

\* The steps of the other parts do not concern the start.
LEMMA BootKept == BootInv /\ [Next]_vars => BootInv'
<1> SUFFICES ASSUME BootInv, [Next]_vars PROVE BootInv'
  OBVIOUS
<1>1. CASE BootStep
  BY <1>1, BootNext DEF BootStep
<1>2. CASE UNCHANGED bootVars
  BY <1>2 DEF bootVars, BootInv, Accepted, JunkCaFailsClosed, Boot!JunkCaFailsClosed
<1>3. QED
  BY <1>1, <1>2 DEF Next, JunkStep, AuthStep, PipeStep, UdpStep, vars

\* Configuration files, environment and both programs: the invariant holds.
THEOREM BootInvariance == Spec => []BootInv
BY BootInit, BootKept, PTL DEF Spec

\* A server that serves allocates dynamic ports from exactly the range of its
\* configuration, which is not empty: the fallback of GetDynamicPortRange is dead
\* code for every configuration that LoadServerConfig accepts.
THEOREM RangeIsConfigured == Spec => []RangeAsConfigured
<1>1. BootInv => RangeAsConfigured
  <2> SUFFICES ASSUME BootInv, server = "serving"
               PROVE  Boot!GetDynamicPortRange = <<cfg.min, cfg.max>> /\ cfg.min <= cfg.max
    BY DEF RangeAsConfigured, Boot!RangeAsConfigured
  <2>1. cfg.min \in Int /\ cfg.max \in Int /\ 0 < cfg.min /\ 0 < cfg.max /\ cfg.min <= cfg.max
    BY DEF BootInv, Accepted
  <2>2. QED
    BY ONLY <2>1 DEF Boot!GetDynamicPortRange, Boot!Default
<1>2. QED
  BY <1>1, BootInvariance, PTL

\* A configuration that was saved to the end loads in every environment, with every
\* setting that this environment does not give and JSON could hold.
THEOREM SavedLoads == Spec => SavedConfigLoads
<1> DEFINE Loads == server = "off" /\ saved # Boot!Absent /\ server' # "off"
                       => /\ server' = "loaded"
                          /\ \A s \in DOMAIN saved \ Boot!Replaced : cfg'[s] = saved[s]
<1>1. BootInv /\ [Next]_vars => [Loads]_bootVars
  <2> SUFFICES ASSUME BootInv, BootStep, server = "off", saved # Boot!Absent, server' # "off"
               PROVE  /\ server' = "loaded"
                      /\ \A s \in DOMAIN saved \ Boot!Replaced : cfg'[s] = saved[s]
    BY DEF Next, JunkStep, AuthStep, PipeStep, UdpStep, vars, bootVars
  <2>1. Boot!LoadServerConfig
    BY DEF BootStep, Boot!Next, Boot!Deploy, Boot!SaveBegins, Boot!SaveEnds, Boot!SaveFails,
           Boot!Restart, Boot!Start, Boot!LoadClientConfig, Boot!Dial, BootInv
  <2>2. file = Boot!Encoded(saved) /\ Accepted(saved)
    BY DEF BootInv
  <2>3. file # Boot!Absent /\ file # Boot!Torn
    BY <2>2, EncodedIsFile
  <2> DEFINE d == Boot!ApplyEnvOverrides(Boot!SetServerDefaults(Boot!Encoded(saved)))
  <2>4. /\ Boot!ValidateServerConfig(d)
        /\ \A s \in Settings \ {"token", "obfuscation"} : d[s] = saved[s]
        /\ env.token = "" /\ saved.token # "bytes" => d.token = saved.token
        /\ env.obfuscation \notin {"true", "false"} => d.obfuscation = saved.obfuscation
    BY <2>2, AcceptedLoadsAgain
  <2>5. server' = "loaded" /\ cfg' = d
    <3> HIDE DEF d
    <3>1. Boot!ValidateServerConfig(d) /\ file \notin {Boot!Absent, Boot!Torn}
      BY <2>3, <2>4
    <3>2. PICK f \in {file} :
              LET c == Boot!ApplyEnvOverrides(Boot!SetServerDefaults(f))
              IN IF Boot!ValidateServerConfig(c) THEN server' = "loaded" /\ cfg' = c
                                                 ELSE server' = "fatal" /\ UNCHANGED cfg
      BY <2>1, <3>1 DEF Boot!LoadServerConfig
    <3>3. Boot!ApplyEnvOverrides(Boot!SetServerDefaults(f)) = d
      BY <2>2, <3>2 DEF d
    <3>4. QED
      BY <3>1, <3>2, <3>3
  <2> HIDE DEF d
  <2>6. DOMAIN saved = Settings
    BY <2>2 DEF Accepted
  <2>7. ASSUME NEW s \in DOMAIN saved \ Boot!Replaced PROVE cfg'[s] = saved[s]
    BY <2>4, <2>5, <2>6, <2>7 DEF Boot!Replaced
  <2>8. QED
    BY <2>5, <2>7
<1>2. QED
  BY <1>1, BootInvariance, PTL DEF Spec, SavedConfigLoads, Boot!SavedConfigLoads, Boot!vars,
     bootVars

\* A CA file that holds no certificate makes the client trust nobody: it connects
\* only if it was told to verify nothing.
THEOREM JunkCaClosed == Spec => []JunkCaFailsClosed
<1>1. BootInv => JunkCaFailsClosed
  BY DEF BootInv
<1>2. QED
  BY <1>1, BootInvariance, PTL

-----------------------------------------------------------------------------
(* Pipes: Pipe and PipeWithCompress *)

\* s is a + 1, a + 2, ...
Count(s, a) == s \in Seq(Nat) /\ \A i \in 1..Len(s) : s[i] = a + i

\* What taking the first chunk leaves.
LEMMA CountTail ==
    ASSUME NEW a \in Nat, NEW s, Count(s, a), s # <<>>
    PROVE  Head(s) = a + 1 /\ Count(Tail(s), a + 1) /\ Len(Tail(s)) = Len(s) - 1
<1>1. s \in Seq(Nat) /\ Len(s) \in Nat /\ 1 \in 1..Len(s)
  BY DEF Count
<1>2. Head(s) = s[1] /\ Tail(s) \in Seq(Nat) /\ Len(Tail(s)) = Len(s) - 1
      /\ \A i \in 1..(Len(s) - 1) : Tail(s)[i] = s[i + 1]
  BY <1>1
<1>3. \A i \in 1..(Len(s) - 1) : i + 1 \in 1..Len(s) /\ a + (i + 1) = (a + 1) + i
  BY <1>1
<1>4. QED
  BY <1>1, <1>2, <1>3 DEF Count

\* Two runs of chunks that follow each other are one.
LEMMA CountConcat ==
    ASSUME NEW a \in Nat, NEW b \in Nat, NEW s, Count(s, a), b = a + Len(s), NEW t, Count(t, b)
    PROVE  Count(s \o t, a) /\ Len(s \o t) = Len(s) + Len(t)
<1>1. s \in Seq(Nat) /\ t \in Seq(Nat) /\ Len(s) \in Nat /\ Len(t) \in Nat
  BY DEF Count
<1>2. s \o t \in Seq(Nat) /\ Len(s \o t) = Len(s) + Len(t)
      /\ \A i \in 1..(Len(s) + Len(t)) : (s \o t)[i] = IF i <= Len(s) THEN s[i] ELSE t[i - Len(s)]
  BY <1>1
<1>3. \A i \in 1..(Len(s) + Len(t)) : (s \o t)[i] = a + i
  <2> SUFFICES ASSUME NEW i \in 1..(Len(s) + Len(t)) PROVE (s \o t)[i] = a + i
    OBVIOUS
  <2>1. CASE i <= Len(s)
    BY <1>1, <1>2, <2>1 DEF Count
  <2>2. CASE ~(i <= Len(s))
    <3>1. i - Len(s) \in 1..Len(t) /\ (a + Len(s)) + (i - Len(s)) = a + i
      BY <1>1, <2>2
    <3>2. t[i - Len(s)] = (a + Len(s)) + (i - Len(s))
      BY <3>1 DEF Count
    <3>3. QED
      BY <1>2, <2>2, <3>1, <3>2
  <2>3. QED
    BY <2>1, <2>2
<1>4. QED
  BY <1>2, <1>3 DEF Count

\* One more chunk.
LEMMA CountAppend ==
    ASSUME NEW a \in Nat, NEW s, Count(s, a)
    PROVE  /\ Count(Append(s, a + Len(s) + 1), a)
           /\ Len(Append(s, a + Len(s) + 1)) = Len(s) + 1
<1>1. s \in Seq(Nat) /\ Len(s) \in Nat
  BY DEF Count
<1>2. PICK x \in Nat : x = a + Len(s) + 1
  BY <1>1
<1>3. Append(s, x) \in Seq(Nat) /\ Len(Append(s, x)) = Len(s) + 1
      /\ \A i \in 1..(Len(s) + 1) : Append(s, x)[i] = IF i <= Len(s) THEN s[i] ELSE x
  BY <1>1
<1>4. \A i \in 1..(Len(s) + 1) : Append(s, x)[i] = a + i
  <2> SUFFICES ASSUME NEW i \in 1..(Len(s) + 1) PROVE Append(s, x)[i] = a + i
    OBVIOUS
  <2>1. CASE i <= Len(s)
    BY <1>1, <1>3, <2>1 DEF Count
  <2>2. CASE ~(i <= Len(s))
    BY <1>1, <1>2, <1>3, <2>2
  <2>3. QED
    BY <2>1, <2>2
<1>5. QED
  BY <1>2, <1>3, <1>4 DEF Count

\* One chunk, and none.
LEMMA CountSmall ==
    ASSUME NEW a \in Nat
    PROVE  Count(<<>>, a) /\ Count(<<a + 1>>, a)
<1>1. Count(<<>>, a)
  BY DEF Count
<1>2. Count(Append(<<>>, a + 1), a)
  <2>1. a + Len(<<>>) + 1 = a + 1
    OBVIOUS
  <2>2. QED
    BY <1>1, <2>1, CountAppend
<1>3. Append(<<>>, a + 1) = <<a + 1>>
  OBVIOUS
<1>4. QED
  BY <1>1, <1>2, <1>3

PipeType ==
    /\ pipePc \in [Pipe!Conns -> {"copy", "flush", "signal", "ended"}]
    /\ eof \in [Pipe!Conns -> BOOLEAN]
    /\ buffer \in [Pipe!Conns -> Seq(Nat)]
    /\ sent \in [Pipe!Conns -> Nat]
    /\ inflight \in [Pipe!Conns -> Seq(Nat)]
    /\ window \in [Pipe!Conns -> Seq(Nat)]
    /\ pipeReceived \in [Pipe!Conns -> Seq(Nat)]
    /\ open \subseteq Pipe!Conns

\* How many chunks goroutine d has handed to the network.
Handed(d) == Len(pipeReceived[d]) + Len(window[d])

\* The chunks of one direction, from the peer that receives them back to the one
\* that sends them: each piece continues the one before it, without a gap for as
\* long as the goroutine copies or flushes after an end of file.
Lane(d) ==
    LET src == Pipe!From(d)
    IN  /\ Count(pipeReceived[d], 0)
        /\ Count(window[d], Len(pipeReceived[d]))
        /\ Count(buffer[d], Handed(d))
        /\ Len(inflight[src]) <= sent[src]
        /\ Count(inflight[src], sent[src] - Len(inflight[src]))
        /\ pipePc[d] = "copy" =>
              ~eof[d] /\ Handed(d) + Len(buffer[d]) + Len(inflight[src]) = sent[src]
        /\ eof[d] => src \in finished
        /\ pipePc[d] = "flush" /\ eof[d] => Handed(d) + Len(buffer[d]) = sent[src]
        /\ pipePc[d] \in {"signal", "ended"} /\ eof[d] /\ open = Pipe!Conns
              => Handed(d) = sent[src]
        /\ main = "idle" \/ ~compress => buffer[d] = <<>>

PipeInv == PipeType /\ \A d \in Pipe!Conns : Lane(d)

\* Two goroutines, each of which reads what the other one writes to.
LEMMA TwoConns ==
    \A d \in Pipe!Conns : /\ Pipe!From(d) \in Pipe!Conns /\ Pipe!From(d) # d
                          /\ Pipe!From(Pipe!From(d)) = d
                          /\ Pipe!Conns = {d, Pipe!From(d)}
BY DEF Pipe!Conns, Pipe!From

\* A direction that a step does not touch, except that connections are closed, a
\* peer finishes, or the call goes on.
LEMMA LaneKept ==
    ASSUME PipeInv, NEW d \in Pipe!Conns,
           pipeReceived'[d] = pipeReceived[d], window'[d] = window[d], buffer'[d] = buffer[d],
           pipePc'[d] = pipePc[d], eof'[d] = eof[d],
           inflight'[Pipe!From(d)] = inflight[Pipe!From(d)],
           sent'[Pipe!From(d)] = sent[Pipe!From(d)],
           finished \subseteq finished', open' \subseteq open,
           main' = "idle" \/ ~compress' => buffer[d] = <<>>
    PROVE  Lane(d)'
<1>1. Lane(d) /\ open \subseteq Pipe!Conns
  BY DEF PipeInv, PipeType
<1>2. open' = Pipe!Conns => open = Pipe!Conns
  BY <1>1
<1>3. Handed(d)' = Handed(d)
  BY DEF Handed
<1>4. (pipePc[d] \in {"signal", "ended"} /\ eof[d] /\ open = Pipe!Conns
              => Handed(d) = sent[Pipe!From(d)])'
  BY <1>1, <1>2, <1>3 DEF Lane
<1>5. QED
  BY <1>1, <1>3, <1>4 DEF Lane

\* The lengths are numbers.
LEMMA PipeLengths ==
    ASSUME PipeType, NEW d \in Pipe!Conns
    PROVE  /\ Len(pipeReceived[d]) \in Nat /\ Len(window[d]) \in Nat /\ Handed(d) \in Nat
           /\ Len(buffer[d]) \in Nat /\ Len(inflight[d]) \in Nat /\ sent[d] \in Nat
           /\ Len(inflight[Pipe!From(d)]) \in Nat /\ sent[Pipe!From(d)] \in Nat
BY TwoConns DEF PipeType, Handed

\* One turn of a copy: whatever it writes out continues what was handed over.
LEMMA CopyLane ==
    ASSUME PipeInv, NEW d \in Pipe!Conns, Pipe!Copy(d)
    PROVE  PipeInv'
<1> DEFINE src == Pipe!From(d)
           chunk == Head(inflight[src])
           full == Len(buffer[d]) = BufferSize
           out == IF ~compress THEN <<chunk>> ELSE IF full THEN buffer[d] ELSE <<>>
           rest == IF ~compress THEN <<>> ELSE IF full THEN <<chunk>> ELSE Append(buffer[d], chunk)
<1>1. PipeType /\ Lane(d) /\ src \in Pipe!Conns
  BY TwoConns DEF PipeInv
<1>2. /\ main # "idle" /\ pipePc[d] = "copy" /\ inflight[src] # <<>>
      /\ window' = [window EXCEPT ![d] = @ \o out]
      /\ buffer' = [buffer EXCEPT ![d] = rest]
      /\ inflight' = [inflight EXCEPT ![src] = Tail(@)]
      /\ UNCHANGED <<main, compress, done, open, sent, plain, finished, pipePc, eof, pipeReceived>>
  BY DEF Pipe!Copy, Pipe!Buffered, Pipe!conn, Pipe!peer
<1>3. PICK a \in Nat : a = Handed(d)
  BY <1>1, PipeLengths
<1>4. PICK n \in Nat : n = Len(buffer[d])
  BY <1>1, PipeLengths
<1>5. PICK m \in Nat : m = Len(inflight[src])
  BY <1>1, PipeLengths
<1>6. PICK t \in Nat : t = sent[src]
  BY <1>1, PipeLengths
<1>7. Count(buffer[d], a) /\ Count(inflight[src], t - m) /\ m <= t /\ a + n + m = t /\ ~eof[d]
      /\ (~compress => buffer[d] = <<>>)
  BY <1>1, <1>2, <1>3, <1>4, <1>5, <1>6 DEF Lane
<1>8. t - m \in Nat /\ t - m = a + n
  BY <1>7
<1>9. chunk = a + n + 1 /\ Count(Tail(inflight[src]), a + n + 1) /\ Len(Tail(inflight[src])) = m - 1
  BY <1>2, <1>5, <1>7, <1>8, CountTail
<1>10. /\ Count(out, a) /\ Len(out) \in Nat
       /\ Count(rest, a + Len(out)) /\ Len(out) + Len(rest) = n + 1
  <2>1. CASE ~compress
    <3>1. n = 0 /\ out = <<a + 1>> /\ rest = <<>>
      BY <1>4, <1>7, <1>9, <2>1
    <3>2. Len(out) = 1 /\ Len(rest) = 0
      BY <3>1
    <3> HIDE DEF out, rest
    <3>3. Count(out, a)
      BY <3>1, CountSmall
    <3>4. a + 1 \in Nat /\ Count(rest, a + 1)
      <4>1. a + 1 \in Nat
        OBVIOUS
      <4>2. QED
        BY <3>1, <4>1, CountSmall
    <3>5. QED
      BY <3>1, <3>2, <3>3, <3>4
  <2>2. CASE compress /\ full
    <3>1. out = buffer[d] /\ rest = <<a + n + 1>>
      BY <1>9, <2>2
    <3>2. a + n \in Nat /\ Count(<<(a + n) + 1>>, a + n) /\ Len(<<a + n + 1>>) = 1
      BY CountSmall
    <3> HIDE DEF out, rest
    <3>3. QED
      BY <1>4, <1>7, <3>1, <3>2
  <2>3. CASE compress /\ ~full
    <3>1. out = <<>> /\ rest = Append(buffer[d], a + n + 1)
      BY <1>9, <2>3
    <3>2. Len(out) = 0
      BY <3>1
    <3> HIDE DEF out, rest
    <3>3. Count(rest, a) /\ Len(rest) = n + 1
      BY <1>4, <1>7, <3>1, CountAppend
    <3>4. Count(out, a)
      BY <3>1, CountSmall
    <3>5. a + Len(out) = a
      BY <3>2
    <3>6. QED
      BY <3>2, <3>3, <3>4, <3>5
  <2>4. QED
    BY <2>1, <2>2, <2>3
<1> HIDE DEF out, rest, chunk, full
<1>11. window'[d] = window[d] \o out /\ buffer'[d] = rest /\ inflight'[src] = Tail(inflight[src])
       /\ pipeReceived'[d] = pipeReceived[d] /\ eof'[d] = eof[d] /\ pipePc'[d] = pipePc[d]
  BY <1>1, <1>2 DEF PipeType
<1>12. Count(window'[d], Len(pipeReceived[d])) /\ Handed(d)' = a + Len(out)
  <2>1. Len(pipeReceived[d]) \in Nat /\ Len(window[d]) \in Nat
        /\ a = Len(pipeReceived[d]) + Len(window[d])
    BY <1>1, <1>3, PipeLengths DEF Handed
  <2>2. Count(window[d], Len(pipeReceived[d]))
    BY <1>1 DEF Lane
  <2>3. Count(window[d] \o out, Len(pipeReceived[d]))
        /\ Len(window[d] \o out) = Len(window[d]) + Len(out)
    <3>1. a \in Nat /\ Count(out, a)
      BY <1>10
    <3>2. PICK b \in Nat : b = Len(pipeReceived[d]) /\ Count(window[d], b) /\ a = b + Len(window[d])
      BY <2>1, <2>2
    <3>3. Count(window[d] \o out, b)
      BY <3>1, <3>2, CountConcat, Zenon
    <3>4. Len(window[d] \o out) = Len(window[d]) + Len(out)
      <4>1. window[d] \in Seq(Nat) /\ out \in Seq(Nat)
        BY <3>1, <3>2 DEF Count
      <4>2. QED
        BY <4>1
    <3>5. QED
      BY <3>2, <3>3, <3>4
  <2>4. Handed(d)' = Len(pipeReceived[d]) + Len(window[d] \o out)
    BY <1>11 DEF Handed
  <2>5. Len(out) \in Nat
    BY <1>10
  <2>6. Handed(d)' = a + Len(out)
    <3>1. PICK b \in Nat, p \in Nat, q \in Nat :
             b = Len(pipeReceived[d]) /\ p = Len(window[d]) /\ q = Len(out)
      BY <2>1, <2>5
    <3>2. a = b + p /\ Handed(d)' = b + (p + q)
      BY <2>1, <2>3, <2>4, <3>1
    <3>3. b + (p + q) = a + q
      BY <3>2
    <3>4. QED
      BY <3>1, <3>2, <3>3, Zenon
  <2>7. QED
    BY <1>11, <2>3, <2>6
<1>13. Lane(d)'
  <2>1. Len(rest) \in Nat /\ m - 1 \in Nat /\ m # 0
    <3>1. rest \in Seq(Nat) /\ Tail(inflight[src]) \in Seq(Nat)
      BY <1>9, <1>10 DEF Count
    <3>2. QED
      BY <1>9, <3>1
  <2>2. Count(pipeReceived[d], 0)
    BY <1>1 DEF Lane
  <2>3. (a + Len(out)) + Len(rest) + (m - 1) = t /\ m - 1 <= t /\ t - (m - 1) = a + n + 1
    BY <1>7, <1>8, <1>10, <2>1
  <2>4. sent'[src] = t /\ main' # "idle" /\ (~compress' => rest = <<>>)
    BY <1>2, <1>6 DEF rest
  <2>5. QED
    BY <1>2, <1>7, <1>9, <1>10, <1>11, <1>12, <2>2, <2>3, <2>4 DEF Lane
<1>14. Lane(src)'
  <2>1. Pipe!From(src) = d /\ src # d
    BY TwoConns
  <2>2. Lane(src)
    BY <1>1 DEF PipeInv
  <2>3. QED
    BY <1>1, <1>2, <2>1, <2>2, LaneKept DEF PipeType, Lane
<1>15. PipeType'
  <2>1. out \in Seq(Nat) /\ rest \in Seq(Nat) /\ Tail(inflight[src]) \in Seq(Nat)
    BY <1>9, <1>10 DEF Count
  <2>2. window[d] \o out \in Seq(Nat)
    BY <1>1, <2>1 DEF PipeType
  <2>3. QED
    BY <1>1, <1>2, <2>1, <2>2 DEF PipeType
<1>16. QED
  BY <1>13, <1>14, <1>15, TwoConns DEF PipeInv

\* The copy has ended, with everything that was sent if it was the end of the file.
LEMMA CopyEndsLane ==
    ASSUME PipeInv, NEW d \in Pipe!Conns, Pipe!CopyEof(d) \/ Pipe!CopyError(d)
    PROVE  PipeInv'
<1> DEFINE src == Pipe!From(d)
<1>1. PipeType /\ Lane(d) /\ Lane(src) /\ src \in Pipe!Conns /\ src # d /\ Pipe!From(src) = d
  BY TwoConns DEF PipeInv
<1>2. /\ pipePc[d] = "copy" /\ pipePc' = [pipePc EXCEPT ![d] = "flush"]
      /\ UNCHANGED <<main, compress, open, sent, finished, buffer, inflight, window, pipeReceived>>
      /\ \/ eof' = [eof EXCEPT ![d] = TRUE] /\ src \in finished /\ inflight[src] = <<>>
         \/ eof' = eof
  BY DEF Pipe!CopyEof, Pipe!CopyError, Pipe!conn, Pipe!peer
<1>3. PipeType'
  BY <1>1, <1>2 DEF PipeType
<1>4. Lane(src)'
  BY <1>1, <1>2, LaneKept DEF PipeType, Lane
<1>5. Lane(d)'
  <2>1. pipePc'[d] = "flush" /\ Handed(d)' = Handed(d)
    BY <1>1, <1>2 DEF PipeType, Handed
  <2>2. ~eof[d] /\ Handed(d) + Len(buffer[d]) + Len(inflight[src]) = sent[src]
    BY <1>1, <1>2 DEF Lane
  <2>3. eof'[d] => src \in finished /\ Handed(d) + Len(buffer[d]) = sent[src]
    <3> SUFFICES ASSUME eof'[d] PROVE src \in finished /\ Handed(d) + Len(buffer[d]) = sent[src]
      OBVIOUS
    <3>1. src \in finished /\ Len(inflight[src]) = 0
      BY <1>2, <2>2
    <3>2. Handed(d) \in Nat /\ Len(buffer[d]) \in Nat
      BY <1>1, PipeLengths
    <3>3. QED
      BY <2>2, <3>1, <3>2
  <2>4. QED
    BY <1>1, <1>2, <2>1, <2>3 DEF Lane
<1>6. QED
  BY <1>1, <1>3, <1>4, <1>5, TwoConns DEF PipeInv

\* The buffer is written out if the connection is still open, and dropped if not.
LEMMA FlushLane ==
    ASSUME PipeInv, NEW d \in Pipe!Conns, Pipe!Flush(d)
    PROVE  PipeInv'
<1> DEFINE src == Pipe!From(d)
<1>1. PipeType /\ Lane(d) /\ Lane(src) /\ src \in Pipe!Conns /\ src # d /\ Pipe!From(src) = d
  BY TwoConns DEF PipeInv
<1>2. /\ pipePc[d] = "flush" /\ pipePc' = [pipePc EXCEPT ![d] = "signal"]
      /\ window' = [window EXCEPT ![d] = IF d \in open THEN window[d] \o buffer[d] ELSE window[d]]
      /\ buffer' = [buffer EXCEPT ![d] = <<>>]
      /\ UNCHANGED <<main, compress, open, sent, finished, eof, inflight, pipeReceived>>
  BY DEF Pipe!Flush, Pipe!Flushed, Pipe!conn, Pipe!peer
<1>3. window[d] \in Seq(Nat) /\ buffer[d] \in Seq(Nat)
  BY <1>1 DEF PipeType
<1>4. PipeType'
  BY <1>1, <1>2, <1>3 DEF PipeType
<1>5. Lane(src)'
  BY <1>1, <1>2, LaneKept DEF PipeType, Lane
<1>6. /\ buffer'[d] = <<>> /\ pipePc'[d] = "signal"
      /\ window'[d] \in {window[d], window[d] \o buffer[d]}
      /\ (d \in open => window'[d] = window[d] \o buffer[d])
  BY <1>1, <1>2 DEF PipeType
<1>7. PICK b \in Nat, n \in Nat, m \in Nat :
         b = Len(pipeReceived[d]) /\ n = Len(window[d]) /\ m = Len(buffer[d])
  BY <1>1, PipeLengths
<1>8. Count(window[d], b) /\ Count(buffer[d], b + n) /\ Handed(d) = b + n /\ b + n \in Nat
  <2>1. Handed(d) = b + n
    BY <1>7 DEF Handed
  <2>2. Count(window[d], b) /\ Count(buffer[d], Handed(d))
    BY <1>1, <1>7 DEF Lane
  <2>3. QED
    BY <2>1, <2>2
<1>9. Count(window[d] \o buffer[d], b)
  <2>1. PICK a \in Nat : a = b + n
    BY <1>8
  <2>2. a = b + Len(window[d]) /\ Count(buffer[d], a)
    BY <1>7, <1>8, <2>1
  <2>3. QED
    BY <1>8, <2>2, CountConcat, Zenon
<1>10. Len(window[d] \o buffer[d]) = n + m
  BY <1>3, <1>7
<1>11. Count(window'[d], b) /\ Count(buffer'[d], Handed(d)')
  <2>1. Count(window'[d], b)
    BY <1>6, <1>8, <1>9
  <2>2. Handed(d)' \in Nat
    BY <1>4 DEF PipeType, Handed
  <2>3. QED
    BY <1>6, <2>1, <2>2, CountSmall
<1>12. eof[d] /\ open = Pipe!Conns => Handed(d)' = sent[src]
  <2> SUFFICES ASSUME eof[d], open = Pipe!Conns PROVE Handed(d)' = sent[src]
    OBVIOUS
  <2>1. Handed(d)' = b + Len(window[d] \o buffer[d])
    BY <1>2, <1>6, <1>7 DEF Handed
  <2>2. Handed(d) + Len(buffer[d]) = sent[src]
    BY <1>1, <1>2 DEF Lane
  <2>3. (b + n) + m = sent[src] /\ Handed(d)' = b + (n + m)
    BY <1>7, <1>8, <1>10, <2>1, <2>2
  <2>4. QED
    BY <2>3
<1>13. Lane(d)'
  BY <1>1, <1>2, <1>6, <1>7, <1>11, <1>12 DEF Lane
<1>14. QED
  BY <1>1, <1>4, <1>5, <1>13, TwoConns DEF PipeInv

\* The peer of connection c takes a chunk from the network.
LEMMA ReadLane ==
    ASSUME PipeInv, NEW d \in Pipe!Conns, Pipe!Read(d)
    PROVE  PipeInv'
<1> DEFINE src == Pipe!From(d)
<1>1. PipeType /\ Lane(d) /\ Lane(src) /\ src \in Pipe!Conns /\ src # d /\ Pipe!From(src) = d
  BY TwoConns DEF PipeInv
<1>2. /\ window[d] # <<>>
      /\ pipeReceived' = [pipeReceived EXCEPT ![d] = Append(@, Head(window[d]))]
      /\ window' = [window EXCEPT ![d] = Tail(@)]
      /\ UNCHANGED <<main, compress, open, sent, finished, eof, pipePc, buffer, inflight>>
  BY DEF Pipe!Read, Pipe!conn, Pipe!peer
<1>3. PICK b \in Nat, n \in Nat : b = Len(pipeReceived[d]) /\ n = Len(window[d])
  BY <1>1, PipeLengths
<1>4. Count(pipeReceived[d], 0) /\ Count(window[d], b) /\ Handed(d) = b + n
  BY <1>1, <1>3 DEF Lane, Handed
<1>5. Head(window[d]) = b + 1 /\ Count(Tail(window[d]), b + 1) /\ Len(Tail(window[d])) = n - 1
  BY <1>2, <1>3, <1>4, CountTail
<1>6. pipeReceived'[d] = Append(pipeReceived[d], b + 1) /\ window'[d] = Tail(window[d])
  BY <1>1, <1>2, <1>5 DEF PipeType
<1>7. Count(Append(pipeReceived[d], b + 1), 0) /\ Len(Append(pipeReceived[d], b + 1)) = b + 1
  <2>1. 0 + Len(pipeReceived[d]) + 1 = b + 1 /\ Len(pipeReceived[d]) + 1 = b + 1
    BY <1>3
  <2>2. Count(Append(pipeReceived[d], 0 + Len(pipeReceived[d]) + 1), 0)
    BY <1>4, CountAppend
  <2>3. pipeReceived[d] \in Seq(Nat)
    BY <1>4 DEF Count
  <2>4. QED
    BY <1>3, <2>1, <2>2, <2>3
<1>8. Handed(d)' = Handed(d)
  <2>1. Handed(d)' = (b + 1) + (n - 1)
    BY <1>5, <1>6, <1>7 DEF Handed
  <2>2. QED
    BY <1>4, <2>1
<1>9. PipeType'
  <2>1. Append(pipeReceived[d], b + 1) \in Seq(Nat) /\ Tail(window[d]) \in Seq(Nat)
    BY <1>5, <1>7 DEF Count
  <2>2. QED
    BY <1>1, <1>2, <1>5, <2>1 DEF PipeType
<1>10. Lane(src)'
  BY <1>1, <1>2, LaneKept DEF PipeType, Lane
<1>11. Lane(d)'
  BY <1>1, <1>2, <1>5, <1>6, <1>7, <1>8 DEF Lane
<1>12. QED
  BY <1>1, <1>9, <1>10, <1>11, TwoConns DEF PipeInv

\* A peer sends its next chunk: the goroutine that reads from it has not seen an end
\* of file.
LEMMA SendLane ==
    ASSUME PipeInv, NEW c \in Pipe!Conns, Pipe!Send(c)
    PROVE  PipeInv'
<1> DEFINE d == Pipe!From(c)
<1>1. PipeType /\ Lane(d) /\ Lane(c) /\ d \in Pipe!Conns /\ c # d /\ Pipe!From(d) = c
  BY TwoConns DEF PipeInv
<1>2. /\ c \notin finished
      /\ sent' = [sent EXCEPT ![c] = @ + 1]
      /\ inflight' = [inflight EXCEPT ![c] = Append(@, sent[c] + 1)]
      /\ UNCHANGED <<main, compress, open, finished, eof, pipePc, buffer, window, pipeReceived>>
  BY DEF Pipe!Send, Pipe!conn
<1>3. PICK t \in Nat, m \in Nat : t = sent[c] /\ m = Len(inflight[c])
  BY <1>1, PipeLengths
<1>4. m <= t /\ Count(inflight[c], t - m)
  BY <1>1, <1>3 DEF Lane
<1>5. Count(Append(inflight[c], t + 1), t - m) /\ Len(Append(inflight[c], t + 1)) = m + 1
  <2>1. t - m \in Nat /\ (t - m) + Len(inflight[c]) + 1 = t + 1
    BY <1>3, <1>4
  <2>2. Count(Append(inflight[c], (t - m) + Len(inflight[c]) + 1), t - m)
    BY <1>4, <2>1, CountAppend
  <2>3. inflight[c] \in Seq(Nat)
    BY <1>4 DEF Count
  <2>4. QED
    BY <1>3, <2>1, <2>2, <2>3
<1>6. sent'[c] = t + 1 /\ inflight'[c] = Append(inflight[c], t + 1)
  BY <1>1, <1>2, <1>3 DEF PipeType
<1>7. PipeType'
  <2>1. Append(inflight[c], t + 1) \in Seq(Nat) /\ t + 1 \in Nat
    BY <1>5 DEF Count
  <2>2. QED
    BY <1>1, <1>2, <1>3, <2>1 DEF PipeType
<1>8. Lane(c)'
  BY <1>1, <1>2, LaneKept DEF PipeType, Lane
<1>9. Lane(d)'
  <2>1. (t + 1) - (m + 1) = t - m /\ m + 1 <= t + 1
    BY <1>4
  <2>2. Handed(d)' = Handed(d) /\ Handed(d) \in Nat /\ Len(buffer[d]) \in Nat
    BY <1>1, <1>2, PipeLengths DEF Handed
  <2>3. ~eof[d]
    BY <1>1, <1>2 DEF Lane
  <2>4. pipePc[d] = "copy" => Handed(d) + Len(buffer[d]) + (m + 1) = t + 1
    <3>1. pipePc[d] = "copy" => Handed(d) + Len(buffer[d]) + m = t
      BY <1>1, <1>3 DEF Lane
    <3>2. QED
      BY <2>2, <3>1
  <2>5. QED
    BY <1>1, <1>2, <1>5, <1>6, <2>1, <2>2, <2>3, <2>4 DEF Lane
<1>10. QED
  BY <1>1, <1>7, <1>8, <1>9, TwoConns DEF PipeInv

\* Steps that move no chunk: the call, its end, a goroutine that reports, and a peer
\* that sends no more.
LEMMA QuietLanes ==
    ASSUME PipeInv,
           \/ Pipe!Call \/ Pipe!Receive \/ Pipe!Close
           \/ \E d \in Pipe!Conns : Pipe!Signal(d) \/ Pipe!Finish(d)
    PROVE  PipeInv'
<1>1. PipeType /\ \A d \in Pipe!Conns : Lane(d) /\ Pipe!From(d) \in Pipe!Conns
  BY TwoConns DEF PipeInv
<1>2. CASE Pipe!Call
  <2>1. main = "idle" /\ main' = "wait"
        /\ UNCHANGED <<pipePc, eof, buffer, open, sent, finished, inflight, window, pipeReceived>>
    BY <1>2 DEF Pipe!Call
  <2>2. \A d \in Pipe!Conns : buffer[d] = <<>>
    BY <1>1, <2>1 DEF Lane
  <2>3. QED
    BY <1>1, <2>1, <2>2, LaneKept DEF PipeInv, PipeType
<1>3. CASE Pipe!Receive
  <2>1. main' # "idle"
        /\ UNCHANGED <<compress, pipePc, eof, buffer, open, sent, finished, inflight, window,
                       pipeReceived>>
    BY <1>3 DEF Pipe!Receive, Pipe!peer
  <2>2. \A d \in Pipe!Conns : ~compress => buffer[d] = <<>>
    BY <1>1 DEF Lane
  <2>3. QED
    BY <1>1, <2>1, <2>2, LaneKept DEF PipeInv, PipeType
<1>4. CASE Pipe!Close
  <2>1. main' # "idle" /\ open' \subseteq open
        /\ UNCHANGED <<compress, pipePc, eof, buffer, sent, finished, inflight, window,
                       pipeReceived>>
    BY <1>4 DEF Pipe!Close, Pipe!peer
  <2>2. \A d \in Pipe!Conns : ~compress => buffer[d] = <<>>
    BY <1>1 DEF Lane
  <2>3. PipeType'
    BY <1>1, <2>1 DEF PipeType
  <2>4. QED
    BY <2>1, <2>2, <2>3, LaneKept DEF PipeInv
<1>5. ASSUME NEW c \in Pipe!Conns, Pipe!Finish(c) PROVE PipeInv'
  <2>1. finished \subseteq finished'
        /\ UNCHANGED <<main, compress, pipePc, eof, buffer, open, sent, inflight, window,
                       pipeReceived>>
    BY <1>5 DEF Pipe!Finish, Pipe!conn
  <2>2. \A d \in Pipe!Conns : main = "idle" \/ ~compress => buffer[d] = <<>>
    BY <1>1 DEF Lane
  <2>3. QED
    BY <1>1, <2>1, <2>2, LaneKept DEF PipeInv, PipeType
<1>6. ASSUME NEW c \in Pipe!Conns, Pipe!Signal(c) PROVE PipeInv'
  <2>1. pipePc[c] = "signal" /\ pipePc' = [pipePc EXCEPT ![c] = "ended"]
        /\ UNCHANGED <<main, compress, eof, buffer, open, sent, finished, inflight, window,
                       pipeReceived>>
    BY <1>6 DEF Pipe!Signal, Pipe!peer
  <2>2. PipeType'
    BY <1>1, <2>1 DEF PipeType
  <2>3. ASSUME NEW d \in Pipe!Conns PROVE Lane(d)'
    <3>1. Handed(d)' = Handed(d) /\ Lane(d)
      BY <1>1, <2>1 DEF Handed
    <3>2. CASE d = c
      BY <1>1, <2>1, <3>1, <3>2 DEF Lane, PipeType
    <3>3. CASE d # c
      BY <1>1, <2>1, <3>1, <3>3 DEF Lane, PipeType
    <3>4. QED
      BY <3>2, <3>3
  <2>4. QED
    BY <2>2, <2>3 DEF PipeInv
<1>7. QED
  BY <1>2, <1>3, <1>4, <1>5, <1>6

\* Before the call nothing has been sent.
LEMMA PipeInit == Init => PipeInv
<1> SUFFICES ASSUME Init PROVE PipeInv
  OBVIOUS
<1>1. PipeType
  BY DEF Init, PartsInit, Pipe!Init, PipeType
<1>2. ASSUME NEW d \in Pipe!Conns PROVE Lane(d)
  <2>1. Pipe!From(d) \in Pipe!Conns
    BY TwoConns
  <2>2. pipeReceived[d] = <<>> /\ window[d] = <<>> /\ buffer[d] = <<>> /\ ~eof[d]
        /\ inflight[Pipe!From(d)] = <<>> /\ sent[Pipe!From(d)] = 0
    BY <2>1 DEF Init, PartsInit, Pipe!Init
  <2>3. Handed(d) = 0
    BY <2>2 DEF Handed
  <2>4. Count(<<>>, 0)
    BY CountSmall
  <2>5. QED
    BY <2>2, <2>3, <2>4 DEF Lane
<1>3. QED
  BY <1>1, <1>2 DEF PipeInv

\* The steps of the other parts do not concern the pipes.
LEMMA PipeKept == PipeInv /\ [Next]_vars => PipeInv'
<1> SUFFICES ASSUME PipeInv, [Next]_vars PROVE PipeInv'
  OBVIOUS
<1>1. CASE PipeStep
  <2>1. Pipe!Next
    BY <1>1 DEF PipeStep
  <2>2. CASE Pipe!Call \/ Pipe!Receive \/ Pipe!Close
    BY <2>2, QuietLanes
  <2>3. CASE \E d \in Pipe!Conns :
                Pipe!Goroutine(d) \/ Pipe!Send(d) \/ Pipe!Read(d) \/ Pipe!Finish(d)
    BY <2>3, CopyLane, CopyEndsLane, FlushLane, SendLane, ReadLane, QuietLanes
    DEF Pipe!Goroutine
  <2>4. QED
    BY <2>1, <2>2, <2>3 DEF Pipe!Next
<1>2. CASE UNCHANGED pipeVars
  BY <1>2 DEF pipeVars, PipeInv, PipeType, Lane, Handed
<1>3. QED
  BY <1>1, <1>2 DEF Next, JunkStep, AuthStep, BootStep, UdpStep, vars

\* The invariant of the pipes holds, for every size of buffer and window.
THEOREM PipeInvariance == Spec => []PipeInv
BY PipeInit, PipeKept, PTL DEF Spec

\* A peer gets what the other one sent, in order and without a gap, compressed or not;
\* and while nothing is closed a goroutine whose source has ended has handed over
\* all of it, the contents of the writer's buffer too, before it reports.
THEOREM PipesFlush == Spec => []InOrderAndFlushed
<1>1. PipeInv => InOrderAndFlushed
  <2> SUFFICES ASSUME PipeInv, NEW d \in Pipe!Conns
               PROVE  /\ Pipe!Arrived(d) = [i \in 1..Len(Pipe!Arrived(d)) |-> i]
                      /\ open = Pipe!Conns /\ pipePc[d] \in {"signal", "ended"} /\ eof[d]
                             => Len(Pipe!Arrived(d)) = sent[Pipe!From(d)]
    BY DEF InOrderAndFlushed, Pipe!InOrderAndFlushed
  <2>1. PipeType /\ Lane(d)
    BY DEF PipeInv
  <2>2. PICK b \in Nat : b = Len(pipeReceived[d])
    BY <2>1, PipeLengths
  <2>3. Count(pipeReceived[d], 0) /\ Count(window[d], b) /\ b = 0 + Len(pipeReceived[d])
    BY <2>1, <2>2 DEF Lane
  <2>4. Count(Pipe!Arrived(d), 0)
    BY <2>3, CountConcat, Zenon DEF Pipe!Arrived
  <2>5. Len(Pipe!Arrived(d)) = Handed(d)
    BY <2>1 DEF PipeType, Pipe!Arrived, Handed
  <2>6. Pipe!Arrived(d) = [i \in 1..Len(Pipe!Arrived(d)) |-> i]
    <3>1. PICK s : s = Pipe!Arrived(d)
      OBVIOUS
    <3>2. s \in Seq(Nat) /\ \A i \in 1..Len(s) : s[i] = 0 + i
      BY <2>4, <3>1 DEF Count
    <3>3. s = [i \in 1..Len(s) |-> i]
      BY <3>2
    <3>4. QED
      BY <3>1, <3>3
  <2>7. QED
    BY <2>1, <2>5, <2>6 DEF Lane
<1>2. QED
  BY <1>1, PipeInvariance, PTL
=============================================================================
