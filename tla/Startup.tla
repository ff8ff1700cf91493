------------------------------- MODULE Startup -------------------------------
(***************************************************************************)
(* From configuration files to a control channel: LoadServerConfig,        *)
(* LoadClientConfig and SaveServerConfig (pkg/config), the bind in         *)
(* Server.Start, the two programs that call them, and the dial of          *)
(* connectAndServe with buildTLSConfig.  Both programs see one environment.*)
(*                                                                         *)
(* A setting that is empty or missing in a file is "" or 0.  A port is a   *)
(* small number; 40000 and 50000 are DefMin and DefMax.  A TLS file is     *)
(* "" (not configured), "good", "bad" (cannot be read) or "junk" (can be   *)
(* read and not parsed).  Certificates of files are signed by the CA of    *)
(* "good", those of Auto-TLS by a CA that the system trusts.               *)
(*                                                                         *)
(* A server's cert stands for the pair of certificate and key, "" if one   *)
(* is missing; a client's too, "good" if only the key is missing, since    *)
(* buildTLSConfig then loads neither.  A client's id comes from the file   *)
(* or from TUNNEL_CLIENT_ID.                                               *)
(*                                                                         *)
(* A string of a JSON file is text.  One from the environment need not be: *)
(* "bytes" is a token that is not valid UTF-8.                             *)
(*                                                                         *)
(* A client that finds no server tries again with the same configuration   *)
(* (ClientLoop), so only its dial to a server that serves is modelled.     *)
(***************************************************************************)
EXTENDS Integers

CONSTANTS DefMin, DefMax,   \* the defaults of the dynamic port range
          PortValues        \* values that a file may give for its ends

ServerFiles == [token : {"", "file"}, obfuscation : BOOLEAN,
                min : PortValues, max : PortValues,
                cert : {"", "good", "bad"}, auto : BOOLEAN]
ClientFiles == [id : {"", "c"}, token : {"", "other"}, obfuscation : BOOLEAN,
                ca : {"", "good", "bad", "junk"}, cert : {"", "good", "bad"},
                skip : BOOLEAN]
Environments == [token : {"", "env", "bytes"},
                 obfuscation : {"", "true", "false", "unparsable"}]

Absent == [none |-> TRUE]   \* no configuration, or a file that nobody has saved yet
Torn == [torn |-> TRUE]     \* a file that os.Create has emptied, or cut short

VARIABLES
    env,       \* environment variables that both programs see
    server,    \* "off", "fatal", "loaded", "saving", "serving", "exited", "crashed"
    cfg,       \* the server's configuration, Absent before it is loaded
    file,      \* its file, as SaveServerConfig left it
    saved,     \* history: the configuration of the save that left the file
    client,    \* "off", "fatal", "loaded", "refused", "connected"
    ccfg       \* the client's configuration

vars == <<env, server, cfg, file, saved, client, ccfg>>

Init ==
    /\ env = Absent
    /\ server = "off" /\ cfg = Absent /\ file = Absent /\ saved = Absent
    /\ client = "off" /\ ccfg = Absent

Deploy ==
    /\ env = Absent
    /\ env' \in Environments
    /\ UNCHANGED <<server, cfg, file, saved, client, ccfg>>

-----------------------------------------------------------------------------
(* pkg/config *)

Default(v, d) == IF v <= 0 THEN d ELSE v

\* Of the values, the defaults that matter are those of the port range.
SetServerDefaults(c) == [c EXCEPT !.min = Default(@, DefMin), !.max = Default(@, DefMax)]

\* if val := os.Getenv(...); val != "" { ... = val }
Override(v, e) == IF e # "" THEN e ELSE v

\* The two settings that both ApplyServerEnvOverrides and ApplyClientEnvOverrides
\* take from the same variable.  What strconv.ParseBool refuses is ignored.
ApplyEnvOverrides(c) ==
    [c EXCEPT !.token = Override(@, env.token),
              !.obfuscation = IF env.obfuscation \in {"true", "false"}
                              THEN env.obfuscation = "true" ELSE @]

\* Mutant of ValidateServerConfig: the range is not looked at.
ValidateTokenOnly(c) == c.token # ""

\* The control address is never empty: it has a default.
ValidateServerConfig(c) == c.token # "" /\ c.min <= c.max

ValidateClientConfig(c) == c.id # "" /\ c.token # ""

\* LoadServerConfig, and log.Fatalf when it fails: a file of the operator may be
\* missing or not be JSON, and one that was emptied is not.
LoadServerConfig ==
    /\ env # Absent /\ server = "off"
    /\ \/ \E f \in CASE file = Absent -> ServerFiles [] file = Torn -> {} [] OTHER -> {file} :
             LET c == ApplyEnvOverrides(SetServerDefaults(f))
             IN IF ValidateServerConfig(c) THEN server' = "loaded" /\ cfg' = c
                                           ELSE server' = "fatal" /\ UNCHANGED cfg
       \/ file \in {Absent, Torn} /\ server' = "fatal" /\ UNCHANGED cfg
    /\ UNCHANGED <<env, file, saved, client, ccfg>>

LoadClientConfig ==
    /\ server = "serving" /\ client = "off"
    /\ \/ \E f \in ClientFiles :
             LET c == ApplyEnvOverrides(f)
             IN IF ValidateClientConfig(c) THEN client' = "loaded" /\ ccfg' = c
                                           ELSE client' = "fatal" /\ UNCHANGED ccfg
       \/ client' = "fatal" /\ UNCHANGED ccfg
    /\ UNCHANGED <<env, server, cfg, file, saved>>

\* SaveServerConfig: os.Create empties the file, also one that was saved before.
\* (If os.Create fails nothing changes.)
SaveBegins ==
    /\ server = "loaded"
    /\ server' = "saving" /\ file' = Torn /\ saved' = Absent
    /\ UNCHANGED <<env, cfg, client, ccfg>>

\* A JSON string is text: the encoder replaces what is not.
JsonString(v) == IF v = "bytes" THEN "replaced" ELSE v

\* Mutant of Encoded: the token is left out of the file.
EncodedWithoutToken(c) == [c EXCEPT !.token = ""]

\* What the encoder writes of a configuration: every setting, none omitted.
Encoded(c) == [c EXCEPT !.token = JsonString(@)]

\* Encode has written the file ...
SaveEnds ==
    /\ server = "saving"
    /\ server' = "loaded" /\ file' = Encoded(cfg) /\ saved' = cfg
    /\ UNCHANGED <<env, cfg, client, ccfg>>

\* ... or returns an error, and leaves what it has written.
SaveFails ==
    /\ server = "saving"
    /\ server' = "loaded"
    /\ UNCHANGED <<env, cfg, file, saved, client, ccfg>>

\* The program ends, also in the middle of a save, and is started again, perhaps in
\* another environment.
Restart ==
    /\ server # "off" /\ client = "off"
    /\ server' = "off" /\ cfg' = Absent
    /\ env' \in Environments
    /\ UNCHANGED <<file, saved, client, ccfg>>

-----------------------------------------------------------------------------
(* Server.Start *)

CertFiles == cfg.cert # ""

\* The key pair cannot be loaded, the listener is bound, or it is not: with
\* certificate files that error goes to a variable of the inner block, and Start
\* goes on to use the nil listener.
Start ==
    /\ server = "loaded"
    /\ server' \in IF CertFiles /\ cfg.cert = "bad" THEN {"exited"}
                   ELSE {"serving", IF CertFiles THEN "crashed" ELSE "exited"}
    /\ UNCHANGED <<env, cfg, file, saved, client, ccfg>>

ServerChannel == IF CertFiles THEN "files" ELSE IF cfg.auto THEN "auto" ELSE "raw"

GetDynamicPortRange ==
    LET lo == Default(cfg.min, DefMin)
        hi == Default(cfg.max, DefMax)
    IN IF lo > hi THEN <<DefMin, DefMax>> ELSE <<lo, hi>>

-----------------------------------------------------------------------------
(* connectAndServe: the dial *)

\* Mutant of PoolOf: what cannot be parsed leaves the pool of the system.
PoolOrSystem(ca) == IF ca = "good" THEN "good" ELSE "system"

\* RootCAs after AppendCertsFromPEM, whose result buildTLSConfig ignores.
PoolOf(ca) == CASE ca = "" -> "system" [] ca = "good" -> "good" [] ca = "junk" -> "empty"

\* buildTLSConfig returns no error.
BuildTLSConfig(c) == c.ca # "bad" /\ c.cert # "bad"

\* The server's certificate is signed by a CA of the client's pool.
Trusted(c) == c.skip \/ PoolOf(c.ca) = (IF ServerChannel = "files" THEN "good" ELSE "system")

\* TLS is used if a CA or a certificate is configured; the obfuscation is inside.
Reaches ==
    /\ IF ccfg.ca # "" \/ ccfg.cert # ""
       THEN BuildTLSConfig(ccfg) /\ ServerChannel # "raw" /\ Trusted(ccfg)
       ELSE ServerChannel = "raw"
    /\ cfg.obfuscation = ccfg.obfuscation

Dial ==
    /\ client = "loaded"
    /\ client' = IF Reaches THEN "connected" ELSE "refused"
    /\ UNCHANGED <<env, server, cfg, file, saved, ccfg>>

Next ==
    \/ Deploy \/ LoadServerConfig \/ SaveBegins \/ SaveEnds \/ SaveFails \/ Restart
    \/ Start \/ LoadClientConfig \/ Dial

Spec == Init /\ [][Next]_vars

-----------------------------------------------------------------------------
(* Properties *)

\* A server that serves allocates dynamic ports from exactly the range of its
\* configuration, and the range is not empty: the fallback of GetDynamicPortRange
\* for a range that is upside down is never used on a loaded configuration, also
\* when only one end of the range is configured.
RangeAsConfigured ==
    server = "serving" => GetDynamicPortRange = <<cfg.min, cfg.max>> /\ cfg.min <= cfg.max

\* The settings that need not be those of the saved configuration: the environment
\* gives them now, or JSON could not hold them.
Replaced ==
    {s \in {"token"} : env.token # "" \/ saved.token = "bytes"}
        \cup {s \in {"obfuscation"} : env.obfuscation \in {"true", "false"}}

\* A configuration that was saved to the end loads in whatever environment the program
\* is started next, and with every setting that this environment does not give: those
\* of the file, of the defaults and of the environment in which it was saved.  So a
\* load fails only after a save that a crash or an error cut short.
SavedConfigLoads ==
    [][server = "off" /\ saved # Absent /\ server' # "off"
           => /\ server' = "loaded"
              /\ \A s \in DOMAIN saved \ Replaced : cfg'[s] = saved[s]]_vars

\* buildTLSConfig ignores that a CA file holds no certificate, and still the client
\* trusts no server because of it: it connects only if it verifies nothing at all.
JunkCaFailsClosed ==
    client = "connected" /\ ccfg.ca = "junk" => ccfg.skip
=============================================================================
