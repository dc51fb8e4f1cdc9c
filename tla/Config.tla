-------------------------------- MODULE Config --------------------------------
(***************************************************************************)
(* How "light-ss start" arrives at its configuration: the file, the         *)
(* environment and the flags (LoadConfig in internal/config/loader.go,      *)
(* Validate in internal/config/config.go, runStart and applyFlags in        *)
(* cmd/light-ss/start.go).                                                  *)
(*                                                                          *)
(* A value is represented by where it comes from: "file", "env", "flag" or  *)
(* "default"; "none" is the zero value.  A source is the set of what it     *)
(* gives: "server" a server address, "serverPort" that it includes a port,  *)
(* "port" a port of its own, "auth" that its SOCKS5 address includes        *)
(* credentials, and so on.                                                  *)
(***************************************************************************)
EXTENDS Integers, Sequences, FiniteSets

CONSTANT Inputs      \* what the three sources may give

Keys == {"server", "serverPort", "port", "password", "cipher", "method", "timeout",
         "unified", "http", "socks", "auth", "level"}

FileKeys == Keys
EnvKeys  == Keys \ {"port", "method", "timeout", "unified"}
FlagKeys == Keys \ {"cipher"}

\* A file gives one address for everything, or one per protocol.
Possible(in) ==
  /\ in \in [hasFile : BOOLEAN, file : SUBSET FileKeys, env : SUBSET EnvKeys,
             flag : SUBSET FlagKeys]
  /\ ~("unified" \in in.file /\ in.file \cap {"http", "socks"} /= {})
  /\ \A src \in {"file", "env", "flag"} :
       /\ "serverPort" \in in[src] => "server" \in in[src]
       /\ "auth" \in in[src] => "socks" \in in[src]
  /\ ~in.hasFile => in.file = {}

ASSUME InputAssumption == \A in \in Inputs : Possible(in)

VARIABLES
  in,      \* the sources of this run
  stage,   \* what comes next
  cfg      \* the Config

vars == <<in, stage, cfg>>

Sources == {"none", "file", "env", "flag", "default"}

Zero == [server |-> "none", ports |-> <<>>, port |-> "none", password |-> "none",
         cipher |-> "none", method |-> "none", normal |-> FALSE, timeout |-> "none",
         unified |-> "none", http |-> "none", socks |-> "none", auth |-> "none",
         level |-> "none"]

\* "ports" are the ports in the server address; the cipher may be the method
\* of the file, or of the flags.
TypeOK ==
  /\ Possible(in)
  /\ stage \in {"start", "env", "validate", "normalize", "flags", "revalidate", "ready",
                "error"}
  /\ DOMAIN cfg = DOMAIN Zero
  /\ cfg.ports \in Seq(Sources \ {"none"}) /\ cfg.normal \in BOOLEAN
  /\ cfg.method \in {"none", "fileMethod", "flagMethod"}
  /\ cfg.cipher \in Sources \cup {"fileMethod", "flagMethod"}
  /\ \A k \in DOMAIN cfg \ {"ports", "normal", "method", "cipher"} : cfg[k] \in Sources

Init ==
  /\ in \in Inputs
  /\ stage = "start" /\ cfg = Zero

Given(src, key, old) == IF key \in in[src] THEN src ELSE old
Goto(s) == stage' = s /\ UNCHANGED in

-----------------------------------------------------------------------------
(* LoadConfig.                                                              *)

PortsOf(src, old) == IF "server" \notin in[src] THEN old
                     ELSE IF "serverPort" \in in[src] THEN <<src>> ELSE <<>>

\* The file is parsed, UnmarshalJSON and UnmarshalYAML included.
ParseFile ==
  /\ stage = "start" /\ in.hasFile
  /\ Goto("env")
  /\ cfg' = [k \in DOMAIN Zero |->
               CASE k = "ports"  -> PortsOf("file", <<>>)
                 [] k = "normal" -> FALSE
                 [] k = "method" -> IF "method" \in in.file THEN "fileMethod" ELSE "none"
                 [] OTHER        -> Given("file", k, "none")]

\* A file that cannot be read or parsed.
ParseFails ==
  /\ stage = "start" /\ in.hasFile
  /\ Goto("error")
  /\ UNCHANGED cfg

\* Without a file: no environment either.
NoFile ==
  /\ stage = "start" /\ ~in.hasFile
  /\ Goto("flags")
  /\ cfg' = [Zero EXCEPT !.level = "default"]

\* Mutant: the environment only fills in what the file leaves out.
Override_Fills(src, key) == IF cfg[key] = "none" THEN Given(src, key, "none") ELSE cfg[key]

Override(src, key) == Given(src, key, cfg[key])

\* The SOCKS5 address of the environment is not searched for credentials, and
\* those of the file stay.
ApplyEnvOverrides ==
  /\ stage = "env"
  /\ Goto("validate")
  /\ cfg' = [cfg EXCEPT !.server   = Override("env", "server"),
                        !.ports    = PortsOf("env", @),
                        !.password = Override("env", "password"),
                        !.cipher   = Override("env", "cipher"),
                        !.http     = Override("env", "http"),
                        !.socks    = Override("env", "socks"),
                        !.level    = Override("env", "level")]

Default(v) == IF v = "none" THEN "default" ELSE v

\* Mutant: the port is appended to an address that has one.
MergedPorts_Always(c) == IF c.port /= "none" THEN Append(c.ports, c.port) ELSE c.ports

\* Mutant: a port that is not given is appended as well.
MergedPorts_Zero(c) == IF c.ports = <<>> THEN <<c.port>> ELSE c.ports

\* A separate port counts when the address has none.
MergedPorts(c) == IF c.port /= "none" /\ c.ports = <<>> THEN <<c.port>> ELSE c.ports

Rejected(c) == c.server = "none" \/ c.password = "none"

\* Mutant: no proxy is enabled by default.
DefaultUnified_None(c) == c.unified

DefaultUnified(c) ==
  IF c.unified = "none" /\ c.http = "none" /\ c.socks = "none" THEN "default" ELSE c.unified

\* Config.Validate: it checks, and fills in defaults.
Validated(c) ==
  [c EXCEPT !.ports   = MergedPorts(c),
            !.cipher  = IF @ = "none" THEN Default(c.method) ELSE @,
            !.timeout = Default(@),
            !.unified = DefaultUnified(c),
            !.level   = Default(@)]

ValidateAt(from, to) ==
  /\ stage = from
  /\ IF Rejected(cfg) THEN Goto("error") /\ UNCHANGED cfg
                      ELSE Goto(to) /\ cfg' = Validated(cfg)

ValidateFile == ValidateAt("validate", "normalize")

NormalizeCipherName ==
  /\ stage = "normalize"
  /\ Goto("flags")
  /\ cfg' = [cfg EXCEPT !.normal = TRUE]

-----------------------------------------------------------------------------
(* runStart.                                                                *)

\* Mutant: ParseAuth is only heeded when the flag has credentials.
FlagAuth_Keeps == Given("flag", "auth", cfg.auth)

\* ParseAuth replaces the credentials, by none if there are none.
FlagAuth == IF "socks" \in in.flag THEN Given("flag", "auth", "none") ELSE cfg.auth

\* Mutant: a flag for a protocol leaves the unified address.
FlagUnified_Stays == Override("flag", "unified")

\* A flag for one protocol clears the unified address, whoever gave it.
FlagUnified == IF in.flag \cap {"http", "socks"} /= {} THEN "none" ELSE Override("flag", "unified")

\* The unified flag clears the addresses of the file and the environment.
Cleared(key) == Given("flag", key, IF "unified" \in in.flag THEN "none" ELSE cfg[key])

\* -m sets Method, which Validate ignores when there is a Cipher.
ApplyFlags ==
  /\ stage = "flags"
  /\ Goto("revalidate")
  /\ cfg' = [cfg EXCEPT !.server   = Override("flag", "server"),
                        !.ports    = PortsOf("flag", @),
                        !.port     = Override("flag", "port"),
                        !.password = Override("flag", "password"),
                        !.method   = IF "method" \in in.flag THEN "flagMethod" ELSE @,
                        !.timeout  = Override("flag", "timeout"),
                        !.unified  = FlagUnified,
                        !.http     = Cleared("http"),
                        !.socks    = Cleared("socks"),
                        !.auth     = FlagAuth,
                        !.level    = Override("flag", "level")]

Revalidate == ValidateAt("revalidate", "ready")

Next == \/ ParseFile \/ ParseFails \/ NoFile \/ ApplyEnvOverrides \/ ValidateFile
        \/ NormalizeCipherName \/ ApplyFlags \/ Revalidate

Spec == Init /\ [][Next]_vars

-----------------------------------------------------------------------------
(* Properties.                                                              *)

Ready == stage = "ready"

\* A configuration the servers are started with lacks nothing they rely on,
\* whatever a later source has cleared: a server, a password, a cipher, a
\* timeout, and a proxy to start.  The server address, validated twice and
\* overridden in between, has not got a second port.
Complete ==
  Ready =>
    /\ "none" \notin {cfg.server, cfg.password, cfg.cipher, cfg.timeout, cfg.level}
    /\ \E k \in {"unified", "http", "socks"} : cfg[k] /= "none"
    /\ Len(cfg.ports) <= 1

\* The README's order of priority, as a definition: the first of the sources,
\* given in that order, that has the key.
Winner(key) == CASE key \in in.flag                      -> "flag"
                 [] key \in in.env \ in.flag             -> "env"
                 [] key \in in.file \ (in.env \cup in.flag) -> "file"
                 [] OTHER                               -> "default"

\* The server, the password, the timeout and the log level are those of the
\* source of highest priority, when a configuration file is used.
Prioritised ==
  Ready /\ in.hasFile =>
    \A k \in {"server", "password", "timeout", "level"} : cfg[k] = Winner(k)

\* Flags that choose between one port and a port per protocol are obeyed: an
\* address the user did not ask for is not listened on.
ModeChosen ==
  Ready =>
    /\ in.flag \cap {"http", "socks"} /= {} => cfg.unified = "none"
    /\ "unified" \in in.flag =>
         \A k \in {"http", "socks"} : cfg[k] /= "none" => k \in in.flag

\* A SOCKS5 listener asks for the credentials of the address it listens on and
\* for no others, if a file or a flag gave the address.  An address of the
\* environment is not searched for credentials: the listener asks for those of
\* the address in the file it replaces, or for none.
AuthOfListener ==
  Ready /\ cfg.socks /= "none" /\ cfg.unified = "none" =>
    cfg.auth = IF cfg.socks = "flag" THEN Given("flag", "auth", "none")
                                     ELSE Given("file", "auth", "none")
=============================================================================
