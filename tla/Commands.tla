------------------------------- MODULE Commands -------------------------------
(***************************************************************************)
(* The commands around Config: "light-ss convert" writes the configuration  *)
(* file from one of another program (internal/converter,                    *)
(* cmd/light-ss/convert.go), "light-ss start" reads it as Config says, and  *)
(* "light-ss test" reads it too and takes the rest from its flags           *)
(* (cmd/light-ss/test.go).                                                  *)
(*                                                                          *)
(* What the foreign file gives is a set of keys, under the names of Config; *)
(* "lhost" and "lport" are the local address and port of ss-local.          *)
(***************************************************************************)
EXTENDS Config

CONSTANTS
  Foreign,    \* files of other programs
  NoForeign   \* the configuration file was not converted

SsLocalKeys == {"server", "port", "password", "method", "timeout", "lhost", "lport"}
ClashKeys   == {"server", "port", "password", "cipher"}
Formats     == {"ss-local", "clash", "other"}
Plugins     == {"none", "obfs", "obfs-local", "simple-obfs", "v2ray-plugin"}

\* "opts" is <<>> when no plugin options are given, else the set of those that
\* are; "ss" says whether a Clash file has a Shadowsocks proxy.
PossibleForeign(f) ==
  /\ f.format \in Formats /\ f.plugin \in Plugins /\ f.ss \in BOOLEAN
  /\ f.keys \subseteq IF f.format = "clash" THEN ClashKeys ELSE SsLocalKeys
  /\ f.opts = <<>> \/ \E S \in SUBSET {"obfs", "host"} : f.opts = <<S>>

ASSUME ForeignAssumption ==
  /\ NoForeign \notin Foreign
  /\ \A f \in Foreign : PossibleForeign(f)

VARIABLES
  foreign,   \* what is converted
  phase,     \* "convert", "failed" or "ready": the file is there
  out,       \* the plugin of the converted file, with its options
  test,      \* "idle", "flags", "refused" or "client": where runTest is
  ss         \* ssCfg of runTest

allVars == <<vars, foreign, phase, out, test, ss>>

NoPlugin == [plugin |-> "none", opts |-> <<>>]

CommandsTypeOK ==
  /\ TypeOK
  /\ foreign \in Foreign \cup {NoForeign}
  /\ phase \in {"convert", "failed", "ready"}
  /\ out.plugin \in Plugins /\ out.opts \in {<<>>} \cup {<<S>> : S \in SUBSET {"obfs", "host"}}
  /\ test \in {"idle", "flags", "refused", "client"}
  /\ DOMAIN ss = DOMAIN Zero
  /\ ss.ports \in Seq(Sources \ {"none"})
  /\ ss.cipher \in Sources \cup {"fileMethod", "flagMethod"}

CommandsInit ==
  /\ Init
  /\ foreign \in Foreign \cup {NoForeign}
  /\ foreign /= NoForeign => in.hasFile /\ in.file = {}
  /\ phase = IF foreign = NoForeign THEN "ready" ELSE "convert"
  /\ out = NoPlugin /\ test = "idle" /\ ss = Zero

-----------------------------------------------------------------------------
(* convert.                                                                 *)

\* Mutant: the options of Clash keep their place but not their names.
OptsOf_Dropped(f) == IF f.opts = <<>> THEN <<>> ELSE << {} >>

\* parsePluginOptsString and parseClashPluginOpts: nil when none are given.
OptsOf(f) == f.opts

\* Mutant: only the name "obfs-local" is known.
NormalizePluginName_One(p) == IF p = "obfs-local" THEN "simple-obfs" ELSE p

NormalizePluginName(p) == IF p \in {"obfs-local", "obfs"} THEN "simple-obfs" ELSE p

PluginOf(f) == IF f.plugin = "none" THEN NoPlugin
               ELSE [plugin |-> NormalizePluginName(f.plugin), opts |-> OptsOf(f)]

\* Mutant: the password of ss-local is not taken over.
FromSSLocal_NoPassword(f) == (f.keys \ {"lhost", "lport", "password"}) \cup {"socks", "level"}

\* The listen address is written out of the local address and port, given or
\* not; a port that is not given is written as 0, which is as good as none.
FromSSLocal(f) == (f.keys \ {"lhost", "lport"}) \cup {"socks", "level"}

\* Mutant: the cipher of a Clash proxy is not taken over.
FromClash_NoCipher(f) == (f.keys \ {"cipher"}) \cup {"timeout", "unified", "level"}

FromClash(f) == f.keys \cup {"timeout", "unified", "level"}

FileOf(f) == IF f.format = "clash" THEN FromClash(f) ELSE FromSSLocal(f)

\* The file is marshalled and written.
Convert ==
  /\ phase = "convert" /\ foreign.format /= "other"
  /\ foreign.format = "clash" => foreign.ss
  /\ phase' = "ready"
  /\ in' = [in EXCEPT !.file = FileOf(foreign)]
  /\ out' = PluginOf(foreign)
  /\ UNCHANGED <<stage, cfg, foreign, test, ss>>

\* An unknown format, a Clash file without a Shadowsocks proxy, or a file that
\* cannot be read, parsed or written.
ConvertFails ==
  /\ phase = "convert"
  /\ phase' = "failed"
  /\ UNCHANGED <<vars, foreign, out, test, ss>>

-----------------------------------------------------------------------------
(* start.                                                                   *)

Start == phase = "ready" /\ Next /\ UNCHANGED <<foreign, phase, out, test, ss>>

-----------------------------------------------------------------------------
(* test: LoadConfig has returned, or there is no file.  The default of its  *)
(* timeout flag is not 0, so the timeout is always that of the flags.       *)

TestFlags ==
  /\ phase = "ready" /\ stage = "flags" /\ test = "idle"
  /\ test' = "flags"
  /\ ss' = [cfg EXCEPT !.server   = Override("flag", "server"),
                       !.ports    = PortsOf("flag", @),
                       !.port     = Override("flag", "port"),
                       !.password = Override("flag", "password"),
                       !.method   = IF "method" \in in.flag THEN "flagMethod" ELSE @,
                       !.timeout  = "flag"]
  /\ UNCHANGED <<vars, foreign, phase, out>>

TestAccepts(c) == "none" \notin {c.server, c.password, c.method}

TestRefuses ==
  /\ test = "flags" /\ ~TestAccepts(ss)
  /\ test' = "refused"
  /\ UNCHANGED <<vars, foreign, phase, out, ss>>

\* Mutant: the method of the flags wins over the cipher of the file.
TestCipher_Method(c) == c.method

TestCipher(c) == IF c.cipher = "none" THEN c.method ELSE c.cipher

\* The port is appended to whatever the address has.
TestClient ==
  /\ test = "flags" /\ TestAccepts(ss)
  /\ test' = "client"
  /\ ss' = [ss EXCEPT !.ports  = IF ss.port = "none" THEN @ ELSE Append(@, ss.port),
                      !.cipher = TestCipher(ss)]
  /\ UNCHANGED <<vars, foreign, phase, out>>

-----------------------------------------------------------------------------
CommandsNext == Convert \/ ConvertFails \/ Start \/ TestFlags \/ TestRefuses \/ TestClient

CommandsSpec == CommandsInit /\ [][CommandsNext]_allVars

-----------------------------------------------------------------------------
(* Properties.                                                              *)

Converted == foreign /= NoForeign /\ phase = "ready"

\* The plugins NewPlugin knows: any other is left out without a word.
Obfuscates(p) == p.plugin \in {"simple-obfs", "obfs-local"}

Parsed == stage \notin {"start", "error"}
Overridden(k) == k \in in.env \cup in.flag

\* What a foreign file says of the server survives the conversion, the file
\* that is written and its parser: from there on the server and the password
\* are those of the foreign file, unless the environment or a flag gives
\* another.  The proxy is started with its port once, with its method and
\* timeout, if nothing overrides them, and with obfuscation exactly if the
\* foreign file asks for it.
ConvertedKept ==
  /\ Converted /\ Parsed =>
       \A k \in foreign.keys \cap {"server", "password"} : ~Overridden(k) => cfg[k] = "file"
  /\ Ready /\ Converted =>
       /\ "port" \in foreign.keys /\ ~Overridden("server") => cfg.ports = <<"file">>
       /\ "cipher" \notin in.env /\ foreign.keys \cap {"cipher", "method"} /= {} =>
            cfg.cipher \in {"file", "fileMethod"}
       /\ "timeout" \in foreign.keys /\ "timeout" \notin in.flag => cfg.timeout = "file"
  /\ Converted =>
       /\ Obfuscates(out) <=> foreign.plugin \in {"obfs", "obfs-local", "simple-obfs"}
       /\ Obfuscates(out) => out.opts = foreign.opts

\* The file gives no separate port, which LoadConfig would have merged into
\* the address, and a flag gives one only for an address without a port.
PortUnmerged ==
  /\ "port" \notin in.file
  /\ "port" \in in.flag => "serverPort" \notin in.file \cup in.env \cup in.flag

\* With the same file, environment and flags, "test" speaks to the server
\* "start" would use, with the same password and cipher, although each puts
\* them together in its own way.  The address is the same one, or has the
\* separate port appended once more; it is the same when PortUnmerged.
TestAgrees ==
  Ready /\ test = "client" =>
    /\ \A k \in {"server", "password", "cipher"} : ss[k] = cfg[k]
    /\ ss.ports \in {cfg.ports, Append(cfg.ports, cfg.port)}
    /\ PortUnmerged => ss.ports = cfg.ports

\* What the comment at the default of Validate says, and the README of the
\* addresses that are bound by default: without a local address or port in
\* the foreign file, the proxy listens on the default unified address.
ConvertedListens ==
  /\ Ready /\ Converted /\ foreign.keys \cap {"lhost", "lport"} = {}
  /\ {"unified", "socks", "http"} \cap (in.env \cup in.flag) = {}
  => cfg.unified /= "none"
=============================================================================
