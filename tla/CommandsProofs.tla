--------------------------- MODULE CommandsProofs ---------------------------
(***************************************************************************)
(* Proofs about Config and about Commands, which extends it, for any set of *)
(* inputs and any foreign files.  The first part is about the stages of     *)
(* "start": its invariants say what each stage leaves to the next one.  The *)
(* second shows that they also hold of a converted file, and that a         *)
(* conversion keeps what the foreign file says of the server.               *)
(***************************************************************************)
EXTENDS Commands, TLAPS

-----------------------------------------------------------------------------
(* The stages of Config.                                                    *)

Fields == {"server", "ports", "port", "password", "cipher", "method", "normal", "timeout",
           "unified", "http", "socks", "auth", "level"}

\* The fields of a Config, and the ports of its address.
PortInv ==
  /\ Possible(in)
  /\ DOMAIN cfg = Fields
  /\ cfg.port \in Sources
  /\ cfg.ports \in Seq(Sources \ {"none"}) /\ Len(cfg.ports) <= 1

\* Between ApplyFlags and the start, the mode the flags have chosen; a flag
\* for a protocol has also left a proxy to start, so no default comes back.
ModeInv ==
  stage \in {"revalidate", "ready"} =>
    /\ in.flag \cap {"http", "socks"} /= {} =>
         cfg.unified = "none" /\ (cfg.http /= "none" \/ cfg.socks /= "none")
    /\ "unified" \in in.flag =>
         \A k \in {"http", "socks"} : cfg[k] /= "none" => k \in in.flag

\* Before the flags, credentials are those of the file; after them, those of
\* the flag if it gives the address.
AuthInv ==
  /\ stage \in {"env", "validate", "normalize", "flags"} =>
       /\ cfg.socks \in {"none", "file", "env"}
       /\ cfg.auth = Given("file", "auth", "none")
  /\ stage \in {"revalidate", "ready"} =>
       (cfg.socks /= "none" /\ cfg.unified = "none" =>
          cfg.auth = IF cfg.socks = "flag" THEN Given("flag", "auth", "none")
                                           ELSE Given("file", "auth", "none"))

Chosen == {"server", "password", "timeout", "level"}

\* Each stage lets its source override the ones before.
PriorityInv ==
  \A k \in Chosen :
    /\ stage = "env" => cfg[k] = Given("file", k, "none")
    /\ stage = "validate" => cfg[k] = Given("env", k, Given("file", k, "none"))
    /\ stage \in {"normalize", "flags"} /\ in.hasFile =>
         cfg[k] = Given("env", k, Given("file", k, "default"))
    /\ stage \in {"revalidate", "ready"} /\ in.hasFile =>
         cfg[k] = Given("flag", k, Given("env", k, Given("file", k, "default")))

IInv == PortInv /\ ModeInv /\ AuthInv /\ PriorityInv /\ Complete

-----------------------------------------------------------------------------
(* What the steps do to the fields the properties are about.                *)

LEMMA ZeroFields == DOMAIN Zero = Fields
BY DEF Zero, Fields

\* Validated fills in what is missing and keeps the rest.
LEMMA ValidatedFields ==
  ASSUME NEW c, DOMAIN c = Fields
  PROVE  /\ DOMAIN Validated(c) = Fields
         /\ Validated(c).ports = MergedPorts(c)
         /\ Validated(c).cipher = IF c.cipher = "none" THEN Default(c.method) ELSE c.cipher
         /\ Validated(c).timeout = Default(c.timeout)
         /\ Validated(c).unified = DefaultUnified(c)
         /\ Validated(c).level = Default(c.level)
         /\ \A k \in {"server", "port", "password", "method", "normal", "http", "socks",
                      "auth"} : Validated(c)[k] = c[k]
BY DEF Validated, Fields

\* A port is only added to an address without one.
LEMMA MergedPortsFacts ==
  ASSUME NEW c, c.port \in Sources, c.ports \in Seq(Sources \ {"none"}), Len(c.ports) <= 1
  PROVE  MergedPorts(c) \in Seq(Sources \ {"none"}) /\ Len(MergedPorts(c)) <= 1
<1>1. CASE c.port /= "none" /\ c.ports = <<>>
  <2>1. MergedPorts(c) = <<c.port>> /\ c.port \in Sources \ {"none"}
    BY <1>1 DEF MergedPorts
  <2> QED
    BY <2>1
<1>2. CASE ~(c.port /= "none" /\ c.ports = <<>>)
  BY <1>2 DEF MergedPorts
<1> QED
  BY <1>1, <1>2

\* A source gives an address with one port or none.
LEMMA PortsOfFacts ==
  ASSUME NEW src \in {"file", "env", "flag"}, NEW old \in Seq(Sources \ {"none"}),
         Len(old) <= 1
  PROVE  PortsOf(src, old) \in Seq(Sources \ {"none"}) /\ Len(PortsOf(src, old)) <= 1
<1>1. src \in Sources \ {"none"}
  BY DEF Sources
<1>2. <<src>> \in Seq(Sources \ {"none"}) /\ Len(<<src>>) = 1
  BY <1>1
<1>3. <<>> \in Seq(Sources \ {"none"}) /\ Len(<<>>) = 0
  OBVIOUS
<1>4. PortsOf(src, old) = old \/ PortsOf(src, old) = <<src>> \/ PortsOf(src, old) = <<>>
  BY DEF PortsOf
<1>5. CASE PortsOf(src, old) = old
  BY <1>5
<1>6. CASE PortsOf(src, old) = <<src>>
  BY <1>2, <1>6
<1>7. CASE PortsOf(src, old) = <<>>
  BY <1>3, <1>7
<1> QED
  BY <1>4, <1>5, <1>6, <1>7

\* The fields after the file has been parsed.
LEMMA ParsedFields ==
  ASSUME ParseFile
  PROVE  /\ DOMAIN cfg' = Fields /\ in' = in /\ stage' = "env" /\ in.hasFile
         /\ cfg'.ports = PortsOf("file", <<>>) /\ cfg'.normal = FALSE
         /\ cfg'.method = IF "method" \in in.file THEN "fileMethod" ELSE "none"
         /\ \A k \in Fields \ {"ports", "normal", "method"} : cfg'[k] = Given("file", k, "none")
BY ZeroFields DEF ParseFile, Goto, Fields

\* The fields after the environment has been applied.
LEMMA EnvFields ==
  ASSUME ApplyEnvOverrides, DOMAIN cfg = Fields
  PROVE  /\ DOMAIN cfg' = Fields /\ in' = in /\ stage = "env" /\ stage' = "validate"
         /\ cfg'.ports = PortsOf("env", cfg.ports)
         /\ \A k \in {"server", "password", "cipher", "http", "socks", "level"} :
              cfg'[k] = Given("env", k, cfg[k])
         /\ \A k \in {"port", "method", "normal", "timeout", "unified", "auth"} :
              cfg'[k] = cfg[k]
BY DEF ApplyEnvOverrides, Goto, Fields, Override

\* The fields after the flags have been applied.
LEMMA FlagFields ==
  ASSUME ApplyFlags, DOMAIN cfg = Fields
  PROVE  /\ DOMAIN cfg' = Fields /\ in' = in /\ stage = "flags" /\ stage' = "revalidate"
         /\ cfg'.ports = PortsOf("flag", cfg.ports)
         /\ \A k \in {"server", "port", "password", "timeout", "level"} :
              cfg'[k] = Given("flag", k, cfg[k])
         /\ cfg'.unified = FlagUnified
         /\ cfg'.http = Cleared("http") /\ cfg'.socks = Cleared("socks")
         /\ cfg'.auth = FlagAuth
         /\ cfg'.cipher = cfg.cipher /\ cfg'.normal = cfg.normal
         /\ cfg'.method = IF "method" \in in.flag THEN "flagMethod" ELSE cfg.method
BY DEF ApplyFlags, Goto, Fields, Override

\* A validation rejects, or fills in.
LEMMA ValidateFields ==
  ASSUME NEW from, NEW to, ValidateAt(from, to)
  PROVE  /\ in' = in /\ stage = from
         /\ \/ stage' = "error" /\ cfg' = cfg
            \/ /\ stage' = to /\ cfg' = Validated(cfg)
               /\ cfg.server /= "none" /\ cfg.password /= "none"
BY DEF ValidateAt, Goto, Rejected

-----------------------------------------------------------------------------
\* An empty Config satisfies all of them.
LEMMA StartIInv == Possible(in) /\ stage = "start" /\ cfg = Zero => IInv
<1> SUFFICES ASSUME Possible(in), stage = "start", cfg = Zero PROVE IInv
  OBVIOUS
<1>1. cfg.port = "none" /\ cfg.ports = <<>>
  BY DEF Zero
<1>2. PortInv
  BY <1>1, ZeroFields DEF PortInv, Sources
<1>3. ModeInv /\ AuthInv /\ PriorityInv /\ Complete
  BY DEF ModeInv, AuthInv, PriorityInv, Complete, Ready
<1> QED
  BY <1>2, <1>3 DEF IInv

LEMMA InitIInv == Init => IInv
BY StartIInv, InputAssumption DEF Init

\* Validation is the only step that adds a port.
LEMMA PortStep ==
  ASSUME PortInv, [Next]_vars
  PROVE  PortInv'
<1>1. CASE ParseFile
  <2>1. cfg'.port \in Sources
    BY <1>1, ParsedFields DEF Given, Sources, Fields
  <2>2. <<>> \in Seq(Sources \ {"none"}) /\ Len(<<>>) <= 1
    OBVIOUS
  <2> QED
    BY <1>1, <2>1, <2>2, ParsedFields, PortsOfFacts DEF PortInv
<1>2. CASE ParseFails
  BY <1>2 DEF ParseFails, Goto, PortInv
<1>3. CASE NoFile
  <2>1. cfg'.port = "none" /\ cfg'.ports = <<>> /\ DOMAIN cfg' = Fields
    BY <1>3, ZeroFields DEF NoFile, Zero
  <2>2. cfg'.ports \in Seq(Sources \ {"none"}) /\ Len(cfg'.ports) <= 1
    BY <2>1
  <2>3. cfg'.port \in Sources
    BY <2>1 DEF Sources
  <2>4. in' = in
    BY <1>3 DEF NoFile, Goto
  <2> QED
    BY <2>1, <2>2, <2>3, <2>4 DEF PortInv
<1>4. CASE ApplyEnvOverrides
  BY <1>4, EnvFields, PortsOfFacts DEF PortInv
<1>5. ASSUME NEW from, NEW to, ValidateAt(from, to) PROVE PortInv'
  BY <1>5, ValidateFields, ValidatedFields, MergedPortsFacts DEF PortInv
<1>6. CASE NormalizeCipherName
  BY <1>6 DEF NormalizeCipherName, Goto, PortInv, Fields
<1>7. CASE ApplyFlags
  <2>1. cfg'.port \in Sources
    BY <1>7, FlagFields DEF PortInv, Given, Sources
  <2> QED
    BY <1>7, <2>1, FlagFields, PortsOfFacts DEF PortInv
<1>8. CASE UNCHANGED vars
  BY <1>8 DEF vars, PortInv
<1> QED
  BY <1>1, <1>2, <1>3, <1>4, <1>5, <1>6, <1>7, <1>8 DEF Next, ValidateFile, Revalidate

\* ApplyFlags chooses the mode and the second validation keeps it.
LEMMA ModeStep ==
  ASSUME PortInv, ModeInv, [Next]_vars
  PROVE  ModeInv'
<1>1. CASE ParseFile \/ ParseFails \/ NoFile \/ ApplyEnvOverrides \/ NormalizeCipherName
  BY <1>1 DEF ParseFile, ParseFails, NoFile, ApplyEnvOverrides, NormalizeCipherName, Goto, ModeInv
<1>2. CASE ValidateFile
  BY <1>2 DEF ValidateFile, ValidateAt, Goto, ModeInv
<1>3. CASE ApplyFlags
  <2>1. in.flag \cap {"http", "socks"} /= {} =>
          cfg'.unified = "none" /\ (cfg'.http /= "none" \/ cfg'.socks /= "none")
    BY <1>3, FlagFields DEF PortInv, FlagUnified, Cleared, Given
  <2>2. "unified" \in in.flag =>
          \A k \in {"http", "socks"} : cfg'[k] /= "none" => k \in in.flag
    BY <1>3, FlagFields DEF PortInv, Cleared, Given
  <2> QED
    BY <1>3, <2>1, <2>2, FlagFields DEF PortInv, ModeInv
<1>4. CASE Revalidate
  <2>1. CASE stage' = "error"
    BY <2>1 DEF ModeInv
  <2>2. CASE stage' /= "error"
    <3>1. in' = in /\ stage = "revalidate" /\ cfg' = Validated(cfg)
      BY <1>4, <2>2, ValidateFields DEF Revalidate
    <3>2. cfg'.http = cfg.http /\ cfg'.socks = cfg.socks
      BY <3>1, ValidatedFields DEF PortInv
    <3>3. cfg'.unified = DefaultUnified(cfg)
      BY <3>1, ValidatedFields DEF PortInv
    <3> QED
      BY <3>1, <3>2, <3>3 DEF ModeInv, DefaultUnified
  <2> QED
    BY <2>1, <2>2
<1>5. CASE UNCHANGED vars
  BY <1>5 DEF vars, ModeInv
<1> QED
  BY <1>1, <1>2, <1>3, <1>4, <1>5 DEF Next

\* Only ApplyFlags gives other credentials, and with another address.
LEMMA AuthStep ==
  ASSUME PortInv, AuthInv, [Next]_vars
  PROVE  AuthInv'
<1>1. CASE ParseFile
  BY <1>1, ParsedFields DEF AuthInv, Given, Fields
<1>2. CASE ParseFails
  BY <1>2 DEF ParseFails, Goto, AuthInv
<1>3. CASE NoFile
  <2>1. cfg'.socks = "none" /\ cfg'.auth = "none" /\ stage' = "flags" /\ in' = in
    BY <1>3 DEF NoFile, Goto, Zero
  <2>2. "auth" \notin in.file
    BY <1>3 DEF NoFile, PortInv, Possible
  <2> QED
    BY <2>1, <2>2 DEF AuthInv, Given
<1>4. CASE ApplyEnvOverrides
  BY <1>4, EnvFields DEF PortInv, AuthInv, Given
<1>5. CASE ValidateFile
  <2>1. CASE stage' = "error"
    BY <2>1 DEF AuthInv
  <2>2. CASE stage' /= "error"
    <3>1. in' = in /\ stage = "validate" /\ stage' = "normalize" /\ cfg' = Validated(cfg)
      BY <1>5, <2>2, ValidateFields DEF ValidateFile
    <3>2. cfg'.socks = cfg.socks /\ cfg'.auth = cfg.auth
      BY <3>1, ValidatedFields DEF PortInv
    <3> QED
      BY <3>1, <3>2 DEF AuthInv, Given
  <2> QED
    BY <2>1, <2>2
<1>6. CASE NormalizeCipherName
  BY <1>6 DEF NormalizeCipherName, Goto, PortInv, Fields, AuthInv, Given
<1>7. CASE ApplyFlags
  <2>1. cfg.socks \in {"none", "file", "env"}
    BY <1>7, FlagFields DEF PortInv, AuthInv
  <2>2. CASE "socks" \in in.flag
    <3>1. cfg'.socks = "flag" /\ cfg'.auth = Given("flag", "auth", "none")
      BY <1>7, <2>2, FlagFields DEF PortInv, Cleared, FlagAuth, Given
    <3> QED
      BY <1>7, <3>1, FlagFields DEF PortInv, AuthInv, Given
  <2>3. CASE "socks" \notin in.flag
    <3>1. cfg'.auth = cfg.auth /\ cfg'.socks \in {"none", cfg.socks}
      BY <1>7, <2>3, FlagFields DEF PortInv, Cleared, FlagAuth, Given
    <3>2. cfg.auth = Given("file", "auth", "none")
      BY <1>7, FlagFields DEF PortInv, AuthInv
    <3> QED
      BY <1>7, <2>1, <3>1, <3>2, FlagFields DEF PortInv, AuthInv, Given
  <2> QED
    BY <2>2, <2>3
<1>8. CASE Revalidate
  <2>1. CASE stage' = "error"
    BY <2>1 DEF AuthInv
  <2>2. CASE stage' /= "error"
    <3>1. in' = in /\ stage = "revalidate" /\ stage' = "ready" /\ cfg' = Validated(cfg)
      BY <1>8, <2>2, ValidateFields DEF Revalidate
    <3>2. cfg'.socks = cfg.socks /\ cfg'.auth = cfg.auth /\ cfg'.unified = DefaultUnified(cfg)
      BY <3>1, ValidatedFields DEF PortInv
    <3> QED
      BY <3>1, <3>2 DEF AuthInv, DefaultUnified, Given
  <2> QED
    BY <2>1, <2>2
<1>9. CASE UNCHANGED vars
  BY <1>9 DEF vars, AuthInv, Given
<1> QED
  BY <1>1, <1>2, <1>3, <1>4, <1>5, <1>6, <1>7, <1>8, <1>9 DEF Next

\* Each step overrides by its own source, or gives a default to what is left.
LEMMA PriorityStep ==
  ASSUME PortInv, PriorityInv, [Next]_vars
  PROVE  PriorityInv'
<1> SUFFICES ASSUME NEW k \in Chosen
             PROVE  /\ stage' = "env" => cfg'[k] = Given("file", k, "none")'
                    /\ stage' = "validate" =>
                         cfg'[k] = Given("env", k, Given("file", k, "none"))'
                    /\ stage' \in {"normalize", "flags"} /\ in'.hasFile =>
                         cfg'[k] = Given("env", k, Given("file", k, "default"))'
                    /\ stage' \in {"revalidate", "ready"} /\ in'.hasFile =>
                         cfg'[k] = Given("flag", k, Given("env", k, Given("file", k, "default")))'
  BY DEF PriorityInv
<1>0. k \in Fields \ {"ports", "normal", "method"}
  BY DEF Chosen, Fields
<1>1. CASE ParseFile
  BY <1>0, <1>1, ParsedFields DEF Given
<1>2. CASE ParseFails
  BY <1>2 DEF ParseFails, Goto
<1>3. CASE NoFile
  BY <1>3 DEF NoFile, Goto
<1>4. CASE ApplyEnvOverrides
  <2>1. cfg[k] = Given("file", k, "none") /\ stage' = "validate" /\ in' = in
    BY <1>4, EnvFields DEF PortInv, PriorityInv
  <2>2. cfg'[k] = Given("env", k, cfg[k])
    <3>1. CASE k = "timeout"
      <4>1. "timeout" \notin in.env
        BY DEF PortInv, Possible, EnvKeys
      <4> QED
        BY <1>4, <3>1, <4>1, EnvFields DEF PortInv, Given
    <3>2. CASE k /= "timeout"
      BY <1>4, <3>2, EnvFields DEF PortInv, Chosen
    <3> QED
      BY <3>1, <3>2
  <2> QED
    BY <2>1, <2>2 DEF Given
<1>5. CASE ValidateFile
  <2>1. CASE stage' = "error"
    BY <2>1
  <2>2. CASE stage' /= "error"
    <3>1. /\ in' = in /\ stage = "validate" /\ stage' = "normalize" /\ cfg' = Validated(cfg)
          /\ cfg.server /= "none" /\ cfg.password /= "none"
      BY <1>5, <2>2, ValidateFields DEF ValidateFile
    <3>2. cfg[k] = Given("env", k, Given("file", k, "none"))
      BY <3>1 DEF PriorityInv
    <3>3. cfg'[k] = Default(cfg[k])
      BY <3>1, ValidatedFields DEF PortInv, Chosen, Default
    <3> QED
      BY <3>1, <3>2, <3>3 DEF Given, Default
  <2> QED
    BY <2>1, <2>2
<1>6. CASE NormalizeCipherName
  <2>1. cfg'[k] = cfg[k] /\ in' = in /\ stage = "normalize" /\ stage' = "flags"
    BY <1>0, <1>6 DEF NormalizeCipherName, Goto, PortInv, Fields
  <2> QED
    BY <2>1 DEF PriorityInv, Given
<1>7. CASE ApplyFlags
  <2>1. /\ cfg'[k] = Given("flag", k, cfg[k]) /\ in' = in
        /\ stage = "flags" /\ stage' = "revalidate"
    BY <1>7, FlagFields DEF PortInv, Chosen
  <2> QED
    BY <2>1 DEF PriorityInv, Given
<1>8. CASE Revalidate
  <2>1. CASE stage' = "error"
    BY <2>1
  <2>2. CASE stage' /= "error"
    <3>1. /\ in' = in /\ stage = "revalidate" /\ stage' = "ready" /\ cfg' = Validated(cfg)
          /\ cfg.server /= "none" /\ cfg.password /= "none"
      BY <1>8, <2>2, ValidateFields DEF Revalidate
    <3>2. in.hasFile =>
            cfg[k] = Given("flag", k, Given("env", k, Given("file", k, "default")))
      BY <3>1 DEF PriorityInv
    <3>3. cfg'[k] = Default(cfg[k])
      BY <3>1, ValidatedFields DEF PortInv, Chosen, Default
    <3> QED
      BY <3>1, <3>2, <3>3 DEF Given, Default
  <2> QED
    BY <2>1, <2>2
<1>9. CASE UNCHANGED vars
  BY <1>9 DEF vars, PriorityInv, Given
<1> QED
  BY <1>1, <1>2, <1>3, <1>4, <1>5, <1>6, <1>7, <1>8, <1>9 DEF Next

\* Only Revalidate leads to the start, and it has filled in everything.
LEMMA CompleteStep ==
  ASSUME PortInv, Complete, [Next]_vars
  PROVE  Complete'
<1>1. CASE ParseFile \/ ParseFails \/ NoFile \/ ApplyEnvOverrides \/ NormalizeCipherName
             \/ ApplyFlags
  BY <1>1 DEF ParseFile, ParseFails, NoFile, ApplyEnvOverrides, NormalizeCipherName, ApplyFlags,
              Goto, Complete, Ready
<1>2. CASE ValidateFile
  BY <1>2 DEF ValidateFile, ValidateAt, Goto, Complete, Ready
<1>3. CASE Revalidate
  <2>1. CASE stage' = "error"
    BY <2>1 DEF Complete, Ready
  <2>2. CASE stage' /= "error"
    <3>1. cfg' = Validated(cfg) /\ cfg.server /= "none" /\ cfg.password /= "none"
      BY <1>3, <2>2, ValidateFields DEF Revalidate
    <3>2. /\ "none" /= cfg'.server /\ "none" /= cfg'.password
          /\ "none" /= cfg'.timeout /\ "none" /= cfg'.level
      BY <3>1, ValidatedFields DEF PortInv, Default
    <3>3. "none" /= cfg'.cipher
      BY <3>1, ValidatedFields DEF PortInv, Default
    <3>4. \E k \in {"unified", "http", "socks"} : cfg'[k] /= "none"
      BY <3>1, ValidatedFields DEF PortInv, DefaultUnified
    <3>5. Len(cfg'.ports) <= 1
      BY <3>1, ValidatedFields, MergedPortsFacts DEF PortInv
    <3> QED
      BY <3>2, <3>3, <3>4, <3>5 DEF Complete
  <2> QED
    BY <2>1, <2>2
<1>4. CASE UNCHANGED vars
  BY <1>4 DEF vars, Complete, Ready
<1> QED
  BY <1>1, <1>2, <1>3, <1>4 DEF Next

\* The fields that hold a source, but for those with names of their own.
Plain == Fields \ {"ports", "normal", "method", "cipher"}

LEMMA TypeParts ==
  ASSUME PortInv
  PROVE  TypeOK <=>
    /\ stage \in {"start", "env", "validate", "normalize", "flags", "revalidate", "ready", "error"}
    /\ cfg.normal \in BOOLEAN /\ cfg.method \in {"none", "fileMethod", "flagMethod"}
    /\ cfg.cipher \in Sources \cup {"fileMethod", "flagMethod"}
    /\ \A k \in Plain : cfg[k] \in Sources
BY ZeroFields DEF TypeOK, PortInv, Plain

LEMMA StartTypeOK == Possible(in) /\ stage = "start" /\ cfg = Zero => TypeOK
<1> SUFFICES ASSUME Possible(in), stage = "start", cfg = Zero PROVE TypeOK
  OBVIOUS
<1>1. PortInv
  BY StartIInv DEF IInv
<1>2. /\ Zero.normal = FALSE /\ Zero.method = "none" /\ Zero.cipher = "none"
      /\ \A k \in Plain : Zero[k] = "none"
  BY DEF Zero, Plain, Fields
<1> QED
  BY <1>1, <1>2, TypeParts DEF Sources

\* Sources override one another field by field.
LEMMA TypeStep ==
  ASSUME PortInv, TypeOK, [Next]_vars, PortInv'
  PROVE  TypeOK'
<1> DEFINE Typed(c) == /\ c.normal \in BOOLEAN
                       /\ c.method \in {"none", "fileMethod", "flagMethod"}
                       /\ c.cipher \in Sources \cup {"fileMethod", "flagMethod"}
                       /\ \A k \in Plain : c[k] \in Sources
<1>0. Typed(cfg) /\ DOMAIN cfg = Fields
  BY TypeParts DEF PortInv
<1>1. ASSUME ParseFile PROVE Typed(cfg')
  BY <1>1, ParsedFields DEF Given, Sources, Plain, Fields
<1>2. ASSUME NoFile PROVE Typed(cfg')
  BY <1>2 DEF NoFile, Zero, Plain, Fields, Sources
<1>3. ASSUME ApplyEnvOverrides PROVE Typed(cfg')
  BY <1>0, <1>3, EnvFields DEF Given, Sources, Plain, Fields
<1>4. ASSUME NEW from, NEW to, ValidateAt(from, to) PROVE Typed(cfg')
  <2>1. Typed(Validated(cfg))
    BY <1>0, ValidatedFields DEF Default, DefaultUnified, Sources, Plain, Fields
  <2> QED
    BY <1>0, <1>4, <2>1, ValidateFields
<1>5. ASSUME NormalizeCipherName PROVE Typed(cfg')
  BY <1>0, <1>5 DEF NormalizeCipherName, Plain, Fields
<1>6. ASSUME ApplyFlags PROVE Typed(cfg')
  BY <1>0, <1>6, FlagFields DEF FlagUnified, Cleared, FlagAuth, Override, Given, Sources, Plain, Fields
<1>7. Typed(cfg') \/ cfg' = cfg
  BY <1>1, <1>2, <1>3, <1>4, <1>5, <1>6
     DEF Next, ParseFails, ValidateFile, Revalidate, vars
<1>8. stage' \in {"start", "env", "validate", "normalize", "flags", "revalidate", "ready", "error"}
  BY DEF TypeOK, Next, ParseFile, ParseFails, NoFile, ApplyEnvOverrides, ValidateFile, Revalidate,
         ValidateAt, NormalizeCipherName, ApplyFlags, Goto, vars
<1>9. Typed(cfg')
  BY <1>0, <1>7
<1> QED
  BY <1>8, <1>9, ZeroFields DEF TypeOK, PortInv, Plain

-----------------------------------------------------------------------------
\* What each stage leaves to the next.
THEOREM IInvariant == Spec => []IInv
<1>1. IInv /\ [Next]_vars => IInv'
  BY PortStep, ModeStep, AuthStep, PriorityStep, CompleteStep DEF IInv
<1> QED
  BY <1>1, InitIInv, PTL DEF Spec

\* Every field holds what its source may give it.
THEOREM TypeCorrect == Spec => []TypeOK
<1>1. Init => TypeOK
  BY StartTypeOK, InputAssumption DEF Init
<1>2. IInv /\ TypeOK /\ [Next]_vars => IInv' /\ TypeOK'
  BY PortStep, ModeStep, AuthStep, PriorityStep, CompleteStep, TypeStep DEF IInv
<1> QED
  BY <1>1, <1>2, InitIInv, PTL DEF Spec

\* The servers are never started with a configuration that lacks something,
\* whatever the sources give and clear, nor with two ports in the address,
\* though Validate adds one and runs twice.
THEOREM CompleteAlways == Spec => []Complete
<1>1. IInv => Complete
  BY DEF IInv
<1> QED
  BY <1>1, IInvariant, PTL

\* With a file, the source of highest priority decides on the server, the
\* password, the timeout and the log level.
THEOREM PrioritisedAlways == Spec => []Prioritised
<1>1. ASSUME NEW k PROVE Given("flag", k, Given("env", k, Given("file", k, "default"))) = Winner(k)
  BY DEF Given, Winner
<1>2. IInv => Prioritised
  BY <1>1 DEF IInv, PriorityInv, Prioritised, Chosen, Ready
<1> QED
  BY <1>2, IInvariant, PTL

\* What is listened on is what the flags ask for, when they ask.
THEOREM ModeChosenAlways == Spec => []ModeChosen
<1>1. IInv => ModeChosen
  BY DEF IInv, ModeInv, ModeChosen, Ready
<1> QED
  BY <1>1, IInvariant, PTL

\* A SOCKS5 listener asks for the credentials of the flag that gave its
\* address, else for those of the file, for none if there are none: also when
\* the environment gave the address.
THEOREM AuthOfListenerAlways == Spec => []AuthOfListener
<1>1. IInv => AuthOfListener
  BY DEF IInv, AuthInv, AuthOfListener, Ready
<1> QED
  BY <1>1, IInvariant, PTL

-----------------------------------------------------------------------------
(* The commands.                                                            *)

Written == foreign /= NoForeign /\ phase = "ready"

\* A conversion comes before everything else, and is not touched after it.
ConvertInv ==
  /\ foreign \in Foreign \cup {NoForeign}
  /\ phase \in {"convert", "failed", "ready"}
  /\ phase = "convert" =>
       /\ foreign /= NoForeign
       /\ stage = "start" /\ cfg = Zero /\ in.hasFile /\ in.file = {}
  /\ ~Written => out = NoPlugin
  /\ Written => in.hasFile /\ in.file = FileOf(foreign) /\ out = PluginOf(foreign)

CInv == IInv /\ TypeOK /\ ConvertInv

-----------------------------------------------------------------------------
\* The file a conversion writes is one that Config may be given.
LEMMA ConvertedFile ==
  ASSUME NEW f \in Foreign
  PROVE  /\ FileOf(f) \in SUBSET FileKeys
         /\ ~("unified" \in FileOf(f) /\ FileOf(f) \cap {"http", "socks"} /= {})
         /\ "serverPort" \notin FileOf(f) /\ "auth" \notin FileOf(f)
         /\ \A k \in {"server", "port", "password", "cipher", "method", "timeout"} :
              k \in f.keys => k \in FileOf(f)
<1>1. CASE f.format = "clash"
  BY <1>1, ForeignAssumption
     DEF PossibleForeign, FileOf, FromClash, ClashKeys, FileKeys, Keys
<1>2. CASE f.format /= "clash"
  BY <1>2, ForeignAssumption
     DEF PossibleForeign, FileOf, FromSSLocal, SsLocalKeys, FileKeys, Keys
<1> QED
  BY <1>1, <1>2

LEMMA ConvertInput ==
  ASSUME CInv, Convert
  PROVE  /\ Possible(in)' /\ stage' = "start" /\ cfg' = Zero
         /\ in'.hasFile /\ in'.file = FileOf(foreign)
<1>1. foreign \in Foreign /\ stage = "start" /\ cfg = Zero /\ in.hasFile
  BY DEF CInv, ConvertInv, Convert
<1>2. Possible(in)
  BY DEF CInv, IInv, PortInv
<1>3. /\ in' \in [hasFile : BOOLEAN, file : SUBSET FileKeys, env : SUBSET EnvKeys,
                  flag : SUBSET FlagKeys]
      /\ in'.hasFile = in.hasFile /\ in'.file = FileOf(foreign)
      /\ in'.env = in.env /\ in'.flag = in.flag
  BY <1>1, <1>2, ConvertedFile DEF Convert, Possible
<1>4. Possible(in')
  <2>1. \A src \in {"env", "flag"} : in'[src] = in[src]
    BY <1>3
  <2>2. in'["file"] = FileOf(foreign)
    BY <1>3
  <2> QED
    BY <1>1, <1>2, <1>3, <2>1, <2>2, ConvertedFile DEF Possible
<1> QED
  BY <1>1, <1>3, <1>4 DEF Convert

LEMMA InputKept ==
  ASSUME [Next]_vars
  PROVE  in' = in
BY DEF Next, ParseFile, ParseFails, NoFile, ApplyEnvOverrides, ValidateFile, Revalidate, ValidateAt,
       NormalizeCipherName, ApplyFlags, Goto, vars

LEMMA CInvInit == CommandsInit => CInv
<1> SUFFICES ASSUME CommandsInit PROVE CInv
  OBVIOUS
<1>1. IInv /\ TypeOK
  BY StartIInv, StartTypeOK, InputAssumption DEF CommandsInit, Init
<1>2. ConvertInv
  BY DEF CommandsInit, Init, ConvertInv, Written
<1> QED
  BY <1>1, <1>2 DEF CInv

\* A conversion leaves an input for a new start; everything else keeps the
\* input and is a step of start, or none.
LEMMA CInvStep == CInv /\ [CommandsNext]_allVars => CInv'
<1> SUFFICES ASSUME CInv, [CommandsNext]_allVars PROVE CInv'
  OBVIOUS
<1>1. CASE Convert
  <2>1. (IInv /\ TypeOK)'
    <3>1. (Possible(in) /\ stage = "start" /\ cfg = Zero => IInv /\ TypeOK)'
      BY StartIInv, StartTypeOK, PTL
    <3> QED
      BY <1>1, <3>1, ConvertInput
  <2>2. ConvertInv'
    BY <1>1, ConvertInput DEF Convert, CInv, ConvertInv, Written
  <2> QED
    BY <2>1, <2>2 DEF CInv
<1>2. CASE /\ [Next]_vars /\ UNCHANGED <<foreign, out>>
           /\ phase' = phase \/ (phase = "convert" /\ phase' = "failed")
           /\ phase' = "convert" => UNCHANGED vars
  <2>1. (IInv /\ TypeOK)'
    BY <1>2, PortStep, ModeStep, AuthStep, PriorityStep, CompleteStep, TypeStep
       DEF CInv, IInv
  <2>2. ConvertInv'
    BY <1>2, InputKept DEF CInv, ConvertInv, Written, vars
  <2> QED
    BY <2>1, <2>2 DEF CInv
<1>3. \/ Convert
      \/ /\ [Next]_vars /\ UNCHANGED <<foreign, out>>
         /\ phase' = phase \/ (phase = "convert" /\ phase' = "failed")
         /\ phase' = "convert" => UNCHANGED vars
  BY DEF CommandsNext, Start, ConvertFails, TestFlags, TestRefuses, TestClient, allVars
<1> QED
  BY <1>1, <1>2, <1>3

THEOREM CInvariant == CommandsSpec => []CInv
BY CInvInit, CInvStep, PTL DEF CommandsSpec

-----------------------------------------------------------------------------
\* With converters and the test command around it, "start" has the properties
\* proved above: nothing is missing, the address has one port at most,
\* the sources have their order, the mode and the credentials are right.
THEOREM StartOfConverted ==
  CommandsSpec => [](Complete /\ Prioritised /\ ModeChosen /\ AuthOfListener)
<1>1. ASSUME NEW k PROVE Given("flag", k, Given("env", k, Given("file", k, "default"))) = Winner(k)
  BY DEF Given, Winner
<1>2. IInv => Complete
  BY DEF IInv
<1>3. IInv => Prioritised
  BY <1>1 DEF IInv, PriorityInv, Prioritised, Chosen, Ready
<1>4. IInv => ModeChosen /\ AuthOfListener
  BY DEF IInv, ModeInv, AuthInv, ModeChosen, AuthOfListener, Ready
<1> QED
  BY <1>2, <1>3, <1>4, CInvariant, PTL DEF CInv

-----------------------------------------------------------------------------
(* What survives a conversion.                                              *)

AskedPort   == "port" \in foreign.keys
AskedCipher == "cipher" \notin in.env /\ foreign.keys \cap {"cipher", "method"} /= {}

\* The port of the foreign file waits until the address is validated; its
\* cipher, under either name, becomes the cipher there.
KeptInv ==
  Written =>
    /\ AskedPort =>
         /\ stage \in {"env", "validate"} => cfg.port = "file"
         /\ stage = "env" => cfg.ports = <<>>
         /\ stage = "validate" /\ "server" \notin in.env => cfg.ports = <<>>
         /\ stage \in {"normalize", "flags"} /\ "server" \notin in.env => cfg.ports = <<"file">>
         /\ stage \in {"revalidate", "ready"} /\ "server" \notin in.env \cup in.flag =>
              cfg.ports = <<"file">>
    /\ AskedCipher =>
         /\ stage \in {"env", "validate"} =>
              cfg.cipher = "file" \/ (cfg.cipher = "none" /\ cfg.method = "fileMethod")
         /\ stage \in {"normalize", "flags", "revalidate", "ready"} =>
              cfg.cipher \in {"file", "fileMethod"}

LEMMA KeptStart ==
  ASSUME CInv, KeptInv, Written, Next, UNCHANGED <<foreign, phase>>
  PROVE  KeptInv'
<1> USE DEF KeptInv, AskedPort, AskedCipher
<1>0. /\ in' = in /\ foreign' = foreign /\ DOMAIN cfg = Fields
      /\ in.file = FileOf(foreign) /\ foreign \in Foreign
      /\ "serverPort" \notin in.file
      /\ \A k \in {"server", "port", "password", "cipher", "method", "timeout"} :
           k \in foreign.keys => k \in in.file
      /\ in.hasFile
  BY InputKept, ConvertedFile DEF CInv, IInv, PortInv, ConvertInv, Written
<1>1. CASE ParseFile
  <2>1. /\ stage' = "env" /\ cfg'.ports = <<>>
        /\ cfg'.port = Given("file", "port", "none") /\ cfg'.cipher = Given("file", "cipher", "none")
        /\ cfg'.method = IF "method" \in in.file THEN "fileMethod" ELSE "none"
    BY <1>0, <1>1, ParsedFields DEF PortsOf, Fields
  <2>2. AskedPort => cfg'.port = "file"
    BY <1>0, <2>1 DEF Given
  <2>3. AskedCipher => cfg'.cipher = "file" \/ (cfg'.cipher = "none" /\ cfg'.method = "fileMethod")
    <3>1. AskedCipher => "cipher" \in in.file \/ "method" \in in.file
      BY <1>0
    <3> QED
      BY <2>1, <3>1 DEF Given
  <2> QED
    BY <1>0, <2>1, <2>2, <2>3
<1>2. CASE ParseFails \/ NoFile
  BY <1>0, <1>2 DEF ParseFails, NoFile, Goto
<1>3. CASE ApplyEnvOverrides
  <2>1. PortsOf("env", cfg.ports) = cfg.ports \/ "server" \in in.env
    BY DEF PortsOf
  <2> QED
    BY <1>0, <1>3, <2>1, EnvFields DEF Given
<1>4. CASE ValidateFile \/ Revalidate
  <2>1. CASE stage' = "error"
    BY <2>1
  <2>2. CASE stage' /= "error"
    <3>1. /\ cfg' = Validated(cfg)
          /\ \/ stage = "validate" /\ stage' = "normalize"
             \/ stage = "revalidate" /\ stage' = "ready"
      <4>1. ValidateAt("validate", "normalize") \/ ValidateAt("revalidate", "ready")
        BY <1>4 DEF ValidateFile, Revalidate
      <4>2. CASE ValidateAt("validate", "normalize")
        BY <2>2, <4>2, ValidateFields
      <4>3. CASE ValidateAt("revalidate", "ready")
        BY <2>2, <4>3, ValidateFields
      <4> QED
        BY <4>1, <4>2, <4>3
    <3>2. cfg'.ports = MergedPorts(cfg)
          /\ cfg'.cipher = IF cfg.cipher = "none" THEN Default(cfg.method) ELSE cfg.cipher
      BY <1>0, <3>1, ValidatedFields
    <3>3. AskedCipher => cfg'.cipher \in {"file", "fileMethod"}
      BY <3>1, <3>2 DEF Default
    <3>4. CASE stage = "validate"
      BY <1>0, <3>1, <3>2, <3>3, <3>4 DEF MergedPorts
    <3>5. CASE stage = "revalidate"
      <4>1. <<"file">> /= <<>>
        OBVIOUS
      <4> QED
        BY <1>0, <3>1, <3>2, <3>3, <3>5, <4>1 DEF MergedPorts
    <3> QED
      BY <3>1, <3>4, <3>5
  <2> QED
    BY <2>1, <2>2
<1>5. CASE NormalizeCipherName
  BY <1>0, <1>5 DEF NormalizeCipherName, Goto, Fields
<1>6. CASE ApplyFlags
  <2>1. PortsOf("flag", cfg.ports) = cfg.ports \/ "server" \in in.flag
    BY DEF PortsOf
  <2> QED
    BY <1>0, <1>6, <2>1, FlagFields
<1> QED
  BY <1>1, <1>2, <1>3, <1>4, <1>5, <1>6 DEF Next

LEMMA KeptStep == CInv /\ KeptInv /\ [CommandsNext]_allVars => KeptInv'
<1> SUFFICES ASSUME CInv, KeptInv, [CommandsNext]_allVars PROVE KeptInv'
  OBVIOUS
<1>1. CASE Convert
  BY <1>1, ConvertInput DEF KeptInv
<1>2. CASE ConvertFails
  BY <1>2 DEF ConvertFails, KeptInv, Written
<1>3. CASE Start
  <2>1. CASE Written
    BY <1>3, <2>1, KeptStart DEF Start
  <2>2. CASE ~Written
    BY <1>3, <2>2 DEF Start, KeptInv, Written
  <2> QED
    BY <2>1, <2>2
<1>4. CASE UNCHANGED <<vars, foreign, phase>>
  BY <1>4 DEF vars, KeptInv, Written, AskedPort, AskedCipher
<1> QED
  BY <1>1, <1>2, <1>3, <1>4 DEF CommandsNext, TestFlags, TestRefuses, TestClient, allVars

\* From the parsed file to the start, the server and the password of a
\* converted file are those of the foreign file unless they are overridden, and
\* so are the port, the cipher and the timeout the proxy is started with; the
\* plugin and its options are in the converted file.
THEOREM ConvertedKeptAlways == CommandsSpec => []ConvertedKept
<1>1. CommandsInit => KeptInv
  BY DEF CommandsInit, Init, KeptInv, Written
<1>2. CInv /\ KeptInv => ConvertedKept
  <2> SUFFICES ASSUME CInv, KeptInv, Converted PROVE ConvertedKept
    BY DEF ConvertedKept
  <2>1. /\ Written /\ in.hasFile /\ in.file = FileOf(foreign) /\ foreign \in Foreign
        /\ out = PluginOf(foreign) /\ Possible(in)
    BY DEF CInv, IInv, PortInv, ConvertInv, Converted, Written
  <2>2. ASSUME Ready, NEW k \in Chosen
        PROVE  cfg[k] = Given("flag", k, Given("env", k, Given("file", k, "default")))
    BY <2>1, <2>2 DEF CInv, IInv, PriorityInv, Ready
  <2>7. ASSUME Parsed, NEW k \in foreign.keys \cap {"server", "password"}, ~Overridden(k)
        PROVE  cfg[k] = "file"
    <3>1. k \in in.file /\ k \notin in.env /\ k \notin in.flag /\ k \in Chosen
      BY <2>1, <2>7, ConvertedFile DEF Overridden, Chosen
    <3>2. stage \in {"env", "validate", "normalize", "flags", "revalidate", "ready"}
      BY <2>7 DEF CInv, TypeOK, Parsed
    <3> QED
      BY <2>1, <3>1, <3>2 DEF CInv, IInv, PriorityInv, Given
  <2>3. ASSUME Ready, "port" \in foreign.keys, ~Overridden("server") PROVE cfg.ports = <<"file">>
    BY <2>1, <2>3 DEF KeptInv, AskedPort, Ready, Overridden
  <2>4. ASSUME Ready, "cipher" \notin in.env, foreign.keys \cap {"cipher", "method"} /= {}
        PROVE  cfg.cipher \in {"file", "fileMethod"}
    BY <2>1, <2>4 DEF KeptInv, AskedCipher, Ready
  <2>5. ASSUME Ready, "timeout" \in foreign.keys, "timeout" \notin in.flag
        PROVE  cfg.timeout = "file"
    <3>1. "timeout" \notin in.env /\ "timeout" \in in.file
      BY <2>1, <2>5, ConvertedFile DEF Possible, EnvKeys
    <3> QED
      BY <2>2, <2>5, <3>1 DEF Chosen, Given
  <2>6. /\ Obfuscates(out) <=> foreign.plugin \in {"obfs", "obfs-local", "simple-obfs"}
        /\ Obfuscates(out) => out.opts = foreign.opts
    BY <2>1, ForeignAssumption
       DEF PossibleForeign, Plugins, PluginOf, NoPlugin, NormalizePluginName, OptsOf, Obfuscates
  <2> QED
    BY <2>3, <2>4, <2>5, <2>6, <2>7 DEF ConvertedKept
<1> QED
  BY <1>1, <1>2, CInvInit, CInvStep, KeptStep, PTL DEF CommandsSpec

-----------------------------------------------------------------------------
(* The test command.                                                        *)

\* With PortUnmerged, a port of the flags meets an address without one.
PortAlone ==
  PortUnmerged =>
    /\ stage \in {"env", "validate", "normalize", "flags"} =>
         cfg.port = "none" /\ ("port" \in in.flag => cfg.ports = <<>>)
    /\ stage \in {"revalidate", "ready"} => cfg.port = "none" \/ cfg.ports \in {<<>>, <<cfg.port>>}
    /\ stage = "revalidate" /\ cfg.port /= "none" => cfg.ports = <<>>

Built(ports, port) == IF port = "none" THEN ports ELSE Append(ports, port)
Choice(cipher, method) == IF cipher = "none" THEN method ELSE cipher

\* What the test client gets, before it is made and after.
TestPorts    == IF test = "client" THEN ss.ports ELSE Built(ss.ports, ss.port)
CipherOfTest == IF test = "client" THEN ss.cipher ELSE Choice(ss.cipher, ss.method)
FlagMethod   == IF "method" \in in.flag THEN "flagMethod" ELSE cfg.method

\* The test has taken the flags before start does, and what it has then made
\* of them is what start makes of them in two steps.
AgreeInv ==
  test \in {"flags", "client"} =>
    /\ stage \in {"flags", "revalidate", "ready", "error"}
    /\ stage = "flags" =>
         /\ ss.server = Given("flag", "server", cfg.server)
         /\ ss.password = Given("flag", "password", cfg.password)
         /\ ss.method = FlagMethod
         /\ TestPorts = Built(PortsOf("flag", cfg.ports), Given("flag", "port", cfg.port))
         /\ CipherOfTest = Choice(cfg.cipher, FlagMethod)
    /\ stage = "revalidate" =>
         /\ ss.server = cfg.server /\ ss.password = cfg.password /\ ss.method = cfg.method
         /\ TestPorts = Built(cfg.ports, cfg.port)
         /\ CipherOfTest = Choice(cfg.cipher, cfg.method)
    /\ stage = "ready" =>
         /\ ss.server = cfg.server /\ ss.password = cfg.password
         /\ TestPorts \in {cfg.ports, Append(cfg.ports, cfg.port)}
         /\ PortUnmerged => TestPorts = cfg.ports
         /\ ss.method /= "none" => CipherOfTest = cfg.cipher

\* The copy the test works on has the fields of a Config.
TestInv ==
  /\ test \in {"idle", "flags", "refused", "client"}
  /\ test = "client" => TestAccepts(ss)
  /\ DOMAIN ss = Fields /\ ss.port \in Sources /\ ss.ports \in Seq(Sources \ {"none"})
  /\ ss.method \in {"none", "fileMethod", "flagMethod"}
  /\ ss.cipher \in Sources \cup {"fileMethod", "flagMethod"}

LEMMA PortAloneStep ==
  ASSUME CInv, PortAlone, [Next]_vars
  PROVE  PortAlone'
<1> USE DEF PortAlone
<1>0. /\ in' = in /\ DOMAIN cfg = Fields /\ Possible(in) /\ (PortUnmerged <=> PortUnmerged')
  BY InputKept DEF CInv, IInv, PortInv, PortUnmerged
<1>1. CASE ParseFile
  <2>1. cfg'.port = Given("file", "port", "none") /\ cfg'.ports = PortsOf("file", <<>>) /\ stage' = "env"
    BY <1>1, ParsedFields DEF Fields
  <2>2. PortUnmerged => cfg'.port = "none" /\ ("port" \in in.flag => cfg'.ports = <<>>)
    BY <1>0, <2>1 DEF Given, PortsOf, PortUnmerged
  <2> QED
    BY <1>0, <2>1, <2>2
<1>2. CASE ParseFails \/ NoFile
  BY <1>0, <1>2 DEF ParseFails, NoFile, Goto, Zero
<1>3. CASE ApplyEnvOverrides
  <2>1. cfg'.port = cfg.port /\ cfg'.ports = PortsOf("env", cfg.ports)
        /\ stage = "env" /\ stage' = "validate"
    BY <1>0, <1>3, EnvFields
  <2> QED
    BY <1>0, <2>1 DEF PortsOf, PortUnmerged
<1>4. ASSUME NEW from, NEW to, ValidateAt(from, to),
             <<from, to>> \in {<<"validate", "normalize">>, <<"revalidate", "ready">>}
      PROVE  PortAlone'
  <2>1. CASE stage' = "error"
    BY <2>1
  <2>2. CASE stage' /= "error"
    <3>1. /\ stage = from /\ stage' = to /\ cfg' = Validated(cfg)
      BY <1>4, <2>2, ValidateFields
    <3>2. cfg'.ports = MergedPorts(cfg) /\ cfg'.port = cfg.port
      BY <1>0, <3>1, ValidatedFields
    <3> QED
      BY <1>0, <1>4, <3>1, <3>2 DEF MergedPorts
  <2> QED
    BY <2>1, <2>2
<1>5. CASE NormalizeCipherName
  BY <1>0, <1>5 DEF NormalizeCipherName, Goto, Fields
<1>6. CASE ApplyFlags
  <2>1. /\ cfg'.port = Given("flag", "port", cfg.port) /\ cfg'.ports = PortsOf("flag", cfg.ports)
        /\ stage = "flags" /\ stage' = "revalidate"
    BY <1>0, <1>6, FlagFields
  <2>2. PortUnmerged /\ cfg'.port /= "none" => cfg'.ports = <<>>
    BY <1>0, <2>1 DEF Given, PortsOf, PortUnmerged
  <2> QED
    BY <1>0, <2>1, <2>2
<1>7. CASE UNCHANGED vars
  BY <1>0, <1>7 DEF vars
<1> QED
  BY <1>1, <1>2, <1>3, <1>4, <1>5, <1>6, <1>7 DEF Next, ValidateFile, Revalidate

\* What start does with the flags while the test has them.
LEMMA AgreeStart ==
  ASSUME CInv, PortAlone, AgreeInv, Next, UNCHANGED <<test, ss>>
  PROVE  AgreeInv'
<1> SUFFICES ASSUME test \in {"flags", "client"} PROVE AgreeInv'
  BY DEF AgreeInv
<1>0. /\ in' = in /\ DOMAIN cfg = Fields /\ (PortUnmerged <=> PortUnmerged')
      /\ TestPorts' = TestPorts /\ CipherOfTest' = CipherOfTest /\ ss' = ss /\ test' = test
  BY InputKept DEF CInv, IInv, PortInv, PortUnmerged, TestPorts, CipherOfTest
<1>1. CASE ApplyFlags
  BY <1>0, <1>1, FlagFields DEF AgreeInv, FlagMethod
<1>2. CASE Revalidate
  <2>1. CASE stage' = "error"
    BY <1>0, <2>1 DEF AgreeInv
  <2>2. CASE stage' /= "error"
    <3>1. stage = "revalidate" /\ stage' = "ready" /\ cfg' = Validated(cfg)
      BY <1>2, <2>2, ValidateFields DEF Revalidate
    <3>2. /\ cfg'.ports = MergedPorts(cfg)
          /\ cfg'.cipher = IF cfg.cipher = "none" THEN Default(cfg.method) ELSE cfg.cipher
          /\ cfg'.server = cfg.server /\ cfg'.password = cfg.password
      BY <1>0, <3>1, ValidatedFields
    <3>3. PortUnmerged => Built(cfg.ports, cfg.port) = cfg'.ports
      <4>1. Append(<<>>, cfg.port) = <<cfg.port>>
        OBVIOUS
      <4> QED
        BY <3>1, <3>2, <4>1 DEF PortAlone, Built, MergedPorts
    <3>5. Built(cfg.ports, cfg.port) \in {cfg'.ports, Append(cfg'.ports, cfg'.port)}
      <4>1. Append(<<>>, cfg.port) = <<cfg.port>> /\ cfg'.port = cfg.port
        BY <1>0, <3>1, ValidatedFields
      <4> QED
        BY <3>2, <4>1 DEF Built, MergedPorts
    <3>4. ss.method /= "none" => Choice(cfg.cipher, cfg.method) = cfg'.cipher
      BY <3>1, <3>2 DEF AgreeInv, Choice, Default
    <3> QED
      BY <1>0, <3>1, <3>2, <3>3, <3>4, <3>5 DEF AgreeInv
  <2> QED
    BY <2>1, <2>2
<1>3. CASE ParseFile \/ ParseFails \/ NoFile \/ ApplyEnvOverrides \/ ValidateFile \/ NormalizeCipherName
  BY <1>3 DEF AgreeInv, ParseFile, ParseFails, NoFile, ApplyEnvOverrides, ValidateFile, ValidateAt,
              NormalizeCipherName
<1> QED
  BY <1>1, <1>2, <1>3 DEF Next

LEMMA TestStep ==
  CInv /\ PortAlone /\ AgreeInv /\ TestInv /\ [CommandsNext]_allVars
    => PortAlone' /\ AgreeInv' /\ TestInv'
<1> SUFFICES ASSUME CInv, PortAlone, AgreeInv, TestInv, [CommandsNext]_allVars
             PROVE  PortAlone' /\ AgreeInv' /\ TestInv'
  OBVIOUS
<1>1. CASE Convert
  <2>1. PortAlone'
    BY <1>1, ConvertInput DEF PortAlone
  <2>2. test \in {"idle", "refused"} /\ UNCHANGED <<test, ss>>
    BY <1>1 DEF Convert, CInv, ConvertInv, AgreeInv, TestInv
  <2> QED
    BY <2>1, <2>2 DEF AgreeInv, TestInv, TestAccepts
<1>2. CASE ConvertFails
  <2>1. PortAlone'
    BY <1>2, PortAloneStep DEF ConvertFails
  <2>2. UNCHANGED <<vars, test, ss>>
    BY <1>2 DEF ConvertFails
  <2> QED
    BY <2>1, <2>2 DEF vars, AgreeInv, TestInv, TestAccepts, TestPorts, CipherOfTest, FlagMethod,
                      PortsOf, Given, PortUnmerged
<1>3. CASE Start
  BY <1>3, PortAloneStep, AgreeStart DEF Start, TestInv, TestAccepts
<1>4. CASE UNCHANGED allVars
  <2>1. PortAlone'
    BY <1>4, PortAloneStep DEF allVars
  <2> QED
    BY <1>4, <2>1 DEF allVars, vars, AgreeInv, TestInv, TestAccepts, TestPorts, CipherOfTest,
                      FlagMethod, PortsOf, Given, PortUnmerged
<1>5. CASE TestFlags
  <2>1. /\ stage = "flags" /\ UNCHANGED vars /\ test' = "flags" /\ DOMAIN cfg = Fields
        /\ cfg.port \in Sources /\ cfg.ports \in Seq(Sources \ {"none"}) /\ Len(cfg.ports) <= 1
        /\ Possible(in)
    BY <1>5 DEF TestFlags, CInv, IInv, PortInv
  <2>2. PortAlone'
    BY <2>1, PortAloneStep
  <2>3. /\ DOMAIN ss' = Fields
        /\ ss'.server = Given("flag", "server", cfg.server)
        /\ ss'.ports = PortsOf("flag", cfg.ports)
        /\ ss'.port = Given("flag", "port", cfg.port)
        /\ ss'.password = Given("flag", "password", cfg.password)
        /\ ss'.method = FlagMethod /\ ss'.cipher = cfg.cipher
    BY <1>5, <2>1 DEF TestFlags, Override, FlagMethod, Fields
  <2>4. AgreeInv'
    BY <2>1, <2>3 DEF AgreeInv, vars, FlagMethod, PortsOf, Given, TestPorts, CipherOfTest
  <2>5. /\ cfg.method \in {"none", "fileMethod", "flagMethod"}
        /\ cfg.cipher \in Sources \cup {"fileMethod", "flagMethod"}
    BY DEF CInv, TypeOK
  <2>6. ss'.port \in Sources /\ ss'.ports \in Seq(Sources \ {"none"})
    BY <2>1, <2>3, PortsOfFacts DEF Given, Sources
  <2>7. TestInv'
    BY <2>1, <2>3, <2>5, <2>6 DEF TestInv, FlagMethod
  <2> QED
    BY <2>2, <2>4, <2>7
<1>6. CASE TestRefuses
  <2>1. PortAlone'
    BY <1>6, PortAloneStep DEF TestRefuses
  <2> QED
    BY <1>6, <2>1 DEF TestRefuses, AgreeInv, TestInv
<1>7. CASE TestClient
  <2>1. /\ UNCHANGED vars /\ test = "flags" /\ test' = "client" /\ TestAccepts(ss)
        /\ DOMAIN ss' = Fields
        /\ ss'.ports = Built(ss.ports, ss.port) /\ ss'.cipher = Choice(ss.cipher, ss.method)
        /\ \A k \in Fields \ {"ports", "cipher"} : ss'[k] = ss[k]
    BY <1>7 DEF TestClient, TestInv, Fields, Built, Choice, TestCipher
  <2>2. PortAlone'
    BY <2>1, PortAloneStep
  <2>3. TestPorts' = TestPorts /\ CipherOfTest' = CipherOfTest
    BY <2>1 DEF TestPorts, CipherOfTest
  <2>4. /\ ss'.server = ss.server /\ ss'.password = ss.password /\ ss'.method = ss.method
        /\ ss'.port = ss.port
    BY <2>1 DEF Fields
  <2>5. AgreeInv'
    BY <2>1, <2>3, <2>4 DEF AgreeInv, vars, FlagMethod, PortsOf, Given, PortUnmerged
  <2>6. ss'.ports \in Seq(Sources \ {"none"})
    BY <2>1 DEF TestInv, Built
  <2>7. TestInv'
    BY <2>1, <2>4, <2>6 DEF TestInv, TestAccepts, Choice
  <2> QED
    BY <2>2, <2>5, <2>7
<1> QED
  BY <1>1, <1>2, <1>3, <1>4, <1>5, <1>6, <1>7 DEF CommandsNext

LEMMA TestInit == CommandsInit => PortAlone /\ AgreeInv /\ TestInv
<1> SUFFICES ASSUME CommandsInit PROVE PortAlone /\ AgreeInv /\ TestInv
  OBVIOUS
<1>1. stage = "start" /\ test = "idle" /\ ss = Zero
  BY DEF CommandsInit, Init
<1>2. /\ ss.port = "none" /\ ss.ports = <<>> /\ ss.method = "none" /\ ss.cipher = "none"
      /\ DOMAIN ss = Fields
  BY <1>1, ZeroFields DEF Zero
<1>3. TestInv
  BY <1>1, <1>2 DEF TestInv, Sources
<1> QED
  BY <1>1, <1>3 DEF PortAlone, AgreeInv

\* "test" tests the server, the password and the cipher "start" starts with,
\* whatever the inputs; the port too, or it is there twice: never when
\* PortUnmerged.
THEOREM TestAgreesAlways == CommandsSpec => []TestAgrees
<1>1. PortAlone /\ AgreeInv /\ TestInv => TestAgrees
  BY DEF AgreeInv, TestInv, TestAgrees, TestAccepts, TestPorts, CipherOfTest, Ready
<1> QED
  BY <1>1, CInvInit, CInvStep, TestInit, TestStep, PTL DEF CommandsSpec

\* Every variable of the three commands keeps its type.
THEOREM CommandsTypeCorrect == CommandsSpec => []CommandsTypeOK
<1>1. \A f \in Foreign : PluginOf(f).plugin \in Plugins /\
                         PluginOf(f).opts \in {<<>>} \cup {<<S>> : S \in SUBSET {"obfs", "host"}}
  BY ForeignAssumption
     DEF PossibleForeign, Plugins, PluginOf, NoPlugin, NormalizePluginName, OptsOf
<1>2. CInv /\ TestInv => CommandsTypeOK
  <2> SUFFICES ASSUME CInv, TestInv PROVE CommandsTypeOK
    OBVIOUS
  <2>1. /\ out.plugin \in Plugins
        /\ out.opts \in {<<>>} \cup {<<S>> : S \in SUBSET {"obfs", "host"}}
    BY <1>1 DEF CInv, ConvertInv, Written, NoPlugin, Plugins
  <2> QED
    BY <2>1, ZeroFields DEF CInv, ConvertInv, TestInv, CommandsTypeOK
<1> QED
  BY <1>2, CInvInit, CInvStep, TestInit, TestStep, PTL DEF CommandsSpec
=============================================================================
