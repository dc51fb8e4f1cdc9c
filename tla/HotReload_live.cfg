\* The same reloads against a connection, a reader and a captured dialer that
\* keep coming back; every reload is answered and the register is implemented.
SPECIFICATION FairSpec
CONSTANTS
  Reloaders = {r1, r2}
  Readers = {g1}
  LiveDialers = {d1}
  CapturedDialers = {c1}
  Configs = {obfs, bad}
  Rejected = {}
  Unbuildable = {bad}
  NoOpts = {bad}
  InitCfg = obfs
  Words = {"opts"}
  StringWords <- NoString
  NoReloader = none
  MaxClients = 3
PROPERTIES
  ReloadAnswered
  SharersServed
  RefinesRegister
