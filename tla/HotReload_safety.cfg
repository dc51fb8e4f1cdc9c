\* Two reloads (one with, one without plugin options, one refused, one failing)
\* race with one GET /config and one connection of the unified proxy.
SPECIFICATION Spec
CONSTANTS
  Reloaders = {r1, r2}
  Readers = {g1}
  LiveDialers = {d1}
  CapturedDialers = {}
  Configs = {plain, obfs, bad, missing}
  Rejected = {missing}
  Unbuildable = {bad}
  NoOpts = {plain, bad, missing}
  InitCfg = obfs
  Words = {"server.ptr", "server.len", "opts"}
  StringWords <- OneString
  NoReloader = none
  MaxClients = 3
SYMMETRY Symmetry
INVARIANTS
  TypeOK
  ClientMatchesConfig
  NoLostClient
  FreshDial
  NoStaleField
