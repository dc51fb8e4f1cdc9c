SPECIFICATION Spec
CONSTANTS
  Reloaders = {r1, r2}
  Readers = {g1}
  LiveDialers = {}
  CapturedDialers = {}
  Configs = {plain, obfs, bad, missing}
  Rejected = {missing}
  Unbuildable = {bad}
  NoOpts = {plain, bad, missing}
  InitCfg = obfs
  Words = {"server.ptr", "server.len", "opts"}
  StringWords <- OneString
  NoReloader = none
  MaxClients = 3
INVARIANTS
  ConfigAnswerIsOneConfig
