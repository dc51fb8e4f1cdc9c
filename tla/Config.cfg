\* Every input of one group of keys, from the file to the start of the
\* servers, and every foreign file with what may override it; the test
\* command reads the same input.  A run stops when the commands are done.
SPECIFICATION CommandsSpec
CONSTANTS
  Inputs <- AllInputs
  Foreign <- ForeignFiles
  NoForeign = none
CHECK_DEADLOCK FALSE
INVARIANTS
  CommandsTypeOK
  Complete
  Prioritised
  ModeChosen
  AuthOfListener
  ConvertedKept
  TestAgrees
