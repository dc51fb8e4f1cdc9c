\* One foreign file as the README shows it, without a local address.
SPECIFICATION CommandsSpec
CONSTANTS
  Inputs <- AllInputs
  Foreign <- ForeignFiles
  NoForeign = none
CHECK_DEADLOCK FALSE
INVARIANT
  ConvertedListens
