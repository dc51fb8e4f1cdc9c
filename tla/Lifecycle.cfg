\* Every configuration, from start to stop.  A run stops when everything has
\* been shut down or the start has failed.
SPECIFICATION FairSpec
CONSTANTS
  MaxRequests = 2
CHECK_DEADLOCK FALSE
INVARIANTS
  TypeOK
  NoSpin
  ApiQuiet
PROPERTIES
  ShutdownEnds
  EverythingEnds
