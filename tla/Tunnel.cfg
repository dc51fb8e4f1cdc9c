\* A tunnel with two pieces each way beside another connection.  Deadlock is
\* the end of the run: both connections have been served.
SPECIFICATION FairSpec
CONSTANTS
  c1 = c1
  c2 = c2
  Conns = {c1, c2}
  Kinds <- TunnelAndOther
  MaxUp = 2
  MaxDown = 2
CHECK_DEADLOCK FALSE
INVARIANTS
  TypeOK
  UpIntact
  DownIntact
  AnswerComplete
PROPERTIES
  TunnelReleased
  RefinesStreams
