\* One connection, under every plugin setting.  A run stops when the
\* connection has been closed or the process has crashed.
SPECIFICATION FairSpec
CONSTANTS
  Dials = {d1}
  PluginCfgs <- EveryCfg
  MaxRecord = 2
  PeekLen = 2
  MaxChunk = 3
  MaxUp = 6
  MaxDown = 3
CHECK_DEADLOCK FALSE
INVARIANTS
  TypeOK
  SocketReleased
  UpstreamIntact
  WellFramed
  ReplyIntact
PROPERTIES
  ReplyDelivered
