\* Three requests for one target with four connections; the client is
\* replaced twice while they are served.
SPECIFICATION Spec
CONSTANTS
  Requests = {q1, q2, q3}
  Conns = {k1, k2, k3, k4}
  NoRequest = noRequest
  NoConn = noConn
  MaxIdlePerHost = 2
  MaxReloads = 2
SYMMETRY Symmetry
INVARIANTS
  TypeOK
  StaleOnlyByReuse
\* The requests end.
CHECK_DEADLOCK FALSE
