SPECIFICATION Spec
CONSTANTS
  c1 = c1
  c2 = c2
  Conns = {c1, c2}
  Kinds <- TunnelAndOther
  MaxUp = 2
  MaxDown = 2
CHECK_DEADLOCK FALSE
INVARIANTS
  ActiveAreOpen
