\* A window of three sampling periods.  A run stops when the clock does.
SPECIFICATION Spec
CONSTANTS
  Period = 2
  Window = 6
  Delay = 1
  Chunk = 20
  MaxTime = 20
  MaxBytes = 40
CHECK_DEADLOCK FALSE
INVARIANTS
  TypeOK
  IdleIsZero
PROPERTIES
  WindowKept
