\* Two connections, two calls of Close on each, one Read or Write, and a
\* goroutine that takes snapshots.
SPECIFICATION Spec
CONSTANTS
  Conns = {c1, c2}
  Closers = {k1, k2}
  Transfers = {x1}
  Snapshots = {g1}
  NoCloser = none
SYMMETRY Symmetry
INVARIANTS
  TypeOK
  Accounting
  SnapshotWithin
