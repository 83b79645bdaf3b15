SPECIFICATION Spec
CONSTANTS
  Fd = {f1, f2}
  None = None
  Listen = Listen
  MaxIn = 1
  MaxOut = 2
  MaxConn = 1
SYMMETRY Symmetry
INVARIANTS
  EvTypeOK
  PollsMatchClis
  MarkedAreClis
  InOrder
PROPERTIES
  FlushedWhenClosed
  KeepsLife
