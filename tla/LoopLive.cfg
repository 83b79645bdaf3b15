SPECIFICATION Spec
CONSTANTS
  Fd = {f1, f2}
  None = None
  Listen = Listen
  MaxIn = 1
  MaxOut = 1
  MaxConn = 1
PROPERTIES
  GoneIsClosed
  InputIsRead
  MarkedIsClosed
