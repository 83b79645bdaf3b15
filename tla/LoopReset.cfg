SPECIFICATION Spec
CONSTANTS
  Fd = {f1}
  None = None
  Listen = Listen
  MaxIn = 1
  MaxOut = 2
  MaxConn = 1
PROPERTY ResetIsClosed
