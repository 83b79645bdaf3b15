SPECIFICATION Spec
CONSTANTS
  Fd = {f1, f2}
  Addr = {a1, a2}
  None = None
  max = 2
  password = "pw"
  Word = {"pw", "no"}
  Nick = {x, y}
  ChName = {"#a"}
  Toggle = {"i"}
  Key = {"k"}
  Limit = {1}
  Give = {"o"}
  UserMode = {}
  MaxInvited = 1
  MaxModes = 2
INVARIANTS
  TypeOK
  LoginProved
PROPERTIES
  RoomsSpec
CHECK_DEADLOCK FALSE
SYMMETRY Symmetry
