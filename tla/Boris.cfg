SPECIFICATION Spec
CONSTANTS
  Cli = {c1, c2}
  Self = self
  Nick = {"al", "bo", "IRCserver"}
  serverName = "ircServer"
  lower <- MCLower
  ChName = {"#a"}
  Key = {"k"}
  Number <- MCNumber
  UMAX = 4
  Flag = {"i"}
  Mask = {m}
  fits <- AllFit
  Topic = {"t"}
  UserModes = {}
  opers = {}
  Signals = {}
  Slow = {}
  Lists <- OneList
  Targets <- MCTargets
  MaxOpers = 2
  MaxEntries = 1
  MaxIdle = 0
SYMMETRY Symmetry
INVARIANTS
  TypeOK
  NickUnique
PROPERTIES
  RoomsSpec
CHECK_DEADLOCK FALSE
