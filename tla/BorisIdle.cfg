SPECIFICATION FairSpec
CONSTANTS
  Cli = {c1, c2}
  Self = self
  Nick = {"al", "AL"}
  serverName = "ircServer"
  lower <- MCLower
  ChName = {}
  Key = {}
  Number = {}
  UMAX = 4
  Flag = {}
  Mask = {}
  fits <- AllFit
  Topic = {"t"}
  UserModes = {"INVISIBLE"}
  opers = {"root"}
  Signals = {"SIGINT"}
  Slow = {c1, c2}
  Lists = {}
  Targets = {}
  MaxOpers = 1
  MaxEntries = 0
  MaxIdle = 2
PROPERTIES
  SilentLeaves
CHECK_DEADLOCK FALSE
