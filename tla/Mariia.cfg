SPECIFICATION Spec
CONSTANTS
  Fd = {4, 5}
  None = None
  Nick = {al, bo}
  ChName = {"#a", "#A"}
  lower <- MCLower
  Key = {"k"}
  Limit = {1}
  Topic = {}
  UserMode = {"INVISIBLE"}
  ModeCmds <- MCModeCmds
  MAXCHANNELS = 2
SYMMETRY Symmetry
INVARIANTS
  TypeOK
  NothingInherited
  WithinLimit
PROPERTIES
  QuitReachesAll
  RoomsSpec
CHECK_DEADLOCK FALSE
