SPECIFICATION Spec
CONSTANTS
  Fd = {f1, f2}
  Nick = {al, bo}
  ChName = {a, b}
  Key = {"k"}
  Limit = {2}
  Topic = {""}   \* one that changes nothing: no property is about topics
  ModeCmds <- MCModeCmds
  Position = {0, 1}
  MAX_CHANNELS = 2
  MaxInvites = 1
SYMMETRY Symmetry
INVARIANTS
  TypeOK
  NickUnique
  LoginComplete
  CopiesDiffer
CHECK_DEADLOCK FALSE
