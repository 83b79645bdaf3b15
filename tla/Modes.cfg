SPECIFICATION Spec
CONSTANTS
  Fd = {f1, f2}
  None = None
  Word <- MCWord
  Hash <- MCHash
  ChName <- MCChName
  lower <- MCLower
  sub <- MCSub
  atoi <- MCAtoi
  NickName <- MCNick
  pass = "pw"
  Cmds <- ModesCmds
  MaxLimit = 9
  MAX_CHS_PER_USER = 1
  MAX_NB_TARGETS = 3
SYMMETRY Symmetry
INVARIANTS
  TypeOK
  OpsAreMembers
  ChNamesCaseUnique
PROPERTIES
  JoinsWithinModes
  ModesByOperator

CHECK_DEADLOCK FALSE
