SPECIFICATION Spec
CONSTANTS
  Fd = {f1}
  None = None
  Word <- MCWord
  Hash <- MCHash
  ChName <- MCChName
  lower <- MCLower
  sub <- MCSub
  atoi <- MCAtoi
  NickName <- MCNick
  pass = "pw"
  Cmds <- PartListCmds
  MaxLimit = 9
  MAX_CHS_PER_USER = 2
  MAX_NB_TARGETS = 3
SYMMETRY Symmetry
INVARIANT NoCrash
