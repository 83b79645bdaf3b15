SPECIFICATION Spec
CONSTANTS
  Fd = {f1, f2, f3}
  None = None
  Word <- MCWord
  Hash <- MCHash
  ChName <- MCChName
  lower <- MCLower
  sub <- MCSub
  atoi <- MCAtoi
  NickName <- MCNick
  pass = "pw"
  Cmds <- MembersCmds
  MaxLimit = 9
  MAX_CHS_PER_USER = 2
  MAX_NB_TARGETS = 3
SYMMETRY Symmetry
INVARIANTS
  ToLiveClients
  NoCrash
PROPERTIES
  LeavesOperator
  ChannelTalk
  RoomsSpec
