SPECIFICATION CliSpec
CONSTANTS
  Fd = {4, 5}
  None = None
  Word <- MCWord
  Hash = {}
  lower <- MCLower
  sub <- MCSub
  NickName <- MCNick
  pass = "pw"
  Cmds <- MCCmds
INVARIANTS
  CliTypeOK
  NickUnique
  WelcomeSent
  WrongPassDropped
PROPERTIES
  KeepsLife
