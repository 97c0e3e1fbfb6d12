SPECIFICATION BFairSpec
CONSTANTS
  Sessions = {s1, s2, s3}
  Accesses <- accesses
  Tokens = 2
  NoOne = noOne
  anna = anna
  drive = drive
  disk = disk
  remote = remote
  token = token
  none = none
INVARIANTS
  BTypeOK
  BotIsShared
PROPERTIES
  TokenOnlyRenewed
  OnlySilenceBlocks
  LoginIsOneStep
CHECK_DEADLOCK FALSE
