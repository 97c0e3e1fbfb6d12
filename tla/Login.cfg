CONSTANTS
  Anonymous = anonymous
  Star = star
  Unhashable = {}
  Sessions = {s1, s2}
  Users = {alice, bob}
  Texts = {secret}
  Contents <- AllContents
  Reloads = 1
  WebhookAccesses <- MixedAnswers
  Accounts <- TheAccounts
  NoOne = noOne
  NoFs = noFs
  NoAccess = noAccess
  alice = alice
  bob = bob
  anonymous = anonymous
  star = star
  secret = secret
SPECIFICATION FairSpec
INVARIANTS
  TypeOK
  OwnFileSystem
  SharedIsLoadedOnce
PROPERTIES
  ImplementsSharedFs
  LoginsEnd
CHECK_DEADLOCK FALSE
