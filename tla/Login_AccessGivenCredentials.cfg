CONSTANTS
  Anonymous = anonymous
  Star = star
  Unhashable = {}
  Sessions = {s1, s2}
  Users = {alice, bob}
  Texts = {secret}
  Contents <- KeycloakContents
  Reloads = 1
  WebhookAccesses <- NoAnswers
  Accounts <- TheAccounts
  NoOne = noOne
  NoFs = noFs
  NoAccess = noAccess
  alice = alice
  bob = bob
  anonymous = anonymous
  star = star
  secret = secret
SPECIFICATION Spec
INVARIANT AccessGivenCredentials
CHECK_DEADLOCK FALSE
