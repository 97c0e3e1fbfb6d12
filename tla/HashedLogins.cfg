CONSTANTS
  Anonymous = anonymous
  Star = star
  Unhashable = {tooLong}
  Users = {anonymous, alice}
  Texts = {star, tooLong, secret}
  MaxAccesses = 2
  Logins = 2
SPECIFICATION Spec
INVARIANTS
  LoginsKept
  OthersDoNotMatter
  OnlyKeycloakEntryDisturbed
CHECK_DEADLOCK FALSE
