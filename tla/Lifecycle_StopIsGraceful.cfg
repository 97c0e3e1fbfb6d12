CONSTANTS
  Clients = {c1, c2}
  Stopper = stopper
  NoOne = noOne
SPECIFICATION LSpec
INVARIANT StopIsGraceful
CHECK_DEADLOCK FALSE
