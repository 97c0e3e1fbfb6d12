CONSTANTS
  Clients = {c1, c2, c3}
  Stopper = stopper
  NoOne = noOne
SPECIFICATION FairSpec
INVARIANTS
  LTypeOK
  OnlySigtermEndsServing
PROPERTIES
  TimeoutOnlyWithClients
  ClosedListenerEndsProcess
  DisconnectReturns
  PendingSigtermStops
CHECK_DEADLOCK FALSE
