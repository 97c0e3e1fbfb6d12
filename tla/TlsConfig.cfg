SPECIFICATION TFairSpec
CONSTANTS
  Callers = {c1, c2, c3}
  Contents <- contents
  Issues = 2
INVARIANTS
  TTypeOK
  OneAnswer
  ErrorHasCause
  RequirementMatchesCertificate
PROPERTY CallsReturn
