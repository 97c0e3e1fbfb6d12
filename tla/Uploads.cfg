CONSTANTS
  Mails = {m1}
  Telegrams = {t1, t2}
  Paths = {readme, photo}
  TextPaths = {readme}
  TextLimit = 2
  MaxWrites = 2
SPECIFICATION USpec
INVARIANTS
  UTypeOK
  SentOnceAndWhole
  ListAgreesWithSent
  LogAgreesWithSent
PROPERTIES
  ImplementsDelivery
