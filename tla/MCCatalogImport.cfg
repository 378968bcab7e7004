SPECIFICATION FairSpec
CONSTANTS
  Jobs = {j1, j2}
  a = a
  b = b
  None = None
  MaxAttempts = 2
  Worlds <- AllWorlds
  Ids <- Both
  Configured <- Maybe
INVARIANTS OneGamePerId OnePayload NoSelfDeadlock
PROPERTIES NoRegression ParentResolved KeepsCatalog EveryImportEnds
