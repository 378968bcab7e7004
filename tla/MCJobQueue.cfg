SPECIFICATION FairSpec
CONSTANTS
  Jobs = {j1, j2}
  Processes = {p1}
  MaxWorkers = 2
  MaxAttempts = 3
  Hanging = {j1}
  Equipments <- Maybe
  MaxStops = 2
INVARIANTS OrphansWereCut OverlapOnlyAfterHang
PROPERTIES Promise EveryJobEnds
CHECK_DEADLOCK FALSE
