SPECIFICATION FairSpec
CONSTANTS
  Waiters = {w1, w2, w3, w4}
  Burst = 2
  Cost = 3
  Rate = 2
  MaxWindow = 7
INVARIANTS RateBound TimelyWakeup
PROPERTIES EveryWaiterLeaves
