SPECIFICATION FairSpec
CONSTANTS
  Queries = {q1, q2}
  FailureThreshold = 1
  OpenDuration = 1
  MaxTime = 3
  MaxFails = 12
  RequestTimeout = 1
  Margin = 2
  Lifetimes = {1, 3}
  MaxTokens = 2
INVARIANTS TrialOnItsWay
PROPERTIES ExpiredOnlyAfterLongWait ReplacedOnlyAtEnd EveryQueryReturns
