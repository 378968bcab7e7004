SPECIFICATION FairSpec
CONSTANTS
  Calls = {c1, c2, c3}
  FailureThreshold = 2
  OpenDuration = 2
  MaxTime = 7
  MaxFails = 6
INVARIANTS ClosedBelowThreshold HalfOpenHasTrial
PROPERTIES TrialsSpaced HalfOpenLeft
