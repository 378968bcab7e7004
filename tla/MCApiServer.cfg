SPECIFICATION FairSpec
CONSTANTS
  None = None
  Requests = {r1, r2}
  SentIds = {None, x}
  Hanging = {r1}
  Pools <- Maybe
INVARIANTS Traceable CodesAgree CleanExit
PROPERTIES StopsAfterSignal
