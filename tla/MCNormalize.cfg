SPECIFICATION Spec
CONSTANTS
  Payloads <- Bounded
  OldMedia <- Before
INVARIANTS GameNormalized MediaReplaced
