SPECIFICATION Spec
CONSTANTS
  None = None
  Requests = {r1, r2, r3, r4}
  Emails = {e1}
  Usernames = {n1}
  Passwords = {p1}
  WeakPasswords = {}
  Kinds <- Most
SYMMETRY RequestSymmetry
INVARIANTS DeadCredentialRefused ResetRevokesPrior
PROPERTIES KeepsLedger
