SPECIFICATION Spec
CONSTANTS
  None = None
  Requests = {r1, r2, r3, r4, r5}
  Emails = {e1}
  Usernames = {n1}
  Passwords = {p1, weak}
  WeakPasswords = {weak}
  Kinds <- Redeeming
SYMMETRY RequestSymmetry
INVARIANTS RedeemedOnce VerifiedByOwnToken NoCircularWait
PROPERTIES PasswordNeedsToken
