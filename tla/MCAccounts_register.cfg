SPECIFICATION Spec
CONSTANTS
  None = None
  Requests = {r1, r2, r3}
  Emails = {e1, e2}
  Usernames = {n1, n2}
  Passwords = {p1}
  WeakPasswords = {}
  Kinds <- Registering
SYMMETRY RequestSymmetry
INVARIANTS UniqueLive RegistrationAtomic OutboxSound NoCircularWait
