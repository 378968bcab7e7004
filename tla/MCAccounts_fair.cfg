SPECIFICATION FairSpec
CONSTANTS
  None = None
  Requests = {r1, r2, r3, r4}
  Emails = {e1}
  Usernames = {n1}
  Passwords = {p1}
  WeakPasswords = {}
  Kinds <- Waiting
PROPERTY EveryRequestAnswered
