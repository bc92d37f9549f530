CONSTANTS
  Conns = {c1, c2}
  Spellings <- MCSpellings
  Lower <- MCLower
  Passwords = {p}
  Values = {"", "x"}
  Null = null
  AccessLife = 1
  RefreshLife = 2
  MaxTime = 0
  MaxRequests = 2

SPECIFICATION Spec
INVARIANT DuplicateIsConflict
CHECK_DEADLOCK FALSE
