CONSTANTS
  Conns = {c1, c2}
  Spellings <- MCSpellings
  Lower <- MCLower
  Passwords = {p, q}
  Values = {"", "x"}
  Null = null
  AccessLife = 1
  RefreshLife = 2
  MaxTime = 2
  MaxRequests = 3

SYMMETRY Symmetry
SPECIFICATION Spec
INVARIANTS TypeOK OneAccountPerAddress RegisteredCanSignIn BearerFresh
PROPERTY EditsExact
CHECK_DEADLOCK FALSE
