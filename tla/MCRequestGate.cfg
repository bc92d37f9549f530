CONSTANTS
  Conns = {c1, c2}
  Hosts = {host}
  Users = {user}
  BucketLimit <- MCBucketLimit
  RefreshBudget = 1
  BucketWindow = 2
  RefreshWindow = 3
  SweepEvery = 3
  MaxTime = 3
  MaxRequests = 5

SYMMETRY Symmetry
SPECIFICATION Spec
INVARIANTS NeverOverCounted UnderCountPerRedirect
CHECK_DEADLOCK FALSE
