CONSTANTS
  Keys <- MCKeys
  Limit <- MCLimit
  Window <- MCWindow
  Second = 2
  SweepEvery = 2
  MaxTime = 7
SPECIFICATION Spec
INVARIANTS TypeOK ShortKeyBudget HitsAreRecentLog RetryAfterHonest
PROPERTY ImplementsSlidingWindow
CHECK_DEADLOCK FALSE
