CONSTANTS
  Keys <- MCKeys
  Limit <- MCLimit
  Window <- MCWindow
  Second = 2
  SweepEvery = 2
  MaxTime = 7
SPECIFICATION Spec
INVARIANT EveryKeyBudget
CHECK_DEADLOCK FALSE
