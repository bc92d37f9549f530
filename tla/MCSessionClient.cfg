CONSTANTS
  Accounts = {a, b}
  Nobody = nobody
  MaxSteps = 4

SPECIFICATION FairSpec
INVARIANTS TypeOK SessionCoherent OneAccountPerFlow
PROPERTIES EveryFlowEnds SpinnerEnds
CHECK_DEADLOCK FALSE
