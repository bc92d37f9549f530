CONSTANTS
  Requests = {r1, r2, r3}
  Contents = {a, b}
  Models = {m}
  Snapshot = snapshot
  NoModel = none
  NoRow = norow
  NoOutcome = nooutcome
  TTL = 1
  MaxDuration = 2
  MaxTime = 3

SYMMETRY Symmetry
SPECIFICATION Spec
INVARIANTS EngineAnswersServed AnswerAge RefreshedHonest IntactWithoutOverlap
CHECK_DEADLOCK FALSE
