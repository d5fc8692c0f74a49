CONSTANTS
  Requests = {r1, r2}
  Keys = {k1, k2, k3}
  Existing = {k1}
  Names = {id, other}
  Primary = id
  Old = Old
  None = None
  Expire = 2
  MaxDelay = 1
  Lag = 1
  MaxTime = 6
SPECIFICATION Spec
INVARIANTS TypeOK BoundedStaleness StaleOnlyInRace InsertedOnce AnswersRight
SYMMETRY Interchangeable
CHECK_DEADLOCK FALSE
