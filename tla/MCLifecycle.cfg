CONSTANTS
  Procs = {p1, p2, p3}
  Command = command
  None = none
  MayFail = TRUE
  MaxSignals = 1
SPECIFICATION FairSpec
INVARIANTS TypeOK MasterNamed ServiceSurvives
PROPERTIES OldGenerationGoes
\* A program may have stopped.
CHECK_DEADLOCK FALSE
