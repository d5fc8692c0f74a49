CONSTANTS
  Procs = {p1, p2}
  Command = command
  None = none
  MayFail = FALSE
  MaxSignals = 1
SPECIFICATION Spec
INVARIANTS ReloadRestarts
\* A program may have stopped.
CHECK_DEADLOCK FALSE
