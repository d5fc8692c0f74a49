CONSTANTS
  Callers = {p1, p2, p3}
  Jobs = {1, 2, 3}
  Delay <- MCDelay
  NoJob = 0
  MaxTime = 5
  MayStop = FALSE
SPECIFICATION Spec
INVARIANTS EntriesIsSnapshot
