CONSTANTS
  Callers = {p1, p2}
  Jobs = {1, 2, 3}
  Delay <- MCDelay
  NoJob = 0
  MaxTime = 3
  MayStop = TRUE
SPECIFICATION FairSpec
INVARIANTS ReplyHasReceiver FlagAgrees NoneMissed
PROPERTIES RunsOnTime EveryCallReturns
