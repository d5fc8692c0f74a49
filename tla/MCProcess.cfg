CONSTANTS
  Workers = {w1}
  Jobs = {j1, j2}
  NoWorker = NoWorker
  MayEnd = TRUE
  None = None
  NoRoute = NoRoute
SPECIFICATION ProcessSpec
INVARIANTS ProcessTypeOK IdleUntilEnd ServersRight
PROPERTIES PoolServes EveryWaitEnds ShutdownEnds EveryRequestServed LogsRight NothingLeft
\* Each part comes to rest.
CHECK_DEADLOCK FALSE
