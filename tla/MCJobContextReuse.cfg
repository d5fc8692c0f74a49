CONSTANTS
  Workers = {w1, w2}
  Jobs = {j1, j2}
  Contexts = {c1, c2}
  NoWorker = NoWorker
  NoJob = NoJob
  NoData = NoData
  MayEnd = FALSE
  Methods <- ChainOnly
  Routes <- ChainRoutes
SPECIFICATION JSpec
INVARIANTS NextPayloadIsLastResult
\* With finitely many jobs the pool comes to rest.
CHECK_DEADLOCK FALSE
