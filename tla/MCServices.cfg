CONSTANTS
  Workers = {w1, w2}
  Jobs = {j1, j2}
  Contexts = {c1, c2}
  NoWorker = NoWorker
  NoJob = NoJob
  NoData = NoData
  MayEnd = FALSE
  Methods <- MCMethods
  Routes <- MCRoutes
  None = None
  Star = Star
  NoRoute = NoRoute
  Slots = {s1, s2}
SPECIFICATION ServicesSpec
SYMMETRY Symmetric
INVARIANTS ServicesTypeOK WorkersNeverBlock OwnResult RequestRouted AnswersRight GetsOneAnswer ClientRight NextIsFirst
\* With finitely many jobs and requests every part comes to rest.
CHECK_DEADLOCK FALSE
