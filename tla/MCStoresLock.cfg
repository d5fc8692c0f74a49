CONSTANTS
  Keys <- MCKeys
  Values = {a, b}
  NoKey = 0
  None = None
  LastBucket = 1
  SlotIds = {0}
  MaxHash = 3
  Hash <- MCHash
  Ttls = {0, 1, 2}
  TimeMod = 64
  MaxTime = 4
  Models = {m1, m2}
  Handles = {h1}
  RowKeys = {k1}
  Root = Root
  Empty = Empty
  Nil = Nil
  Null = Null
  Fails = Fails
SPECIFICATION StoresSpec
INVARIANTS LockExclusive
CHECK_DEADLOCK FALSE
