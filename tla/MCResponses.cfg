CONSTANTS
  Configs <- StandardWithCache
  Inputs <- OnePart
  Slots = {s1, s2}
  MaxRequests = 2
  None = None
SPECIFICATION Spec
INVARIANTS CopiesKept
\* Finitely many requests.
CHECK_DEADLOCK FALSE
