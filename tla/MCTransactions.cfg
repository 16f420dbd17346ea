SPECIFICATION FairSpec
CONSTANTS
  o1 = o1
  o2 = o2
  o3 = o3
  Keys <- FourKeys
  Requests = {r1, r2}
  Tasks = {t1, t2}
  MaxActive = 2
  MaxEntries = 1
  MaxAge = 1
  CleanupInterval = 1
  MaxClock = 2
  NoKey = NoKey
  NoTask = NoTask
INVARIANTS RightResponse
PROPERTIES Answered ImplementsRegistry
CHECK_DEADLOCK FALSE
