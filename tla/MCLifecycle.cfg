SPECIFICATION Spec
CONSTANTS
  Cmds = {"r1", "r2"}
  NQueues = 1
  NThreads = 1
  QueueCap = 1
  Loads <- MCLoads
INVARIANTS NoWorkerLeft
  
CHECK_DEADLOCK FALSE
