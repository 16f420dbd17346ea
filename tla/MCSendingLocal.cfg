SPECIFICATION Spec
CONSTANTS
  f1 = f1
  p1 = p1
  a1 = a1
  s1 = s1
  Federation = {}
  Appservices = {a1}
  Pushers = {}
  Shards = {s1}
  ShardOf <- OneShard
  MaxRow = 3
  DequeueLimit = 2
  Netburst = TRUE
  Keep = 1
  MaxTries = 1
  MaxCount = 0
  MaxFailures = 2
  MaxRestarts = 1
INVARIANTS
  NothingLost
CHECK_DEADLOCK FALSE
