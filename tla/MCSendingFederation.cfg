SPECIFICATION FairSpec
CONSTANTS
  f1 = f1
  p1 = p1
  a1 = a1
  s1 = s1
  Federation = {f1}
  Appservices = {}
  Pushers = {}
  Shards = {s1}
  ShardOf <- OneShard
  MaxRow = 2
  DequeueLimit = 1
  Netburst = TRUE
  Keep <- KeepAll
  MaxTries = 1
  MaxCount = 1
  MaxFailures = 2
  MaxRestarts = 1
INVARIANTS
  OneTransaction
  TransactionLimit
PROPERTY Delivery
