SPECIFICATION MigrateSpec
CONSTANTS
  Users = {"a", "b"}
  Events = {"e1", "e2"}
  Receipts <- MCReceipts
  Fields = {"tz", "pronouns"}
  Databases <- MCDatabases
  MaxCrashes = 3
INVARIANTS  ReferencesKept Settled
PROPERTIES ComesUp
CHECK_DEADLOCK FALSE
