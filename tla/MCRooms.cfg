SPECIFICATION Spec
CONSTANTS
  Local = {"alice", "bob"}
  Remote = {"carol"}
  Admins = {"alice"}
  Home = "home"
  Away = "away"
  Next11 = "next11"
  Next12 = "next12"
  Aliases = {"a", "b"}
  Slots = {1, 2}
  Workloads <- MCWorkloads
  MaxCrashes = 1
  
PROPERTIES NothingLost Finishes
CHECK_DEADLOCK FALSE
