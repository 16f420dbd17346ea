SPECIFICATION Spec
CONSTANTS
  Jobs = {1, 2}
  Workloads <- MCWorkloads
  TimelineLimit = 1
INVARIANTS
  NothingMissed
  ToDeviceKept
  StateAgrees
PROPERTIES
  Delivery
CHECK_DEADLOCK FALSE
