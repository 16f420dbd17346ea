SPECIFICATION Spec
CONSTANTS
  Users = {u1, u2}
  Devices = {d1, d2}
  Mails = {m1, m2}
  Secrets = {c1, c2}
  Slots = {s1, s2}
  Workloads <- MCWorkloads
  AllowRegistration = FALSE
  SuspendOnRegister = TRUE
  Appservice = u2
  AsToken = as_token
  NoToken = no_token
  None = none
  MaxTokens = 2
  MaxSessions = 2
  MaxRequests = 4
  MaxCrashes = 1
INVARIANTS   SessionMaps
SYMMETRY Symmetry
CHECK_DEADLOCK FALSE
