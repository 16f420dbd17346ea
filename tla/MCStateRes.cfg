CONSTANTS
  b1 = b1
  b2 = b2
  None = None
  NoKey = NoKey
  KeyFails = KeyFails
  Users <- MCUsers
  ServerOf <- MCServerOf
  Versions = {11, 12}
  Branches = {b1, b2}
  Menu <- MCMenu
  Times = {1}
  MaxEvents = 3
  Setup <- MCSetup
  Nodes = {1, 2, 3}
  Outside = {4}
  Powers = {0, 50}
  Stamps = {1, 2}
SPECIFICATION MCSpec
SYMMETRY Symmetry
INVARIANTS BanWins  PowerKept Topological Lexicographic
CHECK_DEADLOCK FALSE
