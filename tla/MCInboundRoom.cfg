SPECIFICATION SpecRoom
CONSTANTS
  Nodes = {1, 2}
  Outside = {3}
  Powers = {0}
  Stamps = {0}
  KeyFails = KeyFails
INVARIANT AllHandled
CHECK_DEADLOCK FALSE
