SPECIFICATION Spec
CONSTANTS
  Calls = {h1, h2, h3}
  Cars = {c1}
  None = None
  MaxWakes = 1
  Hour = 1
  FleetAPI = TRUE
  MaxPolls = 2
  MaxTime = 2
SYMMETRY Symmetry
INVARIANTS
  NoDoubleFire
  WakesShared
CHECK_DEADLOCK FALSE
