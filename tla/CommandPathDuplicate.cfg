SPECIFICATION PathSpec
CONSTANTS
  Requests = {r1, r2, r3}
  Cars = {c1}
  Keys = {"charge_limit"}
  Momentary = {}
  Media = {}
  Payloads = {"70", "80"}
  Norm <- MCNorm
  None = None
  PerKeyPerHour = 2
  DuplicateWindow = 1
  Hour = 1
  MaxTime = 0
  MaxWakes = 1
  FleetAPI = TRUE
  MaxPolls = 1
SYMMETRY Symmetry
INVARIANTS
  DuplicateIsOnCar
CHECK_DEADLOCK FALSE
