SPECIFICATION PathSpec
CONSTANTS
  Requests = {r1, r2, r3}
  Cars = {c1}
  Keys = {"climate", "wake"}
  Momentary = {"wake"}
  Media = {}
  Payloads = {"on", "off"}
  Norm <- MCNorm
  None = None
  PerKeyPerHour = 2
  DuplicateWindow = 1
  Hour = 1
  MaxTime = 0
  MaxWakes = 1
  FleetAPI = TRUE
  MaxPolls = 1
SYMMETRY Symmetry
INVARIANTS
  AnswersAreHonest
  CarHasNewest
CHECK_DEADLOCK FALSE
