SPECIFICATION PathSpec
CONSTANTS
  Requests = {r1, r2}
  Cars = {c1}
  Keys = {"climate", "wake"}
  Momentary = {"wake"}
  Media = {}
  Payloads = {"on"}
  Norm <- MCNorm
  None = None
  PerKeyPerHour = 2
  DuplicateWindow = 0
  Hour = 1
  MaxTime = 1
  MaxWakes = 1
  FleetAPI = TRUE
  MaxPolls = 1
PROPERTIES
  ImplementsDispatcher
  EveryRequestAnswered
CHECK_DEADLOCK FALSE
