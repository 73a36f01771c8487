SPECIFICATION Spec
CONSTANTS
  Requests = {r1, r2, r3}
  Cars = {c1}
  Keys = {"climate", "media_next"}
  Momentary = {"media_next"}
  Media = {"media_next"}
  Payloads = {"on", "On", "off"}
  Norm <- MCNorm
  None = None
  PerKeyPerHour = 1
  DuplicateWindow = 2
  Hour = 2
  MaxTime = 2
SYMMETRY Symmetry
CONSTRAINT OnePress
INVARIANTS
  TypeOK
  Ownership
  OvertakesOnlyByMerging
  LimitsHold
  SettledValueIsNewest
PROPERTY ImplementsService
CHECK_DEADLOCK FALSE
