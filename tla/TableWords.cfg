SPECIFICATION TableSpec
CONSTANTS
  Requests = {r1}
  Cars = {c1}
  Keys <- AllKeys
  Momentary <- MCMomentary
  Media <- MCMedia
  Payloads <- MCPayloads
  Norm <- MCNorm
  None = None
  PerKeyPerHour = 0
  DuplicateWindow = 1
  Hour = 1
  MaxTime = 0
  Junk = {"BANANA", ""}
INVARIANTS
  AdvertisedIsUnderstood
  
CHECK_DEADLOCK FALSE
