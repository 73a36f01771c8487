SPECIFICATION FairSpec
CONSTANTS
  Handlers = {h1, h2}
  Ticker = ticker
  Fields = {"Soc"}
  Composite = {}
  None = None
  MaxDrops = 2
INVARIANTS
  AnnouncedIsRetained
PROPERTY EntitiesReturn
CHECK_DEADLOCK FALSE
