SPECIFICATION Spec
CONSTANTS
  Handlers = {h1, h2}
  Ticker = ticker
  Fields = {"Soc", "Doors"}
  Composite = {"Doors"}
  None = None
  MaxDrops = 2
INVARIANT DiscoveredIsRetained
CHECK_DEADLOCK FALSE
