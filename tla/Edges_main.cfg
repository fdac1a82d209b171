\* The websocket feed, the two messaging clients and the dashboard, one at a time.
SPECIFICATION EdgesSpec
CONSTANTS
  Codes = {c1, c2}
  Initial = {}
  Adders = {main, mcp}
  DelayMin = 3
  DelayMax = 10
  MaxLosses = 2
  Levels = {"x", "y"}
  Depth = 3
  MaxDrops = 2
  Stream <- TheStream
  Chunk = 5
  PocketIds = {"p1"}
  StrategyIds = {"s1", "s2"}
  OrderIds = {"o1"}
  PocketOf <- ThePocketOf
  NoPocket = NoPocket
  Restored = {"o1"}
  MaxLogs = 1
  Viewers = {v1}
  MaxPrices = 2
  MaxMessages = 2
  MaxEvents = 5
  MaxQueue = 2
CHECK_DEADLOCK FALSE
INVARIANTS EdgesTypeOK Subscribed ClientsHear ViewersSee
PROPERTIES InForce ComesThrough
