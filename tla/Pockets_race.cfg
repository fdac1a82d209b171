\* The MCP thread closes, buys and sells beside the main loop.
SPECIFICATION Spec
CONSTANTS
  MainLoop = main
  Threads = {main, mcp}
  PocketIds = {p1, p2}
  Bids = {b1, b2}
  Asks = {a1, a2, a3}
  Volumes = {1, 2}
  Entries = {1}
  ManualSales = TRUE
  Cancels = FALSE
  MayCrash = FALSE
  QueueMax = 1
  NoPocket = NoPocket
  NoOrder = NoOrder
CHECK_DEADLOCK FALSE
SYMMETRY PocketSymmetry
INVARIANTS TypeOK VolumeConserved
