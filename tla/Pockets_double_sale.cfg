\* Two threads close one pocket.
SPECIFICATION Spec
CONSTANTS
  MainLoop = main
  Threads = {main, mcp}
  PocketIds = {p1, p2}
  Bids = {b1, b2}
  Asks = {a1, a2, a3}
  Volumes = {1}
  Entries = {1}
  ManualSales = FALSE
  Cancels = FALSE
  MayCrash = FALSE
  QueueMax = 1
  NoPocket = NoPocket
  NoOrder = NoOrder
CHECK_DEADLOCK FALSE
INVARIANTS NoOrphanSale
