\* The main loop alone: buys, signals, cancelled orders; no sale by hand.
SPECIFICATION FairSpec
CONSTANTS
  MainLoop = main
  Threads = {main}
  PocketIds = {p1, p2}
  Bids = {b1, b2}
  Asks = {a1, a2, a3}
  Volumes = {1, 2}
  Entries = {1}
  ManualSales = FALSE
  Cancels = TRUE
  MayCrash = FALSE
  QueueMax = 2
  NoPocket = NoPocket
  NoOrder = NoOrder
CHECK_DEADLOCK FALSE
INVARIANTS NoOrphanSale PocketsAccountedFor PocketsHaveStrategies
PROPERTIES ClosingEnds
