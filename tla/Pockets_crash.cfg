\* The process may be killed between any two saves.
SPECIFICATION Spec
CONSTANTS
  MainLoop = main
  Threads = {main}
  PocketIds = {p1, p2, p3}
  Bids = {b1, b2}
  Asks = {a1, a2, a3, a4}
  Volumes = {1, 2}
  Entries = {1}
  ManualSales = TRUE
  Cancels = FALSE
  MayCrash = TRUE
  QueueMax = 1
  NoPocket = NoPocket
  NoOrder = NoOrder
CHECK_DEADLOCK FALSE
SYMMETRY PocketSymmetry
INVARIANTS VolumeNotInvented
PROPERTIES LifecycleSpec
