\* The main loop alone; the process may be killed between any two commits.
SPECIFICATION Spec
CONSTANTS
  MainLoop = main
  Threads = {main}
  Ids = {s1, s2}
  Pockets = {p1}
  PocketOf <- OnePocket
  Entry = 20
  Prices = {16, 18, 21, 22, 23, 24}
  StopLoss = 20
  TakeProfit = 20
  Trail = 23
  Activation = 10
  Scale = 2
  MayCrash = TRUE
  NoStrategy = NoStrategy
CHECK_DEADLOCK FALSE
SYMMETRY IdSymmetry
INVARIANTS TypeOK RestartGoesOn
PROPERTIES SavedStopNeverFalls StrategyLifecycleSpec
