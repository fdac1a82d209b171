\* One purchase of the strategy, which the exchange fills.
SPECIFICATION TradingSpec
CONSTANTS
  Prices = {1000, 1010}
  TakeProfit = 8
  StopLoss = 5
  Interval = 2
  Period = 2
  MayCrash = FALSE
  MaxTasks = 1
  Threads = {mainLoop}
  MainLoop = mainLoop
  Orders = {o1}
  MaxAttempts = 2
CHECK_DEADLOCK FALSE
INVARIANT SkipsWhenHolding
