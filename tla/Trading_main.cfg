\* A scalping strategy over the live account, which the MCP server uses as well; what
\* the strategies read from the candles; an autoencoder.
SPECIFICATION MCSpec
CONSTANTS
  Prices = {1000, 1010}
  TakeProfit = 8
  StopLoss = 5
  Interval = 2
  Period = 2
  MayCrash = TRUE
  MaxTasks = 1
  Threads = {mainLoop, mcp}
  MainLoop = mainLoop
  Orders = {o1, o2}
  MaxAttempts = 2
  Closes = {1, 2, 3, 4}
  Volumes = {1, 7}
  LogOf <- TheLogs
  Pressures = {50, 53, 56}
  MaShort = 2
  MaLong = 3
  RsiPeriod = 3
  RsiOversold = 40
  BbPeriod = 3
  BbStd = 1
  SurgePeriod = 3
  SurgeTimes = 2
  MinPressure = 52
  ScalpAt = 5
  StrongAt = 7
  SpikePeriod = 3
  SpikeTimes = 7
  AnomalyPeriod = 2
  Threshold = 3
  MA_SHORT = 2
  MA_LONG = 3
  RSI_PERIOD = 3
  RSI_OVERSOLD = 40
  BB_PERIOD = 3
  BB_STD = 1
  VOLUME_WINDOW = 3
  VOLUME_SURGE_MULTIPLIER = 2
  MIN_BUY_PRESSURE = 52
  MIN_SIGNAL_SCORE = 5
  STRONG_SIGNAL_SCORE = 7
  period = 2
  z_score_threshold = 3
  MaxCandles = 4
  MaxTrainings = 3
CHECK_DEADLOCK FALSE
INVARIANTS TradingTypeOK NoRoundSkipped OpenIsTracked  JudgedByItsOwn
PROPERTIES Paired RowCatchesUp CallEnds
