\* Two threads share the account, and the process may be killed at any step.
SPECIFICATION Spec
CONSTANTS
  btc = btc
  KRW = KRW
  MainLoop = main
  Threads = {main, mcp}
  NoThread = NoThread
  Orders = {o1, o2, o3}
  NoOrder = NoOrder
  Markets = {m1}
  Currencies = {KRW, btc}
  Base <- OneMarketBase
  Unit <- OneMarketUnit
  Prices = {1, 2}
  Requests <- MixedRequests
  FeeNum = 1
  FeeDen = 2
  ClampTolerance = 2
  InitialBalance = 14
  MayCrash = TRUE
SYMMETRY OrderSymmetry
INVARIANTS TypeOK NoPhantomLock EventsTellTheAssets
PROPERTIES RestartMatchesOrders DoneIsFinal
