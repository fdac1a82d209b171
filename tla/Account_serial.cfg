\* Only the main loop calls the account; it is at rest when the uuids are used up and nothing executes.
SPECIFICATION FairSpec
CONSTANTS
  btc = btc
  KRW = KRW
  MainLoop = main
  Threads = {main}
  NoThread = NoThread
  Orders = {o1, o2, o3}
  NoOrder = NoOrder
  Markets = {m1}
  Currencies = {KRW, btc}
  Base <- OneMarketBase
  Unit <- OneMarketUnit
  Prices = {1, 2}
  Requests <- MixedRequests
  FeeNum = 1
  FeeDen = 2
  ClampTolerance = 2
  InitialBalance = 14
  MayCrash = FALSE
CHECK_DEADLOCK FALSE
INVARIANTS CoinsAddUp
PROPERTIES CancelIsFinal MarketOrdersExecute
