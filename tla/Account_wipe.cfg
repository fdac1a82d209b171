\* Two bids share the whole balance and one of them is filled.
SPECIFICATION Spec
CONSTANTS
  btc = btc
  KRW = KRW
  MainLoop = main
  Threads = {main}
  NoThread = NoThread
  Orders = {o1, o2}
  NoOrder = NoOrder
  Markets = {m1}
  Currencies = {KRW, btc}
  Base <- OneMarketBase
  Unit <- OneMarketUnit
  Prices = {1, 2}
  Requests <- BidRequests
  FeeNum = 1
  FeeDen = 2
  ClampTolerance = 2
  InitialBalance = 9
  MayCrash = FALSE
CHECK_DEADLOCK FALSE
INVARIANTS KrwLocksExact
