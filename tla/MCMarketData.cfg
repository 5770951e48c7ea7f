CONSTANTS
  Clients = {c1}
  OrderIds = {o1, o2, o3}
  MIN_PRICE = 1
  MAX_PRICE = 3
  MaxQuantity = 2
  CancelQuantities = {0, 1, 2, 3}
  PREALLOCATION_COUNT = 2
  MatchNumbers = 1
  MarketDataCapacity = 1
  MaxDrops = 1
  NoOrder = NoOrder
  NoRequest = NoRequest
SPECIFICATION MDSpec
SYMMETRY Symmetry
CONSTRAINT NothingLostBefore
INVARIANTS FeedShowsBook TypeOK BookConsistent NotCrossed RestIsSafe LiabilityKept
PROPERTIES PriorityStable MatchGetsOn
