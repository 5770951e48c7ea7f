CONSTANTS
  Clients = {c1}
  OrderIds = {1, 2}
  UserRefNums = {1, 2}
  MIN_PRICE = 1
  MAX_PRICE = 1
  MaxQuantity = 2
  CancelQuantities = {0, 1}
  PREALLOCATION_COUNT = 2
  MatchNumbers = 1
  MarketDataCapacity = 0
  MaxDrops = 0
  TicksPerCent = 2
  MaxLimitPrice = 4
  MarketPriceFloor = 5
  NotesCapacity = 1
  InboundCapacity = 1
  OutboundCapacity = 1
  kOutboundBatch = 1
  MaxMessages = 3
  Messages <- MCMessages
  NoOrder = NoOrder
  NoRequest = NoRequest
  None = None
SPECIFICATION GWFairSpec
PROPERTIES EngineSpec EnterAnswered
