CONSTANTS
  alice = alice
  bob = bob
  p1 = p1
  Party = {alice, bob}
  Anyone = Anyone
  Keeper = bob
  TickName = {t1, t2}
  NoOp = NoOp
  TracksNewSubs = TRUE
  ListLimit = 2
  EmptyRun = 2
  MaxFaults = 1
  Plan <- mcPlan
  Invoice <- mcInvoice
  Allowed = {0, 2}
  MinPeriod = 1
  MaxSubsPerPayer = 1
  MaxExpiry = 1
  MaxSubs = 2
  MaxRequests = 1
  Horizon = 2
  ChainCall <- mcChainCall
  NoCall = NoCall
  NoName = NoName
  Confirmations = 1
  MaxRange = 2
  EventsMax = 2
  ReorgDepth = 1
  MaxHeight = 3
  MaxResolutions = 1
  MaxIndexFaults = 1
  SinkFloor <- mcFloor
  SinkTarget <- mcTarget
  Runner = {r1, r2}
  MinQusdc = 2
  MaxQusdc = 3
  SlippageBps = 200
  Treasuries <- mcTreasuries
  TradeSize = {3}
  MaxTrades = 1
  MaxSpends = 2
  MaxAborts = 1
SPECIFICATION ServicesSpec
INVARIANTS
  SubscriptionsAreReported
  IndexIsExact
  SubscriptionsExact
  LossPerAbortBounded
PROPERTIES
  RailsKeepConsents
  TrackedIsCharged
  BlocksAreIndexed
  LowSinkIsServed
CHECK_DEADLOCK FALSE
