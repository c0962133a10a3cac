SPECIFICATION Spec
CONSTANTS
  a1 = a1
  admin = admin
  t1 = t1
  Account = {a1}
  Address = {admin}
  Holder = {a1}
  Target = {t1}
  Op <- mcOps
  Pool <- mcPools
  Markup = {0}
  Cap = {0, 1}
  BpsDenominator = 1
  PerAccountCap = 2
  DailyBudget = 1
  GlobalBudget = 3
  MinWqieReserve = 2
  StalenessLimit = 0
  MaxExpiryWindow = 1
  DayLength = 1
  MaxTime = 1
  MaxCost = 2
  BundleSize = 2
  MaxDeposit = 4
  Supply = 2
  QuoteCost = 1
  GasUnits = 2
  SessionUnits = 2
  FeeFloor = 1
  GasPrice = {0, 2}
  Prefs <- mcPrefs
  TokenLife = 1
  ServiceKey = admin
CONSTRAINT SwitchedOn
INVARIANTS
  RoutesHold
  ModeBOvershootBounded
  BudgetsTellTheTruth
  CollectedIsBacked
PROPERTIES
  ChargeWithinQuote
