CONSTANTS
  p1 = p1
  p2 = p2
  Detail = {"links", "requests"}
  Wallet = {p1}
  NoWallet = NoWallet
  LinkBatch <- mcLinkBatch
  Second = 2
  Window = 1
  MaxStoredLinks = 2
  ScanName = {s1, s2}
  MaxLinks = 3
  MaxTransfers = 1
  MaxMillis = 1
  MaxMoves = 3
  Person = {p1, p2}
  NoOne = NoOne
  Name = {n1}
  NoInput = NoInput
  MaxSends = 2
  MaxEdits = 2
  MaxRenames = 1
  MaxFaults = 1
  Page = {"pay"}
  KindsOf <- mcKinds
  FreeOps = 2
  NoPage = "none"
  MaxTasks = 2
  MaxAccountOps = 2
  Acct = {p1, p2}
  NoAcct = NoAcct
  MaxRuns = 3
  MaxSwitches = 3
  Holder = {p1, p2}
  Nobody = Nobody
  Username = {u1}
  NoName = NoName
  MaxRegistrations = 2
  MaxVisits = 1
  MaxReceipts = 2
  MaxPassports = 1
  Payee = {p1}
  Unresolved = Unresolved
  Alias = {n1}
  Terms <- mcTerms
  PaymentFee = 1
  StartBalance = 2
  MaxSetups = 2
  MaxRequests = 1
  MaxChanges = 1
  Address = {p1, p2}
  Anyone = Anyone
  Tracked = {p1}
  Me = p1
  HistoryWindow = 2
  FeedWindow = 1
  LogSpan = 1
  LogSlots = 2
  FeedSize = 2
  MaxBlocks = 2
  MaxHistoryScans = 2
  MaxQueryFaults = 1
  Numeral = {"5", "7"}
  Nick = {"5", "7", "bob"}
  Owner = {p1, p2}
  Unowned = Unowned
  Day = {"friday"}
  Word = {"rent"}
  MaxCommands = 2
  MaxNameChanges = 1
SPECIFICATION AppSpec
INVARIANT
  ShownNameWasHeld
CHECK_DEADLOCK FALSE
