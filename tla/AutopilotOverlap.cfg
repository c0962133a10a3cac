SPECIFICATION Spec
CONSTANTS
  a1 = a1
  weekly = weekly
  once = once
  Intent = {once}
  Account = {a1}
  AccountOf <- mcAccountOf
  MaxRuns <- mcMaxRuns
  Interval <- mcInterval
  StartAt = {0}
  Ticker = {t1, t2}
  NoOp = NoOp
  NoIntent = NoIntent
  MaxTime = 1
  MaxOps = 2
  MaxNonce = 2
  MaxCrashes = 0
CHECK_DEADLOCK FALSE
INVARIANT
  AtMostMaxRuns
