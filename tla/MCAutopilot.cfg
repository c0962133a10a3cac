SPECIFICATION Spec
CONSTANTS
  a1 = a1
  weekly = weekly
  once = once
  Intent = {weekly}
  Account = {a1}
  AccountOf <- mcAccountOf
  MaxRuns <- mcMaxRuns
  Interval <- mcInterval
  StartAt = {0}
  Ticker = {t1, t2}
  NoOp = NoOp
  NoIntent = NoIntent
  MaxTime = 1
  MaxOps = 3
  MaxNonce = 2
  MaxCrashes = 1
CHECK_DEADLOCK FALSE
INVARIANTS
  AtMostOneUncounted
  CountedOnlyIfPaid
PROPERTIES
  TerminalStays
  SettledIsNoticed
