SPECIFICATION MCSpec
CONSTANTS
  payroll = payroll
  refund = refund
  wages = wages
  bill = bill
  rent = rent
  fee = fee
  seat = seat
  Groups = {{wages}}
  Job = {payroll, refund, wages, bill}
  Source <- mcSource
  RowsOf <- mcRowsOf
  Singles <- mcSingles
  Content <- mcContent
  ChunkSize = 2
  NoOp = NoOp
  MaxOps = 2
  MaxCrashes = 0
  p1 = p1
  p2 = p2
  SheetRowsUpTo = 3
  Sheets <- mcSheets
  Numeral <- mcNumeral
  Decimals = 2
  Weekday <- mcWeekday
  EveryN <- mcEveryN
  OneDay = 1
  OneWeek = 7
  Resolves <- mcResolves
  NoAddress = NoAddress
  MaxRows = 3
  PaidBefore <- mcPaidBefore
  Receipted <- mcReceipted
CHECK_DEADLOCK FALSE
INVARIANT
  RowPaidOnce
