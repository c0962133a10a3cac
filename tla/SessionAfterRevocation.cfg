CONSTANTS
  a1 = a1
  owner = owner
  buyer = buyer
  guardian = guardian
  k1 = k1
  k2 = k2
  r1 = r1
  r2 = r2
  token = token
  batcher = batcher
  Account <- mcTwoAccounts
  Address <- mcAddress
  NewOwner = {owner}
  Recipient <- mcRecipient
  Key <- mcKey
  Target <- mcTarget
  Params <- mcParams
  Call <- mcCall
  Batch <- mcBatch
  SessionOp <- mcSessionOp
  MaxUint = 7
  Day = 2
  Week = 4
  MaxTime = 5
  MaxNonce = 1
  BundleSize = 2
  RowLists <- mcRowLists
SPECIFICATION SessionSpec
PROPERTIES
  NoSpendAfterRevocation
