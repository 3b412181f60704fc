SPECIFICATION MCSpec
CONSTANTS
  Origins = {o1}
  Connects = {c1, c2}
  Signs = {}
  Disconnects = {d1}
  Transactions = {t1}
  Completions = {k1, k2}
  None = None
  StorageFails = FALSE
  MaxSessions = 2
  Requests = {r1, r2}
  Checkpoints = 1
  Contracts <- MCContracts
  DustSats = 2
  FeeSanityBoundSats = 2
  Inputs <- MCInputs
  Outputs <- MCOutputs
  Spends <- MCSpends
  Payments <- MCPayments
  Completed <- MCCompleted
CHECK_DEADLOCK FALSE
INVARIANTS
  MoneyAccounted
  OwnIsOwn
  OnlySignaturesAdded
  ApprovalsBound
  OneAnswer
PROPERTIES
  SignedUnderGrant
  ApprovalsEnd
