SPECIFICATION MCSpec
CONSTANTS
  Delegates = {d1}
  Home = d1
  Coins = {k1}
  None = None
  MaxSessions = 1
  MaxJobs = 3
  StorageFails = TRUE
  r1 = r1
  r2 = r2
  Reviews = {r1, r2}
CHECK_DEADLOCK FALSE
INVARIANTS
  ShownHonestly
PROPERTIES
  PostedOnce
  SettleSparesAccepted
  PostedUnderApproval
  AcceptanceSaved
  LeftoversSettle
  MovedUnderApproval
