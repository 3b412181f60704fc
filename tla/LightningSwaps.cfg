SPECIFICATION MCSpec
CONSTANTS
  Calls = {c1, c2}
  Builds = {b1, b2}
  Managers = {m1, m2}
  Swaps = {k1}
  None = None
  Amount = 10001
  Fee = 5
CHECK_DEADLOCK FALSE
INVARIANTS
  OneOfEach
  PaidAsConfirmed
  StatusHonest
PROPERTIES
  InOwnSession
  MoneyComesHome
