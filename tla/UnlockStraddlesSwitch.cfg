CONSTANTS
  None = None
  Networks = {regtest, mutinynet}
  Regtest = regtest
  Unlockers = {u1}
  Creators = {c1}
  MaxRequests = 4
SPECIFICATION Spec
CHECK_DEADLOCK FALSE
INVARIANT
  SessionOnStoredNetwork
