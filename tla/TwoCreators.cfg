CONSTANTS
  None = None
  Networks = {regtest, mutinynet}
  Regtest = regtest
  Unlockers = {u1}
  Creators = {c1, c2}
  MaxRequests = 4
SPECIFICATION Spec
CHECK_DEADLOCK FALSE
PROPERTY
  VaultKept
