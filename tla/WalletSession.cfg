CONSTANTS
  None = None
  Networks = {regtest, mutinynet}
  Regtest = regtest
  Unlockers = {u1, u2}
  Creators = {c1}
  MaxRequests = 4
SPECIFICATION MCSpec
CHECK_DEADLOCK FALSE
INVARIANTS
  VaultReadable
  FenceOwned
  RevokedStaysRevoked
  DisconnectTold
PROPERTIES
  ImplementsAuthority
  LocksInTheEnd
