SPECIFICATION SiteSpec
CONSTANTS
  Origins = {o1}
  Connects = {c1, c2}
  Signs = {s1}
  Disconnects = {d1}
  Transactions = {}
  Completions = {}
  None = None
  StorageFails = FALSE
  MaxSessions = 2
INVARIANTS
  PromptsAreConnected
CHECK_DEADLOCK FALSE
