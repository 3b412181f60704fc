SPECIFICATION MCSpec
CONSTANTS
  Origins = {o1, o2}
  Connects = {c1, c2}
  Signs = {s1}
  Disconnects = {d1}
  Transactions = {}
  Completions = {}
  None = None
  StorageFails = TRUE
  MaxSessions = 2
CHECK_DEADLOCK FALSE
INVARIANTS
  PromptInSession
  FailedConnectGrantsNothing
  ChangesAreFinished
PROPERTIES
  GrantGoesByDisconnect
  CallsReturn
