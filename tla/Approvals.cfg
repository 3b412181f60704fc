SPECIFICATION GateFairSpec
CONSTANTS
  Requests = {r1, r2}
  None = None
INVARIANTS
  RecordFollows
PROPERTIES
  GateKept
  Answered
