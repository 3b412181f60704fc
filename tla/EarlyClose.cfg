SPECIFICATION GateSpec
CONSTANTS
  Requests = {r1, r2}
  None = None
INVARIANTS
  ClosedIsAnswered
