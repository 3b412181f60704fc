SPECIFICATION SettingsSpec
CONSTANTS
  Delegates = {d1, d2}
  None = None
  MaxSessions = 2
  MaxChanges = 2
CHECK_DEADLOCK FALSE
INVARIANTS
  ApprovedByUser
PROPERTIES
  NoSilentOverwrite
  SessionsAsPromised
  MismatchEnds
