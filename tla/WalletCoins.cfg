SPECIFICATION MCSpec
CONSTANTS
  Delegates = {d1}
  None = None
  MaxSessions = 2
  k1 = k1
  k2 = k2
  Coins = {k1, k2}
  Subdust = {k2}
  Alarm = alarm
  Calls = {c1}
  MaxGen = 1
CHECK_DEADLOCK FALSE
PROPERTIES
  ChoiceStands
  Tended
