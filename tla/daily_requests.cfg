SPECIFICATION Spec
CONSTANTS
  t1 = t1
  a1 = a1
  c1 = c1
  None = None
  Transfers = {t1}
  Approves = {a1}
  Calls = {c1}
  Tokens = {t1, a1}
  ApiKeys = {t1}
  Amount <- MCAmount
  Editors = {}
  Settings <- MCSettings
  MaxDay = 2
  MaxRows = 1
  MaxFaults = 2
INVARIANT SpendCovered
INVARIANT SpendExact
INVARIANT SentIsCharged
PROPERTY CapRespected
CHECK_DEADLOCK FALSE
