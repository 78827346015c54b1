SPECIFICATION Spec
CONSTANTS
  t1 = t1
  a1 = a1
  c1 = c1
  None = None
  e1 = e1
  Transfers = {t1}
  Approves = {a1}
  Calls = {}
  Tokens = {t1, a1}
  ApiKeys = {t1}
  Amount <- MCAmount
  Editors = {e1}
  Settings <- MCSettings
  MaxDay = 2
  MaxRows = 2
  MaxFaults = 1
INVARIANT IndInv
INVARIANT SpendExact
PROPERTY CapRespected
CHECK_DEADLOCK FALSE
