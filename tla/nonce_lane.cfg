SPECIFICATION FairSpec
CONSTANTS
  t1 = t1
  c1 = c1
  p1 = p1
  p2 = p2
  None = None
  Transfers = {t1}
  Calls = {c1}
  Approvers = {p1, p2}
  Tips = {0, 4}
  Bases = {1}
  MinPriority = 1
  PriorityCap = 8
  MaxAttempts = 3
  NodeMinTip = 2
  MaxNonce = 3
  MaxEvictions = 1
 
INVARIANT NonceFresh
PROPERTY NeverReplacesSibling
PROPERTY EveryRequestReturns
CHECK_DEADLOCK FALSE
