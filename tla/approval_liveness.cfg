SPECIFICATION FairSpec
CONSTANTS
  a1 = a1
  h1 = h1
  h2 = h2
  None = None
  Approvals = {a1}
  Kinds = {"transfer", "contract_add"}
  Handlers = {h1, h2}
  MaxFaults = 1
INVARIANT IndInv
PROPERTY DuePendingResolved
PROPERTY EveryRequestReturns
