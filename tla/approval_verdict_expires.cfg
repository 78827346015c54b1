SPECIFICATION Spec
CONSTANTS
  a1 = a1
  h1 = h1
  h2 = h2
  None = None
  Approvals = {a1}
  Kinds = {"transfer"}
  Handlers = {h1, h2}
  MaxFaults = 0
PROPERTY VerdictNeverExpires
