SPECIFICATION Spec
CONSTANTS
  r1 = r1
  r2 = r2
  s1 = s1
  None = None
  Requests = {r1, r2}
  Sessions = {s1}
  KeyRows = 2
  WalletRows = 2
  MaxWallets = 1
  MaxKeys = 1
  MaxFaults = 1
  MaxCrashes = 1
INVARIANT LimitsHold
INVARIANT ReadyHasKey
INVARIANT NoGhostKeys
INVARIANT CSRFSound
SYMMETRY MCSymmetry
CHECK_DEADLOCK FALSE
