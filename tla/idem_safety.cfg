SPECIFICATION Spec
CONSTANTS
  r1 = r1
  r2 = r2
  r3 = r3
  r4 = r4
  k1 = k1
  None = None
  Requests = {r1, r2, r3, r4}
  Keys = {k1}
  KeyOf <- MCKeyOf
  TTL = 2
  MaxNow = 6
  MaxFaults = 1
  MaxCrashes = 1
SYMMETRY RetrySymmetry
INVARIANT RetryReplays
INVARIANT StoredApart
INVARIANT ReplaysReal
