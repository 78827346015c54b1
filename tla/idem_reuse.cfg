SPECIFICATION Spec
CONSTANTS
  r1 = r1
  r2 = r2
  r3 = r3
  r4 = r4
  k1 = k1
  None = None
  Requests = {r1, r2, r3}
  Keys = {k1}
  KeyOf <- MCKeyOf
  TTL = 2
  MaxNow = 4
  MaxFaults = 0
  MaxCrashes = 0
INVARIANT ProcessedNotRepeated
