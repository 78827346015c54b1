SPECIFICATION Spec
CONSTANTS
  w1 = w1
  w2 = w2
  e1 = e1
  p1 = p1
  p2 = p2
  ip1 = ip1
  None = None
  Workers = {w1, w2}
  Emails = {e1}
  Passkeys = {p1, p2}
  Keys = {ip1}
  Limit = 4
  Window = 2
  MaxTime = 2
  CodeTTL = 1
  ResendCooldown = 1
  MaxAttempts = 2
  MaxUsers = 1
  MaxRows = 2
SYMMETRY MCSymmetry
INVARIANT GuessesBounded
INVARIANT VidStable
INVARIANT CodeServesOnce
INVARIANT EmaillessExplained
INVARIANT WindowBound
INVARIANT CountExact
CHECK_DEADLOCK FALSE
