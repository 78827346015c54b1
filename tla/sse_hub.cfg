SPECIFICATION FairSpec
CONSTANTS
  u1 = u1
  u2 = u2
  c1 = c1
  c2 = c2
  c3 = c3
  b1 = b1
  b2 = b2
  b3 = b3
  Users = {u1, u2}
  Conns = {c1, c2, c3}
  Posts = {b1, b2, b3}
  UserOf <- MCUserOf
  PerUser = 2
  Global = 3
  Buffer <- MCBuffer
INVARIANT PanicFree
INVARIANT SlotsHeldByHandlers
INVARIANT Accounted
PROPERTY GoneIsReleased
PROPERTY BufferDrains
PROPERTY ImplementsMailboxes
CHECK_DEADLOCK FALSE
