SPECIFICATION CastSpec
CONSTANTS
  a = a  b = b  c = c  d = d  y = y  x = x  t = t  u = u
  None = None
  Messages = {a, b, c, d, y, x}
  Event <- ChatEvents
  StickyKey = p2p
  Sticky = TRUE
  TaskCards = {t}
  MaxConcurrent = 2
  Steerable = TRUE
  Cold = TRUE
  ModelFirst = TRUE
  MaxReplays = 1
  MaxCrashes = 1
  MaxFaults = 1
INVARIANTS NoneStranded SlotsAccounted SessionExclusive
PROPERTIES InputOnce StopHolds EventuallySettled
CHECK_DEADLOCK FALSE
