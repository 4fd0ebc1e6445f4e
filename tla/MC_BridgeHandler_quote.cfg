SPECIFICATION Spec
CONSTANTS
  a = a  b = b  c = c  d = d  y = y  x = x  t = t  u = u
  None = None
  Messages = {a, b}
  Event <- QuoteEvents
  StickyKey = p2p
  Sticky = FALSE
  TaskCards = {}
  MaxConcurrent = 2
  Steerable = TRUE
  Cold = TRUE
  ModelFirst = TRUE
  MaxReplays = 0
  MaxCrashes = 0
  MaxFaults = 0
INVARIANT SessionExclusive
CHECK_DEADLOCK FALSE
