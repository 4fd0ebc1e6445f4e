SPECIFICATION Spec
CONSTANTS
  None = None
  Sticky = FALSE
  TurnLimit = 2
  StickyIdle = 2
  StuckAfter = 2
  IdleCleanup = 3
  MaxSpan = 1
  MaxTime = 3
  MaxTurns = 4
  Budgets <- TroubledOrLong
  MaxGhosts = 1
PROPERTIES SpentNotResumed ConversationKept GcSparesTurns
CHECK_DEADLOCK FALSE
