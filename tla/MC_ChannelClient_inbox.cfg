SPECIFICATION FairSpec
CONSTANTS
  m1 = m1  m2 = m2  g = g  d = d
  None = None
  Msgs = {m1, m2}
  Chats = {g, d}
  ChatOf <- Apart
  Groups = {g}
  Local = {m1}
  Allowlists <- ListOrOpen
  Learned <- NoneLearned
  Slots = {"first"}
  MaxTime = 6
  Buffer = 1
  Clamp = 2
  ReplayAge = 2
  ReconnectAge = 4
  SuspendDetect = 1
  Interval = 1
  Bootstrap = 2
  MaxBackoff = 2
  MaxAttempts = 2
  MaxWindows = 1
  GoneStrikes = 2
  Budgets <- Overlaps
CONSTRAINT OutagesListed
INVARIANT OwedIsTracked
PROPERTIES KeepsInbox OutageIsCovered OwedIsRetried
CHECK_DEADLOCK FALSE
