SPECIFICATION FairPatrol
CONSTANTS
  Nothing = Nothing
  g1 = g1  g2 = g2
  Guids = {g1, g2}
  Root = g1
  Normal = 3
  Fast = 2
  Handoff = 1
  Grace = 2
  StartupQuiet = 1
  Cooldown = 2
  DueFloor = 4
  PendTimeout = 1
  EscalateAfter = 2
  MaxTime = 8
  Allowances <- Watches
PROPERTIES EscalatesAfterAnswered DueSpaced StalledIsNoticed
CHECK_DEADLOCK FALSE
