SPECIFICATION BudgetSpec
CONSTANTS
  A = A  B = B  None = None
  Threads = {A, B}
  MaxTurns = 3
  MaxPids = 2
  FailureLimit = 2
INVARIANTS OneWriter OutputIsOwn RejectedStayedOut
PROPERTIES KeepsContract GateOpens
CHECK_DEADLOCK FALSE
