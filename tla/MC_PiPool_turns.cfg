SPECIFICATION BudgetSpec
CONSTANTS
  A = A  B = B  X = X  Y = Y  None = None
  Threads = {A, B}
  Signatures = {X, Y}
  MaxTurns = 3
  MaxProcesses = 1
  MaxPids = 4
INVARIANTS OneWriter TurnsAreTheirOwn
PROPERTIES KeepsContract
CHECK_DEADLOCK FALSE
