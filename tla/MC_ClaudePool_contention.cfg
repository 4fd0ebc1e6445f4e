SPECIFICATION Spec
CONSTANTS
  t1 = t1  t2 = t2  A = A  B = B  s1 = s1  s2 = s2  d1 = d1
  None = None
  Threads = {A, B}
  Sigs = {s1, s2}
  Cwds = {d1}
  CwdOf <- OneCwd
  Turns = {t1, t2}
  Pids = {1, 2, 3}
  MaxProcesses = 1
  MaxPrewarmFailures = 2
  SerialThreads = TRUE
  PidListFile = FALSE
  PrewarmSigs = {s1}
  Background = {"task", "wake"}
  MayShutDown = FALSE
SYMMETRY Symmetry
INVARIANT OneWriter
PROPERTY EvictionSparesWork
CONSTRAINT OneConcern
CHECK_DEADLOCK FALSE
