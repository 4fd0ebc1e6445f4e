SPECIFICATION FairSpec
CONSTANTS
  t1 = t1  t2 = t2  A = A  B = B  s1 = s1  s2 = s2  d1 = d1
  None = None
  Threads = {A}
  Sigs = {s1}
  Cwds = {d1}
  CwdOf <- OneCwd
  Turns = {t1, t2}
  Pids = {1, 2, 3}
  MaxProcesses = 1
  MaxPrewarmFailures = 2
  SerialThreads = FALSE
  PidListFile = TRUE
  PrewarmSigs = {}
  Background = {}
  MayShutDown = TRUE
INVARIANTS WireExclusive PidListExact
PROPERTIES KeepsContract NothingHangs
CONSTRAINT NewOrFresh
CHECK_DEADLOCK FALSE
