SPECIFICATION FairSpec
CONSTANTS
  CPUs = {0, 1}
  Tasks = {t1, t2}
  NULL = NULL
  HotCPUs = {0, 1}
INVARIANTS
  LockStep
PROPERTIES
  OnlineStable
  StopReturns
