SPECIFICATION FairSpec
CONSTANTS
  CPUs = {c1, c2}
  Tasklets = {t1}
  Contexts = {x1, x2}
  NULL = NULL
  HotCPUs = {c2}
  MaxDown = 1
INVARIANTS
  OnePlace
  Serialized
  ListServed
PROPERTIES
  ScheduledRuns
  KillReturns
