SPECIFICATION Spec
CONSTANTS
  CPUs = {0, 1}
  Tasks = {t1, t2}
  NULL = NULL
  HotCPUs = {1}
INVARIANTS
  UpPrepareFresh
