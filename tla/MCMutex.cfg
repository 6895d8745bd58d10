SPECIFICATION FairSpec
CONSTANTS
  Tasks = {t1, t2, t3}
  NULL = NULL
  Modes = {"TASK_UNINTERRUPTIBLE", "TASK_INTERRUPTIBLE"}
  Kinds = {"signal"}
INVARIANTS
  MutualExclusion
  OwnerIsHolder
  NoLostWakeup
  CountBounded
PROPERTIES
  LockProgress
