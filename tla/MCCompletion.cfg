SPECIFICATION FairSpec
CONSTANTS
  Tasks = {t1, t2}
  NULL = NULL
  Sleeps = {"TASK_UNINTERRUPTIBLE", "TASK_INTERRUPTIBLE"}
  Kinds = {"signal"}
  Width = 6
  MaxPosted = 6
INVARIANTS
  EventsConserved
  NoneStranded
PROPERTIES
  TimedWaitEnds
  EventDelivered
