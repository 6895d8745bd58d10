SPECIFICATION FairSpec
CONSTANTS
  Tasks = {t1, t2, t3, t4}
  NULL = NULL
INVARIANTS
  ActivityAccurate
  WaitersLive
  QueueHeadBlocked
  IsLockedSound
PROPERTIES
  NoOvertaking
  RefinesRWLock
  EventuallyGranted
