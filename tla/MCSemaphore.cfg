SPECIFICATION FairSpec
CONSTANTS
  Tasks = {t1, t2}
  NULL = NULL
  Units = 0
  MaxExtra = 2
INVARIANTS
  UnitsConserved
  QueueExact
PROPERTIES
  GrantKept
  WaitAborts
  DownReturns
