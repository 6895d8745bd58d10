SPECIFICATION IrqFairSpec
CONSTANTS
  CPUs = {c1, c2}
  Works = {w1, w2}
  Contexts = {x1, x2}
  NULL = NULL
INVARIANTS
  ListsIntact
  BusyWhileRunning
PROPERTIES
  ClaimedRuns
