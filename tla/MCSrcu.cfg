SPECIFICATION SrcuFairSpec
CONSTANTS
  CPUs = {p1, p2}
  Readers = {r1, r2}
  Updaters = {u1, u2}
  NULL = NULL
  Width = 4
  MaxFlips = 2
INVARIANTS
  GracePeriod
  OldRankDrains
PROPERTIES
  SyncCompletes
