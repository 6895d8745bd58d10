SPECIFICATION IrqSpec
CONSTANTS
  CPUs = {c1, c2}
  Works = {w1}
  Contexts = {x1, x2}
  NULL = NULL
INVARIANT
  SyncSound
