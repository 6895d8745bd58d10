SPECIFICATION AsyncFairSpec
CONSTANTS
  Callers = {a, b}
  Syncers = {b}
  async_running = "async_running"
  Domains = {"async_running", "domain"}
  MAX_WORK = 0
  MaxCookie = 3
INVARIANTS
  ListsExact
  EntryCountBound
  SyncInOrder
  SyncQuiescent
PROPERTIES
  SyncReturns
