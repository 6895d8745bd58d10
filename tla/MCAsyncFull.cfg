SPECIFICATION AsyncSpec
CONSTANTS
  Callers = {a, b}
  Syncers = {b}
  async_running = "async_running"
  Domains = {"async_running"}
  MAX_WORK = 1
  MaxCookie = 2
INVARIANT
  FullWaitsForAll
