SPECIFICATION Spec
CONSTANTS
  Items = {a, b}
  MaxItemsPerPage = 2
  MaxLen = 7
  MaxTime = 2
  PagesPerSecond = 2
  SlowRestart = TRUE
  ExplicitShutdown = TRUE
INVARIANT DataPersisted
