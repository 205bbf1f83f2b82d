SPECIFICATION FairSpec
CONSTANTS
  Items = {a, b}
  MaxItemsPerPage = 2
  MaxLen = 7
  MaxTime = 2
  PagesPerSecond = 2
  SlowRestart = TRUE
  ExplicitShutdown = FALSE
INVARIANTS TypeOK QueueOnPages DataPersisted SizeIsLength PagingInv
PROPERTIES NeverOverwritesPage ImplementsFifo CallsReturn
