SPECIFICATION MCSpec
CONSTANTS
  a = a
  b = b
  c = c
  d = d
  e = e
  Items <- MCItems
  Order <- MCOrder
  MaxItemsPerPage = 2
  MaxLen = 5
  MaxTime = 3
  PagesPerSecond = 2
  SlowRestart = TRUE
  ExplicitShutdown = FALSE
  Faults = {"torn page", "torn state", "write", "load"}
  RoughItems = {a}
  RoughPageSize = 1
  RoughMaxLen = 4
  SharedItems = {a, b}
  SharedMaxLen = 4
INVARIANTS NeverTwice QueueOnPagesAfterFaults ShutdownPersists
PROPERTIES CrashKeepsFiledPages StateFileExpendable
