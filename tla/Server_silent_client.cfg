CONSTANTS
  PoolSize = 3
  Clients = {c1}
  SilentClients = TRUE
  MaxHups = 0
SPECIFICATION FairSpec
PROPERTY StopEndsRun
CHECK_DEADLOCK FALSE
