CONSTANTS
  PoolSize = 3
  Clients = {c1}
  SilentClients = FALSE
  MaxHups = 2
SPECIFICATION FairSpec
PROPERTY EveryHupReopens
CHECK_DEADLOCK FALSE
