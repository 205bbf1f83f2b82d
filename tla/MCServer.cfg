CONSTANTS
  PoolSize = 3
  Clients = {c1, c2}
  SilentClients = FALSE
  MaxHups = 1
  IPs <- MCIPs
  Apps <- MCApps
  Instances <- MCInstances
  FilePairs <- MCFilePairs
SPECIFICATION MCSpec
INVARIANTS AppsAsListed NeverOpenUnasked
PROPERTIES StopEndsRun EveryClientAnswered EveryHupReopens
CHECK_DEADLOCK FALSE
