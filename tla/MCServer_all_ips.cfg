CONSTANTS
  PoolSize = 1
  Clients = {c1}
  SilentClients = FALSE
  MaxHups = 1
  IPs <- MCIPs
  Apps <- MCApps
  Instances <- MCInstances
  FilePairs <- AllIpPairs
SPECIFICATION MCSpec
INVARIANT AllIpsPrevails
CHECK_DEADLOCK FALSE
