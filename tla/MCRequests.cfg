CONSTANTS
  MaxAttempts = 3
  IPs = {i1, i2}
  AllowedIps = {i1}
  Clients = {k1, k2}
  AllowedClients = {k1}
  AppCommands = {"echo"}
  RegistersErrorCleaner = TRUE
  Processes = {p1, p2, p3}
  MaxFailures = 3
  Peer1 = peer1
  Peer2 = peer2
  Peers = {peer1, peer2}
  o_port <- MCPort
  MaxMessages <- MCMessages
SPECIFICATION MCSpec
INVARIANTS TwiceOnlyAfterTimeout FailuresExplained SuccessIsWhole ServesWithLock StaleOnlyAfterFailure StatisticsFit
PROPERTIES AnswerInTimeKept Ends OnlyAllowedHandled ProcessEnds
CHECK_DEADLOCK FALSE
