CONSTANTS
  Servers = {1, 2, 3}
  Analyst = 0
  Studies <- MCStudies
  Deliveries <- Once
  MaxFaults = 1
SPECIFICATION ServersSpec
INVARIANTS StartsWithEveryone MessagesInOrder NobodyCutShort NobodyLeftWaiting

CHECK_DEADLOCK FALSE
