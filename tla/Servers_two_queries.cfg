CONSTANTS
  Servers = {1, 2, 3}
  Analyst = 0
  Studies <- MCStudies
  Deliveries <- Twice
  MaxFaults = 0
SPECIFICATION ServersSpec
INVARIANT QueriesKeptApart

CHECK_DEADLOCK FALSE
