CONSTANTS
  me = me
  you = you
  Clients <- MCClients
  Pairings <- MCPairings
  MaxSockets = 3
  MaxFaults = 1
SPECIFICATION Spec
INVARIANTS FallbackIsPlain
CHECK_DEADLOCK FALSE
