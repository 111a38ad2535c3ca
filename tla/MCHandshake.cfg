CONSTANTS
  me = me
  you = you
  Clients <- MCClients
  Pairings <- MCPairings
  MaxSockets = 3
  MaxFaults = 1
SPECIFICATION FairSpec
INVARIANTS TypeOK RequiredIsEncrypted OnePeer UnreachableForAReason
PROPERTIES Retried
CHECK_DEADLOCK FALSE
