SPECIFICATION Spec
CONSTANTS
  a = a
  b = b
  Mac <- MCMac
  Clients <- MCClients
  Phases <- MCPhases
  Addr <- MCAddr
  StartIp = 2
  EndIp = 3
  LeaseTime = 4
  MaxStation = 3
  RequestTries = 1
  RebindTries = 1
  RebootTries = 2
  TriesMod = 4
  MaxTries = {0, 3}
  MaxNet = 2
  MaxLeaves = 1
INVARIANTS TypeOK PoolUnique LeaseBacked NeverStuck
PROPERTIES UpOnlyWithLease
