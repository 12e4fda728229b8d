SPECIFICATION NetSpec
CONSTANTS
  MAX_TSM_TRANSACTIONS = 3
  MaxInvokeID = 3
  APDU_Timeout = 2
  APDU_Retries = 1
  Elapsed <- MCElapsed
  Pdus = {p1}
  NoPdu = nopdu
  r1 = r1
  r2 = r2
  r3 = r3
  Routers = {r1, r2, r3}
  Nets = {1, 2, 300, 4}
  BIP_Net <- BIPOf
  MSTP_Net <- MSTPOf
  BROADCAST = 65535
  HopCountSize = 4
  OctetSize = 256
  Hops = {1, 2}
  Asked <- Questions
  Talks <- Pairs
  MaxFrames = 1
  MaxFaults = 1
  All = all
  Device = device
  Nobody = nobody
  port_count = 3
  RemoteNets = {4}
  BroadcastNet = 7
  Packets <- SomePackets
  Busy = {2}
  Failing = {1}
  BoxSize = 1
  MaxPackets = 2
  MaxBlocks = 4
INVARIANTS
  UniqueInvokeIDs
  RoutesLead
  
  CountsReferences
PROPERTIES
  ImplementsPool
  RoutesConverge
  Exits
