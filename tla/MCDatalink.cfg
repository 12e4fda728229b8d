SPECIFICATION LinkSpec
CONSTANTS
  Stations <- TwoStations
  Nmax_master = 2
  Traffic <- NoTraffic
  MaxFaults = 2
  Faults <- AllFaults
  Npoll = 3
  Nmax_info_frames = 1
  Nretry_token = 1
  Tusage_timeout = 1
  Treply_delay = 1
  Treply_timeout = 3
  Tno_token = 4
  Tslot = 1
  Broadcast = 255
  NoFrame = noframe
  Invalid = invalid
  Ports <- BothPorts
  Word = 8
  Count = 4
  Earlier <- Before
  MaxPuts <- Puts
  MaxFrames = 2
  Torn = torn
  bbmd1 = bbmd1
  bbmd2 = bbmd2
  bbmd3 = bbmd3
  dev1 = dev1
  dev2 = dev2
  fd1 = fd1
  fd2 = fd2
  BBMDs = {bbmd1, bbmd2, bbmd3}
  Devices = {dev1, dev2}
  Foreign = {fd1, fd2}
  Subnet <- SubnetOf
  Slots <- SlotsOf
  TTL <- TTLOf
  Grace = 4
  TTLMax = 12
  MaxLate = 2
  Scenarios <- Worlds
INVARIANTS
  NoTornRead
  
  LeaseHolds
PROPERTIES
  TokenReturns
  ImplementsQueue
  AcceptedIsSent
  EveryoneHears
  GetsSlot
