SPECIFICATION BSpec
CONSTANTS
  bbmd1 = bbmd1
  bbmd2 = bbmd2
  bbmd3 = bbmd3
  dev1 = dev1
  dev2 = dev2
  fd1 = fd1
  fd2 = fd2
  BBMDs = {bbmd1, bbmd2, bbmd3}
  Devices = {dev1, dev2}
  Foreign = {fd1, fd2}
  Subnet <- SubnetOf
  Slots <- SlotsOf
  TTL <- TTLOf
  Grace = 4
  TTLMax = 12
  MaxLate = 2
  Scenarios <- Worlds
INVARIANTS
  ForeignGetsNPDU
