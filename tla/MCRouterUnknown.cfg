SPECIFICATION NRSpec
CONSTANTS
  r1 = r1
  r2 = r2
  r3 = r3
  Routers = {r1, r2, r3}
  Nets = {1, 2, 300, 4}
  BIP_Net <- BIPOf
  MSTP_Net <- MSTPOf
  BROADCAST = 65535
  HopCountSize = 4
  OctetSize = 256
  Hops = {1, 2}
  Asked <- Questions
  Talks <- Pairs
  MaxFrames = 1
  MaxFaults = 1
  All = all
  Device = device
  Nobody = nobody
PROPERTY UnknownRouteIsSought
