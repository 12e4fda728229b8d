SPECIFICATION FramesSpec
CONSTANTS
  Stations <- TwoStations
  Nmax_master = 2
  Traffic <- AllTraffic
  MaxFaults = 2
  Faults <- GarbleOnly
  Npoll = 3
  Nmax_info_frames = 2
  Nretry_token = 1
  Tusage_timeout = 1
  Treply_delay = 1
  Treply_timeout = 3
  Tno_token = 4
  Tslot = 1
  Broadcast = 255
  NoFrame = noframe
  Invalid = invalid
  Frames <- SomeFrames
  This_Station = 1
  BroadcastAddress = 255
  InputBufferSize = 2
  Noise <- SomeNoise
  MaxDamage = 1
  None = none
INVARIANTS
  OneToken
  ValidFrameWasSent
  
