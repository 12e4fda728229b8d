SPECIFICATION ObjSpec
CONSTANTS
  Devices = {d1, d2, d3}
  Own_Device_ID = d3
  Addresses = {a1, a2}
  MAX_ADDRESS_CACHE = 2
  LONG_TIME = 2
  SHORT_TIME = 1
  FOREVER = 3
  TimeOuts <- OneOrForever
  Seconds <- OneTwoSeconds
  NoDevice = nodevice
  NoAddress = noaddress
  Recipients <- People
  Ack_Required <- Both
  TimeDelays <- Delays
  MaxChanges = 3
  MAX_LOAD_CONTROLS = 1
  ShedLevels <- TwoLevels
  Durations <- LCDurations
  OutputLevels <- Levels
  LCStartTimes <- LCStarts
  LCMaxTime = 4
  Wildcard = 99
  TL_MAX_ENTRIES = 3
  Word = 12
  FirstTotal = 4
  Capacity = 2
  Intervals <- OneTwo
  Offsets <- ZeroOne
  Counts <- FewCounts
  MaxTime = 3
  MaxWrites = 2
  Wild = 99
  KLKeys = {0, 1, 2}
  KLData = {11, 12}
  chunk = 2
  MaxNodes = 5
  StartDates <- SomeDates
  Minutes <- SomeMinutes
  MaxAdds = 2
  MAX_TSM_TRANSACTIONS = 1
  MaxInvokeID = 2
  APDU_Timeout = 1
  APDU_Retries = 2
  Elapsed <- ZeroOrOne
  Pdus <- Chunks
  NoPdu = nopdu
  Octets = 2
  Worlds <- SomeWorlds
  FTFaults = 1
INVARIANTS
  
  AddressIsLatest
  NoFalseAck
  ReadsRange
  
  CalendarIsRight
PROPERTIES
  TransferEnds
  EvictsNearestExpiry
  AlarmRaised
  
  ShedEnds
  
