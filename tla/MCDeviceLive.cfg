SPECIFICATION FairSpec
CONSTANTS
  MAX_TSM_TRANSACTIONS = 2
  MaxInvokeID = 3
  APDU_Timeout = 1
  APDU_Retries = 1
  Elapsed <- One
  Pdus <- MCPdus
  NoPdu = nopdu
  Minute = 1
  Durations <- One
  Seconds <- One
  Apps = {a1, a2}
  Notifiers <- NoOne
  MaxRequests = 1
PROPERTIES
  RequestsResolve
  
