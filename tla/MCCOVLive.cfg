SPECIFICATION FairSpec
CONSTANTS
  MAX_TSM_TRANSACTIONS = 1
  MaxInvokeID = 3
  APDU_Timeout = 1
  APDU_Retries = 1
  Elapsed <- One
  Pdus = {v1, v2}
  NoPdu = nopdu
  Minute = 1
  Durations <- ZeroOrOne
  Seconds <- One
  MAX_COV_SUBCRIPTIONS = 1
  MAX_COV_ADDRESSES = 1
  Requests <- OneSubscriberEach
  Lifetimes <- ZeroOrOne
  Values = {v1, v2}
  NoAddress = noaddress
  None = none
  MaxChanges = 1
  c1 = c1
  c2 = c2
  o1 = o1
  o2 = o2
  o3 = o3
INVARIANT
  NoLostChange

  
