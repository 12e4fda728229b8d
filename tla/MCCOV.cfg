SPECIFICATION Spec
CONSTANTS
  MAX_TSM_TRANSACTIONS = 2
  MaxInvokeID = 2
  APDU_Timeout = 1
  APDU_Retries = 0
  Elapsed <- One
  Pdus = {v1}
  NoPdu = nopdu
  Minute = 1
  Durations <- NoOne
  Seconds <- One
  MAX_COV_SUBCRIPTIONS = 2
  MAX_COV_ADDRESSES = 1
  Requests <- ThreeObjects
  Lifetimes <- ZeroOrOne
  Values = {v1}
  NoAddress = noaddress
  None = none
  MaxChanges = 0
  c1 = c1
  c2 = c2
  o1 = o1
  o2 = o2
  o3 = o3
INVARIANTS
  TransactionsOwned
  AddressesReferenced
  
