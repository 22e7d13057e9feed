SPECIFICATION FairSpec
CONSTANTS
  f1 = f1
  f2 = f2
  i1 = i1
  i2 = i2
  i3 = i3
  i4 = i4
  i5 = i5
  t1 = t1
  Fax = {f1}
  Thread = {t1}
  ThreadOf <- OneThread
  StopFax = {}
  TelnyxId = {i1, i2, i3, i4}
  NoId = NoId
  NoFax = NoFax
  MaxProcessAttempts = 2
  Backoffs = 1
  DailyCap = 1
  Histories <- InOrder
  Reordering = FALSE
  MaxFaults = 1
  Days = TRUE
INVARIANTS CapHolds
PROPERTIES FirstSendOnce ImplementsContract DeliveredIsFinal EventuallyClosed EventuallySettled
CHECK_DEADLOCK FALSE
