SPECIFICATION Spec
CONSTANTS
  f1 = f1
  f2 = f2
  i1 = i1
  i2 = i2
  i3 = i3
  i4 = i4
  i5 = i5
  t1 = t1
  Fax = {f1}
  Thread = {t1}
  ThreadOf <- OneThread
  StopFax = {}
  TelnyxId = {i1, i2, i3, i4, i5}
  NoId = NoId
  NoFax = NoFax
  MaxProcessAttempts = 1
  Backoffs = 2
  DailyCap = 9
  Histories <- MixedHistories
  Reordering = TRUE
  MaxFaults = 1
  Days = FALSE
SYMMETRY Ids
INVARIANTS TypeOK IInv RetryInv AttemptsTrail ScheduledHasDate PendingIffUnsent BoundedLetters BoundedAttempts
CHECK_DEADLOCK FALSE
