SPECIFICATION Spec
CONSTANTS
  f1 = f1
  f2 = f2
  i1 = i1
  i2 = i2
  i3 = i3
  i4 = i4
  i5 = i5
  t1 = t1
  Fax = {f1, f2}
  Thread = {t1}
  ThreadOf <- OneThread
  StopFax = {f2}
  TelnyxId = {i1, i2, i3, i4}
  NoId = NoId
  NoFax = NoFax
  MaxProcessAttempts = 2
  Backoffs = 1
  DailyCap = 9
  Histories <- Verdicts
  Reordering = TRUE
  MaxFaults = 0
  Days = FALSE
SYMMETRY Ids
PROPERTIES OptOutDurable
CHECK_DEADLOCK FALSE
