SPECIFICATION FairSpec
CONSTANTS
  f1 = f1
  f2 = f2
  f3 = f3
  t1 = t1
  t2 = t2
  Fax = {f1, f2}
  Thread = {t1}
  NoFax = NoFax
  ThreadOf <- TwoThreads
  RemoveFax = {f2}
  GalleryFax = {f1}
  Verdicts = {"reply", "denied", "capped"}
  MaxFaults = 1
INVARIANTS TypeOK ReplyKept RemovalDone IInv
PROPERTIES ItemOnce OldPurged
CHECK_DEADLOCK FALSE
