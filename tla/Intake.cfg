SPECIFICATION FairSpec
CONSTANTS
  f1 = f1
  f2 = f2
  f3 = f3
  f4 = f4
  e1 = e1
  e2 = e2
  e3 = e3
  e4 = e4
  Fax = {f1, f2}
  Event = {e1, e2, e3}
  FaxOf <- TwoForFirst
  Ignored = {}
  Media <- AllPdf
  Handler = {h1}
  NoEvent = NoEvent
  MaxFaults = 2
INVARIANTS TypeOK PagesAcknowledged PathHasFile IInv
PROPERTIES EventuallyFiled
CHECK_DEADLOCK FALSE
