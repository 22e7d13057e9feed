SPECIFICATION Spec
CONSTANTS
  f1 = f1
  f2 = f2
  f3 = f3
  f4 = f4
  e1 = e1
  e2 = e2
  e3 = e3
  e4 = e4
  Fax = {f1, f2, f3, f4}
  Event = {e1, e2, e3, e4}
  FaxOf <- OneEach
  Ignored = {f4}
  Media <- Mixed
  Handler = {h1, h2}
  NoEvent = NoEvent
  MaxFaults = 1
PROPERTIES NeverUndone
CHECK_DEADLOCK FALSE
