SPECIFICATION Spec
CONSTANTS
  a = a
  b = b
  Fax = {1, 2, 3}
  Caller = {a, b}
  NoCaller = NoCaller
  Thread = {1, 2, 3}
  NoFax = NoFax
  NoThread = NoThread
  PerAniDailyCap = 1
  WindowDays = 1
  MaxProcessAttempts = 2
  MaxDay = 1
  MaxFaults = 2
INVARIANTS TypeOK IInv CallerBound SilenceAfterStop CapPerCaller WithinAllotment
PROPERTIES OneConversation
CHECK_DEADLOCK FALSE
SYMMETRY Callers
