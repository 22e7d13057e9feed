SPECIFICATION Spec
CONSTANTS
  Process <- TaskProcesses
  NoProcess = NoProcess
  Sample = {"wind-chimes", "harold"}
  NoSample = NoSample
  MaxFaults = 2
INVARIANTS TypeOK UpToDate NoClash SamplesShown IInv
PROPERTIES WithdrawnSampleStays EventuallyUp
CHECK_DEADLOCK FALSE
