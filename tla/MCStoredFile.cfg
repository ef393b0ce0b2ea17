SPECIFICATION Spec
CONSTANTS
  Settings <- MCSettings
  ArenaSpans = 2
  LowCPU = 2
  Faults = {"copy", "fail", "eof", "close"}
  MaxFaults = 1
  MaxSizes = {2, 3}
  FileSizes = {0, 3, 4, 5}
INVARIANT ReadBack
PROPERTY ReadEnds
CHECK_DEADLOCK FALSE
