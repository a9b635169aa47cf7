\* The QSPI controller with a flash on its pins.
CONSTANTS
  DEPTH = 2
  SIZE = 3
  FORMATS = {3, 107}
  JOBS = 3
  SETTLES = TRUE
SPECIFICATION BenchSpec
INVARIANTS FlashRead Received
PROPERTIES Heard Served
