\* The clock divisor of the QSPI controller.
CONSTANTS
  DEPTH = 2
  SIZE = 3
  FORMATS = {3, 107}
  JOBS = 3
  SETTLES = TRUE
SPECIFICATION BenchSpec
INVARIANT SckDivided
