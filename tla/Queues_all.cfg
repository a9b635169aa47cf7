\* Every kind of queue at a small or at its real depth, and the UART.
CONSTANTS
  a = a
  b = b
  Items <- TwoItems
  DP = 4
  ODD = 3
  Words <- FourWords
  CUT_READY = FALSE
  DEPTH = 2
  DIVS = {14}
  BYTES <- TwoBytes
  MESSAGE = 3
SPECIFICATION BenchSpec
INVARIANTS Coupled OutputsAgree ArrivesWhole Accounted
PROPERTIES Queues OtherQueues Arrives
