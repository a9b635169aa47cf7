\* A client is connected when the simulation ends.
CONSTANTS
  Bytes = {b}
  TDI_FREE = FALSE
  MaxBytes = 0
  MaxCommands = 1
  Timeout = 1
SPECIFICATION FairSpec
PROPERTY ServerCloses
