\* The simulation with a timeout, a program that may end it, and a client.
CONSTANTS
  Bytes = {b}
  TDI_FREE = FALSE
  MaxBytes = 1
  MaxCommands = 3
  Timeout = 1
SPECIFICATION FairSpec
INVARIANTS ModelGuarded MessageWhole AnswersMatch
PROPERTIES EndsAlone QuitEnds
