\* All waveforms of both DTMs, a slow DM, resets at any time.
CONSTANTS
  None = None
  Req = {r1, r2}
  SLOW_DM = TRUE
SPECIFICATION FairSpec
PROPERTIES RequestHeld Serializes EveryTransactionEnds
