\* The software, one unit at a time.
CONSTANTS
  Ports <- ThePorts
  Commands <- TheCommands
  Moments = {0, 999700, 42000000}
  MULTITHREAD = 2
  Segments = {"zero", "old"}
  LfsrBits = 6
  Entropy = {0, 62}
  Touched = {1, 62}
  Accesses = 3
  Values = {0, 1}
  Outcomes = {1, 6}
  Traps = 3
  Bits = 16
  Depth = 2
  WordSize = 2
  TextLen = 5
SPECIFICATION BenchSpec
INVARIANTS KnownAnswers Restored TokensRight Collected TimedRight Printed UserSees StringsRight Undisturbed
PROPERTIES VerdictReached AccessEnds
