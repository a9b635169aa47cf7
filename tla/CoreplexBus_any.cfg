\* The core behind the buses, and the fabric behind a pipelining master.
CONSTANTS
  reg = reg
  tied = tied
  slow = slow
  RegSlaves <- OneReg
  TiedSlaves <- OneTied
  LateSlaves <- OneSlow
  Tags = {"x", "y"}
SPECIFICATION BenchSpec
INVARIANTS AnswersMatch AllAccounted
PROPERTIES TcmCurrent Served
