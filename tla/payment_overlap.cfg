SPECIFICATION Spec
CONSTANTS
  Req = {r1}
  Base = 2
  Fee = 1
  Workers = 2
  Attempts = 3
  Serial = FALSE
  OtherEvents = FALSE
  Faults = {}
  MaxFees = 0
  MaxDrift = 0
  MaxTransactions = 2
  MaxJobs = 3
  MaxInterrupts = 2
CHECK_DEADLOCK FALSE
INVARIANTS
  NeverOvercounted
PROPERTIES
  SuccessCounts
