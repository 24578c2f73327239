SPECIFICATION Spec
CONSTANTS
  Req = {r1}
  Base = 2
  Fee = 1
  Workers = 1
  Attempts = 3
  Serial = TRUE
  OtherEvents = TRUE
  Faults = {"crash", "lostAnswer", "lostUpdate"}
  MaxFees = 1
  MaxDrift = 1
  MaxTransactions = 2
  MaxJobs = 2
  MaxInterrupts = 1
CHECK_DEADLOCK FALSE
INVARIANTS
  CompletedWasReceived
  PaidIsReceived
  BalanceMirrors
