SPECIFICATION SSpec
CONSTANTS
  Req = {r1, r2}
  Amount = {1, 2}
  Faults = {"crash", "lostAnswer", "lostUpdate"}
  MaxEntries = 4
  MaxWithdrawals = 2
  MaxReports = 2
CHECK_DEADLOCK FALSE
SYMMETRY ReqSymmetry
INVARIANTS
  PayoutsSettle
  SerialLedger
PROPERTIES
  EveryChangeLedgered
  IsAccount
