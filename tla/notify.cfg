SPECIFICATION FairSpec
CONSTANTS
  Channel = {"EMAIL", "PUSH"}
  Token = {t1}
  Templates <- MCTemplates
  Attempts = 2
  MaxEvents = 2
  MaxLogs = 2
  MaxEdits = 1
  MaxFaults = 1
CHECK_DEADLOCK FALSE
INVARIANTS
  SentOnce
  PendingHasWork
PROPERTIES
  QueuedSettles
