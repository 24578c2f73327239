SPECIFICATION MCSpec
CONSTANTS
  None = None
  d1 = d1
  d2 = d2
  Doc = {d1, d2}
  Station = {s1}
  Req = {r1, r2}
  Type = {"RECEIPT", "TRANSFER_IN", "DISPOSAL"}
  Requires <- LiftedRequires
  HighPrivilege = {"DISPOSAL"}
  MaxOps = 1
  MaxLog = 3
CHECK_DEADLOCK FALSE
SYMMETRY ReqSymmetry
INVARIANTS
  ApprovedBeforeExecution
  ReceivedWereCollected
  SerialCompletedIsDone
PROPERTIES
  CustodyMovesRecorded
  SerialContentStands
