SPECIFICATION Spec
CONSTANTS
  Match = {m1}
  Req = {r1, r2}
  Spare = {s1}
  Editable <- MCEditable
  None = None
  MaxClaims = 2
  MaxMoves = 5
  MaxOverlaps = 1
CHECK_DEADLOCK FALSE
SYMMETRY ReqSymmetry
INVARIANTS
  InvoicedWhenVerified
  LogIsPath
  OneOutcomePerMatch
