SPECIFICATION MCSpec
CONSTANTS
  None = None
  top = top
  below = below
  beside = beside
  Key = {k1}
  Slots = {"a", "b", "part"}
  Complete = {"a", "b"}
  Meta = {"m"}
  Seed <- MCSeed
  Req = {r1, r2}
  MaxVersion = 3
  MaxIds = 2
  SystemKey = {top, below, beside}
  Value = {"v", "w"}
  Prefix = {top, below}
  Channel = {"EMAIL"}
  OnByDefault = {"EMAIL"}
  Dotted = {"d"}
  Plain = {"p"}
  Reader = {g1}
  Remover = {d1}
  Case = {c1}
  Claim = {q1}
  FileKey = {f1, f2}
  MaxMoves = 2
  Address = {a1, a2}
  Saver = {b1, b2}
CHECK_DEADLOCK FALSE
INVARIANTS
  OptOutHonoured
