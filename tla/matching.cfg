SPECIFICATION MatchingSpec
CONSTANTS
  lostA = lostA
  lostB = lostB
  foundA = foundA
  ownerA = ownerA
  ownerB = ownerB
  staffA = staffA
  Lost = {lostA, lostB}
  Found = {foundA}
  Text = {"text"}
  Reporter = {ownerA, ownerB, staffA}
  Owner <- MCOwner
  Staff = {staffA}
  Empty = ""
  MatchAttempts = 2
  MaxChanges = 1
CHECK_DEADLOCK FALSE
INVARIANTS
  NoMissedMatch
  MatchIsTold
PROPERTIES
  RejectionStands
  AlikeAreMatched
