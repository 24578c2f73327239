SPECIFICATION IntakeSpec
CONSTANTS
  Req = {r1, r2}
  Faults = {"die", "vision", "structure"}
  MaxExtractions = 2
  MaxDisturbed = 1
CHECK_DEADLOCK FALSE
INVARIANTS
  VerifiedWasExtracted
  SelfServiceOnce
  OneExtractionAtATime
PROPERTIES
  StampedIsSettled
