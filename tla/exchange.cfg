SPECIFICATION MCSpec
CONSTANTS
  None = None
  Station = {s1}
  Claim = {c1, c2}
  Req = {r1}
  Method = {"STATION_DROPOFF", "OWNER_PICKUP", "COURIER_DELIVERY"}
  Operation = {"TRANSFER_IN", "TRANSFER_OUT", "HANDOVER", "DISPOSAL"}
  Couriers = {"COURIER_DELIVERY"}
  MaxCodeAttempts = 1
  MaxCourierAttempts = 2
  MaxExchanges = 3
  MaxCodes = 3
  MaxFees = 2
CHECK_DEADLOCK FALSE
SYMMETRY ClaimSymmetry
INVARIANTS
  MovesByCode
  LogTracksStatus
  CodesAreSound
  RewardPerHandover
  TimelineTellsTruth
PROPERTIES
  FollowsJourney
