SPECIFICATION Spec
CONSTANTS
  Jobs = {1}
  Workers = {w1, w2}
  Requests = {r1, r2}
  Serves <- SameFleet
  MaxAttempts = 2
  ReapLimit = 1
  Full = 2
  Reported = {"preparing", "uploading"}
  MaxReports = 3
  Nobody = Nobody
SYMMETRY Symmetric
CHECK_DEADLOCK FALSE
INVARIANTS EveryGrantIsCharged LeaseFollowsStatus OutputIsFromLastLease LogIsDense LastEventTellsOutcome
PROPERTIES LoggedOutcomeIsFinal ForwardUnderOneLease KeepsContract
