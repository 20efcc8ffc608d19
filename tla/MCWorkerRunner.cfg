SPECIFICATION FairRunnerSpec
CONSTANTS
  Jobs = {1}
  Workers = {w1}
  Requests = {r1}
  Serves <- SameFleet
  MaxAttempts = 1
  ReapLimit = 1
  Full = 1
  Reported = {"preparing", "generating"}
  MaxReports = 3
  Nobody = Nobody
  Stages <- TwoStages
  Tries = 2
  MaxWire = 2
CHECK_DEADLOCK FALSE
INVARIANTS RefusedReportMeansLost CompletedHasObject
PROPERTY LostLeaseStopsWork
