SPECIFICATION RunnerSpec
CONSTANTS
  Jobs = {1}
  Workers = {w1, w2}
  Requests = {}
  Serves <- SameFleet
  MaxAttempts = 2
  ReapLimit = 1
  Full = 1
  Reported = {"preparing", "generating"}
  MaxReports = 1
  Nobody = Nobody
  Stages <- TwoStages
  Tries = 1
  MaxWire = 2
CHECK_DEADLOCK FALSE
INVARIANT CompletedKeepsItsObject
