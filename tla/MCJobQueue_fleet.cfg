SPECIFICATION FairSpec
CONSTANTS
  Jobs = {1, 2}
  Workers = {w1, w2}
  Requests = {r1}
  Serves <- MixedFleet
  MaxAttempts = 2
  ReapLimit = 1
  Full = 1
  Reported = {"generating"}
  MaxReports = 2
  Nobody = Nobody
CHECK_DEADLOCK FALSE
PROPERTIES EveryJobSettles
