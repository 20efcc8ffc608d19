SPECIFICATION StreamSpec
CONSTANTS
  Jobs = {1}
  Workers = {w1}
  Requests = {r1}
  Serves <- AllServe
  MaxAttempts = 1
  ReapLimit = 1
  Full = 1
  Reported = {"generating"}
  MaxReports = 2
  Nobody = Nobody
  Watchers = {v1}
  Watched <- AllWatch
CHECK_DEADLOCK FALSE
PROPERTY EndIsSeen
