SPECIFICATION FairSpec
CONSTANTS
  s1 = s1
  s2 = s2
  mainLoop = mainLoop
  Scans = {s1}
  Reports <- OneReport
  MaxFindings = 2
  Dispatches = 1
  MaxManual = 1
  MaxDbErrors = 0
  MaxCrashes = 0
  EventLoop = mainLoop
PROPERTIES
  NeverReverified
CHECK_DEADLOCK FALSE
