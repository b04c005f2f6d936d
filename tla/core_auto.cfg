SPECIFICATION Spec
CONSTANTS
  s1 = s1
  s2 = s2
  mainLoop = mainLoop
  Scans = {s1}
  Reports <- OneReport
  MaxFindings = 2
  Dispatches = 2
  MaxManual = 0
  MaxDbErrors = 2
  MaxCrashes = 1
  EventLoop = mainLoop
INVARIANTS
  OneRunUnlessDoubled
PROPERTIES
  ImplementsLedger
CHECK_DEADLOCK FALSE
