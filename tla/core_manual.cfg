SPECIFICATION FairSpec
CONSTANTS
  s1 = s1
  s2 = s2
  mainLoop = mainLoop
  Scans = {s1}
  Reports <- MCReports
  MaxFindings = 2
  Dispatches = 1
  MaxManual = 2
  MaxDbErrors = 1
  MaxCrashes = 1
  EventLoop = mainLoop
INVARIANTS
  TypeOK
  VerdictsBelongToScan
  NoLossWithoutOverlap
  ProgressAccountsForAll
PROPERTIES
  EveryRunSettles
  ImplementsRuns
CHECK_DEADLOCK FALSE
