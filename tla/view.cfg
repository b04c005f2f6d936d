SPECIFICATION FairSpec
CONSTANTS
  s1 = s1
  s2 = s2
  f1 = f1
  None = None
  Scans <- TwoScans
  Findings <- OneFinding
  Earlier <- OneEarlier
  MaxOps = 2
  MaxFaults = 1
  MaxRestarts = 1
  MaxReloads = 1
INVARIANTS
  TypeOK
  ShowsOneScanWithoutOverlap
  PolledViewIsComplete
  AtMostOneLivePoll
PROPERTY EveryPollEnds
CHECK_DEADLOCK FALSE
