SPECIFICATION Spec
CONSTANTS
  s1 = s1
  s2 = s2
  f1 = f1
  None = None
  Scans <- TwoScans
  Findings <- OneFinding
  Earlier <- OneEarlier
  MaxOps = 2
  MaxFaults = 0
  MaxRestarts = 0
  MaxReloads = 0
PROPERTY PollWritesOwnScan
CHECK_DEADLOCK FALSE
