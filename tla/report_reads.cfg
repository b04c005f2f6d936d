SPECIFICATION ReportsSpec
CONSTANTS
  s1 = s1
  mainLoop = mainLoop
  c1 = c1
  c2 = c2
  Scans = {s1}
  Reports <- MCReports
  MaxFindings = 2
  Dispatches = 1
  MaxManual = 1
  MaxDbErrors = 0
  MaxCrashes = 1
  EventLoop = mainLoop
  Clients = {c1, c2}
  Severity <- MCSeverity
  Place <- SamePlace
  Batches <- MCBatches
  MaxAsked = 2
SYMMETRY ClientSymmetry
INVARIANTS
  ReaderTypeOK
  CountsAddUp
  EvaluationKeepsUp
PROPERTY LabelsChangeAsSubmitted
CHECK_DEADLOCK FALSE
