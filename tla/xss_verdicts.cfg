SPECIFICATION Spec
CONSTANTS
  Runs <- SomeRuns
  MaxMoods = 2
INVARIANTS
  TypeOK
  TruePositiveRuns
  FalsePositiveWhollyLost
  OneLoginKept
  DetectedWhenSessionHolds
CHECK_DEADLOCK FALSE
