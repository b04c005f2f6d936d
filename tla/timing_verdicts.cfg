SPECIFICATION Spec
CONSTANTS
  Targets <- SomeTargets
  MaxMoods = 1
INVARIANTS
  TypeOK
  TruePositiveSlept
  FalsePositiveIsSafe
CHECK_DEADLOCK FALSE
