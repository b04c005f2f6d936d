SPECIFICATION Spec
CONSTANTS
  Kinds <- SomeFindings
  Configs <- SomeTriggers
  Targets <- SomeTargets
  MaxHealth = 2
INVARIANTS
  TypeOK
  TruePositiveTwice
  SteadyTruePositive
  FalsePositiveHasGuard
  OriginRejectionIsOrigin
CHECK_DEADLOCK FALSE
