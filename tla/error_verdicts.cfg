SPECIFICATION Spec
CONSTANTS
  Targets <- SomeTargets
  Findings <- SomeFindings
  MaxMoods = 2
INVARIANTS
  TypeOK
  TruePositiveReproduced
  AmbiguousErrorNeverPositive
  DetectedDespiteRefusals
CHECK_DEADLOCK FALSE
