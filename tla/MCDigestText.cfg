CONSTANTS
  Size = 2
  Inputs <- MCInputs
SPECIFICATION Spec
INVARIANTS
  CanonicalText
  ComparisonExact
CHECK_DEADLOCK FALSE
