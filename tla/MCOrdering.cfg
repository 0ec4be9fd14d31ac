CONSTANTS
  a = a
  b = b
  c = c
  new = new
  old = old
  MaxDeclarations = 3
  Package <- MCPackage
  SelectionId <- ResolverIds
  Release <- MCVersions
  Source <- MCVersions
  Resolutions <- MCResolutions
  RemovalLists <- MCRemovalLists
SPECIFICATION Spec
INVARIANTS
  CohortsCondense
  RuntimeClosureOrdered
  InputClosureOrdered
  ConstructionWaitsOnlyForInputs
  UnmixedPartialOrder
CHECK_DEADLOCK FALSE
