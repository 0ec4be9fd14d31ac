CONSTANTS
  a = a
  b = b
  new = new
  old = old
  Package <- MCPackage
  SelectionId <- ResolverIds
  Release <- MCVersions
  Source <- MCVersions
  Resolutions <- MCResolutions
  RemovalLists <- MCRemovalLists
SPECIFICATION Spec
INVARIANTS
  TypeOK
  NoUndefinedRemoval
  RemovalExclusive
  FulfilledState
  LifecycleBracketed
CHECK_DEADLOCK FALSE
