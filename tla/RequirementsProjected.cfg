CONSTANTS
  a = a
  b = b
  c = c
  new = new
  old = old
  Package <- MCPackage
  SelectionId <- ResolverIds
  Release <- MCVersions
  Source <- MCVersions
  Resolutions <- MCResolutions
  RemovalLists <- MCRemovalLists
SPECIFICATION Spec
INVARIANTS
  RequirementsProjected
CHECK_DEADLOCK FALSE
