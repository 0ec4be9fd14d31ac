CONSTANTS
  a = a
  b = b
  new = new
  old = old
  Package <- MCPackage
  SelectionId <- ResolverIds
  Release <- MCVersions
  Source <- MCVersions
  Resolutions <- MCResolutions
  RemovalLists <- MCRemovalLists
SPECIFICATION Spec
PROPERTIES
  ImplementsContract
CHECK_DEADLOCK FALSE
