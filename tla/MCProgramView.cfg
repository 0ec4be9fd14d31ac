CONSTANTS
  Key = {"build a", "install a", "retain b"}
  PackageOf <- MCPackageOf
  Edge <- MCEdge
  Cohort = {"c1", "c2"}
  MaxEdges = 3
SPECIFICATION Spec
INVARIANTS
  CanonicalProgram
  FindIsExact
  ViewsAgree
CHECK_DEADLOCK FALSE
