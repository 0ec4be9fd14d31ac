CONSTANTS
  v1 = v1
  v2 = v2
  v3 = v3
  v4 = v4
  ManyArcs = 5
  Vertex <- MCVertex
  Graphs <- MCGraphs
SPECIFICATION Spec
INVARIANTS
  TypeOK
  StackHoldsUnfinished
  CallsAreSimplePath
  LowLinksReach
  CyclesRecognised
PROPERTIES
  ImplementsSearch
CHECK_DEADLOCK FALSE
