SPECIFICATION Spec
CONSTANTS
  a = a
  b = b
  c = c
  p1 = p1
  p2 = p2
  p3 = p3
  None = None
  Ids = {a}
  Procs = {p1}
  Malformed = {}
  Layers <- FullStackLayers
  Workload <- AllOperations
  Faults = FALSE
  MaxCrashes = 0
INVARIANT SearchComplete
