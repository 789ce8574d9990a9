SPECIFICATION Spec
CONSTANTS
  a = a
  b = b
  c = c
  p1 = p1
  p2 = p2
  p3 = p3
  None = None
  Ids = {a, b}
  Procs = {p1, p2}
  Malformed = {}
  Layers <- DefaultLayers
  Workload <- AllOperations
  Faults = FALSE
  MaxCrashes = 1
INVARIANT ReadsServe
