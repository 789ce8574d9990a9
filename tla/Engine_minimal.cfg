SPECIFICATION FairSpec
CONSTANTS
  a = a
  b = b
  c = c
  p1 = p1
  p2 = p2
  p3 = p3
  None = None
  Ids = {a, b, c}
  Procs = {p1, p2}
  Malformed = {c}
  Layers <- MinimalLayers
  Workload <- AllOperations
  Faults = FALSE
  MaxCrashes = 0
INVARIANTS RefusedLeavesNothing SearchComplete
PROPERTY CallsReturn
