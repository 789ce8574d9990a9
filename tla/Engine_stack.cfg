SPECIFICATION Spec
CONSTANTS
  a = a
  b = b
  c = c
  p1 = p1
  p2 = p2
  p3 = p3
  None = None
  Ids = {a, b}
  Procs = {p1, p2}
  Malformed = {}
  Layers <- WrittenStackLayers
  Workload <- AllOperations
  Faults = TRUE
  MaxCrashes = 2
SYMMETRY Symmetry
INVARIANTS Durable ErasedStaysErased SearchComplete ReadsSurvive
PROPERTY ArchiveSpec
