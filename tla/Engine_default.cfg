SPECIFICATION MCSpec
CONSTANTS
  a = a
  b = b
  c = c
  p1 = p1
  p2 = p2
  p3 = p3
  None = None
  Ids = {a, b, c}
  Procs = {p1, p2, p3}
  Malformed = {c}
  Layers <- DefaultLayers
  Workload <- WithoutDeleteAll
  Faults = FALSE
  MaxCrashes = 0
  Mails = {a, b, c}
  Attachments = {"0", "1"}
  AttachmentsOf <- MCAttachmentsOf
  Unparsed = {c}
SYMMETRY Symmetry
INVARIANTS InSync ReadsServe AttachmentsMatch
