SPECIFICATION Spec
CONSTANTS
  a = a
  b = b
  base = base
  top = top
  tag = tag
  digest = digest
  None = None
  h1 = h1
  h2 = h2
  Images = {a}
  Layers = {base, top}
  LayersOf <- OneImage
  Refs = {tag, digest}
  Serves <- TwoNames
  Handlers = {h1, h2}
  Overlap = TRUE
  Faults = FALSE
  DiskFaults = FALSE
  Crashes = FALSE
SYMMETRY Slots
INVARIANTS ImagesUsable
