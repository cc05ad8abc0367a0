SPECIFICATION Spec
CONSTANTS
  a = a
  b = b
  base = base
  top = top
  tag = tag
  digest = digest
  None = None
  h1 = h1
  h2 = h2
  h3 = h3
  Images = {a, b}
  Layers = {base, top}
  LayersOf <- SharedLayers
  Refs = {tag, digest}
  Serves <- MovingTag
  Handlers = {h1, h2, h3}
  Overlap = FALSE
  Faults = FALSE
  DiskFaults = FALSE
  Crashes = FALSE
SYMMETRY Slots
INVARIANTS NoGarbage IncompleteIsUnderWay
