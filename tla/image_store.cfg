SPECIFICATION Spec
CONSTANTS
  a = a
  b = b
  base = base
  top = top
  tag = tag
  digest = digest
  None = None
  h1 = h1
  h2 = h2
  Images = {a, b}
  Layers = {base, top}
  LayersOf <- SharedLayers
  Refs = {tag, digest}
  Serves <- MovingTag
  Handlers = {h1, h2}
  Overlap = FALSE
  Faults = TRUE
  DiskFaults = TRUE
  Crashes = TRUE
SYMMETRY Slots
INVARIANTS TypeOK ImagesUsable RefsServed
