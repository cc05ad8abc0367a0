SPECIFICATION Spec
CONSTANTS
  a = a
  b = b
  s1 = s1
  s2 = s2
  s3 = s3
  None = None
  Foreign = Foreign
  h1 = h1
  h2 = h2
  h3 = h3
  p1 = p1
  Pods = {a}
  Sandboxes = {s1, s2}
  PodOf <- OnePod
  Handlers = {h1, h2, h3}
  Plugins = 1
  Pids = {p1}
  Serial = FALSE
  CniFaults = TRUE
  DelFaults = TRUE
  PidFaults = TRUE
  Crashes = TRUE
  HolderDeaths = TRUE
SYMMETRY Slots
PROPERTIES NeverReadyAgain
CHECK_DEADLOCK FALSE
