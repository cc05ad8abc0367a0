SPECIFICATION PodSpec
CONSTANTS
  a = a
  b = b
  s1 = s1
  s2 = s2
  s3 = s3
  None = None
  Foreign = Foreign
  h1 = h1
  h2 = h2
  p1 = p1
  p2 = p2
  Pods = {a, b}
  Sandboxes = {s1, s2, s3}
  PodOf <- TwoPods
  Handlers = {h1, h2}
  Plugins = 2
  Pids = {p1, p2}
  Serial = TRUE
  CniFaults = TRUE
  DelFaults = FALSE
  PidFaults = FALSE
  Crashes = FALSE
  HolderDeaths = FALSE
  Ctrs = {c1}
  c1 = c1
  HostNet = HostNet
SYMMETRY Slots
INVARIANTS TypeOK NoResourceLeak HolderIsOurs OneReadySandbox 
CHECK_DEADLOCK FALSE
