SPECIFICATION Spec
CONSTANTS
  c1 = c1
  c2 = c2
  h1 = h1
  h2 = h2
  None = None
  Containers = {c1, c2}
  Tty = {c2}
  Handlers = {h1, h2}
  ExitCodes = {0, 1}
  LimitFields = {"memory", "cpu"}
  LimitValues = {1, 2}
  Limits = {}
  Ops = {"Create", "Start", "Stop", "Remove"}
  Serial = TRUE
  PromptCrun = TRUE
  Cancels = {"poll", "kill", "final", "forget", "persist"}
  CrunFaults = FALSE
  MaxCrashes = 1
INVARIANTS ExitedMeansDead NoOrphanProcess
PROPERTIES NeverRelaunched RestartSparesWorkloads
CHECK_DEADLOCK FALSE
