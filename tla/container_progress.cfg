SPECIFICATION FairSpec
CONSTANTS
  c1 = c1
  h1 = h1
  h2 = h2
  h3 = h3
  None = None
  Containers = {c1}
  Tty = {}
  Handlers = {h1, h2, h3}
  ExitCodes = {0, 1}
  LimitFields = {"memory", "cpu"}
  LimitValues = {1, 2}
  Limits <- Messages
  Ops = {"Create", "Start", "Stop", "Remove", "Update"}
  Serial = TRUE
  PromptCrun = TRUE
  Cancels = {}
  CrunFaults = FALSE
  MaxCrashes = 0
INVARIANTS LimitsAgree
PROPERTIES ExitIsRecorded StopEndsWorkload
CHECK_DEADLOCK FALSE
