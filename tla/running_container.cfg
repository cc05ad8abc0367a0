SPECIFICATION Spec
CONSTANTS
  NL = NL
  Nobody = Nobody
  Streams = {"stdout", "stderr"}
  MaxOutput <- SmallOutput
  BufSize = 2
  MaxRotations = 2
  Execs = {"e1"}
  PromptPidFile = TRUE
INVARIANTS LogIsComplete ExitAfterOutput ExecLeavesNothing
PROPERTIES RotatedLogIsFinal
CHECK_DEADLOCK FALSE
