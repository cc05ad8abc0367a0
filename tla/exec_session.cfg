SPECIFICATION FairSpec
CONSTANTS
  c1 = c1
  c2 = c2
  t1 = t1
  None = None
  Conns = {c1, c2}
  Tokens = {t1}
  Requests <- Asks
  Transport <- Transports
  PipeSize = 1
  MaxOut = 2
  MaxIn = 1
INVARIANTS StatusAfterOutput
PROPERTIES ExecEnds
CHECK_DEADLOCK FALSE
