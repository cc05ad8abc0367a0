SPECIFICATION FairSpec
CONSTANTS
  c1 = c1
  c2 = c2
  t1 = t1
  None = None
  Conns = {c1, c2}
  Tokens = {t1}
  Requests <- Partial
  Transport <- Transports
  BusSize = 1
  MaxLive = 2
  MaxIn = 1
INVARIANTS TypeOK OneSessionPerToken AttachFaithful SuccessIsLast
PROPERTIES AttachEnds StdinOnceCloses
CHECK_DEADLOCK FALSE
