SPECIFICATION FairSpec
CONSTANTS
  c1 = c1
  c2 = c2
  None = None
  Connections = {c1, c2}
  Parts = 2
  PipeSize = 1
  MaxOutput = 2
PROPERTIES
  LimitEndsCommand
CHECK_DEADLOCK FALSE
