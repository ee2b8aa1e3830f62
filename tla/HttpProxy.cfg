SPECIFICATION Spec
CONSTANTS
  Chunks = 3
  ChannelRoom = 2
  SocketRoom = 1
INVARIANTS
  TypeOK
  OpenTunnelStays
  NoTruncation
  ClientFirstLosesNothing
PROPERTIES
  UploadArrives
  Released
  PlainIsAnswered
CHECK_DEADLOCK FALSE
