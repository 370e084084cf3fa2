\* What is written is delivered in both directions, and two calls given one port return.
SPECIFICATION FairSpec
CONSTANTS
  c1 = c1
  c2 = c2
  Conns = {c1, c2}
  MaxSport = 1
  SeqSpace = 8
  MaxPayload = 2
  RxWindow = 3
  DuplexBuf = 2
  HighWater = 1
  LowWater = 1
  CmdCap = 2
  DataCap = 1
  Grain = 2
  DeviceWindow = 1
  Loads <- OneWayOrTwoCalls
  Faults = FALSE
CHECK_DEADLOCK FALSE
INVARIANTS
  HostNotOverrun
PROPERTIES
  UploadDelivered
  DownloadDelivered
  ConnectReturns
