\* A service that resets its connection, and a client that waits for its end.
SPECIFICATION FairSpec
CONSTANTS
  c1 = c1
  c2 = c2
  Conns = {c1}
  MaxSport = 1
  SeqSpace = 4
  MaxPayload = 1
  RxWindow = 1
  DuplexBuf = 1
  HighWater = 1
  LowWater = 1
  CmdCap = 2
  DataCap = 1
  Grain = 1
  DeviceWindow = 1
  Loads <- Silent
  Faults = FALSE
CHECK_DEADLOCK FALSE
PROPERTIES
  DroppingOurWriteClosesTheDuplex
