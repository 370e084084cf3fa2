\* Client to device: back-pressure, flush and close; the pipe may fail.
SPECIFICATION Spec
CONSTANTS
  c1 = c1
  c2 = c2
  Conns = {c1}
  MaxSport = 1
  SeqSpace = 4
  MaxPayload = 1
  RxWindow = 1
  DuplexBuf = 1
  HighWater = 1
  LowWater = 1
  CmdCap = 2
  DataCap = 1
  Grain = 1
  DeviceWindow = 2
  Loads <- Upload
  Faults = TRUE
CHECK_DEADLOCK FALSE
INVARIANTS
  TypeOK
  UploadConserved
  NoGap
  DeviceNotOverrun
  NoLostWakeup
  PendingBounded
  NoTruncation
