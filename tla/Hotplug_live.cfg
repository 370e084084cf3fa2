\* One phone, unplugged and plugged in again, already paired.
SPECIFICATION FairSpec
CONSTANTS
  d1 = d1
  Plugs = {p1, p2}
  Devices = {d1}
  DeviceOf <- OnePhone
  Claims = 2
  Records = {"valid"}
CHECK_DEADLOCK FALSE
PROPERTIES
  DeadPairedEntryGoes
