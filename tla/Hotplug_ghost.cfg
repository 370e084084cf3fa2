\* A phone that is unplugged while its pairing ends.
SPECIFICATION FairSpec
CONSTANTS
  d1 = d1
  Plugs = {p1}
  Devices = {d1}
  DeviceOf <- OnePhone
  Claims = 2
  Records = {"none"}
CHECK_DEADLOCK FALSE
PROPERTIES
  CleanUpOnExit
