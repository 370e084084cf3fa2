\* One phone under one key, opened up to three times, paired or not.
SPECIFICATION PollFairSpec
CONSTANTS
  d1 = d1
  Plugs = {p1}
  Devices = {d1}
  DeviceOf <- OnePhone
  Claims = 3
  Pairings = 1
  Records = {"none", "valid"}
CHECK_DEADLOCK FALSE
INVARIANTS
  PolledCleanupPending
PROPERTIES
  PhoneServed
